# A verification of the DNS masquerading operator

The operator turns `MasqueradingRule` objects into rewrite rules of the cluster's
coredns. Users (or the operator itself, for annotated services, ingresses and istio
gateways) create rules; a controller writes each one into a config map that coredns
loads, and then asks the coredns endpoints whether they answer as the rule wants.

This directory holds TLA+ modules that model the operator from its source, TLC
configurations that check them on small instances, and TLAPS proofs for all
instances. `PROJECT.json` lists the runs, the properties, the source lines behind
every definition, the hazards of the code and the findings.

To check a run: `tlc -config RuleWorkers.cfg MCMasqueradingRuleController.tla`.
To check the proofs: `tlapm MasqueradingRuleControllerProofs.tla`.

## The system

| Part | Source | State it keeps | Operations |
|---|---|---|---|
| Rewrite rules and rule sets | `internal/coredns/rewrite.go` | map from owner to rule | NewRewriteRule, AddRule, RemoveRule, FindMatchingRule, String, ParseRewriteRuleSet |
| DNS name check | `internal/dnsutil/name.go` | none | CheckDnsName |
| MasqueradingRule controller | `internal/controllers/masqueradingrule_controller.go` | none of its own; object, status and config map live in the API server, the queue in controller-runtime | Reconcile, with up to 3 workers |
| Resource and status | `api/v1alpha1/` | spec, status | SetState |
| Admission webhook | `internal/webhooks/` | none | ValidateCreate, ValidateUpdate |
| Resolver | `internal/coredns/resolver.go`, `internal/dnsutil/record.go` | none | CheckRecord, discoverEndpoints, Lookup |
| Dependent rules | `internal/controllers/common.go`, `service_controller.go`, `ingress_controller.go`, `istiogateway_controller.go` | none of its own; rules labelled with the owner's uid, a finalizer on the owner | manageDependents, three Reconcile functions, event filters |
| Port forward | `internal/portforward/portforward.go` | started, stopped, local port, stop channel | Start, Stop |
| Process start | `main.go` | none | flags and wiring |
| Generated code | `pkg/client`, `zz_generated.deepcopy.go` | – | – |

How they interact:

* Everything is shared through the API server. A write of an object that was read
  before is refused with a conflict if the object has changed since. Both kinds of
  object the rule controller reads (rules, config maps) bypass the client's cache
  (`main.go:114-121`), so that a read returns what is stored.
* The controller is started by events on rule objects, but only by those that change
  the generation or the annotations, and by its own requeues. It does not watch the
  config map.
* coredns loads the config map some time after it changes. The controller notices by
  asking every endpoint (CheckRecord), in the cluster directly, otherwise through a
  port forward.
* The controllers for services, ingresses and gateways create and delete rule objects;
  the rule controller reports back by events on the owners.

What is hard about it: several workers change one config map; a reconciliation works
with a view of its object and of the config map that gets older with every call; calls
fail, and some of them after they have taken effect; the process may stop between any
two calls; a deletion has to find the entry gone before the object goes; a rule's
status must not claim more than is there; and since hardly any event tells the operator
that the world has changed, everything depends on the key coming back.

## The modules

    RewriteRules                  names, rules, rule sets (operators)
      ├── RewriteTable            what the operator promises: one table, one change at a time
      │     └── RewriteFormat     the same changes, made to the text in the config map
      └── ClusterDns              what coredns answers (external)
            ├── MasqueradingRuleController     the controller, users, API server, coredns
            │     └── refines RewriteTable
            └── Resolver                       one call of CheckRecord
                  └── with PortForward         the port forwards it starts and stops

    DependentsController          services, ingresses and gateways, and the rules made for them

The two controllers meet in the rule objects. `DependentsController` sees of the rule
controller that a deleted rule goes some time later (`RuleGone`), which is what
`DeletionCompletes` of `MasqueradingRuleController` says; `MasqueradingRuleController`
sees dependents as users who create, edit and delete rules. The rule controller and the
resolver meet in one call: `CheckRecord` is one step of `MasqueradingRuleController`, in
which every endpoint is asked at the same moment; `Resolver` takes the call apart and
shows what is left of that when it takes seconds (`VerdictIsJustified`, `CheckReturns`).
The rule controller treats the text of the config map as the rule set it stands for;
`RewriteFormat` shows that writing and reading it loses nothing.

| Module | Models |
|---|---|
| `RewriteRules` | `rewrite.go` and `name.go` as operators on values |
| `RewriteTable` | the abstract specification: held owners, and a clash-free table of their rules |
| `ClusterDns` | how coredns uses the lines that `String` writes, and what CheckRecord concludes |
| `MasqueradingRuleController` | Reconcile, step by step, with its environment |
| `RewriteFormat` | String and ParseRewriteRuleSet on lines, under all changes of `RewriteTable` and edits by hand |
| `PortForward` | Start, Stop and the forwarding goroutine of `portforward.go` |
| `Resolver` | CheckRecord and discoverEndpoints of `resolver.go`, its goroutines, `PortForward`, coredns reloading |
| `DependentsController` | the Reconcile functions of services, ingresses and gateways with manageDependents, their cache and event filters |
| `MCRewriteFormat`, `MCMasqueradingRuleController`, `MCDependentsController`, `MCResolver` | constants for TLC |
| `RewriteRulesProofs`, `RewriteTableProofs`, `MasqueradingRuleControllerProofs`, `MasqueradingRuleControllerRefinement`, `DependentsControllerProofs`, `DependentsControllerSettled`, `ResolverProofs`, `RewriteFormatProofs` | theorems |

### RewriteRules

A DNS name is a sequence of labels. Labels are opaque except for the classes that the
regular expressions tell apart: ordinary lower-case labels (`PlainLabels`), labels that
start with an asterisk and are admitted because the asterisk is replaced by `wildcard`
before the match (`StarredLabels`, the asterisk itself among them), and all others.
The suffix test of `Matches` becomes a statement about the last labels, which is what
the dot after the asterisk makes of it. A rule set is the Go map: a function from the
owners that have a rule to their rules. `AddRule` and `RemoveRule` return what the Go
functions return and the new map.

### RewriteTable

Two variables: the table, and the owners that are held by the finalizer. An owner is
held, registers or changes its rule if it clashes with no other, withdraws it, and is
released when it has none; somebody else may empty the table. That is the promise of
the whole controller, without workers, versions and retries.

### RewriteFormat

A text is a sequence of lines and a line the tuple of its words, so far as the parser
compares or extracts them. `String` and `Parse` are the two Go functions: `LinesOfAll`
is one of the two loops of `String` over the sorted owners, `Consume` one round of the
parser's loop, which has passed `at` lines and keeps the flag `have_hosts` (`inHosts`)
and the rule set, and `Rounds` the loop as a recursive function of the number of rounds.
Every change of the table is made the way Reconcile makes it: parse the text, change the
rule set, write it if it has changed. `Tamper` is somebody who takes out lines, copies
one over another, or pastes the lines of a rule of any owner anywhere into the text, in
the hosts block or outside of it; if the parser accepts the result, the table is what it
says now. So a rule may get into the table whose owner is not held: the parser has no
objection to it, and only the controller's own order of finalizer and entry
(`NoOrphanEntry`) keeps such rules out. `TextIsFaithful` then demands that the text reads
back as the table after every further change. Left out are indentation, which the regular expressions skip wherever `String`
varies it, and the letters of names.

### MasqueradingRuleController

One action per call that Reconcile makes, so that everything else can happen between
two calls:

| Action | Code |
|---|---|
| `StartReconcile` | a worker takes a key; Get of the rule (63–79); the state New is set on first sight (142–145) |
| `ReadConfigMap` | Get of the config map (148–155) |
| `AddFinalizer` | Update with the finalizer (165–172) |
| `Plan` (in both) | NewRewriteRule, Parse, AddRule or RemoveRule, the delay, the choice of what to do next (174–299) |
| `WriteConfigMap` | Create or Update of the config map (185–237, 287–297) |
| `CheckRecord` | the resolver's answer (241–256) |
| `ClearFinalizer` | Update without the finalizer (301–311); the object goes |
| `UpdateStatus` | the two deferred functions: event on the owner, status (81–139), and the requeue |
| `Crash` | the process stops; a new one lists the stored objects |
| `CreateRule`, `EditRule`, `DeleteRule`, `DropForeignFinalizer` | users, dependents, garbage collector |
| `DamageConfigMap` | somebody deletes the config map, overwrites its text, garbles it, or spoils its timestamp |
| `RepairConfigMap` | somebody puts right a text or a timestamp that cannot be read |
| `Reload` | coredns loads the config map |

`run[key]` is what the Go function has in its variables: the object, the config map it
has read, the state and the observed generation in the status in memory, and whether it
is going to return an error. At most one worker reconciles a key, as controller-runtime
guarantees.

Abstractions:

* Resource versions are represented by the content they stand for: a write succeeds if
  the object is still equal to the one read. A change that has been undone is not
  distinguished from no change; the outcome of the write is the same table or object.
* `queue` stands for the work queue, the events on their way to it and delayed
  requeues. Durations (1 s, 10 s, 10 min, backoff) are abstracted to "comes back".
* An update of the config map may be delayed only if a delay is configured
  (`UpdateDelay`; `main.go` sets none, the test suite 5 s) and a timestamp is there.
* A failed call either had no effect, or its effect is there and the answer was lost.
* The text in the config map is its rule set; whether it parses is a bit. A garbled text
  keeps the rules it still holds, which are back once it is put right; an overwritten one
  has lost them, and is cleared by the repair (a key that somebody empties at once is this
  with both steps in a row). What the controller reads from a text that does not parse is
  an error and no rule (`ParsedTable`). The format is the subject of `RewriteFormat`.
* The events on the rule itself, messages, conditions and logs are left out; the event
  on the owner is kept (`ownerEvent`), because a finding is about it.
* One process. Leader election is off by default in `main.go`, and overlapping
  processes are not modelled.
* Users do not remove the operator's finalizer by hand.

### DependentsController

One resource (a service, an ingress or a gateway) is followed through its life. Rules
are found by a label with the uid of their resource, so that resources do not meet, and
a resource that is created again is another one.

| Variable | Stands for |
|---|---|
| `versions` | the resource in the client's cache (head), as it changed since, and as it is stored (last); unlike rules, it is read through the cache (`main.go:114-121`) |
| `rules` | the rules with the resource's uid in their labels; a rule that is not `live` is being deleted |
| `queued` | whether a reconciliation is bound to start: work queue and retries |
| `run` | the reconciliation under way: the object in memory, whether it is still the stored version (`current`), hosts that still need a rule (`pending`), rules still to be deleted (`doomed`), and whether any rule will be left (`left`, the counter in the code) |

| Action | Code |
|---|---|
| `Deliver` | the next version reaches the cache; its event passes the filter or not (`service_controller.go` 80–115) |
| `StartReconcile` | Get from the cache, default for the target (`service_controller.go` 26–56 and its siblings) |
| `ListRules` | List by label; which rules to create, to delete, to keep (`common.go` 46–113, decided in one go by `Planned`) |
| `AddFinalizer` | Update with the finalizer (60–65) |
| `CreateRule` | Create of a rule for a host without one (75–83, 126–145) |
| `DeleteRule` | Delete of a rule that is not wanted (87–113) |
| `Finish` | Update without the finalizer, if no rule is left (115–124) |
| `Crash`, `Resync` | restart; an informer repeats the event of what it has |
| `EditResource`, `DeleteResource`, `DeleteRuleByHand` | users |
| `RuleGone` | rule controller and garbage collector |

Abstractions:

* The three kinds of resource differ in `IsService` only: services default the target
  to their own address and filter events. Where the host names stand in the object
  matters only for that filter, so that there are two sets of them, `from` (the
  annotation masquerade-from) and `others`. `balanced` says that the service is a load
  balancer.
* What the API server has against a rule (its webhook, a rule of another resource with
  that name) is a property of the host: `RefusedHosts`.
* The code takes the first rule of the list that fits a host. It is the only one, by
  `OneRulePerTarget`.
* The hosts are handled in any order, as Go iterates over a map.
* Left out: the legacy annotation, which is read like the other one; an annotation that
  is present but empty, which passes the filter and asks for the host "" (`from` is not
  empty exactly if the annotation is there); foreign finalizers; names and labels of the
  rules.

### PortForward and Resolver

`PortForward` models the handle that New returns: `starting` is the mutex while Start
holds it, `started` and `stopped` are its fields, `closes` counts how often the stop
channel has been closed (the second time is a panic), and `attempts` are the goroutines
that Start has launched. ForwardPorts of client-go is modelled from how Start uses it: it
dials, which nothing interrupts; it may be refused; it listens until the stop channel is
closed or the connection is lost. Start succeeds, fails on an error or after its time
limit (both close the channel), or rejects the ports it got (which leaves the channel
open).

`Resolver` is one call of CheckRecord: the caller's goroutine discovers endpoints if none
are configured (`GetService`, `GetEndpoints`), launches a goroutine per endpoint and
collects the results (`Collect`).

| Action | Code |
|---|---|
| `GetService`, `GetEndpoints` | discoverEndpoints (147–205), with its errors; which addresses count is `Discovered` |
| `StartForward` | the handle and Start (86–93), in the steps that `PortForward` has for it |
| `LookupHost`, `LookupExpected` | the two lookups and the result that is sent (96–109, 112–125); an answer is what the endpoint serves at that moment, or an error |
| `StopForward` | the deferred Stop (94) |
| `Collect` | receiving all results, and the verdict (130–145) |
| `ForwarderStep`, `Reload` | client-go; coredns |

`loaded` is a history variable: all configurations an endpoint has had loaded since the
call began. It is what the verdict can be true of: with two lookups at different times
it need not be true of any one of them.

Abstractions: receiving the results one by one in the order of the endpoints ends when
the last of them is there, and is one step; the context of the call is not used by
CheckRecord and cannot cancel it; addresses are sets, since Lookup sorts them; endpoints
are distinct, as the comment at line 203 hopes.

## What is checked

| Run | Instance | Shows |
|---|---|---|
| `RewriteFormat` | 3 owners; 6 sources of one or two labels and more, with wildcards, a starred label and a wildcard of 248 characters; hosts up to 3 labels; one edit of the text by hand, or a rule of any owner pasted into it | the guarantees in the comment on NewRewriteRuleSet over all histories; the text is faithful; the names looked up are valid |
| `RuleWorkers` | 2 rules, 3 clashing specs, one edit each, no faults | no lost update, no clash, no Ready without an entry, refinement |
| `RuleHealing` | 1 rule created twice, one edit, specs the webhook would refuse, 2 faults or crashes, 1 damage of any kind and its repair, update delay, an owner, an endpoint | finalizer and entry stay in order; the two parts of the inductive invariant; deletions complete, statuses become true |
| `RuleSettling` | 2 rules that may take each other's source or target, 2 workers, update delay | the same liveness with conflicts between rules |
| `RuleTrade` | 2 rules, one edit each | expected violation of `SpecsTakeEffect` |
| `RuleOwnerEvents` | 2 rules, one with an owner | expected violation of `FailureReachesOwner` |
| `RuleGeneration` | 1 rule, one edit | expected violation of `AcknowledgesGeneration` |
| `DependentsSafety` | a service with one of 6 specs that all pass the filter, 2 hosts, 2 targets and the default one, 2 edits, 1 fault, 1 rule deleted by hand, 3 versions, 4 rules | rules and finalizer stay in order; the two parts of the inductive invariant; nothing stale is left |
| `DependentsLiveness` | an ingress or gateway, with a host that is refused, without hosts, without a target; 2 edits, 1 fault | deletions complete; all but the resources named by `Restless` come to rest |
| `DependentsFlip` | 1 host that gets another target and the old one again | expected violation of `HostsAreMasqueraded` |
| `DependentsFilter` | a service that gives up its annotation | expected violation of `NoStaleRules` |
| `Resolver` | a pod (configured, or discovered if it is ready and has the port) and a nameserver outside, from inside and outside of the cluster; 3 configurations; an expected name, name without address, address, or nothing | CheckRecord returns, its verdict is justified, stop channels are closed once, local ports released |

The properties:

* `NoOrphanEntry` – every entry in the config map belongs to an existing object that
  carries the finalizer. An entry of a text that cannot be read at the moment counts,
  too: if its object were let go meanwhile, the repair would bring back an entry that
  nobody removes. (The check fails if a deletion takes an illegible text for an empty
  one.)
* `ConfigMapClashFree` – sources in the config map do not clash.
* `ReadyIsBacked` – a rule that is Ready for its current generation has exactly the
  entry its spec asks for, until somebody else touches the config map.
* `ViewsAreOld`, `PlansAreSound` – what a worker may rely on between its reads and its
  writes; see the proofs.
* `RefinesRewriteTable` – the controller implements `RewriteTable`.
* `DeletionCompletes`, `StatusTellsTheTruth` – liveness: under the condition
  `StaysLegible`, that is unless somebody leaves a text or a timestamp in the config map
  that cannot be read, every deletion completes, and every status comes to say what the
  endpoints answer. The condition is needed: without a repair every change of every rule
  fails.

of `RewriteFormat`, besides `SourcesDoNotClash` and `AtMostOneMatch` of `RewriteTable` (the
two guarantees in the comment on NewRewriteRuleSet):

* `TextIsFaithful` – the text parses, and to the rule set that was meant.
* `ProbesAreNames` – what is looked up for a rule that was accepted is a valid name.

of `Resolver`:

* `VerdictIsJustified` – a positive verdict without an error is true of every endpoint
  that was asked, a negative one false of one of them, in configurations that were loaded
  during the call. Of a call that asks nobody, because discovery finds no pod, it says
  nothing: the code answers "active" then.
* `TasksAreSound` – what each goroutine relies on; see the proofs.
* `StopClosedOnce` – no stop channel is closed twice. Start itself does not see to it,
  although its comment says that it may be called only once even after an error: a
  second call after a failed one starts again and closes the channel again. CheckRecord
  makes no second call.
* `CheckReturns` – every goroutine sends a result, so that the worker gets its answer.
* `LocalPortsReleased` – a forwarder that listens stops listening, also one whose dial
  ends after the time limit of Start. The ports Start rejects are not included.

and of `DependentsController`:

* `RulesAreHeld` – a rule that is not being deleted belongs to a resource that exists
  and has the finalizer, although the controller decides on an old version of it.
* `OneRulePerTarget` – no two rules with the same source and target, although the answer
  to a Create may be lost.
* `ViewIsSound`, `PlanIsSound` – what a reconciliation may rely on; see the proofs.
* `NoStaleRules`, `NoStaleFinalizer` – when nothing is under way or queued and the cache
  is up to date, there is no rule that the resource does not ask for, and no finalizer
  on a resource that asks for none.
* `DeletionCompletes` – a deleted resource goes, even if rules for it are refused.
* `ComesToRest` – when users and faults are quiet, so is the reconciler: its own updates
  of the finalizer raise events, and must not go on raising them. The property leaves out
  resources that are `Restless`, of which it is known that the code never rests: with a
  refused host it is retried for ever, and with a target but no host each reconciliation
  adds the finalizer (60) and removes it again (117). No document promises anything else
  for these two.

Every action takes part in some run. Deadlock is not checked for the controllers,
because they may well have nothing to do when all rules or the resource are deleted. The
runs `RewriteFormat` and `Resolver` check it; there owners come and go and coredns
reloads without end, and that a goroutine does not wait for ever is `CheckReturns`.

### Bounds

`MaxIncarnations` (objects per key), `MaxGeneration` (edits), `MaxFaults`, `MaxDamages`
bound what users and the environment do, not the controller. Two keys are enough for
the controller, whose workers meet only in the config map, where the entries of all
others look alike to a worker; two incarnations for the confusion of an object with its
successor; an edit and the specs of two creations to have an old entry in the way of a
new one. The safety properties do
not depend on these bounds: they are proved for all values.

In `DependentsController`, `MaxEdits`, `MaxFaults` and `MaxTamperings` bound users and
the environment in the same way; repeated events count as faults. `MaxLag` bounds the
versions on their way to the cache: with three, a reconciliation may work on an object
that was changed twice since, which includes an edit and a deletion. Four rules are
enough for two hosts with an old and a new target each. The rules are interchangeable,
and the safety runs use that as a symmetry; the liveness run does not.

In `RewriteFormat` nothing is cut off but the edits by hand (`MaxTamperings`): three
owners have room for two rules in the hosts block and one after it, and the other way
round. The label lengths put one wildcard exactly at the limit (248 characters, 255 with
`wildcard`) and one a character above it. `Resolver` has no bounds: one call, one attempt
to start a port forward per endpoint, any number of reloads. Two endpoints are enough to
have them disagree and to have one forwarded and one asked directly; goroutines do not
share anything but the configuration of the call.

### Fairness

`FairSpec` assumes: a call under way gets an answer (weak fairness of `Step`); a queued
key gets a worker, even when there are more keys than workers, because the queue is
first in, first out (strong fairness of `StartReconcile`); coredns reloads its
configuration; foreign finalizers are removed. Users, faults, crashes and damages are
not fair, and the bounds make them end; the properties say what holds from then on.
The update delay needs one assumption more: time passes, so that a worker that comes
back again and again finds the timestamp old enough some time (strong fairness of
`ReadConfigMap` in the case that leads to a write). Repairs are not fair: nobody has to
repair anything, and the liveness properties say so in their condition `StaysLegible`.

For dependents, `FairSpec` assumes that a call is answered and a queued resource gets a
worker (weak fairness of `Step`), that the cache catches up (`Deliver`), and that a
deleted rule goes (`RuleGone`, the promise of the rule controller). `Resync` is not fair:
the default resync takes ten hours, and the properties hold without it.

For the resolver, calls of the API and lookups end (the dialer of Lookup has a time limit,
and so has Start), and a forwarder whose stop channel is closed ends. A dial of the port
forward may take for ever, a connection need not be lost, and coredns need not reload.

### Findings

* **Trading places** (`RuleTrade`). A rule whose new source clashes with another
  owner's entry keeps its own old entry (`AddRule`, line 204, returns before anything
  is written). Two rules that exchange their sources block each other for ever,
  although their specs do not clash.
* **Silent failures** (`RuleOwnerEvents`). The event `ReconciliationFailed` for the
  owner of a rule is never recorded: the deferred function that records it (98) runs
  before the one that sets the state Error (83–90).
* **Old generation** (`RuleGeneration`). The Update that adds the finalizer (169)
  overwrites the status in memory with the stored one, after the observed generation
  was set (79).
* **Changing back** (`DependentsFlip`). A rule that is being deleted counts as the rule
  for its host (`common.go:69` does not look at the deletion timestamp). If the target
  of a resource changes and changes back before the old rule is gone, the old rule is
  taken for the wanted one and the newer one is deleted; the host ends up without any,
  and no event starts another reconciliation.
* **Filtered out** (`DependentsFilter`). The event filter of services looks at the new
  object only (`service_controller.go:113`). An edit that takes away what made a service
  pass (the annotation, or the type load balancer) is filtered out itself. Its rules and
  its finalizer stay, and since its deletion is filtered out too, it cannot be deleted.

## What is proved

All for arbitrary constants: any sets of labels, keys, specs and endpoints, any number
of workers, any bounds. The assumptions are those named in the modules
(`LabelsAssumption`, `DnsAssumption`, `ControllerAssumption`, `TableAssumption`,
`FormatAssumption`, `DependentsAssumption`, `ResolverAssumption`): they say what kind of
thing each constant is, that reading the asterisk as `wildcard` adds seven characters to
a label (`DnsAssumption`), and that the rules given to AddRule are those NewRewriteRule
accepts (`FormatAssumption`).

1. `ClashFreeIsUnambiguous` (RewriteRulesProofs): two sources that match a common host
   match each other, so a clash-free rule set has at most one rule for any host. The
   comment on NewRewriteRuleSet states both as guarantees; `AddRule` tests only the
   first.
2. `TableOwnersAreHeld`, `TableSourcesDoNotClash`, `TableAtMostOneMatch`
   (RewriteTableProofs): the abstract table keeps its promises. The first restates the
   abstract actions' guards; it says something of the code only together with
   `Refinement`, by which the controller's steps are such actions.
3. `TypeCorrect`, `NoOrphans`, `NoClashes`, `ReadyMeansEntered`, `OneRulePerHost`
   (MasqueradingRuleControllerProofs): the safety properties of the controller.
4. `Refinement` (MasqueradingRuleControllerRefinement): the controller implements
   `RewriteTable`.
5. `DependentsTypeCorrect`, `NoRuleOutlivesResource`, `NoDuplicateRules`,
   `DependentsInvariant` (DependentsControllerProofs): the safety properties of the
   controllers for services, ingresses and gateways, for a cache of any lag.
6. `NothingStaleLeft`, `NoFinalizerLeft` (DependentsControllerSettled): when the
   reconciler is at rest nothing stale is left, neither a rule nor the finalizer,
   provided that users ask for nothing the event filter holds back (`FilterPasses`, an
   explicit hypothesis; the run `DependentsFilter` shows what happens without it).
7. `ResolverTypeCorrect`, `NoDoubleClose`, `VerdictsAreJustified`, `ResolverTasksAreSound`
   (ResolverProofs): the safety properties of CheckRecord, for any endpoints,
   configurations and calls.
8. `ParseUndoesString` (RewriteFormatProofs): what String writes ParseRewriteRuleSet
   reads, for every clash-free rule set of rules that NewRewriteRule makes.
   `AcceptedText`: the other direction, for every sequence of such lines in whatever
   order: if ParseRewriteRuleSet accepts it, the rules are valid and do not clash, and
   the owners that have one are exactly those whom the text names, none passed over and
   none invented.
9. `TextStaysFaithful`, `TextSourcesDoNotClash`, `TextAtMostOneMatch`,
   `TextProbesAreNames` (RewriteFormatProofs): the invariants of `RewriteFormat`, for any
   number of owners, rules, changes, edits by hand and pasted rules.
10. `LoadedRuleIsConfirmed` (RewriteFormatProofs): an endpoint that has loaded a
   clash-free rule set confirms each rule of it, so that a rule can become Ready whatever
   rules there are beside it. The theorem names what it takes: the asterisk is a label of
   its own, the source does not look like an address, and the target, if it is a name,
   has an address and is not the source of a renaming rule itself. For a rule whose
   target is renamed once more the two lookups of CheckRecord go to different names.

The two parts of each controller's inductive invariant are theorems of their own
(`ViewsStayOld`, `PlansStaySound`, `DependentsViewStaysSound`,
`DependentsPlanStaysSound`).

The inductive invariant of the rule controller is `IInv`, the conjunction of the
properties with two more. None of them is inductive alone: whether writing an entry is
harmless depends on what the worker has read. `ViewsAreOld` says how a worker's view
relates to its object: while it works, nobody else writes the status or takes the
finalizer, so an object seen with the finalizer is still there, its generation only
grows, and a deletion is not undone. `PlansAreSound` says what the decisions taken from
the readings imply at the moment of the next call: the entry looked up by CheckRecord is
in the config map, and no entry is there when the finalizer is cleared. Both are checked
by TLC in `RuleHealing`. There is one lemma per action; `KeyStep` and
`OthersUndisturbed` reduce each to the key whose worker or user acts.

The dependents controller has an invariant of the same form, again called `IInv`.
`RulesAreHeld` is not inductive: a reconciliation that works on an old version may
create rules, or take the finalizer away. `ViewIsSound` says why that does no harm: a
finalizer that some version on its way to the cache needs is on all later ones too, and
a view that is still the stored version asks for what every version in flight asks for,
so that the next reconciliation, whichever of them it reads, will not release a resource
under a rule just created. `PlanIsSound` says what was concluded from the list of rules:
a pending host has no rule yet, and when nothing is asked for, every live rule is
doomed. Both are checked by TLC in `DependentsSafety`.

What is at rest needs a second invariant on top of that one, `Tracked`: while a
reconciliation is at work, either its view is the stored version (and it has defaulted
its target), or an event is queued or a newer version is on its way to the cache; and a
rule that is not doomed fits the view. So when nothing is queued or on its way, the last
reconciliation to end had worked on what is stored. Each action keeps it because every
write of the resource is followed by a delivery, and under `FilterPasses` every delivery
by an event (`VersionsPass`): this is the one place where the filter matters.

For the resolver, `VerdictIsJustified` is not inductive, because the verdict is formed of
results that were sent long before. `TasksAreSound` adds what holds of each goroutine
while it is at work: its handle is as Start and Stop have left it (started before the
first lookup, its channel open until the end), the host's addresses it has in hand are
those of a configuration that was loaded, and a result without an error is true of two
loaded configurations. `loaded` only grows, so that a reload disturbs none of it.

The proofs about the text are by induction over data: the rounds of the parser, the
owners in `String`, the labels of a name. The library's induction theorems have an
operator as a parameter and cannot be used here; the induction is over sets instead.
`LeastNumber` says that every set of numbers has a least element (from
`WellFoundedInduction`), `InductionUpTo` follows from it, and each proof gives it the set
of the numbers up to which something is true. That a recursive function is what its
equation says is the first use of it (`RoundsFacts`, `FlattenSteps`, `LengthSteps`). Two
facts carry the rest:

* `BlockIsRead`: when the parser is where the lines of a loop of `String` begin, it comes
  by where they end, with the rules of their owners added. It reads them in rounds of
  four lines (`RuleIsRead`), and a rule makes no conflict with those before it, because
  the rule set as a whole has none (`AddPart`).
* `ParseFacts`: whatever the lines are, at each round the parser has a rule set of
  admitted rules without a clash (`IsParser`), and a rule for every owner named in the
  lines it has passed.

The inductive invariant of `RewriteFormat` is `FormatInv`. `TextIsFaithful` is not
inductive alone: that a changed rule set is read back takes a rule set without clashes,
and that an edited text has one takes a text of lines of the known kinds (its first
conjunct), whatever owners they name.

Only model-checked: the liveness properties (`DeletionCompletes`, `StatusTellsTheTruth`,
`ComesToRest`, `CheckReturns`, `LocalPortsReleased`), which are out of the prover's reach;
`TypeOK` of `RewriteFormat` in so far as it says that edits lead to no rules but `Specs`,
which is a matter of the instance; and what the expected violations show.

## Plan

In this order; each module gets its runs, mutants and, where noted, proofs.

1. *(done)* `RewriteRules`, `RewriteTable`, `ClusterDns`, `MasqueradingRuleController`,
   their proofs.
2. *(done)* `DependentsController` and its proofs.
3. *(done)* `RewriteFormat`: the text and its parser, names at the length limit, texts
   that somebody has edited; its proofs.
4. *(done)* `PortForward` and `Resolver`, with the proofs of the safety properties.
5. `System`: rules made by dependents, in the rule controller; two processes during a
   rollout.
6. `CheckRecord` of the rule controller in two steps per endpoint, as `Resolver` has it.

## Not modelled

The generated client code and deep copies; flags and start of the process, whose choices
are constants of the modules; text of messages, events, conditions and logs; the test
tools under `hack`. Two processes at the same time, as during a rollout without leader
election; how coredns reads the regular expression of a wildcard (it is not anchored in
the text); an address of the endpoints object that refers to nothing. The hazards without
a property in `PROJECT.json` say for each why there is none.
