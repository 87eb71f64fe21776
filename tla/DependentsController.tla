------------------------- MODULE DependentsController -------------------------
(***************************************************************************)
(* The reconcilers for services, ingresses and istio gateways, which differ *)
(* in where they find host names and in the events they listen to, and     *)
(* manageDependents (internal/controllers/common.go), which they share: a  *)
(* resource that names a target gets one MasqueradingRule for each of its  *)
(* hosts, and the operator's finalizer for as long as it has such rules.   *)
(*                                                                         *)
(* One resource is followed through its life.  Its rules are found by a    *)
(* label with its uid, so that resources do not meet.  The rules are read  *)
(* and written at the API server; the resource itself is read from a cache *)
(* that lags behind it (main.go disables the cache for rules and config    *)
(* maps only).                                                             *)
(***************************************************************************)
EXTENDS Naturals, Sequences

CONSTANTS
  Hosts,            \* host names a resource may ask for
  RefusedHosts,     \* those for which the API server refuses a rule
  Targets, NoTarget,
  InClusterTarget,  \* the address of a service in its cluster
  IsService,        \* which kind of resource is followed
  Shapes,           \* what users ask for
  RuleIds,          \* the identities rules may have
  NoResource, NoRule

CONSTANTS           \* bounds on what users and the environment do
  MaxEdits,
  MaxFaults,        \* refused calls, lost answers, crashes, repeated events
  MaxTamperings,    \* rules deleted by hand
  MaxLag            \* the versions of the resource on their way to the cache

\* A service has hosts in the annotation masquerade-from and in two annotations
\* of other controllers, and may be a load balancer; the hosts of an ingress or
\* gateway are its other hosts.
Shape ==
  [from : SUBSET Hosts, others : SUBSET Hosts, to : Targets \cup {NoTarget},
   balanced : BOOLEAN]

Resource ==
  [from : SUBSET Hosts, others : SUBSET Hosts, to : Targets \cup {NoTarget},
   balanced : BOOLEAN, deleting : BOOLEAN, held : BOOLEAN]

Rule == [from : Hosts, to : Targets, live : BOOLEAN]

Steps == {"idle", "listRules", "addFinalizer", "applyRules"}

Run ==
  [pc : Steps, obj : Resource \cup {NoResource}, current : BOOLEAN,
   pending : SUBSET Hosts, doomed : SUBSET RuleIds, left : BOOLEAN]

ASSUME DependentsAssumption ==
  /\ Shapes \subseteq Shape
  /\ NoResource \notin Resource
  /\ NoRule \notin Rule
  /\ NoTarget \notin Targets
  /\ InClusterTarget \in Targets
  /\ IsService \in BOOLEAN
  /\ {MaxEdits, MaxFaults, MaxTamperings} \subseteq Nat
  /\ MaxLag \in Nat \ {0}

VARIABLES
  versions,  \* the resource as cached, as it changed since, and as it is stored
  rules,     \* the rules with the resource's uid in their labels
  queued,    \* whether a reconciliation is bound to start
  run,       \* the reconciliation under way
  edits, faults, tamperings

userVars == <<edits, tamperings>>
vars == <<versions, rules, queued, run, edits, faults, tamperings>>

-----------------------------------------------------------------------------
(* What a resource asks for *)

Cached == Head(versions)
Stored == versions[Len(versions)]

HostsOf(obj) == obj.from \cup obj.others

\* A service that names hosts but no target means its own address.
Defaulted(obj) ==
  IF IsService /\ obj.from # {} /\ obj.to = NoTarget
  THEN [obj EXCEPT !.to = InClusterTarget]
  ELSE obj

\* The hosts that are to have a rule with the target of the object in memory.
Asked(obj) == IF obj.deleting \/ obj.to = NoTarget THEN {} ELSE HostsOf(obj)

\* The events the reconciler listens to: all of them, or for services only those
\* of load balancers and of services with the annotation masquerade-from.
Passes(obj) == IsService => obj.balanced \/ obj.from # {}

\* The finalizer is added as soon as there is a target (mutant: whether or not).
NeedsFinalizerAnyway(obj) == ~obj.deleting /\ ~obj.held
NeedsFinalizer(obj) == ~obj.deleting /\ obj.to # NoTarget /\ ~obj.held

\* A rule that was listed is the one for a host; a rule that is being deleted is
\* as good as another (mutants: source and target mixed up, the target ignored).
FindsMixedUp(rule, host, to) == rule # NoRule /\ rule.from = to /\ rule.to = host
FindsByHost(rule, host, to) == rule # NoRule /\ rule.from = host
Finds(rule, host, to) == rule # NoRule /\ rule.from = host /\ rule.to = to

-----------------------------------------------------------------------------
(* A reconciliation in memory *)

Idle ==
  [pc |-> "idle", obj |-> NoResource, current |-> FALSE,
   pending |-> {}, doomed |-> {}, left |-> FALSE]

\* What is read from the cache may be out of date from the start.
Begun(obj, current) ==
  [Idle EXCEPT !.pc = "listRules", !.obj = obj, !.current = current]

\* What the list of rules makes of it: rules to create, to delete and to keep.
\* As no two rules have the same source and target, the first one found for a
\* host is the only one.
Planned(r) ==
  LET hostsOf(id) == {host \in Asked(r.obj) : Finds(rules[id], host, r.obj.to)}
      kept == {id \in RuleIds : hostsOf(id) # {}}
  IN  [r EXCEPT
        !.pc      = IF NeedsFinalizer(r.obj) THEN "addFinalizer" ELSE "applyRules",
        !.pending = {host \in Asked(r.obj) : \A id \in kept : host \notin hostsOf(id)},
        !.doomed  = {id \in RuleIds \ kept : rules[id] # NoRule /\ rules[id].live},
        !.left    = kept # {}]

\* The rules left to the resource are counted; one that has been created counts
\* (mutant: only those that were listed do).
CountedAsListed(r) == r.left
Counted(r) == TRUE

\* Without rules the finalizer goes (mutant: only when the resource is deleted).
ReleasesWhenDeleted(r) == ~r.left /\ r.obj.held /\ r.obj.deleting
Releases(r) == ~r.left /\ r.obj.held

Released(obj) == IF obj.deleting THEN NoResource ELSE [obj EXCEPT !.held = FALSE]

-----------------------------------------------------------------------------
(* The API server *)

Fault == faults < MaxFaults /\ faults' = faults + 1

\* An error brings the resource back (mutant: only an event does).
RequeuedByEvent(waiting) == waiting
Requeued(waiting) == TRUE

\* An error ends the reconciliation.
Fail ==
  /\ run' = Idle
  /\ queued' = Requeued(queued)

Store(obj) == versions' = Append(versions, obj)

\* A write of the resource goes through if nobody has written since it was read
\* (mutant: the last one wins).
LastOneWins(r) == TRUE
NotOutdated(r) == r.current

Update(obj, answer) ==
  \/ /\ NotOutdated(run)
     /\ Len(versions) < MaxLag
     /\ Store(obj)
     /\ run' = answer
     /\ UNCHANGED <<queued, faults>>
  \/ /\ ~NotOutdated(run)
     /\ Fail
     /\ UNCHANGED <<versions, faults>>
  \/ /\ NotOutdated(run)
     /\ Len(versions) < MaxLag
     /\ Fault
     /\ Fail
     /\ UNCHANGED versions \/ Store(obj)

-----------------------------------------------------------------------------
(* The reconciler *)

\* The next version reaches the cache, and its event the filter; the deletion of
\* the resource is an event about its last version.
Deliver ==
  /\ Len(versions) > 1
  /\ versions' = Tail(versions)
  /\ LET next  == versions[2]
         event == IF next = NoResource THEN Cached ELSE next
     IN  queued' = (queued \/ Passes(event))
  /\ UNCHANGED <<rules, run, faults, userVars>>

\* The resource is taken from the cache; one that is not found is dropped.
StartReconcile ==
  /\ queued
  /\ run.pc = "idle"
  /\ queued' = FALSE
  /\ run' = IF Cached = NoResource THEN Idle
            ELSE Begun(Defaulted(Cached), Len(versions) = 1)
  /\ UNCHANGED <<versions, rules, faults, userVars>>

ListRules ==
  /\ run.pc = "listRules"
  /\ \/ /\ run' = Planned(run)
        /\ UNCHANGED <<queued, faults>>
     \/ Fault /\ Fail
  /\ UNCHANGED <<versions, rules, userVars>>

AddFinalizer ==
  /\ run.pc = "addFinalizer"
  /\ LET held == [run.obj EXCEPT !.held = TRUE]
     IN  Update(held, [run EXCEPT !.pc = "applyRules", !.obj = held])
  /\ UNCHANGED <<rules, userVars>>

\* The hosts come in any order, as the keys of a map do.
CreateRule(host) ==
  /\ run.pc = "applyRules"
  /\ host \in run.pending
  /\ \E id \in RuleIds \ run.doomed :
       LET created == [rules EXCEPT ![id] = [from |-> host, to |-> run.obj.to, live |-> TRUE]]
       IN  /\ rules[id] = NoRule
           /\ \/ /\ host \notin RefusedHosts
                 /\ rules' = created
                 /\ run' = [run EXCEPT !.pending = @ \ {host}, !.left = Counted(run)]
                 /\ UNCHANGED <<queued, faults>>
              \/ /\ host \in RefusedHosts
                 /\ Fail
                 /\ UNCHANGED <<rules, faults>>
              \/ /\ host \notin RefusedHosts
                 /\ Fault
                 /\ Fail
                 /\ rules' \in {rules, created}
  /\ UNCHANGED <<versions, userVars>>

\* Old rules are deleted in the foreground, so that they stay for a while; a rule
\* that is gone already is an error.
DeleteRule(id) ==
  /\ run.pc = "applyRules"
  /\ run.pending = {}
  /\ id \in run.doomed
  /\ LET deleted == [rules EXCEPT ![id] = [@ EXCEPT !.live = FALSE]]
     IN  \/ /\ rules[id] # NoRule
            /\ rules' = deleted
            /\ run' = [run EXCEPT !.doomed = @ \ {id}]
            /\ UNCHANGED <<queued, faults>>
         \/ /\ rules[id] = NoRule
            /\ Fail
            /\ UNCHANGED <<rules, faults>>
         \/ /\ rules[id] # NoRule
            /\ Fault
            /\ Fail
            /\ rules' \in {rules, deleted}
  /\ UNCHANGED <<versions, userVars>>

\* The finalizer is removed if there is no rule left, whether or not the rules
\* that were deleted are gone.
Finish ==
  /\ run.pc = "applyRules"
  /\ run.pending = {}
  /\ run.doomed = {}
  /\ \/ /\ ~Releases(run)
        /\ run' = Idle
        /\ UNCHANGED <<versions, queued, faults>>
     \/ /\ Releases(run)
        /\ Update(Released(run.obj), Idle)
  /\ UNCHANGED <<rules, userVars>>

\* The process stops and starts again; the cache lists what is stored.
Crash ==
  /\ Fault
  /\ run' = Idle
  /\ versions' = <<Stored>>
  /\ queued' = (Stored # NoResource /\ Passes(Stored))
  /\ UNCHANGED <<rules, userVars>>

\* The informers repeat the event of what is cached.
Resync ==
  /\ Fault
  /\ Cached # NoResource
  /\ Passes(Cached)
  /\ queued' = TRUE
  /\ UNCHANGED <<versions, rules, run, userVars>>

-----------------------------------------------------------------------------
(* Users and the environment *)

Interfere(obj) ==
  /\ Len(versions) < MaxLag
  /\ Store(obj)
  /\ run' = [run EXCEPT !.current = FALSE]

\* An edit that does not mention the target leaves the one that is stored, be it
\* the user's or the one the operator has filled in.
EditResource(shape, leaveTarget) ==
  LET obj == [Stored EXCEPT !.from = shape.from, !.others = shape.others,
                            !.to = IF leaveTarget THEN @ ELSE shape.to,
                            !.balanced = shape.balanced]
  IN  /\ Stored # NoResource
      /\ obj # Stored
      /\ edits < MaxEdits
      /\ edits' = edits + 1
      /\ Interfere(obj)
      /\ UNCHANGED <<rules, queued, faults, tamperings>>

DeleteResource ==
  /\ Stored # NoResource
  /\ ~Stored.deleting
  /\ Interfere(IF Stored.held THEN [Stored EXCEPT !.deleting = TRUE] ELSE NoResource)
  /\ UNCHANGED <<rules, queued, faults, userVars>>

\* The rule controller and the garbage collector let a deleted rule go.
RuleGone(id) ==
  /\ rules[id] # NoRule
  /\ ~rules[id].live
  /\ rules' = [rules EXCEPT ![id] = NoRule]
  /\ UNCHANGED <<versions, queued, run, faults, userVars>>

DeleteRuleByHand(id) ==
  /\ tamperings < MaxTamperings
  /\ tamperings' = tamperings + 1
  /\ rules[id] # NoRule
  /\ rules[id].live
  /\ rules' = [rules EXCEPT ![id] = [@ EXCEPT !.live = FALSE]]
  /\ UNCHANGED <<versions, queued, run, edits, faults>>

-----------------------------------------------------------------------------
Init ==
  /\ \E shape \in Shapes :
       LET obj == [from |-> shape.from, others |-> shape.others, to |-> shape.to,
                   balanced |-> shape.balanced, deleting |-> FALSE, held |-> FALSE]
       IN  /\ versions = <<obj>>
           /\ queued = Passes(obj)
  /\ rules = [id \in RuleIds |-> NoRule]
  /\ run = Idle
  /\ edits = 0
  /\ faults = 0
  /\ tamperings = 0

Step ==
  \/ StartReconcile
  \/ ListRules
  \/ AddFinalizer
  \/ \E host \in Hosts : CreateRule(host)
  \/ \E id \in RuleIds : DeleteRule(id)
  \/ Finish

Next ==
  \/ Step
  \/ Deliver
  \/ Crash
  \/ Resync
  \/ \E shape \in Shapes, leaveTarget \in BOOLEAN : EditResource(shape, leaveTarget)
  \/ DeleteResource
  \/ \E id \in RuleIds : RuleGone(id) \/ DeleteRuleByHand(id)

Spec == Init /\ [][Next]_vars

\* Calls are answered, a queued resource gets a worker, the cache catches up,
\* and deleted rules go.  Users, faults and repeated events are not fair.
Fairness ==
  /\ WF_vars(Step)
  /\ WF_vars(Deliver)
  /\ \A id \in RuleIds : WF_vars(RuleGone(id))

FairSpec == Spec /\ Fairness

-----------------------------------------------------------------------------
(* Properties *)

Live(id) == rules[id] # NoRule /\ rules[id].live

Wanted(obj) == IF obj = NoResource THEN {} ELSE Asked(Defaulted(obj))

\* Nothing is under way or about to start, and the cache is up to date.
Settled == ~queued /\ run.pc = "idle" /\ Len(versions) = 1

\* Every variable has its type; only a resource that is held waits for its
\* deletion; a resource that is gone does not come back.
TypeOK ==
  /\ versions \in Seq(Resource \cup {NoResource})
  /\ Len(versions) \in 1 .. MaxLag
  /\ \A i \in 1 .. Len(versions) :
       /\ versions[i] = NoResource => i = Len(versions)
       /\ versions[i] # NoResource /\ versions[i].deleting => versions[i].held
  /\ rules \in [RuleIds -> Rule \cup {NoRule}]
  /\ queued \in BOOLEAN
  /\ run \in Run
  /\ IF run.pc = "idle" THEN run = Idle ELSE run.obj # NoResource
  /\ edits \in 0 .. MaxEdits
  /\ faults \in 0 .. MaxFaults
  /\ tamperings \in 0 .. MaxTamperings

\* A rule that is not being deleted belongs to a resource that is there and held
\* by the finalizer: no rule outlives its resource, although the resource is read
\* from a cache that lags, and calls fail, get lost or are interrupted.
RulesAreHeld ==
  (\E id \in RuleIds : Live(id)) => Stored # NoResource /\ Stored.held

\* No two rules of a resource have the same source and target, although a rule
\* may have been created without an answer.
OneRulePerTarget ==
  \A id, other \in RuleIds :
    /\ id # other
    /\ rules[id] # NoRule /\ rules[other] # NoRule
    => rules[id].from # rules[other].from \/ rules[id].to # rules[other].to

\* Two parts of the inductive invariant behind the first two properties.  A view
\* of the resource may be old but does no harm: the finalizer does not go between
\* a version that needs it and the stored one, and as long as nobody else writes,
\* what is on its way to the cache asks for the same as the view.
ViewIsSound ==
  /\ \A i, j \in 1 .. Len(versions) :
       /\ i < j
       /\ Wanted(versions[i]) # {} /\ versions[i].held
       => versions[j] # NoResource /\ versions[j].held
  /\ run.pc # "idle" =>
       /\ Defaulted(run.obj) = run.obj
       /\ run.current =>
            \A i \in 1 .. Len(versions) :
              /\ versions[i] # NoResource
              /\ versions[i].deleting = run.obj.deleting
              /\ Wanted(versions[i]) = Asked(run.obj)
       /\ Asked(run.obj) # {} /\ run.obj.held => Stored # NoResource /\ Stored.held

\* What was concluded from the list of rules still holds when rules are created
\* or deleted and when the finalizer is removed.
PlanIsSound ==
  /\ run.pc = "addFinalizer" => NeedsFinalizer(run.obj)
  /\ run.pc \in {"addFinalizer", "applyRules"} =>
       /\ run.pending \subseteq Asked(run.obj)
       /\ \A host \in run.pending, id \in RuleIds : ~Finds(rules[id], host, run.obj.to)
       /\ run.left \/ run.pending # {} <=> Asked(run.obj) # {}
       /\ Asked(run.obj) = {} => \A id \in RuleIds : Live(id) => id \in run.doomed
  /\ run.pc = "applyRules" /\ Asked(run.obj) # {} => run.obj.held

\* Once everything has settled, a resource has no rules it does not ask for (the
\* test "should maintain masquerading rules for the ingress").
NoStaleRules ==
  Settled =>
    \A id \in RuleIds :
      Live(id) => /\ rules[id].from \in Wanted(Stored)
                  /\ rules[id].to = Defaulted(Stored).to

\* Once everything has settled, the finalizer is only on resources that ask for
\* rules; in particular no deletion is left waiting.
NoStaleFinalizer ==
  Settled /\ Stored # NoResource /\ Stored.held => Wanted(Stored) # {}

\* A resource that is deleted goes, even if the rules for its hosts are refused.
DeletionCompletes ==
  Stored # NoResource /\ Stored.deleting ~> Stored = NoResource

\* A resource with a target but no host is never left alone: the finalizer is
\* added for its target and removed for its lack of rules, and each of the two
\* updates raises the next event.  One with a refused host is retried for ever.
Restless ==
  /\ Stored # NoResource
  /\ ~Stored.deleting
  /\ Defaulted(Stored).to # NoTarget
  /\ HostsOf(Stored) = {} \/ HostsOf(Stored) \cap RefusedHosts # {}

\* Once users and faults come to rest, the reconciler does so too, for all other
\* resources.
ComesToRest == <>[]~Restless => <>[]Settled

-----------------------------------------------------------------------------
(* What documentation and tests say and the code does not do *)

\* README.md: "automatically maintain according MasqueradingRule instances", and
\* the test "should maintain masquerading rules for the ingress": once everything
\* has settled every host of the resource has a rule with its target.
HostsAreMasqueraded ==
  Settled =>
    \A host \in Wanted(Stored) :
      \E id \in RuleIds : Live(id) /\ Finds(rules[id], host, Defaulted(Stored).to)

=============================================================================
