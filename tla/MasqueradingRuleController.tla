---------------------- MODULE MasqueradingRuleController ----------------------
(***************************************************************************)
(* The reconciler of internal/controllers/masqueradingrule_controller.go:  *)
(* its workers turn MasqueradingRule objects into entries of the coredns   *)
(* config map and report in the status whether the cluster DNS answers     *)
(* accordingly.                                                            *)
(*                                                                         *)
(* Every call of the Kubernetes API or of the resolver is one action, so   *)
(* that the steps of the workers, of the users and of coredns interleave   *)
(* between any two of them.  A write to an object that was read before     *)
(* succeeds only if the object is still the one that was read (resource    *)
(* versions are represented by the content they stand for); a write may    *)
(* also be refused, or be applied while its answer is lost.                *)
(*                                                                         *)
(* The work queue, the events on their way to it and the delayed requeues  *)
(* are one set of keys: a key is in it when a reconciliation of it is      *)
(* bound to start.                                                         *)
(***************************************************************************)
EXTENDS ClusterDns, FiniteSets

CONSTANTS
  Keys,                     \* namespace/name of the rule objects
  Specs,                    \* the specs users ask for
  Owned,                    \* the keys whose object carries the controller labels
  Endpoints,                \* the coredns pods
  MaxConcurrentReconciles,  \* the worker count (3)
  UpdateDelay,              \* whether CorednsConfigMapUpdateDelay is above zero
  WebhookInstalled,         \* whether the admission webhook is registered
  NoObject, NoConfigMap     \* what a Get that answers NotFound returns

CONSTANTS                   \* bounds on what users and the environment do
  MaxIncarnations,          \* creations of an object under the same key
  MaxGeneration,            \* the generation edits may reach
  MaxFaults,                \* refused calls, lost answers and crashes
  DamageKinds, MaxDamages   \* what is done to the config map behind our back

States == {"", "New", "Processing", "DeletionBlocked", "Deleting", "Ready", "Error"}

Finalizers == {"Ours", "Foreign"}

\* One owner identifier for every object ever created: key and uid.
Owners == Keys \X (1 .. MaxIncarnations)

Object ==
  [uid : 1 .. MaxIncarnations, gen : Nat, spec : Specs, deleting : BOOLEAN,
   finalizers : SUBSET Finalizers, state : States, observed : Int]

\* What the text under the key says, and whether it can be read as it stands.
ConfigMap ==
  [table : Tables(Owners, Specs), parses : BOOLEAN,
   stamp : {"none", "valid", "invalid"}]

Steps == {"idle", "readConfigMap", "addFinalizer", "writeConfigMap", "checkRecord",
          "clearFinalizer", "updateStatus"}

Run ==
  [pc : Steps, obj : Object \cup {NoObject}, seen : ConfigMap \cup {NoConfigMap},
   state : States, observed : Int, failed : BOOLEAN]

ASSUME ControllerAssumption ==
  /\ Specs \subseteq Rule
  /\ NoObject \notin Object
  /\ NoConfigMap \notin ConfigMap
  /\ {MaxConcurrentReconciles, MaxIncarnations, MaxGeneration, MaxFaults, MaxDamages}
       \subseteq Nat
  /\ {UpdateDelay, WebhookInstalled} \subseteq BOOLEAN
  /\ DamageKinds \subseteq {"deleted", "overwritten", "garbled", "misstamped"}

VARIABLES
  rules,      \* the stored object of each key
  births,     \* how many objects each key has had
  configMap,  \* the stored coredns config map
  queue,      \* the keys to be reconciled
  run,        \* the reconciliation a worker has under way for each key
  served,     \* the rule set each endpoint has loaded
  ownerEvent, \* the last event recorded on the owner of each key's object
  faults, damages

userVars == <<births, damages>>
vars == <<rules, births, configMap, queue, run, served, ownerEvent, faults, damages>>

-----------------------------------------------------------------------------
(* What the API server stores *)

NewObject(uid, spec) ==
  [uid |-> uid, gen |-> 1, spec |-> spec, deleting |-> FALSE, finalizers |-> {},
   state |-> "", observed |-> -1]

\* The owner identifier names the object, not its version (mutant: the version).
OwnerByGeneration(key, obj) == <<key, obj.gen>>
OwnerOf(key, obj) == <<key, obj.uid>>

TableOf(cm) == IF cm = NoConfigMap THEN EmptyTable ELSE cm.table

Parses(cm) == cm # NoConfigMap => cm.parses

\* What ParseRewriteRuleSet makes of it: nothing if there is an error.
ParsedTable(cm) == IF Parses(cm) THEN TableOf(cm) ELSE EmptyTable

\* With the webhook in place only specs that NewRewriteRule accepts are stored.
Admits(spec) == WebhookInstalled => IsValid(spec)

\* Optimistic locking: a write goes through only when nobody else has written,
\* created or deleted the object since it was read (mutant: the last one wins).
LastOneWins(current, read) == TRUE
NotOutdated(current, read) == current = read

\* One more call that fails although nothing conflicts.
Fault == faults < MaxFaults /\ faults' = faults + 1

-----------------------------------------------------------------------------
(* A reconciliation in memory *)

Idle ==
  [pc |-> "idle", obj |-> NoObject, seen |-> NoConfigMap,
   state |-> "", observed |-> -1, failed |-> FALSE]

\* The object has been read, and its generation acknowledged.
Begun(obj) ==
  [pc |-> "readConfigMap", obj |-> obj, seen |-> NoConfigMap,
   state |-> obj.state, observed |-> obj.gen, failed |-> FALSE]

\* The function returns; what is left to do is in its deferred functions.
Finished(r, state) ==
  [r EXCEPT !.pc = "updateStatus", !.seen = NoConfigMap, !.state = state]
Failed(r) ==
  [r EXCEPT !.pc = "updateStatus", !.seen = NoConfigMap, !.failed = TRUE]

\* The answer of an update replaces the object in memory, its status included
\* (mutant: a copy is updated, and the object in memory stays as it was read).
CopyUpdated(r, obj) == r
Updated(r, obj) == [r EXCEPT !.obj = obj, !.state = obj.state, !.observed = obj.observed]

\* (mutant: the finalizer is left to the first reconciliation that finds the
\* rule reconciled)
NeedsFinalizerOnceReady(obj) ==
  ~obj.deleting /\ "Ours" \notin obj.finalizers /\ obj.state = "Ready"
NeedsFinalizer(obj) == ~obj.deleting /\ "Ours" \notin obj.finalizers

\* What is done to the rule set that was read (mutant: an entry that is there
\* is taken for the right one).
DesiredIfAbsent(key, r) ==
  LET owner == OwnerOf(key, r.obj)
      table == ParsedTable(r.seen)
  IN  IF r.obj.deleting THEN RemoveRule(table, owner)
      ELSE AddRule(table, owner, IF owner \in DOMAIN table THEN table[owner]
                                                           ELSE r.obj.spec)
Desired(key, r) ==
  LET owner == OwnerOf(key, r.obj)
  IN  IF r.obj.deleting THEN RemoveRule(ParsedTable(r.seen), owner)
                        ELSE AddRule(ParsedTable(r.seen), owner, r.obj.spec)

\* A deletion waits for the other finalizers to go.
DeletionBlocked(obj) == obj.deleting /\ obj.finalizers \ {"Ours"} # {}

\* NewRewriteRule, ParseRewriteRuleSet or AddRule returns an error (mutant: for a
\* deletion a text that cannot be read is as good as an empty one).
CannotApplyUnlessDeleting(key, r) ==
  \/ ~r.obj.deleting /\ (~IsValid(r.obj.spec) \/ ~Parses(r.seen))
  \/ Desired(key, r).err
CannotApply(key, r) ==
  \/ ~r.obj.deleting /\ ~IsValid(r.obj.spec)
  \/ ~Parses(r.seen)
  \/ Desired(key, r).err

InvalidStamp(cm) == cm # NoConfigMap /\ cm.stamp = "invalid"

\* The last update may be too recent if there is a stamp and a delay.
MayDelay(r) == UpdateDelay /\ r.seen # NoConfigMap /\ r.seen.stamp = "valid"

Continue(key, r) == run' = [run EXCEPT ![key] = r]

\* A change is on its way to the config map, unless its stamp cannot be read or
\* is too recent.
PlanWrite(key, r) ==
  \/ InvalidStamp(r.seen) /\ Continue(key, Failed(r))
  \/ MayDelay(r) /\ Continue(key, Finished(r, r.state))
  \/ ~InvalidStamp(r.seen) /\ Continue(key, [r EXCEPT !.pc = "writeConfigMap"])

\* From what has been read to the next call: a change is written; without one
\* a rule is looked up, and the object of a deleted rule is let go.
Plan(key, r) ==
  \/ /\ DeletionBlocked(r.obj)
     /\ Continue(key, Finished(r, "DeletionBlocked"))
  \/ /\ ~DeletionBlocked(r.obj)
     /\ CannotApply(key, r)
     /\ Continue(key, Failed(r))
  \/ /\ ~DeletionBlocked(r.obj)
     /\ ~CannotApply(key, r)
     /\ Desired(key, r).changed
     /\ PlanWrite(key, [r EXCEPT !.state = IF r.obj.deleting THEN "Deleting"
                                                             ELSE "Processing"])
  \/ /\ ~DeletionBlocked(r.obj)
     /\ ~CannotApply(key, r)
     /\ ~Desired(key, r).changed
     /\ Continue(key, [r EXCEPT !.seen = NoConfigMap,
                                !.pc = IF r.obj.deleting THEN "clearFinalizer"
                                                         ELSE "checkRecord"])

-----------------------------------------------------------------------------
(* The workers *)

Active == {key \in Keys : run[key].pc # "idle"}

\* A worker takes a key and gets its object.  An object that is not found is
\* dropped; one without a state is only marked as first seen.
StartReconcile(key) ==
  /\ key \in queue \ Active
  /\ Cardinality(Active) < MaxConcurrentReconciles
  /\ \/ /\ rules[key] = NoObject
        /\ queue' = queue \ {key}
        /\ UNCHANGED <<run, faults>>
     \/ /\ rules[key] # NoObject
        /\ queue' = queue \ {key}
        /\ Continue(key, IF rules[key].state = "" THEN Finished(Begun(rules[key]), "New")
                                                  ELSE Begun(rules[key]))
        /\ UNCHANGED faults
     \/ /\ Fault
        /\ UNCHANGED <<queue, run>>
  /\ UNCHANGED <<rules, configMap, served, ownerEvent, userVars>>

ReadConfigMap(key) ==
  /\ run[key].pc = "readConfigMap"
  /\ LET r == [run[key] EXCEPT !.seen = configMap]
     IN  \/ /\ NeedsFinalizer(r.obj)
            /\ Continue(key, [r EXCEPT !.pc = "addFinalizer"])
            /\ UNCHANGED faults
         \/ /\ ~NeedsFinalizer(r.obj)
            /\ Plan(key, r)
            /\ UNCHANGED faults
         \/ /\ Fault
            /\ Continue(key, Failed(r))
  /\ UNCHANGED <<rules, configMap, queue, served, ownerEvent, userVars>>

AddFinalizer(key) ==
  /\ run[key].pc = "addFinalizer"
  /\ LET r      == run[key]
         held   == [r.obj EXCEPT !.finalizers = @ \cup {"Ours"}]
         answer == Updated(r, held)
     IN  \/ /\ NotOutdated(rules[key], r.obj)
            /\ rules' = [rules EXCEPT ![key] = held]
            /\ Plan(key, answer)
            /\ UNCHANGED faults
         \/ /\ ~NotOutdated(rules[key], r.obj)
            /\ Continue(key, Failed(r))
            /\ UNCHANGED <<rules, faults>>
         \/ /\ NotOutdated(rules[key], r.obj)
            /\ Fault
            /\ rules' \in {rules, [rules EXCEPT ![key] = held]}
            /\ Continue(key, Failed(r))
  /\ UNCHANGED <<configMap, queue, served, ownerEvent, userVars>>

\* Create if there was no config map, Update otherwise.
WriteConfigMap(key) ==
  /\ run[key].pc = "writeConfigMap"
  /\ LET r       == run[key]
         written == [table |-> Desired(key, r).table, parses |-> TRUE,
                     stamp |-> IF r.seen = NoConfigMap THEN "none" ELSE "valid"]
     IN  \/ /\ NotOutdated(configMap, r.seen)
            /\ configMap' = written
            /\ Continue(key, Finished(r, r.state))
            /\ UNCHANGED faults
         \/ /\ ~NotOutdated(configMap, r.seen)
            /\ Continue(key, Failed(r))
            /\ UNCHANGED <<configMap, faults>>
         \/ /\ NotOutdated(configMap, r.seen)
            /\ Fault
            /\ configMap' \in {configMap, written}
            /\ Continue(key, Failed(r))
  /\ UNCHANGED <<rules, queue, served, ownerEvent, userVars>>

\* Every endpoint is asked; with no endpoint at all the record counts as active.
CheckRecord(key) ==
  /\ run[key].pc = "checkRecord"
  /\ LET r      == run[key]
         active == \A e \in Endpoints :
                     Confirms(served[e], Probe(r.obj.spec.from), r.obj.spec.to)
     IN  \/ /\ Continue(key, Finished(r, IF active THEN "Ready" ELSE "Processing"))
            /\ UNCHANGED faults
         \/ /\ Fault
            /\ Continue(key, Failed(r))
  /\ UNCHANGED <<rules, configMap, queue, served, ownerEvent, userVars>>

\* The object goes with its last finalizer; its status is not written any more.
ClearFinalizer(key) ==
  /\ run[key].pc = "clearFinalizer"
  /\ LET r == run[key]
     IN  \/ /\ NotOutdated(rules[key], r.obj)
            /\ rules' = [rules EXCEPT ![key] = NoObject]
            /\ queue' = queue \cup {key}
            /\ Continue(key, Idle)
            /\ UNCHANGED faults
         \/ /\ ~NotOutdated(rules[key], r.obj)
            /\ Continue(key, Failed(r))
            /\ UNCHANGED <<rules, queue, faults>>
         \/ /\ NotOutdated(rules[key], r.obj)
            /\ Fault
            /\ \/ UNCHANGED <<rules, queue>>
               \/ /\ rules' = [rules EXCEPT ![key] = NoObject]
                  /\ queue' = queue \cup {key}
            /\ Continue(key, Failed(r))
  /\ UNCHANGED <<configMap, served, ownerEvent, userVars>>

\* The event for the owner: the deferred function that records it runs before
\* the one that turns an error into the state Error.
EventFor(key, r) ==
  IF key \in Owned /\ r.state \in {"Ready", "Error"} /\ r.state # r.obj.state
  THEN IF r.state = "Ready" THEN "ReconciliationSucceeded" ELSE "ReconciliationFailed"
  ELSE ownerEvent[key]

\* The results that bring the key back: all of them, after a delay, at once or
\* with a backoff (mutants: a blocked deletion waits for an event instead, a
\* rule that was ready is left alone, an error is swallowed).
ReturnsUnlessBlocked(r) == r.state # "DeletionBlocked"
ReturnsUnlessReady(r) == r.failed \/ r.state # "Ready"
ReturnsUnlessFailed(r) == ~r.failed
Returns(r) == TRUE

\* The deferred functions: the event on the owner, then the status.
UpdateStatus(key) ==
  /\ run[key].pc = "updateStatus"
  /\ LET r       == run[key]
         written == [r.obj EXCEPT !.state = IF r.failed THEN "Error" ELSE r.state,
                                  !.observed = r.observed]
     IN  /\ ownerEvent' = [ownerEvent EXCEPT ![key] = EventFor(key, r)]
         /\ queue' = IF Returns(r) THEN queue \cup {key} ELSE queue
         /\ \/ /\ NotOutdated(rules[key], r.obj)
               /\ rules' = [rules EXCEPT ![key] = written]
               /\ UNCHANGED faults
            \/ /\ ~NotOutdated(rules[key], r.obj)
               /\ UNCHANGED <<rules, faults>>
            \/ /\ NotOutdated(rules[key], r.obj)
               /\ Fault
               /\ UNCHANGED rules
  /\ Continue(key, Idle)
  /\ UNCHANGED <<configMap, served, userVars>>

\* The process stops and starts again; the informers list what is stored.
Crash ==
  /\ Fault
  /\ run' = [key \in Keys |-> Idle]
  /\ queue' = {key \in Keys : rules[key] # NoObject}
  /\ UNCHANGED <<rules, configMap, served, ownerEvent, userVars>>

-----------------------------------------------------------------------------
(* Users and the environment *)

CreateRule(key, spec) ==
  /\ rules[key] = NoObject
  /\ births[key] < MaxIncarnations
  /\ Admits(spec)
  /\ births' = [births EXCEPT ![key] = @ + 1]
  /\ rules' = [rules EXCEPT ![key] = NewObject(births[key] + 1, spec)]
  /\ queue' = queue \cup {key}
  /\ UNCHANGED <<configMap, run, served, ownerEvent, faults, damages>>

EditRule(key, spec) ==
  /\ rules[key] # NoObject
  /\ rules[key].gen < MaxGeneration
  /\ spec # rules[key].spec
  /\ Admits(spec)
  /\ rules' = [rules EXCEPT ![key] = [rules[key] EXCEPT !.spec = spec, !.gen = @ + 1]]
  /\ queue' = queue \cup {key}
  /\ UNCHANGED <<configMap, run, served, ownerEvent, faults, userVars>>

\* A deletion in the foreground adds a finalizer of the garbage collector.
DeleteRule(key, foreground) ==
  LET obj  == rules[key]
      left == obj.finalizers \cup (IF foreground THEN {"Foreign"} ELSE {})
  IN  /\ obj # NoObject
      /\ ~obj.deleting
      /\ rules' = [rules EXCEPT ![key] =
                     IF left = {} THEN NoObject
                     ELSE [obj EXCEPT !.deleting = TRUE, !.gen = @ + 1, !.finalizers = left]]
      /\ queue' = queue \cup {key}
      /\ UNCHANGED <<configMap, run, served, ownerEvent, faults, userVars>>

\* The event of an update that changes neither generation nor annotations is
\* filtered out; the event of the deletion is not.
DropForeignFinalizer(key) ==
  LET obj  == rules[key]
      left == obj.finalizers \ {"Foreign"}
      gone == obj.deleting /\ left = {}
  IN  /\ obj # NoObject
      /\ "Foreign" \in obj.finalizers
      /\ rules' = [rules EXCEPT ![key] = IF gone THEN NoObject
                                         ELSE [obj EXCEPT !.finalizers = left]]
      /\ queue' = IF gone THEN queue \cup {key} ELSE queue
      /\ UNCHANGED <<configMap, run, served, ownerEvent, faults, userVars>>

\* Somebody deletes the config map, overwrites the text under its key, spoils a
\* letter of it, so that it cannot be read although all rules are still there, or
\* spoils the stamp.  The operator does not watch the config map.
Damaged(kind) ==
  CASE kind = "deleted"     -> NoConfigMap
    [] kind = "overwritten" -> [configMap EXCEPT !.table = EmptyTable, !.parses = FALSE]
    [] kind = "garbled"     -> [configMap EXCEPT !.parses = FALSE]
    [] kind = "misstamped"  -> [configMap EXCEPT !.stamp = "invalid"]

DamageConfigMap ==
  /\ damages < MaxDamages
  /\ damages' = damages + 1
  /\ configMap # NoConfigMap
  /\ \E kind \in DamageKinds : configMap' = Damaged(kind)
  /\ UNCHANGED <<rules, births, queue, run, served, ownerEvent, faults>>

\* The controller can work with the config map, or make a new one.
Legible(cm) == Parses(cm) /\ ~InvalidStamp(cm)

\* Somebody puts right what cannot be read: the rules that a spoiled text still
\* holds are back; a text that was overwritten is cleared (what an emptied key is
\* at once).
RepairConfigMap ==
  /\ ~Legible(configMap)
  /\ configMap' = [configMap EXCEPT !.parses = TRUE,
                                    !.stamp = IF @ = "invalid" THEN "none" ELSE @]
  /\ UNCHANGED <<rules, queue, run, served, ownerEvent, faults, userVars>>

\* An endpoint loads the config map; it keeps what it has if the text is bad.
Reload(endpoint) ==
  /\ Parses(configMap)
  /\ served[endpoint] # TableOf(configMap)
  /\ served' = [served EXCEPT ![endpoint] = TableOf(configMap)]
  /\ UNCHANGED <<rules, configMap, queue, run, ownerEvent, faults, userVars>>

-----------------------------------------------------------------------------
Init ==
  /\ rules = [key \in Keys |-> NoObject]
  /\ births = [key \in Keys |-> 0]
  /\ configMap = NoConfigMap
  /\ queue = {}
  /\ run = [key \in Keys |-> Idle]
  /\ served = [endpoint \in Endpoints |-> EmptyTable]
  /\ ownerEvent = [key \in Keys |-> ""]
  /\ faults = 0
  /\ damages = 0

Step(key) ==
  \/ StartReconcile(key)
  \/ ReadConfigMap(key)
  \/ AddFinalizer(key)
  \/ WriteConfigMap(key)
  \/ CheckRecord(key)
  \/ ClearFinalizer(key)
  \/ UpdateStatus(key)

Use(key) ==
  \/ \E spec \in Specs : CreateRule(key, spec) \/ EditRule(key, spec)
  \/ \E foreground \in BOOLEAN : DeleteRule(key, foreground)
  \/ DropForeignFinalizer(key)

Next ==
  \/ \E key \in Keys : Step(key) \/ Use(key)
  \/ Crash
  \/ DamageConfigMap
  \/ RepairConfigMap
  \/ \E endpoint \in Endpoints : Reload(endpoint)

Spec == Init /\ [][Next]_vars

\* A call under way is answered, a queued key gets a worker even when there are
\* fewer workers than keys (the queue is first in, first out), coredns reloads,
\* and foreign finalizers go.
Fairness ==
  /\ \A key \in Keys :
       /\ SF_vars(StartReconcile(key))
       /\ SF_vars(ReadConfigMap(key) /\ run'[key].pc = "writeConfigMap")
       /\ WF_vars(Step(key))
       /\ WF_vars(DropForeignFinalizer(key))
  /\ \A endpoint \in Endpoints : WF_vars(Reload(endpoint))

FairSpec == Spec /\ Fairness

-----------------------------------------------------------------------------
(* Properties *)

Live(key) == rules[key] # NoObject /\ ~rules[key].deleting

\* The entry of the object stored under the key is the rule its spec asks for.
InTable(key) ==
  LET owner == OwnerOf(key, rules[key])
      table == TableOf(configMap)
  IN  owner \in DOMAIN table /\ table[owner] = rules[key].spec

\* The owners whose object is there and carries the finalizer.
Held ==
  {owner \in Owners : /\ rules[owner[1]] # NoObject
                      /\ rules[owner[1]].uid = owner[2]
                      /\ "Ours" \in rules[owner[1]].finalizers}

\* Every variable has its type, an object that is being deleted is still held
\* by a finalizer, and a worker without a reconciliation remembers nothing.
TypeOK ==
  /\ rules \in [Keys -> Object \cup {NoObject}]
  /\ \A key \in Keys : rules[key] # NoObject /\ rules[key].deleting
                         => rules[key].finalizers # {}
  /\ births \in [Keys -> 0 .. MaxIncarnations]
  /\ configMap \in ConfigMap \cup {NoConfigMap}
  /\ queue \subseteq Keys
  /\ run \in [Keys -> Run]
  /\ \A key \in Keys : IF run[key].pc = "idle" THEN run[key] = Idle
                                               ELSE run[key].obj # NoObject
  /\ served \in [Endpoints -> Tables(Owners, Specs)]
  /\ ownerEvent \in [Keys -> {"", "ReconciliationSucceeded", "ReconciliationFailed"}]
  /\ faults \in 0 .. MaxFaults
  /\ damages \in 0 .. MaxDamages

\* No entry of the config map is left behind by its object: the object that owns
\* it exists and is kept by the finalizer, whatever was edited, deleted, created
\* anew, refused, lost or interrupted (the order finalizer, entry, no entry, no
\* finalizer of Reconcile).  An entry counts, too, while the text cannot be read:
\* it would be back, and nobody's, once the text is put right.
NoOrphanEntry == DOMAIN TableOf(configMap) \subseteq Held

\* The sources in the config map are free of clashes, as the comment on
\* NewRewriteRuleSet guarantees, although several workers write to it.
ConfigMapClashFree == ClashFree(TableOf(configMap))

\* A rule that reports Ready for its current generation has exactly the entry it
\* asks for, until somebody else touches the config map: no other worker undoes
\* it, and no late reconciliation of an older spec reports it.
Backed(key) ==
  /\ Live(key)
  /\ rules[key].state = "Ready"
  /\ rules[key].observed = rules[key].gen
  => InTable(key)
ReadyIsBacked == damages = 0 => \A key \in Keys : Backed(key)

\* The entry a worker's view of its object asks for is in the config map.
Entered(key) ==
  LET owner == OwnerOf(key, run[key].obj)
      table == TableOf(configMap)
  IN  owner \in DOMAIN table /\ table[owner] = run[key].obj.spec

Working(key) == run[key].pc \notin {"idle", "updateStatus"}

\* Two parts of the inductive invariant behind the properties above.  A worker's
\* view of its object may be old but is never wrong: while it is at work nobody
\* else takes the finalizer, undoes the deletion or writes the status, and an
\* object that carries the finalizer cannot go away.
ViewIsOld(key) ==
  LET obj  == rules[key]
      view == run[key].obj
  IN  /\ obj # NoObject => obj.uid <= births[key] /\ obj.observed <= obj.gen
      /\ run[key].pc # "idle" =>
           /\ view.uid <= births[key]
           /\ view.observed <= view.gen /\ run[key].observed <= view.gen
           /\ view.deleting => view.finalizers # {}
      /\ Working(key) /\ "Ours" \in view.finalizers =>
           obj # NoObject /\ obj.uid = view.uid
      /\ Working(key) /\ obj # NoObject /\ obj.uid = view.uid =>
           /\ "Ours" \in obj.finalizers <=> "Ours" \in view.finalizers
           /\ view.gen <= obj.gen
           /\ view.gen = obj.gen => obj.spec = view.spec
           /\ view.deleting => obj.deleting
           /\ obj.observed = view.observed
ViewsAreOld == \A key \in Keys : ViewIsOld(key)

\* What has been established when a worker is about to make a call still holds
\* when the call is made, however many steps of others lie in between.
PlanIsSound(key) ==
  LET r == run[key]
  IN  /\ r.pc = "addFinalizer" =>
           /\ NeedsFinalizer(r.obj)
           /\ OwnerOf(key, r.obj) \notin DOMAIN TableOf(r.seen)
      /\ r.pc = "writeConfigMap" =>
           /\ "Ours" \in r.obj.finalizers
           /\ ~CannotApply(key, r)
           /\ Desired(key, r).changed
           /\ r.state # "Ready"
      /\ damages = 0 /\ r.pc = "checkRecord" => Entered(key)
      /\ damages = 0 /\ r.pc = "updateStatus" /\ ~r.failed /\ r.state = "Ready" =>
           Entered(key)
      /\ r.pc = "clearFinalizer" =>
           /\ r.obj.deleting /\ r.obj.finalizers = {"Ours"}
           /\ OwnerOf(key, r.obj) \notin DOMAIN TableOf(configMap)
PlansAreSound == \A key \in Keys : PlanIsSound(key)

\* The reconciler implements RewriteTable: every write of the config map changes
\* the entry of one held owner in the table as it is at that moment.
Abstract ==
  INSTANCE RewriteTable WITH table <- TableOf(configMap), held <- Held, Hosts <- Name
RefinesRewriteTable == Abstract!Spec

\* Nobody leaves a text or a stamp in the config map that cannot be read.
StaysLegible == <>[]Legible(configMap)

\* A deletion completes, with other finalizers, conflicts, faults and a damaged
\* config map in the way.
DeletionCompletes ==
  StaysLegible => \A key \in Keys :
    (rules[key] # NoObject /\ rules[key].deleting)
      ~> (rules[key] = NoObject \/ ~rules[key].deleting)

\* The endpoints answer as the rule wants.
Answered(key) ==
  \A e \in Endpoints :
     Confirms(served[e], Probe(rules[key].spec.from), rules[key].spec.to)

\* What the status of a rule ought to say.
DueState(key) ==
  LET obj == rules[key]
  IN  IF \/ ~IsValid(obj.spec)
         \/ Conflicts(TableOf(configMap), OwnerOf(key, obj), obj.spec) # {}
      THEN "Error"
      ELSE IF Answered(key) THEN "Ready" ELSE "Processing"

\* Once users, faults and damages come to rest, every rule is in the config map
\* or in conflict with a rule that is, and its status says what holds for its
\* current generation.
StatusTellsTheTruth ==
  StaysLegible => <>[](\A key \in Keys :
         Live(key) =>
           /\ rules[key].state = DueState(key)
           /\ rules[key].observed = rules[key].gen
           /\ rules[key].state # "Error" => InTable(key))

-----------------------------------------------------------------------------
(* What the documentation says and the code does not do *)

\* README.md: "As a result, the cluster's coredns will be configured to answer
\* DNS lookups for <hostname to be rewritten>": rules whose specs do not clash
\* all get their entries in the end.
SpecsTakeEffect ==
  <>[](LET live == {key \in Keys : Live(key)}
       IN  (/\ \A key \in live : IsValid(rules[key].spec)
            /\ \A key, other \in live :
                 key # other => ~Clash(rules[key].spec.from, rules[other].spec.from))
           => \A key \in live : InTable(key))

\* "Create events on owners (if any)": the owner of a rule that falls into the
\* state Error gets the event ReconciliationFailed.
FailureReachesOwner ==
  [][\A key \in Owned :
       /\ rules[key] # NoObject /\ rules'[key] # NoObject
       /\ rules[key].state # "Error" /\ rules'[key].state = "Error"
       => ownerEvent'[key] = "ReconciliationFailed"]_vars

\* "Acknowledge observed generation": a status that is written names the
\* generation of the spec it is about.
AcknowledgesGeneration ==
  [][\A key \in Keys :
       /\ rules[key] # NoObject /\ rules'[key] # NoObject
       /\ rules[key].state # rules'[key].state
       => rules'[key].observed = rules'[key].gen]_vars

=============================================================================
