------------------ MODULE MasqueradingRuleControllerProofs ------------------
(***************************************************************************)
(* The inductive invariant of MasqueradingRuleController, for any number   *)
(* of keys, specs, workers and endpoints, and any bounds on users, faults  *)
(* and damages.                                                            *)
(*                                                                         *)
(* NoOrphanEntry and ReadyIsBacked are not inductive: whether a write is   *)
(* harmless depends on what its worker read earlier.  ViewsAreOld says how *)
(* far the worker's view of its object can be trusted, PlansAreSound what  *)
(* of its reading of the config map still holds when it makes its next     *)
(* call; the invariant IInv is the conjunction.  There is one lemma per    *)
(* action.                                                                 *)
(***************************************************************************)
EXTENDS MasqueradingRuleController, RewriteRulesProofs

-----------------------------------------------------------------------------
(* The reconciliation in memory *)

\* A reconciliation that has read its object.
LEMMA BegunFacts ==
  ASSUME NEW obj \in Object
  PROVE  /\ Begun(obj) \in Run
         /\ Begun(obj).pc = "readConfigMap" /\ Begun(obj).obj = obj
         /\ Begun(obj).observed = obj.gen
BY DEF Begun, Run, Object, Steps

\* A worker without a reconciliation.
LEMMA IdleFacts == Idle \in Run /\ Idle.pc = "idle" /\ Idle.obj = NoObject
BY DEF Idle, Run, Steps, States

\* A reconciliation that returns a result.
LEMMA FinishedFacts ==
  ASSUME NEW r \in Run, NEW state \in States
  PROVE  LET q == Finished(r, state)
         IN  /\ q \in Run
             /\ q.pc = "updateStatus" /\ q.obj = r.obj /\ q.state = state
             /\ q.observed = r.observed
BY DEF Finished, Run, Steps

\* A reconciliation that returns an error.
LEMMA FailedFacts ==
  ASSUME NEW r \in Run
  PROVE  LET q == Failed(r)
         IN  /\ q \in Run
             /\ q.pc = "updateStatus" /\ q.obj = r.obj
             /\ q.observed = r.observed /\ q.failed
BY DEF Failed, Run, Steps

\* A reconciliation goes on and the others are where they were.
LEMMA ContinueFacts ==
  ASSUME NEW key \in Keys, NEW r \in Run, run \in [Keys -> Run], Continue(key, r)
  PROVE  /\ run' \in [Keys -> Run]
         /\ run'[key] = r
         /\ \A other \in Keys : other # key => run'[other] = run[other]
BY DEF Continue

\* A rule is applied to rule sets, and gives rule sets.
LEMMA DesiredFacts ==
  ASSUME NEW key \in Keys, NEW r \in Run, r.obj # NoObject
  PROVE  /\ TableOf(r.seen) \in Tables(Owners, Specs)
         /\ ParsedTable(r.seen) \in Tables(Owners, Specs)
         /\ OwnerOf(key, r.obj) \in Owners
         /\ Desired(key, r).table \in Tables(Owners, Specs)
         /\ ~CannotApply(key, r) => ParsedTable(r.seen) = TableOf(r.seen)
<1>1. r.obj \in Object /\ r.seen \in ConfigMap \cup {NoConfigMap}
  BY DEF Run
<1>2. TableOf(r.seen) \in Tables(Owners, Specs)
  BY <1>1, EmptyTableIsTable DEF TableOf, ConfigMap
<1>3. OwnerOf(key, r.obj) \in Owners /\ r.obj.spec \in Specs
  BY <1>1 DEF OwnerOf, Owners, Object
<1>4. ParsedTable(r.seen) \in Tables(Owners, Specs)
  BY <1>2, EmptyTableIsTable DEF ParsedTable
<1>5. Desired(key, r).table \in Tables(Owners, Specs)
  BY <1>3, <1>4, AddRuleFacts, RemoveRuleFacts DEF Desired
<1>6. ~CannotApply(key, r) => ParsedTable(r.seen) = TableOf(r.seen)
  BY DEF CannotApply, ParsedTable
<1> QED  BY <1>2, <1>3, <1>4, <1>5, <1>6

\* Where Plan leads: back with something other than Ready, to a write of a change,
\* or, without a change, to the lookup or to the finalizer.
LEMMA PlanFacts ==
  ASSUME NEW key \in Keys, NEW r \in Run, r.obj # NoObject,
         run \in [Keys -> Run], Plan(key, r)
  PROVE  /\ run' \in [Keys -> Run]
         /\ \A other \in Keys : other # key => run'[other] = run[other]
         /\ run'[key].obj = r.obj /\ run'[key].observed = r.observed
         /\ \/ /\ run'[key].pc = "updateStatus"
               /\ ~run'[key].failed => run'[key].state # "Ready"
            \/ /\ run'[key].pc = "writeConfigMap"
               /\ run'[key].seen = r.seen
               /\ run'[key].state # "Ready"
               /\ ~DeletionBlocked(r.obj)
               /\ ~CannotApply(key, r)
               /\ Desired(key, r).changed
            \/ /\ run'[key].pc = IF r.obj.deleting THEN "clearFinalizer" ELSE "checkRecord"
               /\ ~DeletionBlocked(r.obj)
               /\ ~CannotApply(key, r)
               /\ ~Desired(key, r).changed
<1> DEFINE state == IF r.obj.deleting THEN "Deleting" ELSE "Processing"
           q     == [r EXCEPT !.state = state]
           write == [q EXCEPT !.pc = "writeConfigMap"]
           next  == [r EXCEPT !.seen = NoConfigMap,
                              !.pc = IF r.obj.deleting THEN "clearFinalizer"
                                                       ELSE "checkRecord"]
<1>1. state \in States /\ state # "Ready" /\ "DeletionBlocked" \in States
  BY DEF States
<1>2. /\ q \in Run /\ q.obj = r.obj /\ q.observed = r.observed
      /\ q.seen = r.seen /\ q.state = state
  <2> HIDE DEF state
  <2> QED  BY <1>1 DEF Run
<1>3. /\ write \in Run /\ write.obj = r.obj /\ write.observed = r.observed
      /\ write.seen = r.seen /\ write.pc = "writeConfigMap" /\ write.state # "Ready"
  <2>1. q.state # "Ready"
    BY <1>1, <1>2
  <2> HIDE DEF q
  <2> QED  BY <1>2, <2>1 DEF Run, Steps
<1>4. /\ next \in Run /\ next.obj = r.obj /\ next.observed = r.observed
      /\ next.pc = IF r.obj.deleting THEN "clearFinalizer" ELSE "checkRecord"
  BY DEF Run, Steps
<1>5. CASE Continue(key, Finished(r, "DeletionBlocked"))
  BY <1>5, <1>1, FinishedFacts, ContinueFacts
<1>6. CASE Continue(key, Failed(r))
  BY <1>6, FailedFacts, ContinueFacts
<1>7. CASE /\ ~DeletionBlocked(r.obj) /\ ~CannotApply(key, r) /\ Desired(key, r).changed
           /\ PlanWrite(key, q)
  <2>1. CASE Continue(key, Failed(q))
    <3> HIDE DEF q
    <3> QED  BY <1>2, <2>1, FailedFacts, ContinueFacts
  <2>2. CASE Continue(key, Finished(q, q.state))
    <3> HIDE DEF q, state
    <3> QED  BY <1>1, <1>2, <2>2, FinishedFacts, ContinueFacts
  <2>3. CASE Continue(key, write)
    <3> HIDE DEF write
    <3> QED  BY <1>3, <1>7, <2>3, ContinueFacts
  <2> HIDE DEF q
  <2> QED  BY <1>7, <2>1, <2>2, <2>3 DEF PlanWrite
<1>8. CASE /\ ~DeletionBlocked(r.obj) /\ ~CannotApply(key, r) /\ ~Desired(key, r).changed
           /\ Continue(key, next)
  <2> HIDE DEF next
  <2> QED  BY <1>4, <1>8, ContinueFacts
<1> QED  BY <1>5, <1>6, <1>7, <1>8 DEF Plan

\* What applying a rule finds: with no change there is the entry, or none if the
\* object is being deleted.
LEMMA UnchangedFacts ==
  ASSUME NEW key \in Keys, NEW r \in Run, r.obj # NoObject,
         ~CannotApply(key, r), ~Desired(key, r).changed
  PROVE  LET owner == OwnerOf(key, r.obj)
             table == TableOf(r.seen)
         IN  IF r.obj.deleting THEN owner \notin DOMAIN table
             ELSE owner \in DOMAIN table /\ table[owner] = r.obj.spec
<1>1. r.obj \in Object /\ r.obj.spec \in Specs
  BY DEF Run, Object
<1>2. /\ OwnerOf(key, r.obj) \in Owners /\ TableOf(r.seen) \in Tables(Owners, Specs)
      /\ ParsedTable(r.seen) = TableOf(r.seen)
  BY DesiredFacts
<1> QED
  BY <1>1, <1>2, AddRuleFacts, RemoveRuleFacts DEF Desired, CannotApply

\* What applying a rule does: one owner's entry, and no clash.
LEMMA DesiredTable ==
  ASSUME NEW key \in Keys, NEW r \in Run, r.obj # NoObject, ~CannotApply(key, r)
  PROVE  LET owner == OwnerOf(key, r.obj)
             old   == TableOf(r.seen)
             new   == Desired(key, r).table
         IN  /\ new \in Tables(Owners, Specs)
             /\ ClashFree(old) => ClashFree(new)
             /\ \A o : o # owner => /\ o \in DOMAIN new <=> o \in DOMAIN old
                                    /\ o \in DOMAIN old => new[o] = old[o]
             /\ r.obj.deleting => owner \notin DOMAIN new
             /\ ~r.obj.deleting => owner \in DOMAIN new /\ new[owner] = r.obj.spec
<1> DEFINE owner == OwnerOf(key, r.obj)
           old   == TableOf(r.seen)
<1>1. /\ r.obj.spec \in Specs /\ owner \in Owners /\ old \in Tables(Owners, Specs)
      /\ ParsedTable(r.seen) = old
  BY DesiredFacts DEF Run, Object
<1> HIDE DEF owner, old
<1>2. CASE r.obj.deleting
  <2>1. Desired(key, r) = RemoveRule(old, owner)
    BY <1>1, <1>2 DEF Desired, owner
  <2>2. \A o : o # owner /\ o \in DOMAIN old => RemoveRule(old, owner).table[o] = old[o]
    BY DEF RemoveRule
  <2> QED  BY <1>1, <1>2, <2>1, <2>2, RemoveRuleFacts DEF old, owner
<1>3. CASE ~r.obj.deleting
  <2>1. Desired(key, r) = AddRule(old, owner, r.obj.spec)
    BY <1>1, <1>3 DEF Desired, owner
  <2>2. ~AddRule(old, owner, r.obj.spec).err
    BY <2>1 DEF CannotApply
  <2>3. AddRule(old, owner, r.obj.spec).table = Put(old, owner, r.obj.spec)
    BY <1>1, <2>2, AddRuleFacts
  <2>4. /\ Put(old, owner, r.obj.spec)[owner] = r.obj.spec
        /\ \A o : o # owner /\ o \in DOMAIN old => Put(old, owner, r.obj.spec)[o] = old[o]
    BY DEF Put
  <2> QED  BY <1>1, <1>3, <2>1, <2>2, <2>3, <2>4, AddRuleFacts DEF old, owner
<1> QED  BY <1>2, <1>3

-----------------------------------------------------------------------------
(* The inductive invariant *)

IInv ==
  /\ TypeOK
  /\ NoOrphanEntry
  /\ ConfigMapClashFree
  /\ ReadyIsBacked
  /\ ViewsAreOld
  /\ PlansAreSound

\* What the type invariant says of the parts, in the form the provers use.
LEMMA TypeFacts ==
  ASSUME TypeOK, NEW key \in Keys
  PROVE  /\ rules[key] # NoObject => rules[key] \in Object
         /\ run[key] \in Run
         /\ run[key].pc # "idle" => run[key].obj \in Object /\ run[key].obj # NoObject
         /\ TableOf(configMap) \in Tables(Owners, Specs)
<1>1. configMap \in ConfigMap \cup {NoConfigMap}
  BY DEF TypeOK
<1>2. TableOf(configMap) \in Tables(Owners, Specs)
  BY <1>1, EmptyTableIsTable DEF TableOf, ConfigMap
<1> QED  BY <1>2 DEF TypeOK, Run

\* A step that concerns one key leaves the others' views and plans alone, if it
\* leaves their entries alone.
LEMMA OthersUndisturbed ==
  ASSUME NEW other \in Keys, ViewIsOld(other), PlanIsSound(other),
         run'[other] = run[other], rules'[other] = rules[other],
         births'[other] = births[other], damages' = damages,
         \/ configMap' = configMap
         \/ \A uid : LET owner == <<other, uid>>
                         old   == TableOf(configMap)
                         new   == TableOf(configMap)'
                     IN  /\ owner \in DOMAIN new <=> owner \in DOMAIN old
                         /\ owner \in DOMAIN old => new[owner] = old[owner]
  PROVE  ViewIsOld(other)' /\ PlanIsSound(other)'
<1>1. ViewIsOld(other)'
  BY DEF ViewIsOld, Working
<1>2. Entered(other) => Entered(other)'
  BY DEF Entered, OwnerOf, TableOf
<1>3. OwnerOf(other, run[other].obj) \notin DOMAIN TableOf(configMap)
        => OwnerOf(other, run'[other].obj) \notin DOMAIN TableOf(configMap)'
  BY DEF OwnerOf, TableOf
<1>4. PlanIsSound(other)'
  BY <1>2, <1>3 DEF PlanIsSound, Entered
<1> QED  BY <1>1, <1>4

\* A step that writes the object of one key at most: what has to be shown is
\* about that key alone.
LEMMA KeyStep ==
  ASSUME IInv, NEW key \in Keys,
         configMap' = configMap, damages' = damages,
         \A other \in Keys : other # key =>
            run'[other] = run[other] /\ rules'[other] = rules[other]
              /\ births'[other] = births[other],
         TypeOK', ViewIsOld(key)', PlanIsSound(key)',
         damages = 0 => Backed(key)',
         \A uid : /\ rules[key] # NoObject /\ rules[key].uid = uid
                  /\ "Ours" \in rules[key].finalizers
                  /\ <<key, uid>> \in DOMAIN TableOf(configMap)
                  => /\ rules'[key] # NoObject /\ rules'[key].uid = uid
                     /\ "Ours" \in rules'[key].finalizers
  PROVE  IInv'
<1>1. ASSUME NEW other \in Keys PROVE ViewIsOld(other)' /\ PlanIsSound(other)'
  BY OthersUndisturbed DEF IInv, ViewsAreOld, PlansAreSound
<1>2. TableOf(configMap)' = TableOf(configMap)
  BY DEF TableOf
<1>3. NoOrphanEntry'
  <2> SUFFICES ASSUME NEW owner \in DOMAIN TableOf(configMap) PROVE owner \in Held'
    BY <1>2 DEF NoOrphanEntry
  <2>1. /\ owner \in Owners
        /\ rules[owner[1]] # NoObject /\ rules[owner[1]].uid = owner[2]
        /\ "Ours" \in rules[owner[1]].finalizers
    BY DEF IInv, NoOrphanEntry, Held
  <2>2. owner[1] \in Keys /\ owner = <<owner[1], owner[2]>>
    BY <2>1 DEF Owners
  <2> QED  BY <2>1, <2>2 DEF Held
<1>4. ReadyIsBacked'
  <2> SUFFICES ASSUME damages = 0, NEW other \in Keys PROVE Backed(other)'
    BY DEF ReadyIsBacked
  <2>1. CASE other = key
    BY <2>1
  <2>2. CASE other # key
    BY <1>2, <2>2 DEF IInv, ReadyIsBacked, Backed, Live, InTable, OwnerOf
  <2> QED  BY <2>1, <2>2
<1> QED  BY <1>1, <1>2, <1>3, <1>4 DEF IInv, ViewsAreOld, PlansAreSound, ConfigMapClashFree

\* A step of one worker that writes nothing.
LEMMA QuietStep ==
  ASSUME IInv, NEW key \in Keys,
         UNCHANGED <<rules, births, configMap, damages>>,
         \A other \in Keys : other # key => run'[other] = run[other],
         TypeOK', ViewIsOld(key)', PlanIsSound(key)'
  PROVE  IInv'
<1>1. damages = 0 => Backed(key)'
  BY DEF IInv, ReadyIsBacked, Backed, Live, InTable, OwnerOf, TableOf
<1> QED  BY <1>1, KeyStep

\* The two counters stay within their bounds.
LEMMA FaultInBounds ==
  ASSUME TypeOK, Fault \/ UNCHANGED faults
  PROVE  faults' \in 0 .. MaxFaults
<1>1. MaxFaults \in Nat
  BY ControllerAssumption
<1>2. faults \in 0 .. MaxFaults
  BY DEF TypeOK
<1> QED  BY <1>1, <1>2 DEF Fault

\* A view that has just been read is not old at all.
LEMMA StartReconcileStep ==
  ASSUME IInv, NEW key \in Keys, StartReconcile(key)
  PROVE  IInv'
<1> DEFINE obj == rules[key]
<1>1. UNCHANGED <<rules, births, configMap, damages, served, ownerEvent>>
  BY DEF StartReconcile, userVars
<1>2. TypeOK /\ ViewIsOld(key) /\ run[key].pc = "idle" /\ run \in [Keys -> Run]
  BY DEF IInv, StartReconcile, Active, ViewsAreOld, TypeOK
<1>f. faults' \in 0 .. MaxFaults /\ queue' \subseteq Keys
  BY <1>2, FaultInBounds DEF StartReconcile, TypeOK
<1>3. CASE run' = run
  <2>1. TypeOK'
    BY <1>1, <1>2, <1>3, <1>f DEF TypeOK
  <2>2. ViewIsOld(key)' /\ PlanIsSound(key)'
    BY <1>1, <1>2, <1>3 DEF ViewIsOld, PlanIsSound, Working
  <2> QED  BY <1>1, <1>2, <1>3, <2>1, <2>2, QuietStep
<1>4. CASE /\ obj # NoObject /\ queue' = queue \ {key} /\ UNCHANGED faults
           /\ Continue(key, IF obj.state = "" THEN Finished(Begun(obj), "New")
                                              ELSE Begun(obj))
  <2>1. obj \in Object
    BY <1>2, <1>4, TypeFacts
  <2>2. /\ run' \in [Keys -> Run]
        /\ run'[key].obj = obj /\ run'[key].observed = obj.gen
        /\ \/ run'[key].pc = "readConfigMap"
           \/ run'[key].pc = "updateStatus" /\ run'[key].state = "New"
        /\ \A other \in Keys : other # key => run'[other] = run[other]
    <3>1. /\ Begun(obj) \in Run /\ Begun(obj).obj = obj
          /\ Begun(obj).observed = obj.gen /\ Begun(obj).pc = "readConfigMap"
      BY <2>1, BegunFacts
    <3>2. LET q == Finished(Begun(obj), "New")
          IN  /\ q \in Run /\ q.obj = obj /\ q.observed = obj.gen
              /\ q.pc = "updateStatus" /\ q.state = "New"
      BY <3>1, FinishedFacts DEF States
    <3>3. CASE Continue(key, Begun(obj))
      BY <1>2, <3>1, <3>3, ContinueFacts
    <3>4. CASE Continue(key, Finished(Begun(obj), "New"))
      BY <1>2, <3>2, <3>4, ContinueFacts
    <3> QED  BY <1>4, <3>3, <3>4
  <2>3. TypeOK'
    BY <1>1, <1>2, <1>4, <1>f, <2>2 DEF TypeOK
  <2>4. ViewIsOld(key)'
    <3>1. obj.gen \in Nat /\ (obj.deleting => obj.finalizers # {})
      BY <1>2, <1>4, <2>1 DEF TypeOK, Object
    <3>2. rules'[key] = obj /\ births'[key] = births[key]
      BY <1>1
    <3>3. obj.uid <= births[key] /\ obj.observed <= obj.gen
      BY <1>2, <1>4 DEF ViewIsOld
    <3>4. obj # NoObject
      BY <1>4
    <3> HIDE DEF obj
    <3> QED  BY <2>2, <3>1, <3>2, <3>3, <3>4 DEF ViewIsOld, Working
  <2>5. PlanIsSound(key)'
    BY <2>2 DEF PlanIsSound
  <2> QED  BY <1>1, <2>2, <2>3, <2>4, <2>5, QuietStep
<1> QED  BY <1>3, <1>4 DEF StartReconcile

\* What Plan finds in a config map that has just been read is so at that moment.
LEMMA ReadConfigMapStep ==
  ASSUME IInv, NEW key \in Keys, ReadConfigMap(key)
  PROVE  IInv'
<1> DEFINE r == [run[key] EXCEPT !.seen = configMap]
<1>1. UNCHANGED <<rules, births, configMap, damages, served, ownerEvent, queue>>
  BY DEF ReadConfigMap, userVars
<1>2. /\ TypeOK /\ ViewIsOld(key) /\ NoOrphanEntry
      /\ run[key].pc = "readConfigMap" /\ run \in [Keys -> Run]
      /\ run[key] \in Run /\ run[key].obj \in Object /\ run[key].obj # NoObject
      /\ configMap \in ConfigMap \cup {NoConfigMap}
  BY TypeFacts DEF IInv, ReadConfigMap, ViewsAreOld, TypeOK
<1>3. /\ r \in Run /\ r.obj = run[key].obj /\ r.observed = run[key].observed
      /\ r.seen = configMap
  BY <1>2 DEF Run
<1>4. faults' \in 0 .. MaxFaults
  BY <1>2, FaultInBounds DEF ReadConfigMap
<1> HIDE DEF r
\* Only the object itself can own an entry of its key.
<1>5. OwnerOf(key, r.obj) \in DOMAIN TableOf(configMap) => "Ours" \in r.obj.finalizers
  BY <1>2, <1>3 DEF NoOrphanEntry, Held, OwnerOf, ViewIsOld, Working
<1>6. ASSUME run' \in [Keys -> Run],
             run'[key].obj = r.obj, run'[key].observed = r.observed,
             run'[key].pc \notin {"idle"},
             \A other \in Keys : other # key => run'[other] = run[other],
             PlanIsSound(key)'
      PROVE  IInv'
  <2>1. TypeOK'
    BY <1>1, <1>2, <1>3, <1>4, <1>6 DEF TypeOK
  <2>2. ViewIsOld(key)'
    BY <1>1, <1>2, <1>3, <1>6 DEF ViewIsOld, Working
  <2> QED  BY <1>1, <1>6, <2>1, <2>2, QuietStep
<1>7. CASE NeedsFinalizer(r.obj) /\ Continue(key, [r EXCEPT !.pc = "addFinalizer"])
  <2> DEFINE q == [r EXCEPT !.pc = "addFinalizer"]
  <2>1. q \in Run /\ q.pc = "addFinalizer" /\ q.obj = r.obj /\ q.observed = r.observed
          /\ q.seen = r.seen
    BY <1>3 DEF Run, Steps
  <2> HIDE DEF q
  <2>2. /\ run' \in [Keys -> Run] /\ run'[key] = q
        /\ \A other \in Keys : other # key => run'[other] = run[other]
    BY <1>2, <1>7, <2>1, ContinueFacts DEF q
  <2>3. PlanIsSound(key)'
    BY <1>3, <1>5, <1>7, <2>1, <2>2 DEF PlanIsSound, NeedsFinalizer
  <2> QED  BY <1>6, <2>1, <2>2, <2>3
<1>8. CASE ~NeedsFinalizer(r.obj) /\ Plan(key, r)
  <2>1. /\ run' \in [Keys -> Run]
        /\ run'[key].obj = r.obj /\ run'[key].observed = r.observed
        /\ \A other \in Keys : other # key => run'[other] = run[other]
    BY <1>2, <1>3, <1>8, PlanFacts
  <2>2. CASE run'[key].pc = "updateStatus" /\ (~run'[key].failed => run'[key].state # "Ready")
    <3>1. PlanIsSound(key)'
      BY <2>2 DEF PlanIsSound
    <3> QED  BY <1>6, <2>1, <2>2, <3>1
  <2>3. CASE /\ run'[key].pc = "writeConfigMap" /\ run'[key].seen = r.seen
             /\ run'[key].state # "Ready"
             /\ ~DeletionBlocked(r.obj) /\ ~CannotApply(key, r) /\ Desired(key, r).changed
    <3>1. "Ours" \in r.obj.finalizers
      BY <1>2, <1>3, <1>8, <2>3 DEF NeedsFinalizer, DeletionBlocked, ViewIsOld, Object
    <3>2. Desired(key, run'[key]) = Desired(key, r)
      BY <2>1, <2>3 DEF Desired
    <3>3. ~CannotApply(key, run'[key])
      BY <2>1, <2>3, <3>2 DEF CannotApply
    <3>4. PlanIsSound(key)'
      BY <2>1, <2>3, <3>1, <3>2, <3>3 DEF PlanIsSound, CannotApply, Desired
    <3> QED  BY <1>6, <2>1, <2>3, <3>4
  <2>4. CASE /\ run'[key].pc = IF r.obj.deleting THEN "clearFinalizer" ELSE "checkRecord"
             /\ ~DeletionBlocked(r.obj) /\ ~CannotApply(key, r) /\ ~Desired(key, r).changed
    <3>1. IF r.obj.deleting THEN OwnerOf(key, r.obj) \notin DOMAIN TableOf(configMap)
          ELSE /\ OwnerOf(key, r.obj) \in DOMAIN TableOf(configMap)
               /\ TableOf(configMap)[OwnerOf(key, r.obj)] = r.obj.spec
      BY <1>2, <1>3, <2>4, UnchangedFacts
    <3>2. r.obj.deleting => r.obj.finalizers = {"Ours"}
      BY <1>2, <1>3, <2>4 DEF DeletionBlocked, ViewIsOld, Object
    <3>3. TableOf(configMap)' = TableOf(configMap)
      BY <1>1 DEF TableOf
    <3>4. CASE r.obj.deleting
      <4>1. PlanIsSound(key)'
        BY <2>1, <2>4, <3>1, <3>2, <3>3, <3>4 DEF PlanIsSound
      <4> QED  BY <1>6, <2>1, <2>4, <3>4, <4>1
    <3>5. CASE ~r.obj.deleting
      <4>1. PlanIsSound(key)'
        BY <2>1, <2>4, <3>1, <3>3, <3>5 DEF PlanIsSound, Entered
      <4> QED  BY <1>6, <2>1, <2>4, <3>5, <4>1
    <3> QED  BY <3>4, <3>5
  <2> QED  BY <1>2, <1>3, <1>8, <2>2, <2>3, <2>4, PlanFacts
<1>9. CASE Continue(key, Failed(r))
  <2>1. /\ run' \in [Keys -> Run]
        /\ run'[key].obj = r.obj /\ run'[key].observed = r.observed
        /\ run'[key].pc = "updateStatus" /\ run'[key].failed
        /\ \A other \in Keys : other # key => run'[other] = run[other]
    BY <1>2, <1>3, <1>9, FailedFacts, ContinueFacts
  <2>2. PlanIsSound(key)'
    BY <2>1 DEF PlanIsSound
  <2> QED  BY <1>6, <2>1, <2>2
<1> QED  BY <1>7, <1>8, <1>9 DEF ReadConfigMap, r

\* The type invariant after a step of one worker on its object.
LEMMA TypeStep ==
  ASSUME TypeOK, NEW key \in Keys,
         UNCHANGED <<births, configMap, served, damages>>,
         rules' \in [Keys -> Object \cup {NoObject}], run' \in [Keys -> Run],
         \A other \in Keys : other # key =>
            run'[other] = run[other] /\ rules'[other] = rules[other],
         rules'[key] # NoObject /\ rules'[key].deleting => rules'[key].finalizers # {},
         run'[key] = Idle \/ (run'[key].pc # "idle" /\ run'[key].obj # NoObject),
         queue' \subseteq Keys, faults' \in 0 .. MaxFaults,
         ownerEvent' \in [Keys -> {"", "ReconciliationSucceeded", "ReconciliationFailed"}]
  PROVE  TypeOK'
<1>1. \A other \in Keys : rules'[other] # NoObject /\ rules'[other].deleting
                             => rules'[other].finalizers # {}
  BY DEF TypeOK
<1>2. \A other \in Keys : IF run'[other].pc = "idle" THEN run'[other] = Idle
                                                      ELSE run'[other].obj # NoObject
  BY IdleFacts DEF TypeOK
<1> QED  BY <1>1, <1>2 DEF TypeOK

\* A reconciliation whose function has returned keeps its view of the object.
LEMMA ReturningView ==
  ASSUME NEW key \in Keys, ViewIsOld(key), run[key].pc # "idle",
         UNCHANGED <<rules, births>>,
         run'[key].obj = run[key].obj, run'[key].observed = run[key].observed,
         run'[key].pc = "updateStatus"
  PROVE  ViewIsOld(key)'
BY DEF ViewIsOld, Working

\* A call that fails and writes nothing.
LEMMA FailingStep ==
  ASSUME IInv, NEW key \in Keys, run[key].pc # "idle", Continue(key, Failed(run[key])),
         UNCHANGED <<rules, births, configMap, damages, queue, served, ownerEvent>>,
         Fault \/ UNCHANGED faults
  PROVE  IInv'
<1>1. TypeOK /\ ViewIsOld(key) /\ run \in [Keys -> Run] /\ run[key] \in Run
  BY DEF IInv, ViewsAreOld, TypeOK
<1>2. /\ run' \in [Keys -> Run]
      /\ run'[key].obj = run[key].obj /\ run'[key].observed = run[key].observed
      /\ run'[key].pc = "updateStatus" /\ run'[key].failed
      /\ \A other \in Keys : other # key => run'[other] = run[other]
  BY <1>1, FailedFacts, ContinueFacts
<1>3. TypeOK'
  BY <1>1, <1>2, FaultInBounds DEF TypeOK
<1>4. ViewIsOld(key)' /\ PlanIsSound(key)'
  BY <1>1, <1>2, ReturningView DEF PlanIsSound
<1> QED  BY <1>2, <1>3, <1>4, QuietStep

\* A rule found Ready is entered, and was when the lookup began.
LEMMA CheckRecordStep ==
  ASSUME IInv, NEW key \in Keys, CheckRecord(key)
  PROVE  IInv'
<1> DEFINE r == run[key]
<1>1. /\ UNCHANGED <<rules, births, configMap, damages, served, ownerEvent, queue>>
      /\ run[key].pc = "checkRecord"
  BY DEF CheckRecord, userVars
<1>2. /\ TypeOK /\ ViewIsOld(key) /\ PlanIsSound(key)
      /\ run \in [Keys -> Run] /\ run[key] \in Run
  BY DEF IInv, ViewsAreOld, PlansAreSound, TypeOK
<1>3. CASE \E state \in {"Ready", "Processing"} :
             Continue(key, Finished(r, state)) /\ UNCHANGED faults
  <2>1. PICK state \in {"Ready", "Processing"} : Continue(key, Finished(r, state))
    BY <1>3
  <2>2. /\ run' \in [Keys -> Run]
        /\ run'[key].obj = run[key].obj /\ run'[key].observed = run[key].observed
        /\ run'[key].pc = "updateStatus"
        /\ \A other \in Keys : other # key => run'[other] = run[other]
    <3>1. state \in States
      BY DEF States
    <3>2. LET q == Finished(r, state)
          IN  q \in Run /\ q.obj = r.obj /\ q.observed = r.observed /\ q.pc = "updateStatus"
      BY <1>2, <3>1, FinishedFacts
    <3> QED  BY <1>2, <2>1, <3>2, ContinueFacts
  <2>3. TypeOK'
    BY <1>1, <1>2, <1>3, <2>2 DEF TypeOK
  <2>4. damages = 0 => Entered(key)'
    BY <1>1, <1>2, <2>2 DEF PlanIsSound, Entered, TableOf
  <2>5. ViewIsOld(key)' /\ PlanIsSound(key)'
    BY <1>1, <1>2, <2>2, <2>4, ReturningView DEF PlanIsSound
  <2> QED  BY <1>1, <2>2, <2>3, <2>5, QuietStep
<1>4. CASE Fault /\ Continue(key, Failed(r))
  BY <1>1, <1>4, FailingStep
<1> QED  BY <1>3, <1>4 DEF CheckRecord

\* The status Ready is written for the generation that was entered, or not at all.
LEMMA UpdateStatusStep ==
  ASSUME IInv, NEW key \in Keys, UpdateStatus(key)
  PROVE  IInv'
<1> DEFINE r     == run[key]
           state == IF r.failed THEN "Error" ELSE r.state
           old   == rules[key]
<1>1. /\ UNCHANGED <<births, configMap, damages, served>>
      /\ run[key].pc = "updateStatus"
      /\ Continue(key, Idle)
  BY DEF UpdateStatus, userVars
<1>2. /\ TypeOK /\ ViewIsOld(key) /\ PlanIsSound(key)
      /\ run \in [Keys -> Run] /\ r \in Run /\ r.obj \in Object /\ r.obj # NoObject
      /\ rules \in [Keys -> Object \cup {NoObject}]
  BY <1>1, TypeFacts DEF IInv, ViewsAreOld, PlansAreSound, TypeOK
<1>3. /\ run' \in [Keys -> Run] /\ run'[key] = Idle
      /\ \A other \in Keys : other # key => run'[other] = run[other]
  BY <1>1, <1>2, IdleFacts, ContinueFacts
<1>4. queue' \subseteq Keys /\ faults' \in 0 .. MaxFaults
  BY <1>2, FaultInBounds DEF UpdateStatus, TypeOK
<1>5. ownerEvent' \in [Keys -> {"", "ReconciliationSucceeded", "ReconciliationFailed"}]
  <2>1. EventFor(key, r) \in {"", "ReconciliationSucceeded", "ReconciliationFailed"}
    BY <1>2 DEF EventFor, TypeOK
  <2>2. ownerEvent' = [ownerEvent EXCEPT ![key] = EventFor(key, r)]
    BY DEF UpdateStatus
  <2> QED  BY <1>2, <2>1, <2>2 DEF TypeOK
<1>6. TableOf(configMap)' = TableOf(configMap)
  BY <1>1 DEF TableOf
<1>7. PlanIsSound(key)'
  BY <1>3, IdleFacts DEF PlanIsSound
<1>8. CASE UNCHANGED rules
  <2>1. TypeOK'
    BY <1>1, <1>2, <1>3, <1>4, <1>5, <1>8, IdleFacts DEF TypeOK
  <2>2. ViewIsOld(key)'
    BY <1>1, <1>2, <1>3, <1>8, IdleFacts DEF ViewIsOld, Working
  <2> QED  BY <1>1, <1>3, <1>7, <1>8, <2>1, <2>2, QuietStep
<1>9. CASE /\ old = r.obj
           /\ rules' = [rules EXCEPT ![key] = [r.obj EXCEPT !.state = state,
                                                            !.observed = r.observed]]
  <2> DEFINE new == [r.obj EXCEPT !.state = state, !.observed = r.observed]
  <2>1. state \in States /\ r.observed \in Int
    BY <1>2 DEF Run, States
  <2>2. /\ new \in Object /\ new # NoObject
        /\ new.uid = old.uid /\ new.gen = old.gen /\ new.spec = old.spec
        /\ new.deleting = old.deleting /\ new.finalizers = old.finalizers
        /\ new.state = state /\ new.observed = r.observed
    <3> HIDE DEF state
    <3>1. new \in Object
      BY <1>2, <2>1 DEF Object
    <3> QED  BY <1>2, <1>9, <3>1, ControllerAssumption DEF Object
  <2> HIDE DEF new
  <2>3. /\ rules' \in [Keys -> Object \cup {NoObject}] /\ rules'[key] = new
        /\ \A other \in Keys : other # key => rules'[other] = rules[other]
    BY <1>2, <1>9, <2>2 DEF new
  <2>4. TypeOK'
    <3>1. r.obj.deleting => r.obj.finalizers # {}
      BY <1>1, <1>2 DEF ViewIsOld
    <3>2. rules'[key].deleting => rules'[key].finalizers # {}
      BY <1>9, <2>2, <2>3, <3>1
    <3> QED  BY <1>1, <1>2, <1>3, <1>4, <1>5, <2>3, <3>2, TypeStep
  <2>5. ViewIsOld(key)'
    BY <1>1, <1>2, <1>3, <1>9, <2>2, <2>3, IdleFacts DEF ViewIsOld, Working
  <2>6. damages = 0 => Backed(key)'
    <3>1. SUFFICES ASSUME damages = 0, state = "Ready"
                   PROVE  InTable(key)'
      BY <2>2, <2>3 DEF Backed
    <3>2. Entered(key)
      BY <1>1, <1>2, <3>1 DEF PlanIsSound
    <3> QED  BY <1>6, <1>9, <2>2, <2>3, <3>2 DEF Entered, InTable, OwnerOf
  <2> QED  BY <1>1, <1>3, <1>7, <1>9, <2>2, <2>3, <2>4, <2>5, <2>6, KeyStep
<1> QED  BY <1>8, <1>9 DEF UpdateStatus, NotOutdated

\* The object goes while no entry is left, so that nobody else's promise depends
\* on it.
LEMMA ClearFinalizerStep ==
  ASSUME IInv, NEW key \in Keys, ClearFinalizer(key)
  PROVE  IInv'
<1> DEFINE r == run[key]
<1>1. /\ UNCHANGED <<births, configMap, damages, served, ownerEvent>>
      /\ run[key].pc = "clearFinalizer"
  BY DEF ClearFinalizer, userVars
<1>2. /\ TypeOK /\ ViewIsOld(key) /\ PlanIsSound(key)
      /\ run \in [Keys -> Run] /\ r \in Run /\ r.obj # NoObject
      /\ rules \in [Keys -> Object \cup {NoObject}]
  BY <1>1, TypeFacts DEF IInv, ViewsAreOld, PlansAreSound, TypeOK
<1>3. CASE /\ UNCHANGED <<rules, queue>> /\ Continue(key, Failed(r))
           /\ Fault \/ UNCHANGED faults
  BY <1>1, <1>3, FailingStep
<1>4. CASE /\ rules[key] = r.obj
           /\ rules' = [rules EXCEPT ![key] = NoObject]
           /\ queue' = queue \cup {key}
           /\ Continue(key, Idle) \/ Continue(key, Failed(r))
           /\ Fault \/ UNCHANGED faults
  <2>1. /\ rules' \in [Keys -> Object \cup {NoObject}] /\ rules'[key] = NoObject
        /\ \A other \in Keys : other # key => rules'[other] = rules[other]
    BY <1>2, <1>4
  <2>2. /\ run' \in [Keys -> Run]
        /\ \/ run'[key] = Idle
           \/ /\ run'[key].obj = r.obj /\ run'[key].observed = r.observed
              /\ run'[key].pc = "updateStatus" /\ run'[key].failed
        /\ \A other \in Keys : other # key => run'[other] = run[other]
    <3>1. CASE Continue(key, Idle)
      BY <1>2, <3>1, IdleFacts, ContinueFacts
    <3>2. CASE Continue(key, Failed(r))
      BY <1>2, <3>2, FailedFacts, ContinueFacts
    <3> QED  BY <1>4, <3>1, <3>2
  <2>3. TypeOK'
    <3>1. queue' \subseteq Keys /\ faults' \in 0 .. MaxFaults
      BY <1>2, <1>4, FaultInBounds DEF TypeOK
    <3>2. ownerEvent' \in [Keys -> {"", "ReconciliationSucceeded", "ReconciliationFailed"}]
      BY <1>1, <1>2 DEF TypeOK
    <3>3. run'[key] = Idle \/ (run'[key].pc # "idle" /\ run'[key].obj # NoObject)
      BY <1>2, <2>2
    <3> QED  BY <1>1, <1>2, <2>1, <2>2, <3>1, <3>2, <3>3, TypeStep
  <2>4. ViewIsOld(key)' /\ PlanIsSound(key)'
    BY <1>1, <1>2, <2>1, <2>2, IdleFacts DEF ViewIsOld, PlanIsSound, Working
  <2>5. Backed(key)'
    BY <2>1 DEF Backed, Live
  <2>6. OwnerOf(key, rules[key]) \notin DOMAIN TableOf(configMap)
    BY <1>1, <1>2, <1>4 DEF PlanIsSound
  <2> QED  BY <1>1, <2>1, <2>2, <2>3, <2>4, <2>5, <2>6, KeyStep DEF OwnerOf
<1> QED  BY <1>3, <1>4 DEF ClearFinalizer, NotOutdated

\* An object without the finalizer owns no entry, so the view is renewed before
\* anything depends on it.
LEMMA AddFinalizerStep ==
  ASSUME IInv, NEW key \in Keys, AddFinalizer(key)
  PROVE  IInv'
<1> DEFINE r      == run[key]
           held   == [r.obj EXCEPT !.finalizers = @ \cup {"Ours"}]
           answer == [r EXCEPT !.obj = held, !.state = held.state, !.observed = held.observed]
<1>1. /\ UNCHANGED <<births, configMap, damages, served, ownerEvent, queue>>
      /\ run[key].pc = "addFinalizer"
  BY DEF AddFinalizer, userVars
<1>2. /\ TypeOK /\ ViewIsOld(key) /\ PlanIsSound(key)
      /\ run \in [Keys -> Run] /\ r \in Run /\ r.obj \in Object /\ r.obj # NoObject
      /\ rules \in [Keys -> Object \cup {NoObject}]
      /\ queue' \subseteq Keys
      /\ ownerEvent' \in [Keys -> {"", "ReconciliationSucceeded", "ReconciliationFailed"}]
  BY <1>1, TypeFacts DEF IInv, ViewsAreOld, PlansAreSound, TypeOK
<1>3. /\ held \in Object /\ held # NoObject
      /\ held.uid = r.obj.uid /\ held.gen = r.obj.gen /\ held.spec = r.obj.spec
      /\ held.deleting = r.obj.deleting
      /\ held.state = r.obj.state /\ held.observed = r.obj.observed
      /\ held.finalizers = r.obj.finalizers \cup {"Ours"}
  <2>1. held \in Object
    BY <1>2 DEF Object, Finalizers
  <2> QED  BY <1>2, <2>1, ControllerAssumption DEF Object
<1>4. faults' \in 0 .. MaxFaults
  BY <1>2, FaultInBounds DEF AddFinalizer
<1>5. ~r.obj.deleting /\ OwnerOf(key, r.obj) \notin DOMAIN TableOf(r.seen)
  BY <1>1, <1>2 DEF PlanIsSound, NeedsFinalizer
\* The written object differs from the stored one in the finalizer only.
<1>6. ASSUME rules[key] = r.obj, rules' = [rules EXCEPT ![key] = held],
             run' \in [Keys -> Run],
             \A other \in Keys : other # key => run'[other] = run[other],
             run'[key].pc # "idle", run'[key].obj \in {r.obj, held},
             run'[key].observed <= r.obj.gen,
             Working(key)' => run'[key].obj = held,
             PlanIsSound(key)'
      PROVE  IInv'
  <2> HIDE DEF held, answer
  <2>1. /\ rules' \in [Keys -> Object \cup {NoObject}] /\ rules'[key] = held
        /\ \A other \in Keys : other # key => rules'[other] = rules[other]
    BY <1>2, <1>3, <1>6
  <2>2. TypeOK'
    <3>1. run'[key].obj # NoObject
      BY <1>2, <1>3, <1>6
    <3>2. ~rules'[key].deleting
      BY <1>3, <1>5, <2>1
    <3>3. /\ UNCHANGED <<births, configMap, served, damages>>
          /\ queue' \subseteq Keys /\ faults' \in 0 .. MaxFaults
          /\ ownerEvent' \in [Keys -> {"", "ReconciliationSucceeded", "ReconciliationFailed"}]
      BY <1>1, <1>2, <1>4
    <3>4. /\ \A other \in Keys : other # key =>
               run'[other] = run[other] /\ rules'[other] = rules[other]
          /\ run'[key].pc # "idle" /\ run'[key].obj # NoObject
          /\ rules'[key].deleting => rules'[key].finalizers # {}
      BY <1>6, <2>1, <3>1, <3>2
    <3> QED  BY <1>2, <1>6, <2>1, <3>3, <3>4, TypeStep
  <2>3. ViewIsOld(key)'
    <3>1. /\ r.obj.uid <= births[key] /\ r.obj.observed <= r.obj.gen
          /\ r.obj.gen \in Nat
      BY <1>1, <1>2 DEF ViewIsOld, Object
    <3>2. births'[key] = births[key] /\ ~run'[key].obj.deleting
      BY <1>1, <1>3, <1>5, <1>6
    <3>3. run'[key].obj.uid = r.obj.uid /\ run'[key].obj.gen = r.obj.gen
            /\ run'[key].obj.observed = r.obj.observed
      BY <1>3, <1>6
    <3>4. held.uid <= births'[key] /\ held.observed <= held.gen /\ held.gen <= held.gen
      BY <1>3, <3>1, <3>2
    <3>5. /\ run'[key].obj.uid <= births'[key]
          /\ run'[key].obj.observed <= run'[key].obj.gen
          /\ run'[key].observed <= run'[key].obj.gen
      BY <1>6, <3>1, <3>2, <3>3
    <3>6. CASE Working(key)'
      BY <1>3, <1>6, <2>1, <3>2, <3>4, <3>5, <3>6 DEF ViewIsOld
    <3>7. CASE ~Working(key)'
      BY <2>1, <3>2, <3>4, <3>5, <3>7 DEF ViewIsOld
    <3> QED  BY <3>6, <3>7
  <2>4. damages = 0 => Backed(key)'
    <3>1. damages = 0 => Backed(key)
      BY DEF IInv, ReadyIsBacked
    <3>2. TableOf(configMap)' = TableOf(configMap)
      BY <1>1 DEF TableOf
    <3>3. CASE Live(key)
      <4>1. rules[key] = r.obj /\ OwnerOf(key, rules'[key]) = OwnerOf(key, rules[key])
              /\ rules'[key].spec = rules[key].spec
        BY <1>3, <1>6, <2>1 DEF OwnerOf
      <4>2. InTable(key)' <=> InTable(key)
        BY <3>2, <4>1 DEF InTable, OwnerOf
      <4>3. /\ rules'[key].state = rules[key].state
            /\ rules'[key].observed = rules[key].observed
            /\ rules'[key].gen = rules[key].gen
        BY <1>3, <1>6, <2>1
      <4> QED  BY <3>1, <3>3, <4>2, <4>3 DEF Backed
    <3>4. CASE ~Live(key)
      BY <1>2, <1>3, <1>5, <1>6, <3>4 DEF Live
    <3> QED  BY <3>3, <3>4
  <2> QED  BY <1>1, <1>3, <1>6, <2>1, <2>2, <2>3, <2>4, KeyStep
<1>7. CASE /\ rules[key] = r.obj
           /\ rules' = [rules EXCEPT ![key] = held]
           /\ Plan(key, answer)
  <2>1. /\ answer \in Run /\ answer.obj = held /\ answer.seen = r.seen
        /\ answer.observed = r.obj.observed
    <3> HIDE DEF held
    <3>1. held.state \in States /\ held.observed \in Int
      BY <1>3 DEF Object
    <3> QED  BY <1>2, <1>3, <3>1 DEF Run
  <2> HIDE DEF answer
  <2>2. OwnerOf(key, answer.obj) = OwnerOf(key, r.obj) /\ ~answer.obj.deleting
    BY <1>3, <1>5, <2>1 DEF OwnerOf
  <2>3. ~(~CannotApply(key, answer) /\ ~Desired(key, answer).changed)
    BY <1>3, <1>5, <2>1, <2>2, UnchangedFacts
  <2>4. /\ run' \in [Keys -> Run]
        /\ run'[key].obj = held /\ run'[key].observed = r.obj.observed
        /\ \A other \in Keys : other # key => run'[other] = run[other]
        /\ \/ /\ run'[key].pc = "updateStatus"
              /\ ~run'[key].failed => run'[key].state # "Ready"
           \/ /\ run'[key].pc = "writeConfigMap" /\ run'[key].seen = answer.seen
              /\ run'[key].state # "Ready"
              /\ ~CannotApply(key, answer) /\ Desired(key, answer).changed
    BY <1>2, <1>3, <1>7, <2>1, <2>3, PlanFacts
  <2>5. PlanIsSound(key)'
    <3>1. CASE run'[key].pc = "updateStatus" /\ (~run'[key].failed => run'[key].state # "Ready")
      BY <3>1 DEF PlanIsSound
    <3>2. CASE /\ run'[key].pc = "writeConfigMap" /\ run'[key].seen = answer.seen
               /\ run'[key].state # "Ready"
               /\ ~CannotApply(key, answer) /\ Desired(key, answer).changed
      <4>1. "Ours" \in run'[key].obj.finalizers
        BY <1>3, <2>4
      <4>2. Desired(key, run'[key]) = Desired(key, answer)
        BY <2>1, <2>4, <3>2 DEF Desired
      <4>3. ~CannotApply(key, run'[key])
        BY <2>1, <2>4, <3>2, <4>2 DEF CannotApply
      <4> QED  BY <3>2, <4>1, <4>2, <4>3 DEF PlanIsSound, CannotApply, Desired
    <3> QED  BY <2>4, <3>1, <3>2
  <2>6. run'[key].pc # "idle" /\ run'[key].observed <= r.obj.gen
    BY <1>1, <1>2, <2>4 DEF ViewIsOld
  <2> QED  BY <1>6, <1>7, <2>4, <2>5, <2>6
<1>8. CASE /\ Continue(key, Failed(r))
           /\ \/ UNCHANGED rules
              \/ rules[key] = r.obj /\ rules' = [rules EXCEPT ![key] = held]
           /\ Fault \/ UNCHANGED faults
  <2>1. CASE UNCHANGED rules
    BY <1>1, <1>8, <2>1, FailingStep
  <2>2. CASE rules[key] = r.obj /\ rules' = [rules EXCEPT ![key] = held]
    <3>1. /\ run' \in [Keys -> Run]
          /\ run'[key].obj = r.obj /\ run'[key].observed = r.observed
          /\ run'[key].pc = "updateStatus" /\ run'[key].failed
          /\ \A other \in Keys : other # key => run'[other] = run[other]
      <4>1. Continue(key, Failed(r))
        BY <1>8
      <4>2. LET q == Failed(r)
            IN  /\ q \in Run /\ q.obj = r.obj /\ q.observed = r.observed
                /\ q.pc = "updateStatus" /\ q.failed
        BY <1>2, FailedFacts
      <4> HIDE DEF r
      <4> QED  BY <1>2, <4>1, <4>2, ContinueFacts
    <3>2. PlanIsSound(key)' /\ ~Working(key)' /\ r.observed <= r.obj.gen
      BY <1>1, <1>2, <3>1 DEF PlanIsSound, Working, ViewIsOld
    <3> QED  BY <1>6, <2>2, <3>1, <3>2
  <2> QED  BY <1>8, <2>1, <2>2
<1> QED  BY <1>7, <1>8 DEF AddFinalizer, Updated, NotOutdated

\* The entry of one owner changes, and it is the entry of a held object: the
\* view of the object the entry was made from cannot be wrong, only old.
LEMMA WriteConfigMapStep ==
  ASSUME IInv, NEW key \in Keys, WriteConfigMap(key)
  PROVE  IInv'
<1> DEFINE r       == run[key]
           written == [table |-> Desired(key, r).table, parses |-> TRUE,
                       stamp |-> IF r.seen = NoConfigMap THEN "none" ELSE "valid"]
           owner   == OwnerOf(key, r.obj)
           old     == TableOf(configMap)
           new     == Desired(key, r).table
<1>1. /\ UNCHANGED <<rules, births, damages, served, ownerEvent, queue>>
      /\ run[key].pc = "writeConfigMap"
  BY DEF WriteConfigMap, userVars
<1>2. /\ TypeOK /\ ViewIsOld(key) /\ PlanIsSound(key)
      /\ run \in [Keys -> Run] /\ r \in Run /\ r.obj \in Object /\ r.obj # NoObject
  BY <1>1, TypeFacts DEF IInv, ViewsAreOld, PlansAreSound, TypeOK
<1>3. CASE /\ UNCHANGED configMap /\ Continue(key, Failed(r))
           /\ Fault \/ UNCHANGED faults
  BY <1>1, <1>3, FailingStep
<1>4. CASE /\ configMap = r.seen /\ configMap' = written
           /\ Continue(key, Failed(r)) \/ Continue(key, Finished(r, r.state))
           /\ Fault \/ UNCHANGED faults
  <2>1. /\ "Ours" \in r.obj.finalizers /\ ~CannotApply(key, r) /\ r.state # "Ready"
    BY <1>1, <1>2 DEF PlanIsSound
  <2>2. /\ new \in Tables(Owners, Specs)
        /\ ClashFree(old) => ClashFree(new)
        /\ \A o : o # owner => /\ o \in DOMAIN new <=> o \in DOMAIN old
                               /\ o \in DOMAIN old => new[o] = old[o]
        /\ r.obj.deleting => owner \notin DOMAIN new
        /\ ~r.obj.deleting => owner \in DOMAIN new /\ new[owner] = r.obj.spec
    BY <1>2, <1>4, <2>1, DesiredTable
  <2>3. configMap' \in ConfigMap /\ TableOf(configMap)' = new
    <3> HIDE DEF new
    <3>1. written \in ConfigMap /\ written.table = new
      BY <2>2 DEF ConfigMap, new
    <3> HIDE DEF written
    <3> QED  BY <1>4, <3>1, ControllerAssumption DEF TableOf
  <2> HIDE DEF written, new
  <2>4. /\ run' \in [Keys -> Run]
        /\ run'[key].obj = r.obj /\ run'[key].observed = r.observed
        /\ run'[key].pc = "updateStatus"
        /\ ~run'[key].failed => run'[key].state # "Ready"
        /\ \A other \in Keys : other # key => run'[other] = run[other]
    <3>1. r.state \in States
      BY <1>2 DEF Run
    <3>2. CASE Continue(key, Failed(r))
      BY <1>2, <3>2, FailedFacts, ContinueFacts
    <3>3. CASE Continue(key, Finished(r, r.state))
      BY <1>2, <2>1, <3>1, <3>3, FinishedFacts, ContinueFacts
    <3> QED  BY <1>4, <3>2, <3>3
  <2>5. TypeOK'
    <3>1. \A other \in Keys : IF run'[other].pc = "idle" THEN run'[other] = Idle
                                                         ELSE run'[other].obj # NoObject
      BY <1>2, <2>4 DEF TypeOK
    <3>2. faults' \in 0 .. MaxFaults
      BY <1>2, <1>4, FaultInBounds
    <3> QED  BY <1>1, <1>2, <2>3, <2>4, <3>1, <3>2 DEF TypeOK
  <2>6. ViewIsOld(key)' /\ PlanIsSound(key)'
    BY <1>1, <1>2, <2>4, ReturningView DEF PlanIsSound
  <2>7. ASSUME NEW other \in Keys, other # key
        PROVE  /\ ViewIsOld(other)' /\ PlanIsSound(other)'
               /\ damages = 0 => Backed(other)'
    <3>1. \A uid : /\ <<other, uid>> \in DOMAIN new <=> <<other, uid>> \in DOMAIN old
                   /\ <<other, uid>> \in DOMAIN old => new[<<other, uid>>] = old[<<other, uid>>]
      BY <2>2, <2>7 DEF OwnerOf
    <3>2. ViewIsOld(other)' /\ PlanIsSound(other)'
      BY <1>1, <2>3, <2>4, <2>7, <3>1, OthersUndisturbed DEF IInv, ViewsAreOld, PlansAreSound
    <3>3. damages = 0 => Backed(other)'
      BY <1>1, <2>3, <3>1 DEF IInv, ReadyIsBacked, Backed, Live, InTable, OwnerOf
    <3> QED  BY <3>2, <3>3
  <2>8. /\ rules[key] # NoObject /\ rules[key].uid = r.obj.uid
        /\ "Ours" \in rules[key].finalizers
        /\ r.obj.gen = rules[key].gen => rules[key].spec = r.obj.spec
        /\ r.obj.deleting => rules[key].deleting
        /\ rules[key].observed <= r.obj.gen /\ r.obj.gen <= rules[key].gen
    BY <1>1, <1>2, <2>1 DEF ViewIsOld, Working
  \* A Ready rule has been reconciled at the generation this worker saw.
  <2>9. damages = 0 => Backed(key)'
    <3>1. SUFFICES ASSUME Live(key), rules[key].observed = rules[key].gen
                   PROVE  InTable(key)'
      BY <1>1 DEF Backed, Live
    <3>2. r.obj.gen \in Nat /\ rules[key].gen \in Nat
      BY <1>2, <2>8, TypeFacts DEF Object
    <3>3. r.obj.gen = rules[key].gen
      BY <2>8, <3>1, <3>2
    <3>4. owner \in DOMAIN new /\ new[owner] = rules[key].spec
      BY <2>2, <2>8, <3>1, <3>3 DEF Live
    <3> QED  BY <1>1, <2>3, <2>8, <3>4 DEF InTable, OwnerOf
  <2>10. NoOrphanEntry'
    <3> SUFFICES ASSUME NEW o \in DOMAIN new PROVE o \in Held'
      BY <2>3 DEF NoOrphanEntry
    <3>1. CASE o = owner
      <4>1. owner \in Owners /\ owner[1] = key /\ owner[2] = r.obj.uid
        BY <1>2, DesiredFacts DEF OwnerOf
      <4> QED  BY <1>1, <2>8, <3>1, <4>1 DEF Held
    <3>2. CASE o # owner
      BY <1>1, <2>2, <3>2 DEF IInv, NoOrphanEntry, Held
    <3> QED  BY <3>1, <3>2
  <2>11. ConfigMapClashFree'
    BY <2>2, <2>3 DEF IInv, ConfigMapClashFree
  <2>12. ReadyIsBacked'
    BY <1>1, <2>7, <2>9 DEF ReadyIsBacked
  <2> QED
    BY <2>5, <2>6, <2>7, <2>10, <2>11, <2>12 DEF IInv, ViewsAreOld, PlansAreSound
<1> QED  BY <1>3, <1>4 DEF WriteConfigMap, NotOutdated

\* A restart forgets every view and every plan.
LEMMA CrashStep ==
  ASSUME IInv, Crash
  PROVE  IInv'
<1>1. /\ UNCHANGED <<rules, births, configMap, damages, served, ownerEvent>>
      /\ run' = [key \in Keys |-> Idle]
      /\ queue' \subseteq Keys
      /\ TypeOK
  BY DEF Crash, userVars, IInv
<1>2. TypeOK'
  <2>1. faults' \in 0 .. MaxFaults
    BY <1>1, FaultInBounds DEF Crash
  <2> QED  BY <1>1, <2>1, IdleFacts DEF TypeOK
<1>3. ASSUME NEW key \in Keys PROVE ViewIsOld(key)' /\ PlanIsSound(key)'
  BY <1>1, IdleFacts DEF IInv, ViewsAreOld, ViewIsOld, PlanIsSound, Working
<1>4. NoOrphanEntry' /\ ConfigMapClashFree' /\ ReadyIsBacked'
  BY <1>1 DEF IInv, NoOrphanEntry, ConfigMapClashFree, ReadyIsBacked, Backed, Held, Live,
              InTable, TableOf, OwnerOf
<1> QED  BY <1>2, <1>3, <1>4 DEF IInv, ViewsAreOld, PlansAreSound

-----------------------------------------------------------------------------
(* Users and the environment *)

\* A step of a user on one object: the workers keep what they have.
LEMMA UserStep ==
  ASSUME IInv, NEW key \in Keys,
         UNCHANGED <<configMap, run, served, ownerEvent, faults, damages>>,
         queue' \subseteq Keys,
         births' \in [Keys -> 0 .. MaxIncarnations],
         rules' \in [Keys -> Object \cup {NoObject}],
         \A other \in Keys : other # key =>
            rules'[other] = rules[other] /\ births'[other] = births[other],
         rules'[key] # NoObject /\ rules'[key].deleting => rules'[key].finalizers # {},
         ViewIsOld(key)',
         damages = 0 => Backed(key)',
         rules[key] # NoObject /\ "Ours" \in rules[key].finalizers
           => /\ rules'[key] # NoObject /\ rules'[key].uid = rules[key].uid
              /\ "Ours" \in rules'[key].finalizers
  PROVE  IInv'
<1>1. TypeOK'
  <2>1. \A other \in Keys : rules'[other] # NoObject /\ rules'[other].deleting
                              => rules'[other].finalizers # {}
    BY DEF IInv, TypeOK
  <2> QED  BY <2>1 DEF IInv, TypeOK
<1>2. PlanIsSound(key)'
  BY DEF IInv, PlansAreSound, PlanIsSound, Entered, TableOf, OwnerOf
<1> QED  BY <1>1, <1>2, KeyStep

\* A new object has a uid no worker has seen.
LEMMA CreateRuleStep ==
  ASSUME IInv, NEW key \in Keys, NEW spec \in Specs, CreateRule(key, spec)
  PROVE  IInv'
<1> DEFINE uid == births[key] + 1
           new == NewObject(uid, spec)
<1>1. /\ rules[key] = NoObject /\ births[key] < MaxIncarnations
      /\ births' = [births EXCEPT ![key] = uid]
      /\ rules' = [rules EXCEPT ![key] = new]
      /\ queue' = queue \cup {key}
      /\ UNCHANGED <<configMap, run, served, ownerEvent, faults, damages>>
  BY DEF CreateRule
<1>2. /\ TypeOK /\ ViewIsOld(key) /\ births \in [Keys -> 0 .. MaxIncarnations]
      /\ rules \in [Keys -> Object \cup {NoObject}] /\ queue \subseteq Keys
      /\ MaxIncarnations \in Nat /\ run[key] \in Run
      /\ run[key].pc # "idle" => run[key].obj \in Object
  BY ControllerAssumption, TypeFacts DEF IInv, TypeOK, ViewsAreOld
<1>3. uid \in 1 .. MaxIncarnations /\ uid \in 0 .. MaxIncarnations
  BY <1>1, <1>2
<1>4. /\ new \in Object /\ new # NoObject
      /\ new.uid = uid /\ new.gen = 1 /\ new.observed = -1 /\ new.state = ""
      /\ ~new.deleting /\ new.finalizers = {}
  <2> HIDE DEF uid
  <2>1. new \in Object
    BY <1>3 DEF NewObject, Object, States, Finalizers
  <2> QED  BY <2>1, ControllerAssumption DEF NewObject
<1> HIDE DEF new
<1>5. /\ rules' \in [Keys -> Object \cup {NoObject}] /\ rules'[key] = new
      /\ births' \in [Keys -> 0 .. MaxIncarnations] /\ births'[key] = uid
      /\ \A other \in Keys : other # key =>
            rules'[other] = rules[other] /\ births'[other] = births[other]
  <2> HIDE DEF uid
  <2> QED  BY <1>1, <1>2, <1>3, <1>4
<1>6. ViewIsOld(key)'
  <2>1. run'[key] = run[key]
    BY <1>1
  <2>2. run[key].pc # "idle" => run[key].obj.uid < uid /\ run[key].obj.uid <= births'[key]
    BY <1>2, <1>3, <1>5 DEF ViewIsOld, Object
  <2>3. ~(Working(key) /\ "Ours" \in run[key].obj.finalizers)
    BY <1>1, <1>2 DEF ViewIsOld
  <2>4. Working(key) => run[key].obj.uid # uid
    BY <1>2, <1>3, <2>2 DEF Working, Object
  <2>5. Working(key)' = Working(key)
    BY <2>1 DEF Working
  <2>6. new.uid <= births'[key] /\ new.observed <= new.gen
    <3>1. uid <= uid /\ -1 <= 1
      BY <1>3
    <3> HIDE DEF uid
    <3> QED  BY <1>4, <1>5, <3>1
  <2>7. run[key].pc # "idle" =>
          /\ run[key].obj.observed <= run[key].obj.gen
          /\ run[key].observed <= run[key].obj.gen
          /\ run[key].obj.deleting => run[key].obj.finalizers # {}
    BY <1>2 DEF ViewIsOld
  <2>8. CASE ~Working(key)
    BY <1>5, <2>1, <2>2, <2>5, <2>6, <2>7, <2>8 DEF ViewIsOld
  <2>9. CASE Working(key)
    <3> HIDE DEF uid
    <3> QED  BY <1>4, <1>5, <2>1, <2>2, <2>3, <2>4, <2>5, <2>6, <2>7, <2>9 DEF ViewIsOld
  <2> QED  BY <2>8, <2>9
<1>7. Backed(key)'
  BY <1>4, <1>5 DEF Backed
<1> QED  BY <1>1, <1>2, <1>4, <1>5, <1>6, <1>7, UserStep

\* An edit makes the views of the object old: its generation passes theirs.
LEMMA EditRuleStep ==
  ASSUME IInv, NEW key \in Keys, NEW spec \in Specs, EditRule(key, spec)
  PROVE  IInv'
<1> DEFINE old == rules[key]
           new == [old EXCEPT !.spec = spec, !.gen = @ + 1]
<1>1. /\ old # NoObject
      /\ rules' = [rules EXCEPT ![key] = new]
      /\ queue' = queue \cup {key}
      /\ UNCHANGED <<births, configMap, run, served, ownerEvent, faults, damages>>
  BY DEF EditRule, userVars
<1>2. /\ TypeOK /\ ViewIsOld(key) /\ births \in [Keys -> 0 .. MaxIncarnations]
      /\ rules \in [Keys -> Object \cup {NoObject}] /\ queue \subseteq Keys
      /\ old \in Object /\ run[key] \in Run
      /\ run[key].pc # "idle" => run[key].obj \in Object
      /\ old.deleting => old.finalizers # {}
  BY <1>1, TypeFacts DEF IInv, TypeOK, ViewsAreOld
<1>3. /\ new \in Object /\ new # NoObject
      /\ new.uid = old.uid /\ new.gen = old.gen + 1 /\ new.observed = old.observed
      /\ new.deleting = old.deleting /\ new.finalizers = old.finalizers
  <2>1. old.gen + 1 \in Nat
    BY <1>2 DEF Object
  <2>2. new \in Object
    BY <1>2, <2>1 DEF Object
  <2> QED  BY <1>2, <2>2, ControllerAssumption DEF Object
<1> HIDE DEF new
<1>4. /\ rules' \in [Keys -> Object \cup {NoObject}] /\ rules'[key] = new
      /\ \A other \in Keys : other # key => rules'[other] = rules[other]
  BY <1>1, <1>2, <1>3
<1>5. old.gen \in Nat /\ old.observed \in Int /\ old.observed <= old.gen
  BY <1>1, <1>2 DEF Object, ViewIsOld
<1>6. ViewIsOld(key)'
  <2>1. run[key].pc # "idle" => run[key].obj.gen \in Nat
    BY <1>2 DEF Object
  <2> QED  BY <1>1, <1>2, <1>3, <1>4, <1>5, <2>1 DEF ViewIsOld, Working
<1>7. Backed(key)'
  BY <1>3, <1>4, <1>5 DEF Backed
<1> QED  BY <1>1, <1>2, <1>3, <1>4, <1>6, <1>7, UserStep

\* So does a deletion; an object that goes at once carries no finalizer.
LEMMA DeleteRuleStep ==
  ASSUME IInv, NEW key \in Keys, NEW foreground \in BOOLEAN, DeleteRule(key, foreground)
  PROVE  IInv'
<1> DEFINE old  == rules[key]
           left == old.finalizers \cup (IF foreground THEN {"Foreign"} ELSE {})
           new  == [old EXCEPT !.deleting = TRUE, !.gen = @ + 1, !.finalizers = left]
<1>1. /\ old # NoObject
      /\ rules' = [rules EXCEPT ![key] = IF left = {} THEN NoObject ELSE new]
      /\ queue' = queue \cup {key}
      /\ UNCHANGED <<births, configMap, run, served, ownerEvent, faults, damages>>
  BY DEF DeleteRule, userVars
<1>2. /\ TypeOK /\ ViewIsOld(key) /\ births \in [Keys -> 0 .. MaxIncarnations]
      /\ rules \in [Keys -> Object \cup {NoObject}] /\ queue \subseteq Keys
      /\ old \in Object /\ run[key] \in Run
      /\ run[key].pc # "idle" => run[key].obj \in Object
  BY <1>1, TypeFacts DEF IInv, TypeOK, ViewsAreOld
<1>3. left \subseteq Finalizers /\ ("Ours" \in left <=> "Ours" \in old.finalizers)
  BY <1>2 DEF Object, Finalizers
<1> HIDE DEF left
<1>4. /\ new \in Object /\ new # NoObject
      /\ new.uid = old.uid /\ new.gen = old.gen + 1 /\ new.observed = old.observed
      /\ new.deleting /\ new.finalizers = left
  <2>1. old.gen + 1 \in Nat
    BY <1>2 DEF Object
  <2>2. new \in Object
    BY <1>2, <1>3, <2>1 DEF Object
  <2> QED  BY <1>2, <2>2, ControllerAssumption DEF Object
<1> HIDE DEF new
<1>5. old.gen \in Nat /\ old.observed \in Int /\ old.observed <= old.gen
  BY <1>1, <1>2 DEF Object, ViewIsOld
<1>6. /\ rules' \in [Keys -> Object \cup {NoObject}]
      /\ rules'[key] = IF left = {} THEN NoObject ELSE new
      /\ \A other \in Keys : other # key => rules'[other] = rules[other]
  BY <1>1, <1>2, <1>4
<1>7. ViewIsOld(key)'
  <2>1. run[key].pc # "idle" => run[key].obj.gen \in Nat
    BY <1>2 DEF Object
  <2>2. CASE left = {}
    BY <1>1, <1>2, <1>3, <1>6, <2>2 DEF ViewIsOld, Working
  <2>3. CASE left # {}
    BY <1>1, <1>2, <1>3, <1>4, <1>5, <1>6, <2>1, <2>3 DEF ViewIsOld, Working
  <2> QED  BY <2>2, <2>3
<1>8. Backed(key)'
  BY <1>4, <1>6 DEF Backed, Live
<1> QED  BY <1>1, <1>2, <1>3, <1>4, <1>6, <1>7, <1>8, UserStep

\* The other finalizers do not matter but for an object that goes with them.
LEMMA DropForeignFinalizerStep ==
  ASSUME IInv, NEW key \in Keys, DropForeignFinalizer(key)
  PROVE  IInv'
<1> DEFINE old  == rules[key]
           left == old.finalizers \ {"Foreign"}
           gone == old.deleting /\ left = {}
           new  == [old EXCEPT !.finalizers = left]
<1>1. /\ old # NoObject
      /\ rules' = [rules EXCEPT ![key] = IF gone THEN NoObject ELSE new]
      /\ queue' = IF gone THEN queue \cup {key} ELSE queue
      /\ UNCHANGED <<births, configMap, run, served, ownerEvent, faults, damages>>
  BY DEF DropForeignFinalizer, userVars
<1>2. /\ TypeOK /\ ViewIsOld(key) /\ births \in [Keys -> 0 .. MaxIncarnations]
      /\ rules \in [Keys -> Object \cup {NoObject}] /\ queue \subseteq Keys
      /\ old \in Object
  BY <1>1, TypeFacts DEF IInv, TypeOK, ViewsAreOld
<1>3. left \subseteq Finalizers /\ ("Ours" \in left <=> "Ours" \in old.finalizers)
  BY <1>2 DEF Object, Finalizers
<1> HIDE DEF left
<1>4. /\ new \in Object /\ new # NoObject
      /\ new.uid = old.uid /\ new.gen = old.gen /\ new.observed = old.observed
      /\ new.spec = old.spec /\ new.state = old.state
      /\ new.deleting = old.deleting /\ new.finalizers = left
  <2>1. new \in Object
    BY <1>2, <1>3 DEF Object
  <2> QED  BY <1>2, <2>1, ControllerAssumption DEF Object
<1> HIDE DEF new
<1>5. /\ rules' \in [Keys -> Object \cup {NoObject}]
      /\ rules'[key] = IF gone THEN NoObject ELSE new
      /\ \A other \in Keys : other # key => rules'[other] = rules[other]
  BY <1>1, <1>2, <1>4
<1>6. ViewIsOld(key)'
  <2>1. CASE gone
    BY <1>1, <1>2, <1>3, <1>5, <2>1 DEF ViewIsOld, Working
  <2>2. CASE ~gone
    BY <1>1, <1>2, <1>3, <1>4, <1>5, <2>2 DEF ViewIsOld, Working
  <2> QED  BY <2>1, <2>2
<1>7. damages = 0 => Backed(key)'
  <2>1. damages = 0 => Backed(key)
    BY DEF IInv, ReadyIsBacked
  <2> QED  BY <1>1, <1>4, <1>5, <2>1 DEF Backed, Live, InTable, OwnerOf, TableOf
<1>8. queue' \subseteq Keys
  BY <1>1, <1>2
<1>9. rules'[key] # NoObject /\ rules'[key].deleting => rules'[key].finalizers # {}
  BY <1>4, <1>5
<1>10. "Ours" \in old.finalizers => ~gone
  BY <1>3
<1> QED  BY <1>1, <1>2, <1>3, <1>4, <1>5, <1>6, <1>7, <1>8, <1>9, <1>10, UserStep

\* Whatever is done to the config map, it holds the table it held before or
\* none at all, and the promises about its content end.
LEMMA DamagedFacts ==
  ASSUME configMap \in ConfigMap, NEW kind \in DamageKinds
  PROVE  /\ Damaged(kind) \in ConfigMap \cup {NoConfigMap}
         /\ \/ TableOf(Damaged(kind)) = TableOf(configMap)
            \/ TableOf(Damaged(kind)) = EmptyTable
<1>1. /\ configMap.table \in Tables(Owners, Specs)
      /\ EmptyTable \in Tables(Owners, Specs) /\ configMap # NoConfigMap
  BY EmptyTableIsTable, ControllerAssumption DEF ConfigMap
<1>2. CASE kind = "deleted"
  BY <1>2 DEF Damaged, TableOf
<1>3. CASE kind = "overwritten"
  <2> DEFINE cm == [configMap EXCEPT !.table = EmptyTable, !.parses = FALSE]
  <2>1. cm \in ConfigMap /\ cm.table = EmptyTable
    BY <1>1 DEF ConfigMap
  <2>2. Damaged(kind) = cm
    BY <1>3 DEF Damaged
  <2> HIDE DEF cm
  <2> QED  BY <2>1, <2>2, ControllerAssumption DEF TableOf
<1>4. CASE kind = "garbled"
  <2> DEFINE cm == [configMap EXCEPT !.parses = FALSE]
  <2>1. cm \in ConfigMap /\ cm.table = configMap.table
    BY <1>1 DEF ConfigMap
  <2>2. Damaged(kind) = cm
    BY <1>4 DEF Damaged
  <2> HIDE DEF cm
  <2> QED  BY <1>1, <2>1, <2>2, ControllerAssumption DEF TableOf
<1>5. CASE kind = "misstamped"
  <2> DEFINE cm == [configMap EXCEPT !.stamp = "invalid"]
  <2>1. cm \in ConfigMap /\ cm.table = configMap.table
    BY <1>1 DEF ConfigMap
  <2>2. Damaged(kind) = cm
    BY <1>5 DEF Damaged
  <2> HIDE DEF cm
  <2> QED  BY <1>1, <2>1, <2>2, ControllerAssumption DEF TableOf
<1> QED  BY <1>2, <1>3, <1>4, <1>5, ControllerAssumption

\* Damage keeps or empties the table and ends the promises on its content.
LEMMA DamageConfigMapStep ==
  ASSUME IInv, DamageConfigMap
  PROVE  IInv'
<1>1. /\ UNCHANGED <<rules, births, queue, run, served, ownerEvent, faults>>
      /\ damages < MaxDamages /\ damages' = damages + 1
      /\ configMap # NoConfigMap /\ TypeOK
  BY DEF DamageConfigMap, IInv
<1>2. PICK kind \in DamageKinds : configMap' = Damaged(kind)
  BY DEF DamageConfigMap
<1>3. /\ configMap' \in ConfigMap \cup {NoConfigMap}
      /\ \/ TableOf(configMap)' = TableOf(configMap)
         \/ TableOf(configMap)' = EmptyTable
  <2>1. configMap \in ConfigMap
    BY <1>1 DEF TypeOK
  <2>2. TableOf(configMap)' = TableOf(configMap')
    BY DEF TableOf
  <2> QED  BY <1>2, <2>1, <2>2, DamagedFacts
<1>4. DOMAIN EmptyTable = {}
  BY DEF EmptyTable
<1>5. damages' \in 0 .. MaxDamages /\ damages' # 0
  <2>1. MaxDamages \in Nat
    BY ControllerAssumption
  <2>2. damages \in 0 .. MaxDamages
    BY <1>1 DEF TypeOK
  <2> QED  BY <1>1, <2>1, <2>2
<1>6. TypeOK'
  BY <1>1, <1>3, <1>5 DEF TypeOK
<1>7. NoOrphanEntry'
  BY <1>1, <1>3, <1>4 DEF IInv, NoOrphanEntry, Held
<1>8. ConfigMapClashFree'
  BY <1>3, <1>4 DEF IInv, ConfigMapClashFree, ClashFree
<1>9. ReadyIsBacked'
  BY <1>5 DEF ReadyIsBacked
<1>10. ASSUME NEW key \in Keys PROVE ViewIsOld(key)' /\ PlanIsSound(key)'
  <2>1. ViewIsOld(key)'
    BY <1>1 DEF IInv, ViewsAreOld, ViewIsOld, Working
  <2>2. PlanIsSound(key)'
    BY <1>1, <1>3, <1>4, <1>5 DEF IInv, PlansAreSound, PlanIsSound
  <2> QED  BY <2>1, <2>2
<1> QED  BY <1>6, <1>7, <1>8, <1>9, <1>10 DEF IInv, ViewsAreOld, PlansAreSound

\* A repair takes out what cannot be read and leaves every entry where it is.
LEMMA RepairedFacts ==
  ASSUME IInv, RepairConfigMap
  PROVE  /\ configMap' \in ConfigMap
         /\ TableOf(configMap)' = TableOf(configMap)
<1> DEFINE repaired == [configMap EXCEPT !.parses = TRUE,
                                         !.stamp = IF @ = "invalid" THEN "none" ELSE @]
<1>1. configMap # NoConfigMap /\ configMap' = repaired
  BY DEF RepairConfigMap, Legible, Parses, InvalidStamp
<1>2. configMap \in ConfigMap
  BY <1>1 DEF IInv, TypeOK
<1>3. repaired \in ConfigMap /\ repaired.table = configMap.table
  BY <1>2 DEF ConfigMap
<1>4. repaired # NoConfigMap
  BY <1>3, ControllerAssumption
<1> HIDE DEF repaired
<1> QED  BY <1>1, <1>3, <1>4 DEF TableOf

LEMMA RepairConfigMapStep ==
  ASSUME IInv, RepairConfigMap
  PROVE  IInv'
<1>1. UNCHANGED <<rules, births, queue, run, served, ownerEvent, faults, damages>>
  BY DEF RepairConfigMap, userVars
<1>2. configMap' \in ConfigMap /\ TableOf(configMap)' = TableOf(configMap)
  BY RepairedFacts
<1>3. TypeOK'
  BY <1>1, <1>2 DEF IInv, TypeOK
<1>4. NoOrphanEntry' /\ ConfigMapClashFree'
  BY <1>1, <1>2 DEF IInv, NoOrphanEntry, ConfigMapClashFree, ClashFree, Held
<1>5. ReadyIsBacked'
  BY <1>1, <1>2 DEF IInv, ReadyIsBacked, Backed, Live, InTable, OwnerOf
<1>6. ASSUME NEW key \in Keys PROVE ViewIsOld(key)' /\ PlanIsSound(key)'
  <2>1. ViewIsOld(key)'
    BY <1>1 DEF IInv, ViewsAreOld, ViewIsOld, Working
  <2>2. Entered(key)' = Entered(key)
    BY <1>1, <1>2 DEF Entered, OwnerOf
  <2>3. PlanIsSound(key)'
    BY <1>1, <1>2, <2>2 DEF IInv, PlansAreSound, PlanIsSound, OwnerOf
  <2> QED  BY <2>1, <2>3
<1> QED  BY <1>3, <1>4, <1>5, <1>6 DEF IInv, ViewsAreOld, PlansAreSound

\* The endpoints' rule sets matter to no promise on the config map.
LEMMA ReloadStep ==
  ASSUME IInv, NEW endpoint \in Endpoints, Reload(endpoint)
  PROVE  IInv'
<1>1. UNCHANGED <<rules, births, configMap, queue, run, ownerEvent, faults, damages>>
  BY DEF Reload, userVars
<1>2. served' \in [Endpoints -> Tables(Owners, Specs)]
  <2>1. TableOf(configMap) \in Tables(Owners, Specs)
    BY EmptyTableIsTable DEF IInv, TypeOK, TableOf, ConfigMap
  <2> QED  BY <2>1 DEF IInv, TypeOK, Reload
<1>3. TypeOK'
  BY <1>1, <1>2 DEF IInv, TypeOK
<1>4. ASSUME NEW key \in Keys PROVE ViewIsOld(key)' /\ PlanIsSound(key)'
  BY <1>1 DEF IInv, ViewsAreOld, PlansAreSound, ViewIsOld, PlanIsSound, Working, Entered,
              TableOf, OwnerOf
<1>5. NoOrphanEntry' /\ ConfigMapClashFree' /\ ReadyIsBacked'
  BY <1>1 DEF IInv, NoOrphanEntry, ConfigMapClashFree, ReadyIsBacked, Backed, Held, Live,
              InTable, TableOf, OwnerOf
<1> QED  BY <1>3, <1>4, <1>5 DEF IInv, ViewsAreOld, PlansAreSound

-----------------------------------------------------------------------------
(* The invariant holds initially and is kept by every step *)

\* Nothing is stored, entered or under way at first.
LEMMA InitInvariant ==
  ASSUME Init
  PROVE  IInv
<1>1. TableOf(configMap) = EmptyTable /\ DOMAIN EmptyTable = {}
  BY DEF Init, TableOf, EmptyTable
<1>2. TypeOK
  <2>1. 0 \in 0 .. MaxIncarnations /\ 0 \in 0 .. MaxFaults /\ 0 \in 0 .. MaxDamages
    <3>1. MaxIncarnations \in Nat /\ MaxFaults \in Nat /\ MaxDamages \in Nat
      BY ControllerAssumption
    <3> QED  BY <3>1
  <2>2. EmptyTable \in Tables(Owners, Specs)
    BY EmptyTableIsTable
  <2>3. \A key \in Keys : rules[key] = NoObject /\ run[key] = Idle
    BY DEF Init
  <2>4. rules \in [Keys -> Object \cup {NoObject}] /\ run \in [Keys -> Run]
    BY IdleFacts DEF Init
  <2>5. /\ births \in [Keys -> 0 .. MaxIncarnations]
        /\ faults \in 0 .. MaxFaults /\ damages \in 0 .. MaxDamages
    BY <2>1 DEF Init
  <2>6. /\ served \in [Endpoints -> Tables(Owners, Specs)]
        /\ ownerEvent \in [Keys -> {"", "ReconciliationSucceeded", "ReconciliationFailed"}]
        /\ configMap = NoConfigMap /\ queue = {}
    BY <2>2 DEF Init
  <2> QED  BY <2>3, <2>4, <2>5, <2>6, IdleFacts DEF TypeOK
<1>3. NoOrphanEntry /\ ConfigMapClashFree
  BY <1>1 DEF NoOrphanEntry, ConfigMapClashFree, ClashFree
<1>4. ReadyIsBacked
  BY DEF Init, ReadyIsBacked, Backed, Live
<1>5. ViewsAreOld /\ PlansAreSound
  BY IdleFacts DEF Init, ViewsAreOld, ViewIsOld, PlansAreSound, PlanIsSound, Working
<1> QED  BY <1>2, <1>3, <1>4, <1>5 DEF IInv

\* The invariant depends on the variables alone.
LEMMA StutteringStep ==
  ASSUME IInv, UNCHANGED vars
  PROVE  IInv'
<1> USE DEF vars, userVars
<1>1. TypeOK'
  BY DEF IInv, TypeOK
<1>2. NoOrphanEntry' /\ ConfigMapClashFree'
  BY DEF IInv, NoOrphanEntry, ConfigMapClashFree, Held, TableOf
<1>3. ReadyIsBacked'
  BY DEF IInv, ReadyIsBacked, Backed, Live, InTable, TableOf, OwnerOf
<1>4. ViewsAreOld'
  BY DEF IInv, ViewsAreOld, ViewIsOld, Working
<1>5. PlansAreSound'
  BY DEF IInv, PlansAreSound, PlanIsSound, Working, Entered, TableOf, OwnerOf
<1> QED  BY <1>1, <1>2, <1>3, <1>4, <1>5 DEF IInv

\* Every step keeps the invariant.
LEMMA NextInvariant ==
  ASSUME IInv, [Next]_vars
  PROVE  IInv'
<1>1. ASSUME NEW key \in Keys, Step(key) PROVE IInv'
  BY <1>1, StartReconcileStep, ReadConfigMapStep, AddFinalizerStep, WriteConfigMapStep,
     CheckRecordStep, ClearFinalizerStep, UpdateStatusStep DEF Step
<1>2. ASSUME NEW key \in Keys, Use(key) PROVE IInv'
  BY <1>2, CreateRuleStep, EditRuleStep, DeleteRuleStep, DropForeignFinalizerStep DEF Use
<1>3. ASSUME NEW endpoint \in Endpoints, Reload(endpoint) PROVE IInv'
  BY <1>3, ReloadStep
<1> QED  BY <1>1, <1>2, <1>3, CrashStep, DamageConfigMapStep, RepairConfigMapStep,
       StutteringStep DEF Next

\* The inductive invariant holds of the controller: the promises below and, in
\* ViewsAreOld and PlansAreSound, what each worker may still rely on.
THEOREM Invariant == Spec => []IInv
<1>1. Init => IInv
  BY InitInvariant
<1>2. IInv /\ [Next]_vars => IInv'
  BY NextInvariant
<1> QED  BY <1>1, <1>2, PTL DEF Spec

\* Every variable of the controller keeps its type.
THEOREM TypeCorrect == Spec => []TypeOK
<1>1. IInv => TypeOK
  BY DEF IInv
<1> QED  BY <1>1, Invariant, PTL

\* Reconcile adds the finalizer before the entry and removes the entry before
\* the finalizer: no object leaves an entry behind in the config map.
THEOREM NoOrphans == Spec => []NoOrphanEntry
<1>1. IInv => NoOrphanEntry
  BY DEF IInv
<1> QED  BY <1>1, Invariant, PTL

\* The rule sources in the config map never clash, with any number of workers.
THEOREM NoClashes == Spec => []ConfigMapClashFree
<1>1. IInv => ConfigMapClashFree
  BY DEF IInv
<1> QED  BY <1>1, Invariant, PTL

\* A rule that reports Ready for its current generation has its entry.
THEOREM ReadyMeansEntered == Spec => []ReadyIsBacked
<1>1. IInv => ReadyIsBacked
  BY DEF IInv
<1> QED  BY <1>1, Invariant, PTL

\* A worker's view of its object may be outdated but is never wrong, whatever
\* users, other workers, crashes and lost answers do meanwhile.
THEOREM ViewsStayOld == Spec => []ViewsAreOld
<1>1. IInv => ViewsAreOld
  BY DEF IInv
<1> QED  BY <1>1, Invariant, PTL

\* What Reconcile has established before a call still holds when the call is
\* made, however many steps of others lie in between.
THEOREM PlansStaySound == Spec => []PlansAreSound
<1>1. IInv => PlansAreSound
  BY DEF IInv
<1> QED  BY <1>1, Invariant, PTL

\* Whatever name is looked up, coredns finds at most one rule for it in the
\* config map the workers have written.
THEOREM OneRulePerHost == Spec => [](Unambiguous(TableOf(configMap), Name))
<1>1. IInv => Unambiguous(TableOf(configMap), Name)
  <2> SUFFICES ASSUME IInv PROVE Unambiguous(TableOf(configMap), Name)
    OBVIOUS
  <2> DEFINE table == TableOf(configMap)
  <2>1. table \in Tables(Owners, Specs)
    BY EmptyTableIsTable DEF IInv, TypeOK, TableOf, ConfigMap
  <2>2. ClashFree(table)
    BY DEF IInv, ConfigMapClashFree
  <2> HIDE DEF table
  <2>3. \A o \in DOMAIN table : table[o].from \in Name
    BY <2>1, TablesDef, ControllerAssumption DEF Rule
  <2>4. Unambiguous(table, Name)
    BY <2>2, <2>3, ClashFreeIsUnambiguous
  <2> QED  BY <2>4 DEF table
<1> QED  BY <1>1, Invariant, PTL

=============================================================================
