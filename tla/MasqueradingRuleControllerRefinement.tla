--------------- MODULE MasqueradingRuleControllerRefinement ---------------
(***************************************************************************)
(* MasqueradingRuleController implements RewriteTable: adding a finalizer  *)
(* is Hold, writing the config map is Register or Withdraw, clearing the   *)
(* finalizer is Release, damage to the config map is Damage, and no other  *)
(* step touches the table or the held owners.  The inductive invariant     *)
(* says why a write that was planned long ago is still one of these steps  *)
(* when it goes through.                                                   *)
(***************************************************************************)
EXTENDS MasqueradingRuleControllerProofs

\* RewriteTable's operators on rules, instantiated here, are the controller's.
LEMMA AbstractOperators ==
  ASSUME NEW t, NEW owner, NEW rule
  PROVE  /\ Abstract!Conflicts(t, owner, rule) = Conflicts(t, owner, rule)
         /\ Abstract!Put(t, owner, rule) = Put(t, owner, rule)
         /\ Abstract!RemoveRule(t, owner) = RemoveRule(t, owner)
         /\ Abstract!EmptyTable = EmptyTable
<1>1. \A from, host : Abstract!Matches(from, host) <=> Matches(from, host)
  BY DEF Abstract!Matches, Matches, Abstract!IsWildcard, IsWildcard
<1>2. Abstract!Conflicts(t, owner, rule) = Conflicts(t, owner, rule)
  BY <1>1 DEF Abstract!Conflicts, Conflicts, Abstract!Clash, Clash
<1> QED
  BY <1>2 DEF Abstract!Put, Put, Abstract!RemoveRule, RemoveRule, Abstract!EmptyTable, EmptyTable

\* A step that leaves the table alone and one key's finalizer with its object is
\* a stuttering step of RewriteTable.
LEMMA AbstractStutter ==
  ASSUME NEW key \in Keys,
         configMap' = configMap,
         \A other \in Keys : other # key => rules'[other] = rules[other],
         \A uid : (rules'[key] # NoObject /\ rules'[key].uid = uid
                     /\ "Ours" \in rules'[key].finalizers)
              <=> (rules[key] # NoObject /\ rules[key].uid = uid
                     /\ "Ours" \in rules[key].finalizers)
  PROVE  UNCHANGED Abstract!vars
<1>1. Held' = Held
  <2>1. ASSUME NEW owner \in Owners PROVE owner \in Held' <=> owner \in Held
    <3>1. owner[1] \in Keys
      BY DEF Owners
    <3> QED  BY <3>1 DEF Held
  <2> QED  BY <2>1 DEF Held
<1> QED  BY <1>1 DEF Abstract!vars, TableOf

\* The finalizer is added to the object as it was read: Hold.
LEMMA AddFinalizerRefines ==
  ASSUME IInv, NEW key \in Keys, AddFinalizer(key)
  PROVE  Abstract!Next \/ UNCHANGED Abstract!vars
<1> DEFINE obj   == run[key].obj
           held  == [obj EXCEPT !.finalizers = @ \cup {"Ours"}]
           owner == OwnerOf(key, obj)
<1>1. /\ configMap' = configMap
      /\ \/ rules' = rules
         \/ rules[key] = obj /\ rules' = [rules EXCEPT ![key] = held]
  BY DEF AddFinalizer, NotOutdated
<1>2. /\ obj \in Object /\ obj # NoObject /\ "Ours" \notin obj.finalizers
      /\ rules \in [Keys -> Object \cup {NoObject}]
  BY TypeFacts DEF IInv, TypeOK, AddFinalizer, PlansAreSound, PlanIsSound, NeedsFinalizer
<1>3. held # NoObject /\ held.uid = obj.uid /\ "Ours" \in held.finalizers
  <2>1. held \in Object
    BY <1>2 DEF Object, Finalizers
  <2> QED  BY <1>2, <2>1, ControllerAssumption DEF Object
<1>4. owner \in Owners /\ owner[1] = key /\ owner[2] = obj.uid
  BY <1>2 DEF OwnerOf, Owners, Object
<1> HIDE DEF held, owner
<1>5. CASE rules' = rules
  BY <1>1, <1>5, AbstractStutter
<1>6. CASE rules[key] = obj /\ rules' = [rules EXCEPT ![key] = held]
  <2>1. owner \notin Held
    BY <1>2, <1>4, <1>6 DEF Held
  <2>2. rules'[key] = held /\ \A other \in Keys : other # key => rules'[other] = rules[other]
    BY <1>2, <1>6
  <2>3. ASSUME NEW o \in Owners PROVE o \in Held' <=> o \in Held \/ o = owner
    <3>1. o[1] \in Keys /\ o = <<o[1], o[2]>> /\ owner = <<key, obj.uid>>
      BY DEF Owners, OwnerOf, owner
    <3>2. CASE o[1] = key
      BY <1>2, <1>3, <1>6, <2>2, <3>1, <3>2 DEF Held
    <3>3. CASE o[1] # key
      BY <1>4, <2>2, <3>1, <3>3 DEF Held
    <3> QED  BY <3>2, <3>3
  <2>4. Held' = Held \cup {owner}
    BY <1>4, <2>3 DEF Held
  <2>5. Abstract!Hold(owner)
    BY <1>1, <2>1, <2>4 DEF Abstract!Hold, TableOf
  <2> QED  BY <1>4, <2>5 DEF Abstract!Next
<1> QED  BY <1>1, <1>5, <1>6

\* The finalizer is cleared when no entry is left: Release.
LEMMA ClearFinalizerRefines ==
  ASSUME IInv, NEW key \in Keys, ClearFinalizer(key)
  PROVE  Abstract!Next \/ UNCHANGED Abstract!vars
<1> DEFINE obj   == run[key].obj
           owner == OwnerOf(key, obj)
<1>1. /\ configMap' = configMap
      /\ \/ rules' = rules
         \/ rules[key] = obj /\ rules' = [rules EXCEPT ![key] = NoObject]
  BY DEF ClearFinalizer, NotOutdated
<1>2. /\ obj \in Object /\ obj # NoObject /\ "Ours" \in obj.finalizers
      /\ owner \notin DOMAIN TableOf(configMap)
      /\ rules \in [Keys -> Object \cup {NoObject}]
  BY TypeFacts DEF IInv, TypeOK, ClearFinalizer, PlansAreSound, PlanIsSound
<1>3. owner \in Owners /\ owner[1] = key /\ owner[2] = obj.uid
  BY <1>2 DEF OwnerOf, Owners, Object
<1> HIDE DEF owner
<1>4. CASE rules' = rules
  BY <1>1, <1>4, AbstractStutter
<1>5. CASE rules[key] = obj /\ rules' = [rules EXCEPT ![key] = NoObject]
  <2>1. owner \in Held
    BY <1>2, <1>3, <1>5 DEF Held
  <2>2. rules'[key] = NoObject /\ \A other \in Keys : other # key => rules'[other] = rules[other]
    BY <1>2, <1>5
  <2>3. ASSUME NEW o \in Owners PROVE o \in Held' <=> o \in Held /\ o # owner
    <3>1. o[1] \in Keys /\ o = <<o[1], o[2]>> /\ owner = <<key, obj.uid>>
      BY DEF Owners, OwnerOf, owner
    <3>2. CASE o[1] = key
      BY <1>2, <1>5, <2>2, <3>1, <3>2 DEF Held
    <3>3. CASE o[1] # key
      BY <1>3, <2>2, <3>1, <3>3 DEF Held
    <3> QED  BY <3>2, <3>3
  <2>4. Held' = Held \ {owner}
    BY <1>3, <2>3 DEF Held
  <2>5. Abstract!Release(owner)
    BY <1>1, <1>2, <2>1, <2>4 DEF Abstract!Release, TableOf
  <2> QED  BY <1>3, <2>5 DEF Abstract!Next
<1> QED  BY <1>1, <1>4, <1>5

\* The config map is written as it was read, with one change: Register or
\* Withdraw of the object's owner, who is still held.
LEMMA WriteConfigMapRefines ==
  ASSUME IInv, NEW key \in Keys, WriteConfigMap(key)
  PROVE  Abstract!Next \/ UNCHANGED Abstract!vars
<1> DEFINE r     == run[key]
           owner == OwnerOf(key, r.obj)
           old   == TableOf(configMap)
           new   == Desired(key, r).table
           written == [table |-> new, parses |-> TRUE,
                       stamp |-> IF r.seen = NoConfigMap THEN "none" ELSE "valid"]
<1>1. /\ rules' = rules
      /\ \/ configMap' = configMap
         \/ configMap = r.seen /\ configMap' = written
  BY DEF WriteConfigMap, NotOutdated
<1>2. /\ r \in Run /\ r.obj \in Object /\ r.obj # NoObject
      /\ "Ours" \in r.obj.finalizers /\ ~CannotApply(key, r) /\ Desired(key, r).changed
      /\ ViewIsOld(key) /\ Working(key)
  BY TypeFacts DEF IInv, WriteConfigMap, ViewsAreOld, PlansAreSound, PlanIsSound, Working
<1>3. owner \in Held /\ owner \in Owners /\ r.obj.spec \in Specs
  <2>1. owner \in Owners /\ owner[1] = key /\ owner[2] = r.obj.uid /\ r.obj.spec \in Specs
    BY <1>2 DEF OwnerOf, Owners, Object
  <2> HIDE DEF owner
  <2> QED  BY <1>2, <2>1 DEF ViewIsOld, Held
<1>4. CASE configMap' = configMap
  BY <1>1, <1>4, AbstractStutter
<1>5. CASE configMap = r.seen /\ configMap' = written
  <2>1. /\ old \in Tables(Owners, Specs) /\ new \in Tables(Owners, Specs)
        /\ ParsedTable(r.seen) = old
    BY <1>2, <1>5, DesiredFacts
  <2>2. TableOf(configMap)' = new
    <3> HIDE DEF new
    <3>1. written \in ConfigMap /\ written.table = new
      BY <2>1 DEF ConfigMap
    <3> HIDE DEF written
    <3> QED  BY <1>5, <3>1, ControllerAssumption DEF TableOf
  <2>3. Held' = Held
    BY <1>1 DEF Held
  <2> HIDE DEF written
  <2>4. CASE r.obj.deleting
    <3>1. new = RemoveRule(old, owner).table /\ RemoveRule(old, owner).changed
      BY <1>2, <2>1, <2>4 DEF Desired
    <3>2. owner \in DOMAIN old
      BY <3>1 DEF RemoveRule
    <3> HIDE DEF owner, new, old
    <3>3. Abstract!Withdraw(owner)
      BY <1>3, <2>2, <2>3, <3>1, <3>2, AbstractOperators DEF Abstract!Withdraw, old
    <3> QED  BY <1>3, <3>3 DEF Abstract!Next
  <2>5. CASE ~r.obj.deleting
    <3>1. Desired(key, r) = AddRule(old, owner, r.obj.spec)
      BY <2>1, <2>5 DEF Desired
    <3>2. ~Desired(key, r).err
      BY <1>2 DEF CannotApply
    <3>3. Conflicts(old, owner, r.obj.spec) = {} /\ new = Put(old, owner, r.obj.spec)
      <4> HIDE DEF owner, old
      <4> QED  BY <3>1, <3>2 DEF AddRule
    <3> HIDE DEF owner, new, old
    <3>4. Abstract!Register(owner, r.obj.spec)
      BY <1>3, <2>2, <2>3, <3>3, AbstractOperators DEF Abstract!Register, old
    <3> QED  BY <1>3, <3>4 DEF Abstract!Next
  <2> QED  BY <2>4, <2>5
<1> QED  BY <1>1, <1>4, <1>5

\* The status leaves the finalizer alone.
LEMMA UpdateStatusRefines ==
  ASSUME IInv, NEW key \in Keys, UpdateStatus(key)
  PROVE  UNCHANGED Abstract!vars
<1> DEFINE r       == run[key]
           written == [r.obj EXCEPT !.state = IF r.failed THEN "Error" ELSE r.state,
                                    !.observed = r.observed]
<1>1. /\ configMap' = configMap
      /\ \/ rules' = rules
         \/ rules[key] = r.obj /\ rules' = [rules EXCEPT ![key] = written]
  BY DEF UpdateStatus, NotOutdated
<1>2. /\ r \in Run /\ r.obj \in Object /\ r.obj # NoObject
      /\ rules \in [Keys -> Object \cup {NoObject}]
  BY TypeFacts DEF IInv, TypeOK, UpdateStatus
<1>3. written # NoObject /\ written.uid = r.obj.uid /\ written.finalizers = r.obj.finalizers
  <2>1. written \in Object
    <3>1. r.observed \in Int /\ (IF r.failed THEN "Error" ELSE r.state) \in States
      BY <1>2 DEF Run, States
    <3> QED  BY <1>2, <3>1 DEF Object
  <2> QED  BY <1>2, <2>1, ControllerAssumption DEF Object
<1> HIDE DEF written
<1>4. CASE rules' = rules
  BY <1>1, <1>4, AbstractStutter
<1>5. CASE rules[key] = r.obj /\ rules' = [rules EXCEPT ![key] = written]
  <2>1. rules'[key] = written /\ \A other \in Keys : other # key => rules'[other] = rules[other]
    BY <1>2, <1>5
  <2> QED  BY <1>1, <1>2, <1>3, <1>5, <2>1, AbstractStutter
<1> QED  BY <1>1, <1>4, <1>5

\* Users do not touch our finalizer, and an object that carries it stays.
LEMMA UseRefines ==
  ASSUME IInv, NEW key \in Keys, Use(key)
  PROVE  UNCHANGED Abstract!vars
<1> DEFINE obj  == rules[key]
<1>1. rules \in [Keys -> Object \cup {NoObject}] /\ (obj # NoObject => obj \in Object)
  BY TypeFacts DEF IInv, TypeOK
<1>2. ASSUME NEW spec \in Specs, CreateRule(key, spec) PROVE UNCHANGED Abstract!vars
  <2>1. /\ configMap' = configMap /\ obj = NoObject
        /\ rules'[key] = NewObject(births[key] + 1, spec)
        /\ \A other \in Keys : other # key => rules'[other] = rules[other]
    BY <1>1, <1>2 DEF CreateRule
  <2>2. "Ours" \notin NewObject(births[key] + 1, spec).finalizers
    BY DEF NewObject
  <2> QED  BY <2>1, <2>2, AbstractStutter
<1>3. ASSUME NEW spec \in Specs, EditRule(key, spec) PROVE UNCHANGED Abstract!vars
  <2> DEFINE new == [obj EXCEPT !.spec = spec, !.gen = @ + 1]
  <2>1. /\ configMap' = configMap /\ obj # NoObject
        /\ rules'[key] = new
        /\ \A other \in Keys : other # key => rules'[other] = rules[other]
    BY <1>1, <1>3 DEF EditRule, userVars
  <2>2. new # NoObject /\ new.uid = obj.uid /\ new.finalizers = obj.finalizers
    <3>1. obj \in Object /\ obj.gen + 1 \in Nat
      BY <1>1, <2>1 DEF Object
    <3>2. new \in Object
      BY <3>1 DEF Object
    <3> QED  BY <3>1, <3>2, ControllerAssumption DEF Object
  <2> HIDE DEF new
  <2> QED  BY <2>1, <2>2, AbstractStutter
<1>4. ASSUME NEW foreground \in BOOLEAN, DeleteRule(key, foreground)
      PROVE  UNCHANGED Abstract!vars
  <2> DEFINE left == obj.finalizers \cup (IF foreground THEN {"Foreign"} ELSE {})
             new  == [obj EXCEPT !.deleting = TRUE, !.gen = @ + 1, !.finalizers = left]
  <2>1. /\ configMap' = configMap /\ obj # NoObject
        /\ rules'[key] = IF left = {} THEN NoObject ELSE new
        /\ \A other \in Keys : other # key => rules'[other] = rules[other]
    BY <1>1, <1>4 DEF DeleteRule, userVars
  <2>2. left \subseteq Finalizers /\ ("Ours" \in left <=> "Ours" \in obj.finalizers)
    BY <1>1, <2>1 DEF Object, Finalizers
  <2> HIDE DEF left
  <2>3. new # NoObject /\ new.uid = obj.uid /\ new.finalizers = left
    <3>1. obj \in Object /\ obj.gen + 1 \in Nat
      BY <1>1, <2>1 DEF Object
    <3>2. new \in Object
      BY <2>2, <3>1 DEF Object
    <3> QED  BY <3>1, <3>2, ControllerAssumption DEF Object
  <2> HIDE DEF new
  <2> QED  BY <2>1, <2>2, <2>3, AbstractStutter
<1>5. CASE DropForeignFinalizer(key)
  <2> DEFINE left == obj.finalizers \ {"Foreign"}
             gone == obj.deleting /\ left = {}
             new  == [obj EXCEPT !.finalizers = left]
  <2>1. /\ configMap' = configMap /\ obj # NoObject
        /\ rules'[key] = IF gone THEN NoObject ELSE new
        /\ \A other \in Keys : other # key => rules'[other] = rules[other]
    BY <1>1, <1>5 DEF DropForeignFinalizer, userVars
  <2>2. left \subseteq Finalizers /\ ("Ours" \in left <=> "Ours" \in obj.finalizers)
    BY <1>1, <2>1 DEF Object, Finalizers
  <2> HIDE DEF left
  <2>3. new # NoObject /\ new.uid = obj.uid /\ new.finalizers = left
    <3>1. obj \in Object
      BY <1>1, <2>1
    <3>2. new \in Object
      BY <2>2, <3>1 DEF Object
    <3> QED  BY <3>1, <3>2, ControllerAssumption DEF Object
  <2> HIDE DEF new
  <2> QED  BY <2>1, <2>2, <2>3, AbstractStutter
<1> QED  BY <1>2, <1>3, <1>4, <1>5 DEF Use

\* Every step is a step of RewriteTable or leaves it where it is.
LEMMA NextRefines ==
  ASSUME IInv, [Next]_vars
  PROVE  [Abstract!Next]_(Abstract!vars)
<1>1. ASSUME configMap' = configMap, rules' = rules PROVE UNCHANGED Abstract!vars
  BY <1>1 DEF Abstract!vars, Held, TableOf
<1>2. ASSUME NEW key \in Keys, Step(key) PROVE Abstract!Next \/ UNCHANGED Abstract!vars
  <2>1. CASE StartReconcile(key) \/ ReadConfigMap(key) \/ CheckRecord(key)
    BY <1>1, <2>1 DEF StartReconcile, ReadConfigMap, CheckRecord
  <2> QED
    BY <1>2, <2>1, AddFinalizerRefines, WriteConfigMapRefines, ClearFinalizerRefines,
       UpdateStatusRefines DEF Step
<1>3. ASSUME DamageConfigMap PROVE Abstract!Next \/ UNCHANGED Abstract!vars
  <2>1. rules' = rules /\ configMap \in ConfigMap
    BY <1>3 DEF DamageConfigMap, IInv, TypeOK
  <2>2. PICK kind \in DamageKinds : configMap' = Damaged(kind)
    BY <1>3 DEF DamageConfigMap
  <2>3. TableOf(configMap)' = TableOf(configMap) \/ TableOf(configMap)' = EmptyTable
    BY <2>1, <2>2, DamagedFacts DEF TableOf
  <2>4. Held' = Held
    BY <2>1 DEF Held
  <2>5. Abstract!EmptyTable = EmptyTable
    BY DEF Abstract!EmptyTable, EmptyTable
  <2>6. CASE TableOf(configMap)' = TableOf(configMap)
    BY <2>4, <2>6 DEF Abstract!vars
  <2>7. CASE TableOf(configMap)' = EmptyTable
    BY <2>4, <2>5, <2>7 DEF Abstract!Next, Abstract!Damage
  <2> QED  BY <2>3, <2>6, <2>7
<1>4. CASE Crash \/ (\E endpoint \in Endpoints : Reload(endpoint)) \/ UNCHANGED vars
  BY <1>1, <1>4 DEF Crash, Reload, vars
<1>5. CASE RepairConfigMap
  <2>1. rules' = rules /\ TableOf(configMap)' = TableOf(configMap)
    BY <1>5, RepairedFacts DEF RepairConfigMap
  <2> QED  BY <2>1 DEF Abstract!vars, Held
<1> QED  BY <1>2, <1>3, <1>4, <1>5, UseRefines DEF Next

\* Every step of the controller is a step of RewriteTable or none: the workers,
\* their old reads, their retries and the lost answers cannot be told from one
\* table that is changed one rule at a time.
THEOREM Refinement == Spec => RefinesRewriteTable
<1>1. Init => Abstract!Init
  <2> SUFFICES ASSUME Init PROVE Abstract!Init
    OBVIOUS
  <2>1. TableOf(configMap) = Abstract!EmptyTable
    BY DEF Init, TableOf, EmptyTable, Abstract!EmptyTable
  <2>2. Held = {}
    <3>1. ASSUME NEW owner \in Owners PROVE rules[owner[1]] = NoObject
      BY DEF Init, Owners
    <3> QED  BY <3>1 DEF Held
  <2> QED  BY <2>1, <2>2 DEF Abstract!Init
<1>2. IInv /\ [Next]_vars => [Abstract!Next]_(Abstract!vars)
  BY NextRefines
<1> QED  BY <1>1, <1>2, Invariant, PTL DEF Spec, RefinesRewriteTable, Abstract!Spec

=============================================================================
