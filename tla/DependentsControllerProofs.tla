---------------------- MODULE DependentsControllerProofs ----------------------
(***************************************************************************)
(* The inductive invariant of DependentsController, for any hosts, targets *)
(* and rules, and any bounds on users, faults and the lag of the cache.    *)
(*                                                                         *)
(* Whether a rule may be created, or the finalizer removed, depends on how *)
(* old the view of the resource is (ViewIsSound) and on what was concluded *)
(* from the list of rules (PlanIsSound).  There is one lemma per action.   *)
(***************************************************************************)
EXTENDS DependentsController, TLAPS

Versions == Resource \cup {NoResource}

\* The part of TypeOK about the resource, and the first part of ViewIsSound.
VersionsOK ==
  /\ versions \in Seq(Versions)
  /\ Len(versions) \in 1 .. MaxLag
  /\ \A i \in 1 .. Len(versions) :
       /\ versions[i] = NoResource => i = Len(versions)
       /\ versions[i] # NoResource /\ versions[i].deleting => versions[i].held

HeldWhenNeeded(i) == Wanted(versions[i]) # {} /\ versions[i].held
StaysHeld ==
  \A i, j \in 1 .. Len(versions) :
    i < j /\ HeldWhenNeeded(i) => versions[j] # NoResource /\ versions[j].held

\* The other parts.
OthersOK ==
  /\ rules \in [RuleIds -> Rule \cup {NoRule}]
  /\ queued \in BOOLEAN
  /\ run \in Run
  /\ IF run.pc = "idle" THEN run = Idle ELSE run.obj # NoResource
  /\ edits \in 0 .. MaxEdits
  /\ faults \in 0 .. MaxFaults
  /\ tamperings \in 0 .. MaxTamperings

ViewOK ==
  run.pc # "idle" =>
    /\ Defaulted(run.obj) = run.obj
    /\ run.current =>
         \A i \in 1 .. Len(versions) :
           /\ versions[i] # NoResource
           /\ versions[i].deleting = run.obj.deleting
           /\ Wanted(versions[i]) = Asked(run.obj)
    /\ Asked(run.obj) # {} /\ run.obj.held => Stored # NoResource /\ Stored.held

IInv ==
  /\ TypeOK
  /\ RulesAreHeld
  /\ OneRulePerTarget
  /\ ViewIsSound
  /\ PlanIsSound

-----------------------------------------------------------------------------
(* Objects and reconciliations *)

\* Filling in the target happens once and changes nothing else.
LEMMA DefaultedFacts ==
  ASSUME NEW obj \in Resource
  PROVE  /\ Defaulted(obj) \in Resource
         /\ Defaulted(Defaulted(obj)) = Defaulted(obj)
         /\ Defaulted(obj).held = obj.held
         /\ Defaulted(obj).deleting = obj.deleting
         /\ Wanted(obj) = Asked(Defaulted(obj))
         /\ Asked(obj) \subseteq Hosts
         /\ obj # NoResource
BY DependentsAssumption DEF Defaulted, Resource, Wanted, Asked, HostsOf

\* A resource asks for the same with the finalizer.
LEMMA HeldFacts ==
  ASSUME NEW obj \in Resource, Defaulted(obj) = obj
  PROVE  LET held == [obj EXCEPT !.held = TRUE]
         IN  /\ held \in Resource
             /\ held.held /\ held.deleting = obj.deleting /\ held.to = obj.to
             /\ Defaulted(held) = held
             /\ Asked(held) = Asked(obj)
             /\ Wanted(held) = Asked(obj)
<1> DEFINE held == [obj EXCEPT !.held = TRUE]
<1>1. /\ held \in Resource
      /\ held.held /\ held.deleting = obj.deleting /\ held.to = obj.to
      /\ held.from = obj.from /\ held.others = obj.others
  BY DEF Resource
<1>2. IsService /\ obj.from # {} => obj.to # NoTarget
  BY DependentsAssumption DEF Defaulted, Resource
<1>3. Defaulted(held) = held
  BY <1>1, <1>2 DEF Defaulted
<1>4. Asked(held) = Asked(obj)
  BY <1>1 DEF Asked, HostsOf
<1>5. Wanted(held) = Asked(held)
  BY <1>1, <1>3, DefaultedFacts
<1> QED  BY <1>1, <1>3, <1>4, <1>5

\* No reconciliation is under way.
LEMMA IdleFacts == Idle \in Run /\ Idle.pc = "idle" /\ ~Idle.current
BY DEF Idle, Run, Steps

\* The resource is in memory.
LEMMA BegunFacts ==
  ASSUME NEW obj \in Resource, NEW current \in BOOLEAN
  PROVE  LET r == Begun(obj, current)
         IN  r \in Run /\ r.pc = "listRules" /\ r.obj = obj /\ r.current = current
BY DEF Begun, Idle, Run, Steps

\* The invariant is made of the parts named above.
LEMMA Parts ==
  /\ TypeOK <=> VersionsOK /\ OthersOK
  /\ ViewIsSound <=> StaysHeld /\ ViewOK
  /\ TypeOK' <=> VersionsOK' /\ OthersOK'
  /\ ViewIsSound' <=> StaysHeld' /\ ViewOK'
BY DEF TypeOK, ViewIsSound, VersionsOK, OthersOK, StaysHeld, ViewOK, HeldWhenNeeded,
       Versions

\* The versions that are cached and stored.
LEMMA VersionsFacts ==
  ASSUME VersionsOK
  PROVE  /\ Len(versions) \in Nat \ {0}
         /\ \A i \in 1 .. Len(versions) : versions[i] \in Versions
         /\ Stored \in Versions
         /\ Cached = versions[1]
         /\ Stored # NoResource => \A i \in 1 .. Len(versions) : versions[i] \in Resource
BY DEF VersionsOK, Stored, Cached, Versions

-----------------------------------------------------------------------------
(* Writes and deliveries *)

\* A write that keeps the finalizer, or takes it when no version needs it.
LEMMA StoreFacts ==
  ASSUME VersionsOK, StaysHeld, Len(versions) < MaxLag, Stored # NoResource,
         NEW obj \in Versions, Store(obj),
         obj # NoResource /\ obj.deleting => obj.held,
         \/ obj # NoResource /\ (Stored.held => obj.held)
         \/ \A i \in 1 .. Len(versions) : ~HeldWhenNeeded(i)
  PROVE  /\ VersionsOK' /\ StaysHeld'
         /\ Stored' = obj
         /\ Len(versions') = Len(versions) + 1
         /\ versions'[Len(versions) + 1] = obj
         /\ \A i \in 1 .. Len(versions) : versions'[i] = versions[i]
<1> DEFINE n == Len(versions)
<1>1. /\ n \in Nat /\ n > 0 /\ n < MaxLag /\ MaxLag \in Nat
      /\ versions' \in Seq(Versions)
      /\ Len(versions') = n + 1
      /\ versions'[n + 1] = obj
      /\ \A i \in 1 .. n : versions'[i] = versions[i]
  BY DependentsAssumption DEF Store, VersionsOK
<1>2. Stored' = obj
  BY <1>1 DEF Stored
<1>3. \A i \in 1 .. n : versions[i] # NoResource
  BY VersionsFacts, DependentsAssumption
<1>4. VersionsOK'
  <2>1. ASSUME NEW i \in 1 .. n + 1
        PROVE  /\ versions'[i] = NoResource => i = n + 1
               /\ versions'[i] # NoResource /\ versions'[i].deleting => versions'[i].held
    <3>1. CASE i = n + 1
      BY <3>1, <1>1
    <3>2. CASE i \in 1 .. n
      BY <3>2, <1>1, <1>3 DEF VersionsOK
    <3> QED  BY <3>1, <3>2, <1>1
  <2> QED  BY <2>1, <1>1 DEF VersionsOK
<1>5. StaysHeld'
  <2>1. \A i \in 1 .. n : HeldWhenNeeded(i)' <=> HeldWhenNeeded(i)
    BY <1>1 DEF HeldWhenNeeded, Wanted, Asked, Defaulted, HostsOf
  <2>2. ASSUME NEW i \in 1 .. n, HeldWhenNeeded(i) PROVE Stored.held
    <3>1. n \in 1 .. n /\ (i = n \/ i < n) /\ Stored = versions[n]
      BY <1>1 DEF Stored
    <3>2. CASE i = n
      BY <3>1, <3>2, <2>2 DEF HeldWhenNeeded
    <3>3. CASE i < n
      BY <3>1, <3>3, <2>2 DEF StaysHeld
    <3> QED  BY <3>1, <3>2, <3>3
  <2>3. ASSUME NEW i \in 1 .. n + 1, NEW j \in 1 .. n + 1, i < j, HeldWhenNeeded(i)'
        PROVE  versions'[j] # NoResource /\ versions'[j].held
    <3>1. i \in 1 .. n
      BY <1>1, <2>3
    <3>2. HeldWhenNeeded(i)
      BY <3>1, <2>1, <2>3
    <3>3. CASE j \in 1 .. n
      BY <3>1, <3>2, <3>3, <2>3, <1>1 DEF StaysHeld
    <3>4. CASE j = n + 1
      BY <3>1, <3>2, <3>4, <2>2, <1>1
    <3> QED  BY <3>3, <3>4, <1>1
  <2> QED  BY <2>3, <1>1 DEF StaysHeld
<1> QED  BY <1>1, <1>2, <1>4, <1>5

\* A delivery takes the oldest version away.
LEMMA DeliverFacts ==
  ASSUME VersionsOK, StaysHeld, Len(versions) > 1, versions' = Tail(versions)
  PROVE  /\ VersionsOK' /\ StaysHeld'
         /\ Stored' = Stored
         /\ Len(versions') = Len(versions) - 1
         /\ \A i \in 1 .. Len(versions') : versions'[i] = versions[i + 1]
<1> DEFINE n == Len(versions)
<1>1. /\ n \in Nat /\ n > 1 /\ n <= MaxLag /\ MaxLag \in Nat
      /\ versions' \in Seq(Versions)
      /\ Len(versions') = n - 1
      /\ \A i \in 1 .. n - 1 : versions'[i] = versions[i + 1]
  <2>1. n \in Nat /\ n > 1 /\ n <= MaxLag /\ MaxLag \in Nat /\ versions \in Seq(Versions)
    BY DependentsAssumption DEF VersionsOK
  <2>2. versions # <<>>
    BY <2>1
  <2>3. versions' \in Seq(Versions) /\ Len(versions') = n - 1
    BY <2>1, <2>2
  <2>4. \A i \in 1 .. n - 1 : versions'[i] = versions[i + 1]
    BY <2>1, <2>2
  <2> QED  BY <2>1, <2>3, <2>4
<1>2. \A i \in 1 .. n - 1 : i + 1 \in 1 .. n /\ (i + 1 = n => i = n - 1)
  <2>1. n \in Nat
    BY <1>1
  <2> HIDE DEF n
  <2> QED  BY <2>1
<1>3. Stored' = Stored
  <2>1. n - 1 \in 1 .. n - 1 /\ (n - 1) + 1 = n
    BY <1>1
  <2>2. versions'[n - 1] = versions[n]
    BY <1>1, <2>1
  <2> QED  BY <1>1, <2>2 DEF Stored
<1>4. VersionsOK'
  <2>1. ASSUME NEW i \in 1 .. n - 1
        PROVE  /\ versions'[i] = NoResource => i = n - 1
               /\ versions'[i] # NoResource /\ versions'[i].deleting => versions'[i].held
    BY <1>1, <1>2 DEF VersionsOK
  <2>2. n - 1 \in 1 .. MaxLag
    BY <1>1
  <2> QED  BY <2>1, <2>2, <1>1 DEF VersionsOK
<1>5. StaysHeld'
  <2>1. \A i \in 1 .. n - 1 : HeldWhenNeeded(i)' <=> HeldWhenNeeded(i + 1)
    BY <1>1 DEF HeldWhenNeeded, Wanted, Asked, Defaulted, HostsOf
  <2>2. \A i, j \in 1 .. n - 1 : i < j => i + 1 < j + 1
    BY <1>1
  <2> QED  BY <1>1, <1>2, <2>1, <2>2 DEF StaysHeld
<1> QED  BY <1>1, <1>3, <1>4, <1>5

\* After a restart the cache holds what is stored.
LEMMA RelistFacts ==
  ASSUME VersionsOK, versions' = <<Stored>>
  PROVE  /\ VersionsOK' /\ StaysHeld'
         /\ Stored' = Stored
<1>1. Stored \in Versions /\ MaxLag >= 1 /\ MaxLag \in Nat
  BY VersionsFacts, DependentsAssumption
<1>2. /\ versions' \in Seq(Versions) /\ Len(versions') = 1
      /\ versions'[1] = Stored
  BY <1>1
<1>3. Stored # NoResource /\ Stored.deleting => Stored.held
  BY VersionsFacts DEF VersionsOK, Stored
<1>4. VersionsOK'
  BY <1>1, <1>2, <1>3 DEF VersionsOK
<1>5. StaysHeld'
  BY <1>2 DEF StaysHeld
<1>6. Stored' = Stored
  BY <1>2 DEF Stored
<1> QED  BY <1>4, <1>5, <1>6

\* A write of the reconciler is applied, with or without an answer, or it is not.
LEMMA UpdateFacts ==
  ASSUME IInv, run.pc # "idle", NEW obj \in Versions, NEW answer, Update(obj, answer),
         obj # NoResource /\ obj.deleting => obj.held,
         (obj # NoResource /\ obj.held) \/ Asked(run.obj) = {}
  PROVE  /\ VersionsOK' /\ StaysHeld'
         /\ queued' \in BOOLEAN /\ faults' \in 0 .. MaxFaults
         /\ run' = answer \/ run' = Idle
         /\ Stored' = Stored \/ Stored' = obj
         /\ run' = answer /\ answer # Idle =>
              /\ run.current
              /\ Stored' = obj
              /\ \A i \in 1 .. Len(versions') :
                   \/ i \in 1 .. Len(versions) /\ versions'[i] = versions[i]
                   \/ versions'[i] = obj
<1>1. VersionsOK /\ StaysHeld /\ ViewOK /\ OthersOK
  BY Parts DEF IInv
<1>0. /\ queued' \in BOOLEAN /\ faults' \in 0 .. MaxFaults
      /\ run' = answer \/ run' = Idle
  <2>1. queued' = queued \/ queued' = TRUE
    BY DEF Update, Fail, Requeued
  <2>2. faults' = faults \/ (faults < MaxFaults /\ faults' = faults + 1)
    BY DEF Update, Fault
  <2>3. faults' \in 0 .. MaxFaults
    BY <1>1, <2>2, DependentsAssumption DEF OthersOK
  <2> QED  BY <1>1, <2>1, <2>3 DEF Update, Fail, OthersOK
<1>2. CASE UNCHANGED versions /\ Fail
  <2>1. VersionsOK' /\ StaysHeld' /\ Stored' = Stored
    BY <1>1, <1>2 DEF VersionsOK, StaysHeld, Stored, HeldWhenNeeded
  <2> QED  BY <1>0, <1>2, <2>1 DEF Fail
<1>3. CASE run.current /\ Len(versions) < MaxLag /\ Store(obj)
  <2>1. \A i \in 1 .. Len(versions) :
          versions[i] # NoResource /\ Wanted(versions[i]) = Asked(run.obj)
    BY <1>1, <1>3 DEF ViewOK
  <2>2. Stored # NoResource
    BY <1>1, <2>1, VersionsFacts DEF Stored
  <2>3. \/ obj # NoResource /\ obj.held
        \/ \A i \in 1 .. Len(versions) : ~HeldWhenNeeded(i)
    BY <2>1 DEF HeldWhenNeeded
  <2>4. /\ VersionsOK' /\ StaysHeld'
        /\ Stored' = obj
        /\ Len(versions') = Len(versions) + 1
        /\ versions'[Len(versions) + 1] = obj
        /\ \A i \in 1 .. Len(versions) : versions'[i] = versions[i]
    BY <1>1, <1>3, <2>2, <2>3, StoreFacts
  <2>5. \A i \in 1 .. Len(versions') :
          \/ i \in 1 .. Len(versions) /\ versions'[i] = versions[i]
          \/ versions'[i] = obj
    BY <1>1, <2>4, VersionsFacts
  <2> QED  BY <1>0, <1>3, <2>4, <2>5
<1> QED  BY <1>2, <1>3 DEF Update, NotOutdated

-----------------------------------------------------------------------------
(* The actions *)

\* Without a reconciliation there is nothing to be sound.
LEMMA IdleIsSound ==
  ASSUME run' = Idle
  PROVE  ViewOK' /\ PlanIsSound'
BY IdleFacts DEF ViewOK, PlanIsSound

\* The rules are as they were, and the stored resource is held if it was.
LEMMA RulesUntouched ==
  ASSUME IInv, UNCHANGED rules,
         Stored # NoResource /\ Stored.held => Stored' # NoResource /\ Stored'.held
  PROVE  RulesAreHeld' /\ OneRulePerTarget'
BY DEF IInv, RulesAreHeld, OneRulePerTarget, Live

LEMMA DeliverStep == IInv /\ Deliver => IInv'
<1> SUFFICES ASSUME IInv, Deliver PROVE IInv'
  OBVIOUS
<1>1. VersionsOK /\ StaysHeld /\ ViewOK /\ OthersOK
  BY Parts DEF IInv
<1>2. /\ VersionsOK' /\ StaysHeld' /\ Stored' = Stored
      /\ Len(versions') = Len(versions) - 1
      /\ \A i \in 1 .. Len(versions') : versions'[i] = versions[i + 1]
  BY <1>1, DeliverFacts DEF Deliver
<1>3. ViewOK'
  <2>1. \A i \in 1 .. Len(versions') : i + 1 \in 1 .. Len(versions)
    BY <1>1, <1>2, VersionsFacts
  <2> QED  BY <1>1, <1>2, <2>1 DEF ViewOK, Deliver
<1>4. OthersOK'
  BY <1>1, DependentsAssumption DEF Deliver, OthersOK, userVars, Passes
<1>5. RulesAreHeld' /\ OneRulePerTarget'
  BY <1>2, RulesUntouched DEF Deliver
<1>6. PlanIsSound'
  BY DEF IInv, PlanIsSound, Deliver, Live
<1> QED  BY <1>2, <1>3, <1>4, <1>5, <1>6, Parts DEF IInv

LEMMA StartReconcileStep == IInv /\ StartReconcile => IInv'
<1> SUFFICES ASSUME IInv, StartReconcile PROVE IInv'
  OBVIOUS
<1>1. VersionsOK /\ StaysHeld /\ ViewOK /\ OthersOK
  BY Parts DEF IInv
<1>2. VersionsOK' /\ StaysHeld' /\ Stored' = Stored
  BY <1>1 DEF StartReconcile, VersionsOK, StaysHeld, Stored, HeldWhenNeeded
<1>3. RulesAreHeld' /\ OneRulePerTarget'
  BY <1>2, RulesUntouched DEF StartReconcile
<1>4. CASE Cached = NoResource
  <2>1. run' = Idle
    BY <1>4 DEF StartReconcile
  <2>2. OthersOK'
    BY <1>1, <2>1, IdleFacts DEF StartReconcile, OthersOK, userVars
  <2> QED  BY <1>2, <1>3, <2>1, <2>2, IdleIsSound, Parts DEF IInv
<1>5. CASE Cached # NoResource
  <2> DEFINE obj == Defaulted(Cached)
  <2>1. Cached \in Resource /\ Cached = versions[1]
    BY <1>1, <1>5, VersionsFacts DEF Versions
  <2>2. /\ obj \in Resource /\ obj # NoResource /\ Defaulted(obj) = obj
        /\ obj.held = Cached.held /\ obj.deleting = Cached.deleting
        /\ Wanted(Cached) = Asked(obj)
    BY <2>1, DefaultedFacts
  <2>3. /\ run' \in Run /\ run'.pc = "listRules" /\ run'.obj = obj
        /\ run'.current = (Len(versions) = 1)
    BY <1>5, <2>2, BegunFacts DEF StartReconcile
  <2>4. OthersOK'
    BY <1>1, <2>2, <2>3 DEF StartReconcile, OthersOK, userVars
  <2>5. Asked(obj) # {} /\ obj.held => Stored # NoResource /\ Stored.held
    <3>1. SUFFICES ASSUME HeldWhenNeeded(1) PROVE Stored # NoResource /\ Stored.held
      BY <2>1, <2>2 DEF HeldWhenNeeded
    <3>2. CASE Len(versions) = 1
      BY <2>1, <3>1, <3>2, <1>5 DEF Stored, HeldWhenNeeded
    <3>3. CASE Len(versions) # 1
      <4>0. Len(versions) \in Nat \ {0}
        BY <1>1, VersionsFacts
      <4>1. /\ 1 \in 1 .. Len(versions) /\ Len(versions) \in 1 .. Len(versions)
            /\ 1 < Len(versions)
        BY <4>0, <3>3
      <4> QED  BY <1>1, <3>1, <4>1 DEF StaysHeld, Stored
    <3> QED  BY <3>2, <3>3
  <2>6. ViewOK'
    <3>1. UNCHANGED versions
      BY DEF StartReconcile
    <3>2. run'.current => \A i \in 1 .. Len(versions) : versions[i] = Cached
      <4>1. ASSUME Len(versions) = 1, NEW i \in 1 .. Len(versions) PROVE i = 1
        BY <4>1
      <4> QED  BY <2>1, <2>3, <4>1
    <3> HIDE DEF obj
    <3> QED  BY <1>2, <1>5, <2>2, <2>3, <2>5, <3>1, <3>2 DEF ViewOK
  <2>7. PlanIsSound'
    BY <2>3 DEF PlanIsSound
  <2> QED  BY <1>2, <1>3, <2>4, <2>6, <2>7, Parts DEF IInv
<1> QED  BY <1>4, <1>5

\* What ListRules concludes.
LEMMA PlannedFacts ==
  ASSUME OthersOK, run.pc = "listRules", run.obj \in Resource
  PROVE  LET r == Planned(run)
         IN  /\ r \in Run
             /\ r.obj = run.obj /\ r.current = run.current
             /\ r.pc = IF NeedsFinalizer(run.obj) THEN "addFinalizer" ELSE "applyRules"
             /\ r.pending \subseteq Asked(run.obj)
             /\ \A host \in r.pending, id \in RuleIds : ~Finds(rules[id], host, run.obj.to)
             /\ r.left \/ r.pending # {} <=> Asked(run.obj) # {}
             /\ Asked(run.obj) = {} => \A id \in RuleIds : Live(id) => id \in r.doomed
<1> DEFINE hostsOf(id) == {host \in Asked(run.obj) : Finds(rules[id], host, run.obj.to)}
           kept == {id \in RuleIds : hostsOf(id) # {}}
           pc == IF NeedsFinalizer(run.obj) THEN "addFinalizer" ELSE "applyRules"
           pending == {host \in Asked(run.obj) : \A id \in kept : host \notin hostsOf(id)}
           doomed == {id \in RuleIds \ kept : rules[id] # NoRule /\ rules[id].live}
           r == [run EXCEPT !.pc = pc, !.pending = pending, !.doomed = doomed,
                            !.left = kept # {}]
<1>0. Planned(run) = r
  BY DEF Planned
<1>1. pc \in Steps /\ pending \subseteq Hosts /\ doomed \subseteq RuleIds
  <2>1. Asked(run.obj) \subseteq Hosts
    BY DefaultedFacts
  <2> QED  BY <2>1 DEF Steps
<1>2. /\ r \in Run
      /\ r.obj = run.obj /\ r.current = run.current /\ r.pc = pc
      /\ r.pending = pending /\ r.doomed = doomed /\ r.left = (kept # {})
  <2>1. (kept # {}) \in BOOLEAN /\ run \in Run
    BY DEF OthersOK
  <2> HIDE DEF kept, pending, doomed, pc
  <2> QED  BY <1>1, <2>1 DEF Run
<1>3. \A host \in r.pending, id \in RuleIds : ~Finds(rules[id], host, run.obj.to)
  BY <1>2
<1>4. r.left \/ r.pending # {} <=> Asked(run.obj) # {}
  BY <1>2
<1>5. Asked(run.obj) = {} => \A id \in RuleIds : Live(id) => id \in r.doomed
  BY <1>2 DEF Live
<1> HIDE DEF r
<1> QED  BY <1>0, <1>2, <1>3, <1>4, <1>5

LEMMA ListRulesStep == IInv /\ ListRules => IInv'
<1> SUFFICES ASSUME IInv, ListRules PROVE IInv'
  OBVIOUS
<1>1. VersionsOK /\ StaysHeld /\ ViewOK /\ OthersOK
  BY Parts DEF IInv
<1>2. VersionsOK' /\ StaysHeld' /\ Stored' = Stored
  BY <1>1 DEF ListRules, VersionsOK, StaysHeld, Stored, HeldWhenNeeded
<1>3. RulesAreHeld' /\ OneRulePerTarget'
  BY <1>2, RulesUntouched DEF ListRules
<1>4. run.pc = "listRules" /\ run.obj \in Resource
  BY <1>1 DEF ListRules, OthersOK, Run
<1>5. CASE run' = Planned(run) /\ UNCHANGED <<queued, faults>>
  <2>1. /\ run' \in Run
        /\ run'.obj = run.obj /\ run'.current = run.current
        /\ run'.pc = IF NeedsFinalizer(run.obj) THEN "addFinalizer" ELSE "applyRules"
        /\ run'.pending \subseteq Asked(run.obj)
        /\ \A host \in run'.pending, id \in RuleIds :
             ~Finds(rules[id], host, run.obj.to)
        /\ run'.left \/ run'.pending # {} <=> Asked(run.obj) # {}
        /\ Asked(run.obj) = {} => \A id \in RuleIds : Live(id) => id \in run'.doomed
    BY <1>1, <1>4, <1>5, PlannedFacts
  <2>2. OthersOK'
    BY <1>1, <1>4, <1>5, <2>1, DependentsAssumption DEF ListRules, OthersOK, userVars, Resource
  <2>3. ViewOK'
    BY <1>1, <1>2, <1>4, <2>1 DEF ViewOK, ListRules
  <2>4. run'.pc = "applyRules" /\ Asked(run.obj) # {} => run.obj.held
    BY <2>1 DEF NeedsFinalizer, Asked
  <2>5. PlanIsSound'
    BY <2>1, <2>4 DEF PlanIsSound, ListRules, Live
  <2> QED  BY <1>2, <1>3, <2>2, <2>3, <2>5, Parts DEF IInv
<1>6. CASE Fault /\ Fail
  <2>1. OthersOK'
    BY <1>1, <1>6, IdleFacts, DependentsAssumption
       DEF ListRules, Fault, Fail, Requeued, OthersOK, userVars
  <2> QED  BY <1>2, <1>3, <1>6, <2>1, IdleIsSound, Parts DEF IInv, Fail
<1> QED  BY <1>5, <1>6 DEF ListRules

LEMMA AddFinalizerStep == IInv /\ AddFinalizer => IInv'
<1> SUFFICES ASSUME IInv, AddFinalizer PROVE IInv'
  OBVIOUS
<1> DEFINE obj    == [run.obj EXCEPT !.held = TRUE]
           answer == [run EXCEPT !.pc = "applyRules", !.obj = obj]
<1>1. VersionsOK /\ StaysHeld /\ ViewOK /\ OthersOK
  BY Parts DEF IInv
<1>2. run.pc = "addFinalizer" /\ run.obj \in Resource /\ NeedsFinalizer(run.obj)
  BY <1>1 DEF AddFinalizer, OthersOK, Run, IInv, PlanIsSound
<1>3. /\ obj \in Resource /\ obj # NoResource
      /\ obj.held /\ obj.deleting = run.obj.deleting /\ obj.to = run.obj.to
      /\ Defaulted(obj) = obj
      /\ Asked(obj) = Asked(run.obj)
      /\ Wanted(obj) = Asked(run.obj)
  BY <1>1, <1>2, HeldFacts, DefaultedFacts DEF ViewOK
<1>4. /\ answer \in Run
      /\ answer.pc = "applyRules" /\ answer.obj = obj /\ answer.current = run.current
      /\ answer.pending = run.pending /\ answer.doomed = run.doomed
      /\ answer.left = run.left
  BY <1>1, <1>3 DEF OthersOK, Run, Steps
<1>5. Update(obj, answer)
  BY DEF AddFinalizer
<1> HIDE DEF obj, answer
<1>6. /\ VersionsOK' /\ StaysHeld'
      /\ queued' \in BOOLEAN /\ faults' \in 0 .. MaxFaults
      /\ run' = answer \/ run' = Idle
      /\ Stored' = Stored \/ Stored' = obj
      /\ run' = answer =>
           /\ run.current
           /\ Stored' = obj
           /\ \A i \in 1 .. Len(versions') :
                \/ i \in 1 .. Len(versions) /\ versions'[i] = versions[i]
                \/ versions'[i] = obj
  <2>1. answer # Idle
    BY <1>4, IdleFacts
  <2> QED  BY <1>2, <1>3, <1>5, <2>1, UpdateFacts DEF Versions
<1>7. RulesAreHeld' /\ OneRulePerTarget'
  BY <1>3, <1>6, RulesUntouched DEF AddFinalizer
<1>8. OthersOK'
  BY <1>1, <1>3, <1>4, <1>6, IdleFacts DEF AddFinalizer, OthersOK, userVars
<1>9. CASE run' = Idle
  BY <1>6, <1>7, <1>8, <1>9, IdleIsSound, Parts DEF IInv
<1>10. CASE run' = answer
  <2>1. ViewOK'
    <3>1. ASSUME NEW i \in 1 .. Len(versions')
          PROVE  /\ versions'[i] # NoResource
                 /\ versions'[i].deleting = obj.deleting
                 /\ Wanted(versions'[i]) = Asked(obj)
      BY <1>1, <1>2, <1>3, <1>6, <1>10 DEF ViewOK
    <3>2. run'.obj = obj
      BY <1>4, <1>10
    <3> QED  BY <1>3, <1>6, <1>10, <3>1, <3>2 DEF ViewOK
  <2>2. PlanIsSound'
    BY <1>2, <1>3, <1>4, <1>10 DEF IInv, PlanIsSound, AddFinalizer, Live
  <2> QED  BY <1>6, <1>7, <1>8, <2>1, <2>2, Parts DEF IInv
<1> QED  BY <1>6, <1>9, <1>10

\* Rules that are deleted or go away, without new ones.
LEMMA RulesFade ==
  ASSUME IInv,
         \A id \in RuleIds :
           \/ rules'[id] = NoRule
           \/ /\ rules[id] # NoRule
              /\ rules'[id].from = rules[id].from /\ rules'[id].to = rules[id].to
              /\ rules'[id].live => rules[id].live
  PROVE  /\ OneRulePerTarget'
         /\ \A id \in RuleIds : Live(id)' => Live(id)
         /\ \A host, to : \A id \in RuleIds :
              Finds(rules'[id], host, to) => Finds(rules[id], host, to)
BY DEF IInv, OneRulePerTarget, Live, Finds

LEMMA CreateRuleStep == ASSUME NEW host \in Hosts PROVE IInv /\ CreateRule(host) => IInv'
<1> SUFFICES ASSUME IInv, CreateRule(host) PROVE IInv'
  OBVIOUS
<1>1. VersionsOK /\ StaysHeld /\ ViewOK /\ OthersOK
  BY Parts DEF IInv
<1>2. VersionsOK' /\ StaysHeld' /\ Stored' = Stored /\ UNCHANGED versions
  BY <1>1 DEF CreateRule, VersionsOK, StaysHeld, Stored, HeldWhenNeeded
<1>3. /\ run \in Run /\ run.pc = "applyRules" /\ run.obj \in Resource
      /\ host \in run.pending /\ host \in Asked(run.obj)
  BY <1>1 DEF CreateRule, OthersOK, Run, IInv, PlanIsSound
<1>4. run.obj.to \in Targets /\ Stored # NoResource /\ Stored.held
  BY <1>1, <1>3 DEF Asked, Resource, IInv, PlanIsSound, ViewOK
<1>5. PICK id \in RuleIds \ run.doomed :
        LET created == [rules EXCEPT ![id] = [from |-> host, to |-> run.obj.to, live |-> TRUE]]
        IN  /\ rules[id] = NoRule
            /\ \/ /\ rules' = created
                  /\ run' = [run EXCEPT !.pending = @ \ {host}, !.left = TRUE]
                  /\ UNCHANGED <<queued, faults>>
               \/ /\ UNCHANGED faults \/ Fault
                  /\ Fail
                  /\ rules' \in {rules, created}
  BY DEF CreateRule, Counted
<1> DEFINE rule == [from |-> host, to |-> run.obj.to, live |-> TRUE]
           created == [rules EXCEPT ![id] = rule]
<1>6. rule \in Rule /\ rule.from = host /\ rule.to = run.obj.to /\ rule # NoRule
  <2>1. rule \in Rule
    BY <1>4 DEF Rule
  <2> QED  BY <2>1, DependentsAssumption
<1>7. /\ created \in [RuleIds -> Rule \cup {NoRule}]
      /\ created[id] = rule
      /\ \A other \in RuleIds : other # id => created[other] = rules[other]
  BY <1>1, <1>6 DEF OthersOK
<1>8. /\ rules' = rules \/ rules' = created
      /\ rules' \in [RuleIds -> Rule \cup {NoRule}]
  BY <1>1, <1>5, <1>7 DEF OthersOK
<1>9. RulesAreHeld'
  BY <1>2, <1>4 DEF RulesAreHeld
<1>10. OneRulePerTarget'
  <2>1. CASE rules' = rules
    BY <2>1 DEF IInv, OneRulePerTarget
  <2>2. CASE rules' = created
    <3>1. \A other \in RuleIds :
            rules[other] # NoRule => rules[other].from # host \/ rules[other].to # run.obj.to
      BY <1>3 DEF IInv, PlanIsSound, Finds
    <3> HIDE DEF rule, created
    <3> QED  BY <1>6, <1>7, <2>2, <3>1 DEF IInv, OneRulePerTarget
  <2> QED  BY <1>8, <2>1, <2>2
<1>11. faults' \in 0 .. MaxFaults
  BY <1>1, <1>5, DependentsAssumption DEF OthersOK, Fault
<1>12. CASE Fail
  <2>1. OthersOK'
    BY <1>1, <1>8, <1>11, <1>12, IdleFacts DEF CreateRule, OthersOK, Fail, Requeued, userVars
  <2> QED  BY <1>2, <1>9, <1>10, <1>12, <2>1, IdleIsSound, Parts DEF IInv, Fail
<1>13. CASE /\ rules' = created
            /\ run' = [run EXCEPT !.pending = @ \ {host}, !.left = TRUE]
            /\ UNCHANGED <<queued, faults>>
  <2>1. /\ run' \in Run /\ run'.pc = run.pc /\ run'.obj = run.obj
        /\ run'.current = run.current /\ run'.doomed = run.doomed
        /\ run'.pending = run.pending \ {host} /\ run'.left
    BY <1>3, <1>13 DEF Run
  <2>2. OthersOK'
    BY <1>1, <1>3, <1>8, <1>13, <2>1 DEF CreateRule, OthersOK, userVars
  <2>3. ViewOK'
    BY <1>1, <1>2, <2>1 DEF ViewOK
  <2>4. \A h \in run'.pending, other \in RuleIds : ~Finds(rules'[other], h, run.obj.to)
    BY <1>3, <1>6, <1>7, <1>13, <2>1 DEF IInv, PlanIsSound, Finds
  <2>5. PlanIsSound'
    BY <1>3, <2>1, <2>4 DEF IInv, PlanIsSound
  <2> QED  BY <1>2, <1>9, <1>10, <2>2, <2>3, <2>5, Parts DEF IInv
<1> QED  BY <1>5, <1>12, <1>13

LEMMA DeleteRuleStep == ASSUME NEW id \in RuleIds PROVE IInv /\ DeleteRule(id) => IInv'
<1> SUFFICES ASSUME IInv, DeleteRule(id) PROVE IInv'
  OBVIOUS
<1>1. VersionsOK /\ StaysHeld /\ ViewOK /\ OthersOK
  BY Parts DEF IInv
<1>2. VersionsOK' /\ StaysHeld' /\ Stored' = Stored /\ UNCHANGED versions
  BY <1>1 DEF DeleteRule, VersionsOK, StaysHeld, Stored, HeldWhenNeeded
<1> DEFINE deleted == [rules EXCEPT ![id] = [@ EXCEPT !.live = FALSE]]
<1>3. rules[id] # NoRule =>
        /\ deleted \in [RuleIds -> Rule \cup {NoRule}]
        /\ deleted[id].from = rules[id].from /\ deleted[id].to = rules[id].to
        /\ ~deleted[id].live
        /\ \A other \in RuleIds : other # id => deleted[other] = rules[other]
  BY <1>1 DEF OthersOK, Rule
<1>4. /\ rules' = rules \/ (rules[id] # NoRule /\ rules' = deleted)
      /\ run' = Idle \/ (/\ rules[id] # NoRule /\ rules' = deleted
                         /\ run' = [run EXCEPT !.doomed = @ \ {id}])
      /\ queued' = queued \/ queued' = TRUE
      /\ faults' = faults \/ Fault
  BY DEF DeleteRule, Fail, Requeued
<1>5. rules' \in [RuleIds -> Rule \cup {NoRule}]
  BY <1>1, <1>3, <1>4 DEF OthersOK
<1>6. \A other \in RuleIds :
        \/ rules'[other] = NoRule
        \/ /\ rules[other] # NoRule
           /\ rules'[other].from = rules[other].from /\ rules'[other].to = rules[other].to
           /\ rules'[other].live => rules[other].live
  BY <1>3, <1>4
<1>7. /\ OneRulePerTarget'
      /\ \A other \in RuleIds : Live(other)' => Live(other)
      /\ \A host, to : \A other \in RuleIds :
           Finds(rules'[other], host, to) => Finds(rules[other], host, to)
  BY <1>6, RulesFade
<1>8. RulesAreHeld'
  BY <1>2, <1>7 DEF IInv, RulesAreHeld
<1>9. run.pc = "applyRules" /\ run \in Run
  BY <1>1 DEF DeleteRule, OthersOK
<1>10. faults' \in 0 .. MaxFaults
  BY <1>1, <1>4, DependentsAssumption DEF OthersOK, Fault
<1>11. CASE run' = Idle
  <2>1. OthersOK'
    BY <1>1, <1>4, <1>5, <1>10, <1>11, IdleFacts DEF DeleteRule, OthersOK, userVars
  <2> QED  BY <1>2, <1>7, <1>8, <1>11, <2>1, IdleIsSound, Parts DEF IInv
<1>12. CASE /\ rules[id] # NoRule /\ rules' = deleted
            /\ run' = [run EXCEPT !.doomed = @ \ {id}]
  <2>1. /\ run' \in Run /\ run'.pc = run.pc /\ run'.obj = run.obj
        /\ run'.current = run.current /\ run'.doomed = run.doomed \ {id}
        /\ run'.pending = run.pending /\ run'.left = run.left
    BY <1>9, <1>12 DEF Run
  <2>2. OthersOK'
    BY <1>1, <1>4, <1>5, <1>9, <1>10, <2>1 DEF DeleteRule, OthersOK, userVars
  <2>3. ViewOK'
    BY <1>1, <1>2, <2>1 DEF ViewOK
  <2>4. ~Live(id)'
    BY <1>3, <1>12 DEF Live
  <2>5. PlanIsSound'
    BY <1>7, <1>9, <2>1, <2>4 DEF IInv, PlanIsSound
  <2> QED  BY <1>2, <1>7, <1>8, <2>2, <2>3, <2>5, Parts DEF IInv
<1> QED  BY <1>4, <1>11, <1>12

LEMMA FinishStep == IInv /\ Finish => IInv'
<1> SUFFICES ASSUME IInv, Finish PROVE IInv'
  OBVIOUS
<1>1. VersionsOK /\ StaysHeld /\ ViewOK /\ OthersOK
  BY Parts DEF IInv
<1>2. run.pc = "applyRules" /\ run.pending = {} /\ run.doomed = {} /\ run.obj \in Resource
  BY <1>1 DEF Finish, OthersOK, Run
<1>3. CASE run' = Idle /\ UNCHANGED <<versions, queued, faults>>
  <2>1. VersionsOK' /\ StaysHeld' /\ Stored' = Stored
    BY <1>1, <1>3 DEF VersionsOK, StaysHeld, Stored, HeldWhenNeeded
  <2>2. RulesAreHeld' /\ OneRulePerTarget'
    BY <2>1, RulesUntouched DEF Finish
  <2>3. OthersOK'
    BY <1>1, <1>3, IdleFacts DEF Finish, OthersOK, userVars
  <2> QED  BY <1>3, <2>1, <2>2, <2>3, IdleIsSound, Parts DEF IInv
<1>4. CASE Releases(run) /\ Update(Released(run.obj), Idle)
  <2>1. Asked(run.obj) = {}
    BY <1>2, <1>4 DEF IInv, PlanIsSound, Releases
  <2>2. \A id \in RuleIds : ~Live(id)
    BY <1>2, <2>1 DEF IInv, PlanIsSound
  <2>3. /\ Released(run.obj) \in Versions
        /\ Released(run.obj) # NoResource => ~Released(run.obj).deleting
    BY <1>2 DEF Released, Versions, Resource
  <2>4. /\ VersionsOK' /\ StaysHeld'
        /\ queued' \in BOOLEAN /\ faults' \in 0 .. MaxFaults
        /\ run' = Idle
    BY <1>2, <1>4, <2>1, <2>3, UpdateFacts
  <2>5. RulesAreHeld' /\ OneRulePerTarget'
    BY <2>2 DEF IInv, Finish, RulesAreHeld, OneRulePerTarget, Live
  <2>6. OthersOK'
    BY <1>1, <2>4, IdleFacts DEF Finish, OthersOK, userVars
  <2> QED  BY <2>4, <2>5, <2>6, IdleIsSound, Parts DEF IInv
<1> QED  BY <1>3, <1>4 DEF Finish

LEMMA CrashStep == IInv /\ Crash => IInv'
<1> SUFFICES ASSUME IInv, Crash PROVE IInv'
  OBVIOUS
<1>1. VersionsOK /\ OthersOK
  BY Parts DEF IInv
<1>2. VersionsOK' /\ StaysHeld' /\ Stored' = Stored
  BY <1>1, RelistFacts DEF Crash
<1>3. RulesAreHeld' /\ OneRulePerTarget'
  BY <1>2, RulesUntouched DEF Crash
<1>4. OthersOK'
  BY <1>1, IdleFacts, DependentsAssumption DEF Crash, Fault, OthersOK, userVars
<1> QED  BY <1>2, <1>3, <1>4, IdleIsSound, Parts DEF IInv, Crash

LEMMA ResyncStep == IInv /\ Resync => IInv'
<1> SUFFICES ASSUME IInv, Resync PROVE IInv'
  OBVIOUS
<1>1. VersionsOK /\ StaysHeld /\ ViewOK /\ OthersOK
  BY Parts DEF IInv
<1>2. VersionsOK' /\ StaysHeld' /\ Stored' = Stored
  BY <1>1 DEF Resync, VersionsOK, StaysHeld, Stored, HeldWhenNeeded
<1>3. RulesAreHeld' /\ OneRulePerTarget'
  BY <1>2, RulesUntouched DEF Resync
<1>4. OthersOK'
  BY <1>1, DependentsAssumption DEF Resync, Fault, OthersOK, userVars
<1>5. ViewOK' /\ PlanIsSound'
  BY <1>1, <1>2 DEF IInv, Resync, ViewOK, PlanIsSound, Live
<1> QED  BY <1>2, <1>3, <1>4, <1>5, Parts DEF IInv

\* A user's write, which the reconciliation does not know of.
LEMMA InterfereFacts ==
  ASSUME IInv, Stored # NoResource, NEW obj \in Versions, Interfere(obj),
         obj # NoResource /\ obj.deleting => obj.held,
         IF obj = NoResource THEN ~Stored.held ELSE Stored.held => obj.held,
         UNCHANGED rules
  PROVE  /\ VersionsOK' /\ StaysHeld' /\ ViewOK' /\ PlanIsSound'
         /\ RulesAreHeld' /\ OneRulePerTarget'
         /\ run' \in Run
         /\ IF run'.pc = "idle" THEN run' = Idle ELSE run'.obj # NoResource
<1>1. VersionsOK /\ StaysHeld /\ ViewOK /\ OthersOK
  BY Parts DEF IInv
<1>2. \A i \in 1 .. Len(versions) : HeldWhenNeeded(i) => Stored.held
  <2> TAKE i \in 1 .. Len(versions)
  <2> HAVE HeldWhenNeeded(i)
  <2>1. CASE i = Len(versions)
    BY <2>1 DEF HeldWhenNeeded, Stored
  <2>2. CASE i < Len(versions)
    <3>1. Len(versions) \in 1 .. Len(versions)
      BY <1>1, VersionsFacts
    <3> QED  BY <1>1, <2>2, <3>1 DEF StaysHeld, Stored
  <2>3. i = Len(versions) \/ i < Len(versions)
    BY <1>1, VersionsFacts
  <2> QED  BY <2>1, <2>2, <2>3
<1>3. VersionsOK' /\ StaysHeld' /\ Stored' = obj
  BY <1>1, <1>2, StoreFacts DEF Interfere
<1>4. /\ run' \in Run /\ run'.pc = run.pc /\ run'.obj = run.obj /\ ~run'.current
      /\ run'.pending = run.pending /\ run'.doomed = run.doomed /\ run'.left = run.left
  BY <1>1 DEF Interfere, OthersOK, Run
<1>5. IF run'.pc = "idle" THEN run' = Idle ELSE run'.obj # NoResource
  <2>1. CASE run.pc = "idle"
    <3>1. [Idle EXCEPT !.current = FALSE] = Idle
      <4>1. ASSUME NEW r \in Run, r.current = FALSE PROVE [r EXCEPT !.current = FALSE] = r
        BY <4>1 DEF Run
      <4>2. Idle \in Run /\ Idle.current = FALSE
        BY DEF Idle, Run, Steps
      <4> QED  BY <4>1, <4>2
    <3>2. run = Idle
      BY <1>1, <2>1 DEF OthersOK
    <3>3. run' = [Idle EXCEPT !.current = FALSE]
      BY <3>2 DEF Interfere
    <3> QED  BY <3>1, <3>3, IdleFacts
  <2>2. CASE run.pc # "idle"
    BY <1>1, <1>4, <2>2 DEF OthersOK
  <2> QED  BY <2>1, <2>2
<1>6. RulesAreHeld' /\ OneRulePerTarget'
  BY <1>3, RulesUntouched
<1>7. ViewOK'
  BY <1>1, <1>3, <1>4 DEF ViewOK
<1>8. PlanIsSound'
  BY <1>4 DEF IInv, PlanIsSound, Live
<1> QED  BY <1>3, <1>4, <1>5, <1>6, <1>7, <1>8

LEMMA EditResourceStep ==
  ASSUME NEW shape \in Shapes, NEW leaveTarget \in BOOLEAN
  PROVE  IInv /\ EditResource(shape, leaveTarget) => IInv'
<1> SUFFICES ASSUME IInv, EditResource(shape, leaveTarget) PROVE IInv'
  OBVIOUS
<1> DEFINE obj == [Stored EXCEPT !.from = shape.from, !.others = shape.others,
                                 !.to = IF leaveTarget THEN @ ELSE shape.to,
                                 !.balanced = shape.balanced]
<1>1. VersionsOK /\ OthersOK
  BY Parts DEF IInv
<1>2. Stored \in Resource /\ (Stored.deleting => Stored.held)
  BY <1>1, VersionsFacts DEF EditResource, Versions, VersionsOK, Stored
<1>3. shape \in Shape
  BY DependentsAssumption
<1>4. obj \in Resource /\ obj.held = Stored.held /\ obj.deleting = Stored.deleting
  BY <1>2, <1>3 DEF Resource, Shape
<1>5. Interfere(obj) /\ UNCHANGED rules
  BY DEF EditResource
<1> HIDE DEF obj
<1>6. /\ VersionsOK' /\ StaysHeld' /\ ViewOK' /\ PlanIsSound'
      /\ RulesAreHeld' /\ OneRulePerTarget'
      /\ run' \in Run
      /\ IF run'.pc = "idle" THEN run' = Idle ELSE run'.obj # NoResource
  BY <1>2, <1>4, <1>5, InterfereFacts, DependentsAssumption DEF Versions
<1>7. OthersOK'
  BY <1>1, <1>6, DependentsAssumption DEF EditResource, OthersOK
<1> QED  BY <1>6, <1>7, Parts DEF IInv

LEMMA DeleteResourceStep == IInv /\ DeleteResource => IInv'
<1> SUFFICES ASSUME IInv, DeleteResource PROVE IInv'
  OBVIOUS
<1> DEFINE obj == IF Stored.held THEN [Stored EXCEPT !.deleting = TRUE] ELSE NoResource
<1>1. VersionsOK /\ OthersOK
  BY Parts DEF IInv
<1>2. Stored \in Resource
  BY <1>1, VersionsFacts DEF DeleteResource, Versions
<1>3. /\ obj \in Versions
      /\ obj # NoResource => Stored.held /\ obj.held
      /\ obj = NoResource => ~Stored.held
  BY <1>2, DependentsAssumption DEF Versions, Resource
<1>4. Interfere(obj) /\ UNCHANGED rules
  BY DEF DeleteResource
<1> HIDE DEF obj
<1>5. /\ VersionsOK' /\ StaysHeld' /\ ViewOK' /\ PlanIsSound'
      /\ RulesAreHeld' /\ OneRulePerTarget'
      /\ run' \in Run
      /\ IF run'.pc = "idle" THEN run' = Idle ELSE run'.obj # NoResource
  BY <1>2, <1>3, <1>4, InterfereFacts, DependentsAssumption
<1>6. OthersOK'
  BY <1>1, <1>5 DEF DeleteResource, OthersOK, userVars
<1> QED  BY <1>5, <1>6, Parts DEF IInv

\* A rule fades while the reconciliation goes on.
LEMMA FadingStep ==
  ASSUME IInv, UNCHANGED <<versions, queued, run, edits, faults>>,
         rules' \in [RuleIds -> Rule \cup {NoRule}], tamperings' \in 0 .. MaxTamperings,
         \A id \in RuleIds :
           \/ rules'[id] = NoRule
           \/ /\ rules[id] # NoRule
              /\ rules'[id].from = rules[id].from /\ rules'[id].to = rules[id].to
              /\ rules'[id].live => rules[id].live
  PROVE  IInv'
<1>1. VersionsOK /\ StaysHeld /\ ViewOK /\ OthersOK
  BY Parts DEF IInv
<1>2. VersionsOK' /\ StaysHeld' /\ Stored' = Stored
  BY <1>1 DEF VersionsOK, StaysHeld, Stored, HeldWhenNeeded
<1>3. /\ OneRulePerTarget'
      /\ \A id \in RuleIds : Live(id)' => Live(id)
      /\ \A host, to : \A id \in RuleIds :
           Finds(rules'[id], host, to) => Finds(rules[id], host, to)
  BY RulesFade
<1>4. RulesAreHeld'
  BY <1>2, <1>3 DEF IInv, RulesAreHeld
<1>5. OthersOK'
  BY <1>1 DEF OthersOK
<1>6. ViewOK'
  BY <1>1, <1>2 DEF ViewOK
<1>7. PlanIsSound'
  BY <1>3 DEF IInv, PlanIsSound
<1> QED  BY <1>2, <1>3, <1>4, <1>5, <1>6, <1>7, Parts DEF IInv

LEMMA RuleGoneStep == ASSUME NEW id \in RuleIds PROVE IInv /\ RuleGone(id) => IInv'
<1> SUFFICES ASSUME IInv, RuleGone(id) PROVE IInv'
  OBVIOUS
<1>1. OthersOK
  BY Parts DEF IInv
<1>2. /\ rules' \in [RuleIds -> Rule \cup {NoRule}]
      /\ \A other \in RuleIds : rules'[other] = NoRule \/ rules'[other] = rules[other]
  BY <1>1 DEF RuleGone, OthersOK
<1>3. tamperings' \in 0 .. MaxTamperings
  BY <1>1 DEF RuleGone, userVars, OthersOK
<1>4. UNCHANGED <<versions, queued, run, edits, faults>>
  BY DEF RuleGone, userVars
<1> QED  BY <1>2, <1>3, <1>4, FadingStep

LEMMA DeleteRuleByHandStep ==
  ASSUME NEW id \in RuleIds PROVE IInv /\ DeleteRuleByHand(id) => IInv'
<1> SUFFICES ASSUME IInv, DeleteRuleByHand(id) PROVE IInv'
  OBVIOUS
<1>1. OthersOK
  BY Parts DEF IInv
<1>2. rules[id] \in Rule
  BY <1>1 DEF DeleteRuleByHand, OthersOK
<1>3. /\ rules' \in [RuleIds -> Rule \cup {NoRule}]
      /\ \A other \in RuleIds :
           \/ rules'[other] = NoRule
           \/ /\ rules[other] # NoRule
              /\ rules'[other].from = rules[other].from /\ rules'[other].to = rules[other].to
              /\ rules'[other].live => rules[other].live
  BY <1>1, <1>2 DEF DeleteRuleByHand, OthersOK, Rule
<1>4. tamperings' \in 0 .. MaxTamperings
  BY <1>1, DependentsAssumption DEF DeleteRuleByHand, OthersOK
<1>5. UNCHANGED <<versions, queued, run, edits, faults>>
  BY DEF DeleteRuleByHand
<1> QED  BY <1>3, <1>4, <1>5, FadingStep

LEMMA StutteringStep == IInv /\ UNCHANGED vars => IInv'
<1> SUFFICES ASSUME IInv, UNCHANGED vars PROVE IInv'
  OBVIOUS
<1>1. OthersOK
  BY Parts DEF IInv
<1> QED  BY <1>1, FadingStep DEF vars, OthersOK

-----------------------------------------------------------------------------
(* The theorems *)

LEMMA InitInvariant == Init => IInv
<1> SUFFICES ASSUME Init PROVE IInv
  OBVIOUS
<1>1. PICK shape \in Shapes :
        LET obj == [from |-> shape.from, others |-> shape.others, to |-> shape.to,
                    balanced |-> shape.balanced, deleting |-> FALSE, held |-> FALSE]
        IN  versions = <<obj>> /\ queued = Passes(obj)
  BY DEF Init
<1> DEFINE obj == [from |-> shape.from, others |-> shape.others, to |-> shape.to,
                   balanced |-> shape.balanced, deleting |-> FALSE, held |-> FALSE]
<1>2. shape \in Shape
  BY DependentsAssumption
<1>3. obj \in Resource /\ ~obj.deleting
  BY <1>2 DEF Shape, Resource
<1>4. versions = <<obj>>
  BY <1>1
<1>5. queued \in BOOLEAN
  BY <1>1, DependentsAssumption DEF Passes
<1> HIDE DEF obj
<1>6. VersionsOK /\ StaysHeld
  <2>1. versions \in Seq(Versions) /\ Len(versions) = 1 /\ versions[1] = obj
    BY <1>3, <1>4 DEF Versions
  <2>2. 1 \in 1 .. MaxLag
    BY DependentsAssumption
  <2> QED  BY <1>3, <2>1, <2>2, DependentsAssumption DEF VersionsOK, StaysHeld
<1>7. OthersOK
  BY <1>5, IdleFacts, DependentsAssumption DEF Init, OthersOK
<1>8. ViewOK /\ PlanIsSound
  BY IdleFacts DEF Init, ViewOK, PlanIsSound
<1>9. RulesAreHeld /\ OneRulePerTarget
  BY DEF Init, RulesAreHeld, OneRulePerTarget, Live
<1> QED  BY <1>6, <1>7, <1>8, <1>9, Parts DEF IInv

LEMMA NextInvariant == IInv /\ [Next]_vars => IInv'
<1> SUFFICES ASSUME IInv, [Next]_vars PROVE IInv'
  OBVIOUS
<1>1. CASE Step
  BY <1>1, StartReconcileStep, ListRulesStep, AddFinalizerStep, CreateRuleStep,
     DeleteRuleStep, FinishStep DEF Step
<1>2. ASSUME NEW shape \in Shapes, NEW leaveTarget \in BOOLEAN,
             EditResource(shape, leaveTarget)
      PROVE  IInv'
  BY <1>2, EditResourceStep
<1>3. ASSUME NEW id \in RuleIds, RuleGone(id) \/ DeleteRuleByHand(id) PROVE IInv'
  BY <1>3, RuleGoneStep, DeleteRuleByHandStep
<1> QED  BY <1>1, <1>2, <1>3, DeliverStep, CrashStep, ResyncStep, DeleteResourceStep,
            StutteringStep DEF Next

\* The inductive invariant holds of manageDependents and its callers: no rule
\* without a held resource, no rule twice, and views and plans that may be old
\* but do no harm.
THEOREM DependentsInvariant == Spec => []IInv
<1>1. Init => IInv
  BY InitInvariant
<1>2. IInv /\ [Next]_vars => IInv'
  BY NextInvariant
<1> QED  BY <1>1, <1>2, PTL DEF Spec

\* Every variable keeps its type; only a held resource waits for its deletion.
THEOREM DependentsTypeCorrect == Spec => []TypeOK
<1>1. IInv => TypeOK
  BY DEF IInv
<1> QED  BY <1>1, DependentsInvariant, PTL

\* manageDependents adds the finalizer before it creates rules and removes it
\* only when all of them are being deleted: no rule outlives its resource.
THEOREM NoRuleOutlivesResource == Spec => []RulesAreHeld
<1>1. IInv => RulesAreHeld
  BY DEF IInv
<1> QED  BY <1>1, DependentsInvariant, PTL

\* A resource never has two rules with the same source and target, though calls
\* fail, answers are lost and the process stops between any two of them.
THEOREM NoDuplicateRules == Spec => []OneRulePerTarget
<1>1. IInv => OneRulePerTarget
  BY DEF IInv
<1> QED  BY <1>1, DependentsInvariant, PTL

\* What a worker has read of the resource may be old but does no harm.
THEOREM DependentsViewStaysSound == Spec => []ViewIsSound
<1>1. IInv => ViewIsSound
  BY DEF IInv
<1> QED  BY <1>1, DependentsInvariant, PTL

\* What manageDependents has found in its listing is still good enough when the
\* call it leads to is made.
THEOREM DependentsPlanStaysSound == Spec => []PlanIsSound
<1>1. IInv => PlanIsSound
  BY DEF IInv
<1> QED  BY <1>1, DependentsInvariant, PTL

=============================================================================
