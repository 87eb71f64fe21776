---------------------- MODULE DependentsControllerSettled ----------------------
(***************************************************************************)
(* Nothing stale is left when the reconciler has nothing to do: neither    *)
(* rules nor the finalizer.  Unlike the properties proved in               *)
(* DependentsControllerProofs this depends on the events, and therefore on *)
(* the event filter: it holds if users ask for nothing that the filter     *)
(* would hold back (FilterPasses), as is the case for every ingress and    *)
(* gateway and for load balancers.                                         *)
(*                                                                         *)
(* The argument: a version that differs from the one a reconciliation      *)
(* works on is still on its way, or has raised an event (Tracked); so when *)
(* nothing is queued or on its way, the last reconciliation has worked on  *)
(* the stored version, and what it left behind fits it.                    *)
(***************************************************************************)
EXTENDS DependentsControllerProofs

\* No shape of the resource is held back by the event filter.
FilterPasses == \A shape \in Shapes : Passes(shape)

VersionsPass ==
  \A i \in 1 .. Len(versions) : versions[i] # NoResource => Passes(versions[i])

Fits(id, obj) == rules[id].from \in Asked(obj) /\ rules[id].to = obj.to

\* A view that is not outdated is the stored version, any other one is followed by
\* an event.
ViewTracked ==
  run.pc # "idle" =>
    /\ run.current => Stored # NoResource /\ run.obj = Defaulted(Stored)
    /\ run.current \/ queued \/ Len(versions) > 1

\* The rules that are not going to be deleted are the right ones.
PlanTracked ==
  run.pc \in {"addFinalizer", "applyRules"} =>
    \A id \in RuleIds : Live(id) => id \in run.doomed \/ Fits(id, run.obj)

Tracked == ViewTracked /\ PlanTracked /\ NoStaleRules /\ NoStaleFinalizer

-----------------------------------------------------------------------------
(* Versions and events *)

\* Filling in the target, the finalizer or the deletion leaves what is filtered.
LEMMA PassesFacts ==
  ASSUME NEW obj \in Resource, Passes(obj)
  PROVE  /\ Passes(Defaulted(obj))
         /\ \A held \in BOOLEAN : Passes([obj EXCEPT !.held = held])
         /\ Passes([obj EXCEPT !.deleting = TRUE])
<1>1. /\ Defaulted(obj).from = obj.from /\ Defaulted(obj).balanced = obj.balanced
  BY DEF Defaulted, Resource
<1>2. ASSUME NEW held \in BOOLEAN PROVE Passes([obj EXCEPT !.held = held])
  BY DEF Passes, Resource
<1>3. Passes([obj EXCEPT !.deleting = TRUE])
  BY DEF Passes, Resource
<1> QED  BY <1>1, <1>2, <1>3 DEF Passes

\* The versions stay what the filter lets through when one of them is stored,
\* reaches the cache or is listed anew.
LEMMA StorePasses ==
  ASSUME VersionsOK, VersionsPass, NEW obj \in Versions, Store(obj),
         obj # NoResource => Passes(obj)
  PROVE  VersionsPass' /\ Len(versions') > 1 /\ Stored' = obj
<1>1. versions \in Seq(Versions) /\ Len(versions) \in Nat \ {0}
  BY VersionsFacts DEF VersionsOK
<1>2. /\ Len(versions') = Len(versions) + 1 /\ versions'[Len(versions) + 1] = obj
      /\ \A i \in 1 .. Len(versions) : versions'[i] = versions[i]
  BY <1>1 DEF Store
<1>3. ASSUME NEW i \in 1 .. Len(versions')
      PROVE  versions'[i] # NoResource => Passes(versions'[i])
  <2>1. CASE i = Len(versions) + 1
    BY <1>2, <2>1
  <2>2. CASE i \in 1 .. Len(versions)
    BY <1>2, <2>2 DEF VersionsPass
  <2> QED  BY <1>1, <1>2, <2>1, <2>2
<1> QED  BY <1>1, <1>2, <1>3 DEF VersionsPass, Stored

LEMMA DeliverPasses ==
  ASSUME VersionsOK, VersionsPass, Deliver
  PROVE  VersionsPass' /\ queued'
<1>1. versions \in Seq(Versions) /\ Len(versions) \in Nat /\ Len(versions) > 1
  BY VersionsFacts DEF Deliver, VersionsOK
<1>2. /\ Len(versions') = Len(versions) - 1
      /\ \A i \in 1 .. Len(versions') : versions'[i] = versions[i + 1]
  BY <1>1 DEF Deliver
<1>3. \A i \in 1 .. Len(versions') : i + 1 \in 1 .. Len(versions)
  BY <1>1, <1>2
<1>4. VersionsPass'
  BY <1>2, <1>3 DEF VersionsPass
<1>5. Cached = versions[1] /\ Cached # NoResource
  BY <1>1, VersionsFacts DEF VersionsOK
<1>6. Passes(IF versions[2] = NoResource THEN Cached ELSE versions[2])
  <2>1. 1 \in 1 .. Len(versions) /\ 2 \in 1 .. Len(versions)
    BY <1>1
  <2> QED  BY <1>5, <2>1 DEF VersionsPass
<1> QED  BY <1>4, <1>6 DEF Deliver

\* Nothing is claimed while the reconciler has something to do.
LEMMA BusyIsNotSettled ==
  ASSUME queued' \/ Len(versions') > 1
  PROVE  ~Settled'
<1>1. ASSUME Len(versions') = 1 PROVE ~(Len(versions') > 1)
  BY <1>1
<1> QED  BY <1>1, Zenon DEF Settled

LEMMA BusyIsTracked ==
  ASSUME run' = Idle, queued' \/ Len(versions') > 1
  PROVE  Tracked'
<1>1. ViewTracked' /\ PlanTracked'
  BY IdleFacts DEF ViewTracked, PlanTracked
<1>2. ~Settled'
  BY BusyIsNotSettled
<1> QED  BY <1>1, <1>2 DEF Tracked, NoStaleRules, NoStaleFinalizer

LEMMA FailIsTracked == ASSUME Fail PROVE Tracked'
BY BusyIsTracked DEF Fail, Requeued

\* A resource without rules and without the finalizer has nothing stale.
LEMMA GoneIsTracked ==
  ASSUME IInv', run' = Idle, Stored' = NoResource
  PROVE  Tracked'
<1>1. \A id \in RuleIds : ~Live(id)'
  BY DEF IInv, RulesAreHeld
<1> QED
  BY <1>1, IdleFacts DEF Tracked, ViewTracked, PlanTracked, NoStaleRules, NoStaleFinalizer

\* While a reconciliation is at work nothing is settled.
LEMMA WorkIsTracked ==
  ASSUME run'.pc # "idle", ViewTracked', PlanTracked'
  PROVE  Tracked'
BY DEF Tracked, NoStaleRules, NoStaleFinalizer, Settled

\* A reconciliation goes on while something is queued or on its way.
LEMMA WaitingIsTracked ==
  ASSUME Tracked, queued' \/ Len(versions') > 1, UNCHANGED rules,
         run'.pc = run.pc, run'.obj = run.obj, run'.doomed = run.doomed,
         run'.current => run.current /\ Stored' = Stored
  PROVE  Tracked'
<1>1. ViewTracked'
  <2>1. run'.current /\ run'.pc # "idle" =>
          Stored' # NoResource /\ run'.obj = Defaulted(Stored')
    BY DEF Tracked, ViewTracked
  <2> QED  BY <2>1 DEF ViewTracked
<1>2. PlanTracked'
  BY DEF Tracked, PlanTracked, Live, Fits
<1>3. ~Settled'
  BY BusyIsNotSettled
<1> QED  BY <1>1, <1>2, <1>3 DEF Tracked, NoStaleRules, NoStaleFinalizer

\* What the invariant says of a reconciliation under way.
LEMMA RunFacts ==
  ASSUME IInv, VersionsPass, Tracked, run.pc # "idle"
  PROVE  /\ run \in Run /\ run.obj \in Resource /\ Defaulted(run.obj) = run.obj
         /\ run.current => Stored \in Resource /\ Passes(run.obj)
<1>1. VersionsOK /\ OthersOK /\ ViewOK
  BY Parts DEF IInv
<1>2. run \in Run /\ run.obj \in Resource /\ Defaulted(run.obj) = run.obj
  BY <1>1 DEF OthersOK, Run, ViewOK
<1>3. ASSUME run.current PROVE Stored \in Resource /\ Passes(run.obj)
  <2>1. Stored # NoResource /\ run.obj = Defaulted(Stored)
    BY <1>3 DEF Tracked, ViewTracked
  <2>2. Stored \in Resource /\ Len(versions) \in 1 .. Len(versions)
    BY <1>1, <2>1, VersionsFacts DEF Versions
  <2>3. Passes(Stored)
    BY <2>1, <2>2 DEF VersionsPass, Stored
  <2> QED  BY <2>1, <2>2, <2>3, PassesFacts
<1> QED  BY <1>2, <1>3

-----------------------------------------------------------------------------
(* The reconciler *)

LEMMA StartReconcileTracked ==
  ASSUME IInv, IInv', Tracked, StartReconcile
  PROVE  Tracked'
<1>1. VersionsOK /\ UNCHANGED <<versions, rules>>
  BY Parts DEF IInv, StartReconcile
<1>2. Stored' = Stored /\ Cached = versions[1] /\ Len(versions) \in Nat \ {0}
  BY <1>1, VersionsFacts DEF Stored
<1>3. CASE Cached = NoResource
  <2>1. Len(versions) = 1
    <3>1. 1 \in 1 .. Len(versions) /\ versions[1] = NoResource
      BY <1>2, <1>3
    <3> QED  BY <1>1, <3>1 DEF VersionsOK
  <2>2. Stored = NoResource
    BY <1>2, <1>3, <2>1 DEF Stored
  <2> QED  BY <1>2, <1>3, <2>2, GoneIsTracked DEF StartReconcile
<1>4. CASE Cached # NoResource
  <2>1. run' = Begun(Defaulted(Cached), Len(versions) = 1) /\ Cached \in Resource
    BY <1>1, <1>2, <1>4, VersionsFacts DEF StartReconcile, Versions
  <2>2. /\ run'.pc = "listRules" /\ run'.obj = Defaulted(Cached)
        /\ run'.current <=> Len(versions) = 1
    BY <2>1, BegunFacts, DefaultedFacts
  <2>3. Len(versions) = 1 => Stored = Cached
    BY <1>2 DEF Stored
  <2>4. ViewTracked'
    <3>1. CASE Len(versions) = 1
      BY <1>2, <1>4, <2>2, <2>3, <3>1 DEF ViewTracked
    <3>2. CASE Len(versions) # 1
      <4>1. Len(versions') > 1
        BY <1>1, <1>2, <3>2
      <4> QED  BY <2>2, <3>2, <4>1 DEF ViewTracked
    <3> QED  BY <3>1, <3>2
  <2>5. PlanTracked'
    BY <2>2 DEF PlanTracked
  <2> QED  BY <2>2, <2>4, <2>5, WorkIsTracked
<1> QED  BY <1>3, <1>4

\* A rule that was listed is wanted or going to be deleted.
LEMMA PlannedFits ==
  ASSUME run \in Run, NEW id \in RuleIds, Live(id)
  PROVE  id \in Planned(run).doomed \/ Fits(id, run.obj)
<1> DEFINE hostsOf(i) == {host \in Asked(run.obj) : Finds(rules[i], host, run.obj.to)}
           kept == {i \in RuleIds : hostsOf(i) # {}}
<1>1. Planned(run).doomed = {i \in RuleIds \ kept : rules[i] # NoRule /\ rules[i].live}
  BY DEF Planned, Run
<1>2. CASE id \in kept
  <2>1. PICK host \in Asked(run.obj) : Finds(rules[id], host, run.obj.to)
    BY <1>2
  <2> QED  BY <2>1 DEF Fits, Finds
<1>3. CASE id \notin kept
  BY <1>1, <1>3 DEF Live
<1> QED  BY <1>2, <1>3

LEMMA ListRulesTracked ==
  ASSUME IInv, VersionsPass, Tracked, ListRules
  PROVE  Tracked'
<1>1. CASE run' = Planned(run) /\ UNCHANGED queued
  <2>1. run.pc = "listRules" /\ UNCHANGED <<versions, rules>>
    BY DEF ListRules
  <2>2. OthersOK /\ run \in Run /\ run.obj \in Resource
    BY <2>1, Parts, RunFacts DEF IInv
  <2>3. /\ run'.obj = run.obj /\ run'.current = run.current
        /\ run'.pc # "idle"
    BY <1>1, <2>1, <2>2, PlannedFacts
  <2>4. ViewTracked'
    BY <1>1, <2>1, <2>3 DEF Tracked, ViewTracked, Stored
  <2>5. PlanTracked'
    BY <1>1, <2>1, <2>2, <2>3, PlannedFits DEF PlanTracked, Live, Fits
  <2> QED  BY <2>3, <2>4, <2>5, WorkIsTracked
<1> QED  BY <1>1, FailIsTracked DEF ListRules

\* A write of the resource that is not refused for good is followed by an event.
LEMMA UpdateTracked ==
  ASSUME IInv, VersionsPass, NEW obj \in Versions, NEW answer, Update(obj, answer),
         obj # NoResource => (run.current => Passes(obj))
  PROVE  /\ VersionsPass'
         /\ \/ Tracked'
            \/ run.current /\ Store(obj) /\ run' = answer
               /\ Stored' = obj /\ Len(versions') > 1
<1>1. VersionsOK
  BY Parts DEF IInv
<1>2. CASE run.current /\ Store(obj) /\ run' = answer
  BY <1>1, <1>2, StorePasses
<1>3. CASE Fail /\ UNCHANGED versions
  BY <1>3, FailIsTracked DEF VersionsPass
<1>4. CASE Fail /\ run.current /\ Store(obj)
  BY <1>1, <1>4, FailIsTracked, StorePasses
<1> QED  BY <1>2, <1>3, <1>4 DEF Update, NotOutdated

LEMMA AddFinalizerTracked ==
  ASSUME IInv, VersionsPass, Tracked, AddFinalizer
  PROVE  VersionsPass' /\ Tracked'
<1> DEFINE held   == [run.obj EXCEPT !.held = TRUE]
           answer == [run EXCEPT !.pc = "applyRules", !.obj = held]
<1>1. run.pc = "addFinalizer" /\ Update(held, answer) /\ UNCHANGED rules
  BY DEF AddFinalizer
<1>2. /\ run \in Run /\ run.obj \in Resource /\ Defaulted(run.obj) = run.obj
      /\ run.current => Passes(run.obj)
  BY <1>1, RunFacts
<1>3. held \in Resource /\ held.to = run.obj.to /\ Defaulted(held) = held
      /\ Asked(held) = Asked(run.obj)
  BY <1>2, HeldFacts
<1>4. run.current => Passes(held)
  BY <1>2, PassesFacts
<1>5. held \in Versions /\ held # NoResource
  BY <1>3, DependentsAssumption DEF Versions
<1>6. answer.pc = "applyRules" /\ answer.obj = held /\ answer.doomed = run.doomed
  BY <1>2 DEF Run
<1> HIDE DEF held, answer
<1>7. VersionsPass'
  BY <1>1, <1>4, <1>5, UpdateTracked
<1>8. ASSUME Store(held), run' = answer, Stored' = held, Len(versions') > 1
      PROVE  Tracked'
  <2>1. ViewTracked'
    BY <1>3, <1>5, <1>6, <1>8 DEF ViewTracked
  <2>2. PlanTracked'
    <3>1. \A id \in RuleIds : Live(id) => id \in run.doomed \/ Fits(id, run.obj)
      BY <1>1 DEF Tracked, PlanTracked
    <3> QED  BY <1>1, <1>3, <1>6, <1>8, <3>1 DEF PlanTracked, Live, Fits
  <2> QED  BY <1>6, <1>8, <2>1, <2>2, WorkIsTracked
<1> QED  BY <1>1, <1>4, <1>5, <1>7, <1>8, UpdateTracked

\* A rule is created for a host that was asked for.
LEMMA CreateRuleTracked ==
  ASSUME IInv, VersionsPass, Tracked, NEW host \in Hosts, CreateRule(host)
  PROVE  Tracked'
<1>1. PICK id \in RuleIds \ run.doomed :
        \/ /\ rules' = [rules EXCEPT ![id] = [from |-> host, to |-> run.obj.to, live |-> TRUE]]
           /\ run' = [run EXCEPT !.pending = @ \ {host}, !.left = Counted(run)]
           /\ UNCHANGED queued
        \/ Fail
  BY DEF CreateRule
<1>2. /\ run.pc = "applyRules" /\ host \in run.pending /\ UNCHANGED versions
      /\ run \in Run /\ rules \in [RuleIds -> Rule \cup {NoRule}]
  BY RunFacts, Parts DEF CreateRule, IInv, OthersOK
<1>3. CASE /\ rules' = [rules EXCEPT ![id] = [from |-> host, to |-> run.obj.to, live |-> TRUE]]
           /\ run' = [run EXCEPT !.pending = @ \ {host}, !.left = Counted(run)]
           /\ UNCHANGED queued
  <2>1. /\ run'.pc = run.pc /\ run'.obj = run.obj /\ run'.doomed = run.doomed
        /\ run'.current = run.current
    BY <1>2, <1>3 DEF Run
  <2>2. host \in Asked(run.obj)
    BY <1>2 DEF IInv, PlanIsSound
  <2>3. ViewTracked'
    BY <1>2, <1>3, <2>1 DEF Tracked, ViewTracked, Stored
  <2>4. PlanTracked'
    <3>1. ASSUME NEW other \in RuleIds, Live(other)'
          PROVE  other \in run.doomed \/ Fits(other, run.obj)'
      <4>1. CASE other = id
        BY <1>2, <1>3, <2>1, <2>2, <4>1 DEF Fits
      <4>2. CASE other # id
        <5>1. rules'[other] = rules[other]
          BY <1>2, <1>3, <4>2
        <5> QED  BY <1>2, <2>1, <3>1, <5>1 DEF Tracked, PlanTracked, Live, Fits
      <4> QED  BY <4>1, <4>2
    <3> QED  BY <2>1, <3>1 DEF PlanTracked, Fits
  <2> QED  BY <1>2, <2>1, <2>3, <2>4, WorkIsTracked
<1> QED  BY <1>1, <1>3, FailIsTracked

LEMMA DeleteRuleTracked ==
  ASSUME IInv, VersionsPass, Tracked, NEW id \in RuleIds, DeleteRule(id)
  PROVE  Tracked'
<1>1. /\ run.pc = "applyRules" /\ UNCHANGED versions
      /\ run \in Run /\ rules \in [RuleIds -> Rule \cup {NoRule}]
  BY RunFacts, Parts DEF DeleteRule, IInv, OthersOK
<1>2. CASE /\ rules[id] # NoRule
           /\ rules' = [rules EXCEPT ![id] = [@ EXCEPT !.live = FALSE]]
           /\ run' = [run EXCEPT !.doomed = @ \ {id}]
           /\ UNCHANGED queued
  <2>1. /\ run'.pc = run.pc /\ run'.obj = run.obj /\ run'.doomed = run.doomed \ {id}
        /\ run'.current = run.current
    BY <1>1, <1>2 DEF Run
  <2>2. ViewTracked'
    BY <1>1, <1>2, <2>1 DEF Tracked, ViewTracked, Stored
  <2>3. ~Live(id)'
    BY <1>1, <1>2 DEF Live, Rule
  <2>4. \A other \in RuleIds : other # id => rules'[other] = rules[other]
    BY <1>1, <1>2
  <2>5. PlanTracked'
    BY <1>1, <2>1, <2>3, <2>4 DEF Tracked, PlanTracked, Live, Fits
  <2> QED  BY <1>1, <2>1, <2>2, <2>5, WorkIsTracked
<1> QED  BY <1>2, FailIsTracked DEF DeleteRule

\* A reconciliation that ends has worked on what is stored, or an event follows.
LEMMA FinishTracked ==
  ASSUME IInv, VersionsPass, Tracked, Finish
  PROVE  VersionsPass' /\ Tracked'
<1>1. /\ run.pc = "applyRules" /\ run.pending = {} /\ run.doomed = {} /\ UNCHANGED rules
      /\ run \in Run /\ run.obj \in Resource /\ Defaulted(run.obj) = run.obj
      /\ run.current => Stored \in Resource /\ Passes(run.obj)
  BY RunFacts DEF Finish
<1>2. CASE Releases(run)
  <2>1. Update(Released(run.obj), Idle)
    BY <1>2 DEF Finish
  <2>2. /\ Released(run.obj) \in Versions
        /\ Released(run.obj) # NoResource => (run.current => Passes(Released(run.obj)))
    <3>1. CASE run.obj.deleting
      BY <3>1 DEF Released, Versions
    <3>2. CASE ~run.obj.deleting
      <4>1. [run.obj EXCEPT !.held = FALSE] \in Resource
        BY <1>1 DEF Resource
      <4>2. run.current => Passes([run.obj EXCEPT !.held = FALSE])
        BY <1>1, PassesFacts
      <4> QED  BY <3>2, <4>1, <4>2 DEF Released, Versions
    <3> QED  BY <3>1, <3>2
  <2> QED  BY <2>1, <2>2, UpdateTracked, BusyIsTracked
<1>3. CASE ~Releases(run)
  <2>1. run' = Idle /\ UNCHANGED <<versions, queued, rules>>
    BY <1>1, <1>3 DEF Finish
  <2>2. VersionsPass' /\ Stored' = Stored
    BY <2>1 DEF VersionsPass, Stored
  <2>3. CASE queued \/ Len(versions) > 1
    BY <2>1, <2>2, <2>3, BusyIsTracked
  <2>4. CASE ~(queued \/ Len(versions) > 1)
    <3>1. Stored \in Resource /\ run.obj = Defaulted(Stored)
      BY <1>1, <2>4 DEF Tracked, ViewTracked
    <3>2. Wanted(Stored) = Asked(run.obj) /\ Stored.held = run.obj.held
      BY <3>1, DefaultedFacts
    <3>3. NoStaleRules'
      <4>1. \A id \in RuleIds : Live(id) => Fits(id, run.obj)
        BY <1>1 DEF Tracked, PlanTracked
      <4>2. \A id \in RuleIds : Live(id)' => Live(id) /\ rules'[id] = rules[id]
        BY <1>1 DEF Live
      <4>3. Wanted(Stored)' = Wanted(Stored) /\ Defaulted(Stored)' = Defaulted(Stored)
        BY <2>1 DEF Stored, Wanted, Defaulted, Asked
      <4> QED  BY <3>1, <3>2, <4>1, <4>2, <4>3 DEF NoStaleRules, Fits
    <3>4. NoStaleFinalizer'
      <4>1. Stored.held => run.left
        BY <1>3, <3>2 DEF Releases
      <4>2. run.left => Asked(run.obj) # {}
        BY <1>1 DEF IInv, PlanIsSound
      <4>3. Wanted(Stored)' = Wanted(Stored)
        BY <2>1 DEF Stored, Wanted, Defaulted, Asked
      <4> QED  BY <2>2, <3>2, <4>1, <4>2, <4>3 DEF NoStaleFinalizer
    <3>5. ViewTracked' /\ PlanTracked'
      BY <2>1, IdleFacts DEF ViewTracked, PlanTracked
    <3> QED  BY <2>2, <3>3, <3>4, <3>5 DEF Tracked
  <2> QED  BY <2>2, <2>3, <2>4
<1> QED  BY <1>2, <1>3

\* The process starts with what is stored, and with its event.
LEMMA CrashTracked ==
  ASSUME IInv, IInv', VersionsPass, Crash
  PROVE  VersionsPass' /\ Tracked'
<1>1. VersionsOK /\ run' = Idle /\ versions' = <<Stored>>
      /\ queued' = (Stored # NoResource /\ Passes(Stored))
  BY Parts DEF IInv, Crash
<1>2. Stored # NoResource => Passes(Stored)
  BY <1>1, VersionsFacts DEF VersionsPass, Stored
<1>3. Stored' = Stored
  BY <1>1, RelistFacts
<1>4. VersionsPass'
  BY <1>1, <1>2 DEF VersionsPass
<1>5. CASE Stored = NoResource
  BY <1>1, <1>3, <1>4, <1>5, GoneIsTracked
<1>6. CASE Stored # NoResource
  BY <1>1, <1>2, <1>4, <1>6, BusyIsTracked
<1> QED  BY <1>5, <1>6

\* Every event gets through, so that the version that arrives is looked at.
LEMMA DeliverTracked ==
  ASSUME IInv, VersionsPass, Tracked, Deliver
  PROVE  VersionsPass' /\ Tracked'
<1>1. VersionsOK /\ StaysHeld /\ Len(versions) > 1 /\ versions' = Tail(versions)
  BY Parts DEF IInv, Deliver
<1>2. VersionsPass' /\ queued'
  BY <1>1, DeliverPasses
<1>3. Stored' = Stored
  BY <1>1, DeliverFacts
<1>4. Tracked'
  BY <1>2, <1>3, WaitingIsTracked DEF Deliver
<1> QED  BY <1>2, <1>4

LEMMA ResyncTracked ==
  ASSUME VersionsPass, Tracked, Resync
  PROVE  VersionsPass' /\ Tracked'
<1>1. UNCHANGED <<versions, rules, run>> /\ queued'
  BY DEF Resync
<1>2. VersionsPass' /\ Stored' = Stored
  BY <1>1 DEF VersionsPass, Stored
<1>3. Tracked'
  BY <1>1, <1>2, WaitingIsTracked
<1> QED  BY <1>2, <1>3

-----------------------------------------------------------------------------
(* Users and the environment *)

\* What somebody else writes is on its way to the cache.
LEMMA InterfereTracked ==
  ASSUME IInv, VersionsPass, Tracked, NEW obj \in Versions, Interfere(obj),
         obj # NoResource => Passes(obj), UNCHANGED rules
  PROVE  VersionsPass' /\ Tracked'
<1>1. VersionsOK /\ run \in Run /\ Store(obj) /\ run' = [run EXCEPT !.current = FALSE]
  BY Parts DEF IInv, OthersOK, Interfere
<1>2. VersionsPass' /\ Len(versions') > 1
  BY <1>1, StorePasses
<1>3. /\ run'.pc = run.pc /\ run'.obj = run.obj /\ run'.doomed = run.doomed
      /\ ~run'.current
  BY <1>1 DEF Run
<1>4. Tracked'
  BY <1>2, <1>3, WaitingIsTracked
<1> QED  BY <1>2, <1>4

LEMMA EditResourceTracked ==
  ASSUME FilterPasses, IInv, VersionsPass, Tracked,
         NEW shape \in Shapes, NEW leaveTarget \in BOOLEAN,
         EditResource(shape, leaveTarget)
  PROVE  VersionsPass' /\ Tracked'
<1> DEFINE obj == [Stored EXCEPT !.from = shape.from, !.others = shape.others,
                                 !.to = IF leaveTarget THEN @ ELSE shape.to,
                                 !.balanced = shape.balanced]
<1>1. Stored \in Resource
  <2>1. Stored \in Versions /\ Stored # NoResource
    BY Parts, VersionsFacts DEF IInv, EditResource
  <2> QED  BY <2>1 DEF Versions
<1>2. shape \in Shape /\ Passes(shape)
  BY DependentsAssumption DEF FilterPasses
<1>3. obj \in Resource /\ obj.from = shape.from /\ obj.balanced = shape.balanced
  BY <1>1, <1>2 DEF Resource, Shape
<1>4. Interfere(obj) /\ UNCHANGED rules
  BY DEF EditResource
<1> HIDE DEF obj
<1>5. Passes(obj)
  BY <1>2, <1>3 DEF Passes
<1>6. obj \in Versions
  BY <1>3 DEF Versions
<1> QED  BY <1>4, <1>5, <1>6, InterfereTracked

LEMMA DeleteResourceTracked ==
  ASSUME IInv, VersionsPass, Tracked, DeleteResource
  PROVE  VersionsPass' /\ Tracked'
<1> DEFINE obj == IF Stored.held THEN [Stored EXCEPT !.deleting = TRUE] ELSE NoResource
<1>1. VersionsOK
  BY Parts DEF IInv
<1>2. Stored \in Resource
  BY <1>1, VersionsFacts DEF DeleteResource, Versions
<1>3. Passes(Stored)
  BY <1>1, VersionsFacts DEF VersionsPass, Stored, DeleteResource
<1>4. [Stored EXCEPT !.deleting = TRUE] \in Resource
      /\ Passes([Stored EXCEPT !.deleting = TRUE])
  BY <1>2, <1>3, PassesFacts DEF Resource
<1>5. obj \in Versions /\ (obj # NoResource => Passes(obj))
  BY <1>4 DEF Versions
<1>6. Interfere(obj) /\ UNCHANGED rules
  BY DEF DeleteResource
<1> HIDE DEF obj
<1> QED  BY <1>5, <1>6, InterfereTracked

\* Rules that go leave nothing stale behind.
LEMMA FadingTracked ==
  ASSUME VersionsPass, Tracked, UNCHANGED <<versions, queued, run>>,
         \A id \in RuleIds : Live(id)' => Live(id) /\ Fits(id, run.obj)' = Fits(id, run.obj)
                                          /\ rules'[id].from = rules[id].from
                                          /\ rules'[id].to = rules[id].to
  PROVE  VersionsPass' /\ Tracked'
<1>1. VersionsPass' /\ Stored' = Stored /\ Settled' = Settled
  BY DEF VersionsPass, Stored, Settled
<1>2. ViewTracked'
  BY <1>1 DEF Tracked, ViewTracked
<1>3. PlanTracked'
  BY DEF Tracked, PlanTracked, Fits
<1>4. NoStaleRules'
  BY <1>1 DEF Tracked, NoStaleRules
<1>5. NoStaleFinalizer'
  BY <1>1 DEF Tracked, NoStaleFinalizer
<1> QED  BY <1>1, <1>2, <1>3, <1>4, <1>5 DEF Tracked

LEMMA RuleGoneTracked ==
  ASSUME IInv, VersionsPass, Tracked, NEW id \in RuleIds, RuleGone(id)
  PROVE  VersionsPass' /\ Tracked'
<1>1. rules \in [RuleIds -> Rule \cup {NoRule}]
  BY Parts DEF IInv, OthersOK
<1>2. \A other \in RuleIds : Live(other)' => Live(other) /\ rules'[other] = rules[other]
  BY <1>1 DEF RuleGone, Live
<1> QED  BY <1>2, FadingTracked DEF RuleGone, Fits

LEMMA DeleteRuleByHandTracked ==
  ASSUME IInv, VersionsPass, Tracked, NEW id \in RuleIds, DeleteRuleByHand(id)
  PROVE  VersionsPass' /\ Tracked'
<1>1. rules \in [RuleIds -> Rule \cup {NoRule}] /\ rules[id] \in Rule
  BY Parts DEF IInv, OthersOK, DeleteRuleByHand
<1>2. \A other \in RuleIds : Live(other)' => Live(other) /\ rules'[other] = rules[other]
  BY <1>1 DEF DeleteRuleByHand, Live, Rule
<1> QED  BY <1>2, FadingTracked DEF DeleteRuleByHand, Fits

-----------------------------------------------------------------------------
(* The invariant *)

SInv == FilterPasses /\ IInv /\ VersionsPass /\ Tracked

LEMMA InitTracked == FilterPasses /\ Init => SInv
<1> SUFFICES ASSUME FilterPasses, Init PROVE SInv
  OBVIOUS
<1>1. PICK shape \in Shapes :
        LET obj == [from |-> shape.from, others |-> shape.others, to |-> shape.to,
                    balanced |-> shape.balanced, deleting |-> FALSE, held |-> FALSE]
        IN  versions = <<obj>> /\ queued = Passes(obj)
  BY DEF Init
<1> DEFINE obj == [from |-> shape.from, others |-> shape.others, to |-> shape.to,
                   balanced |-> shape.balanced, deleting |-> FALSE, held |-> FALSE]
<1>2. Passes(obj)
  BY DEF FilterPasses, Passes
<1>3. versions = <<obj>> /\ queued
  BY <1>1, <1>2
<1> HIDE DEF obj
<1>4. VersionsPass
  BY <1>2, <1>3 DEF VersionsPass
<1>5. ViewTracked /\ PlanTracked /\ NoStaleRules /\ NoStaleFinalizer
  BY <1>3, IdleFacts DEF Init, ViewTracked, PlanTracked, NoStaleRules, NoStaleFinalizer,
                         Settled
<1> QED  BY <1>4, <1>5, InitInvariant DEF SInv, Tracked

\* The steps that leave the versions alone.
LEMMA QuietSteps ==
  ASSUME UNCHANGED versions, VersionsPass
  PROVE  VersionsPass'
BY DEF VersionsPass

LEMMA NextTracked == SInv /\ [Next]_vars => SInv'
<1> SUFFICES ASSUME FilterPasses, IInv, VersionsPass, Tracked, [Next]_vars
             PROVE  VersionsPass' /\ Tracked' /\ IInv'
  BY DEF SInv, FilterPasses, Passes
<1>1. IInv'
  BY NextInvariant
<1>2. CASE Step
  <2>1. CASE StartReconcile
    BY <1>1, <2>1, StartReconcileTracked, QuietSteps DEF StartReconcile
  <2>2. CASE ListRules
    BY <1>1, <2>2, ListRulesTracked, QuietSteps DEF ListRules
  <2>3. ASSUME NEW host \in Hosts, CreateRule(host) PROVE VersionsPass' /\ Tracked'
    BY <2>3, CreateRuleTracked, QuietSteps DEF CreateRule
  <2>4. ASSUME NEW id \in RuleIds, DeleteRule(id) PROVE VersionsPass' /\ Tracked'
    BY <2>4, DeleteRuleTracked, QuietSteps DEF DeleteRule
  <2> QED  BY <1>1, <1>2, <2>1, <2>2, <2>3, <2>4, AddFinalizerTracked, FinishTracked DEF Step
<1>3. ASSUME NEW shape \in Shapes, NEW leaveTarget \in BOOLEAN,
             EditResource(shape, leaveTarget)
      PROVE  VersionsPass' /\ Tracked'
  BY <1>3, EditResourceTracked
<1>4. ASSUME NEW id \in RuleIds, RuleGone(id) \/ DeleteRuleByHand(id)
      PROVE  VersionsPass' /\ Tracked'
  BY <1>4, RuleGoneTracked, DeleteRuleByHandTracked
<1>5. CASE UNCHANGED vars
  BY <1>1, <1>5, FadingTracked DEF vars, Live, Fits
<1>6. CASE Deliver \/ Crash \/ Resync \/ DeleteResource
  BY <1>1, <1>6, DeliverTracked, CrashTracked, ResyncTracked, DeleteResourceTracked
<1> QED  BY <1>1, <1>2, <1>3, <1>4, <1>5, <1>6 DEF Next

LEMMA NothingUntracked == FilterPasses /\ Spec => []SInv
<1>1. FilterPasses /\ Init => SInv
  BY InitTracked
<1>2. SInv /\ [Next]_vars => SInv'
  BY NextTracked
<1> QED  BY <1>1, <1>2, PTL DEF Spec

\* manageDependents deletes the rules a resource does not ask for (any more), and
\* whatever calls fail, get lost or are interrupted, and however far the cache
\* lags, the next reconciliation makes up for it.
THEOREM NothingStaleLeft == FilterPasses /\ Spec => []NoStaleRules
<1>1. SInv => NoStaleRules
  BY DEF SInv, Tracked
<1> QED  BY <1>1, NothingUntracked, PTL

\* manageDependents removes the finalizer from a resource that has no rules left;
\* in particular the deletion of a resource is never left waiting.
THEOREM NoFinalizerLeft == FilterPasses /\ Spec => []NoStaleFinalizer
<1>1. SInv => NoStaleFinalizer
  BY DEF SInv, Tracked
<1> QED  BY <1>1, NothingUntracked, PTL

=============================================================================
