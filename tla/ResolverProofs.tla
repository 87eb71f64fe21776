---------------------------- MODULE ResolverProofs ----------------------------
(***************************************************************************)
(* Safety of Resolver, for any endpoints, calls and configurations: the    *)
(* stop channel of a port forward is closed once, and a verdict is true of *)
(* configurations that were loaded during the call.                        *)
(***************************************************************************)
EXTENDS Resolver, SequenceTheorems, TLAPS

\* The inductive invariant.  VerdictIsJustified needs TasksAreSound: the verdict
\* is made of results, and those of the answer to the first lookup.
IInv == TypeOK /\ TasksAreSound /\ VerdictIsJustified

-----------------------------------------------------------------------------
(* Lookups *)

\* A lookup yields addresses.
LEMMA LookupYieldsAddresses ==
  ASSUME NEW table, NEW target
  PROVE  Lookup(table, target) \subseteq Addresses
PROOF
  <1>1. \A name : UpstreamOf(name) \subseteq Addresses
    BY DnsAssumption DEF UpstreamOf
  <1> QED
    BY <1>1 DEF Lookup, Answer

\* What a lookup returns without an error comes from what the endpoint has loaded.
LEMMA AnswersAreTrue ==
  ASSUME NEW e, NEW target, NEW answer \in Answers(e, target)
  PROVE  /\ answer \in LookupAnswer
         /\ ~answer.err => answer.addresses = Lookup(served[e], target)
PROOF
  <1>1. Lookup(served[e], target) \subseteq Addresses
    BY LookupYieldsAddresses
  <1> DEFINE found  == [addresses |-> Lookup(served[e], target), err |-> FALSE]
             failed == [addresses |-> {}, err |-> TRUE]
  <1>2. answer \in {found, failed}
    BY DEF Answers
  <1>3. found \in LookupAnswer /\ failed \in LookupAnswer
    BY <1>1 DEF LookupAnswer
  <1> HIDE DEF found, failed
  <1>4. answer \in LookupAnswer
    BY <1>2, <1>3
  <1>5. ~answer.err => answer.addresses = Lookup(served[e], target)
    BY <1>2 DEF found, failed
  <1> QED
    BY <1>4, <1>5

-----------------------------------------------------------------------------
(* Handles *)

LEMMA IsSequence ==
  ASSUME NEW S, NEW n \in Nat, NEW f \in [1 .. n -> S]
  PROVE  f \in Seq(S)
PROOF BY SeqDef

LEMMA ChangeChangesOne ==
  ASSUME forwards \in [Handles -> Handle], NEW h \in Handles,
         NEW handle \in Handle, Change(h, handle)
  PROVE  /\ forwards' \in [Handles -> Handle]
         /\ forwards'[h] = handle
         /\ \A d \in Handles \ {h} : forwards'[d] = forwards[d]
PROOF BY DEF Change

\* What a step of one handle leaves, as far as HandleIsSound asks.
LEMMA HandleSteps ==
  ASSUME forwards \in [Handles -> Handle], NEW h \in Handles
  PROVE  LET p == forwards[h]
             q == forwards'[h]
             typed == /\ forwards' \in [Handles -> Handle]
                      /\ \A d \in Handles \ {h} : forwards'[d] = forwards[d]
         IN  /\ StartBegins(h) =>
                  /\ typed
                  /\ q.starting /\ ~q.started
                  /\ q.stopped = p.stopped /\ q.closes = p.closes
             /\ StartBreaks(h) =>
                  /\ typed
                  /\ ~q.starting /\ ~q.started
                  /\ q.stopped = p.stopped /\ q.closes = p.closes
             /\ StartSucceeds(h) =>
                  /\ typed
                  /\ ~q.starting
                  /\ q.stopped = p.stopped /\ q.closes = p.closes
             /\ StartFails(h) \/ StartRejectsPorts(h) =>
                  /\ typed
                  /\ ~q.starting /\ q.started = p.started
                  /\ q.stopped = p.stopped /\ q.closes \in {p.closes, p.closes + 1}
             /\ Stop(h) =>
                  /\ typed
                  /\ q.starting = p.starting /\ q.started = p.started
                  /\ p.started => q.stopped
                  /\ ~p.started => q = p
                  /\ q.closes \in {p.closes, p.closes + 1}
             /\ Forwarding(h) =>
                  /\ typed
                  /\ q.starting = p.starting /\ q.started = p.started
                  /\ q.stopped = p.stopped /\ q.closes = p.closes
PROOF
  <1> DEFINE p == forwards[h]
             q == forwards'[h]
             typed == /\ forwards' \in [Handles -> Handle]
                      /\ \A d \in Handles \ {h} : forwards'[d] = forwards[d]
  <1>1. /\ p \in Handle
        /\ p.starting \in BOOLEAN /\ p.started \in BOOLEAN /\ p.stopped \in BOOLEAN
        /\ p.closes \in Nat /\ p.attempts \in Seq(Forwarder)
    BY DEF Handle
  <1>2. \A state \in Forwarder : Append(p.attempts, state) \in Seq(Forwarder)
    BY <1>1
  <1>3. ASSUME NEW i, NEW state \in Forwarder
        PROVE  [p.attempts EXCEPT ![i] = state] \in Seq(Forwarder)
    <2>1. PICK n \in Nat : p.attempts \in [1 .. n -> Forwarder]
      BY <1>1
    <2>2. [p.attempts EXCEPT ![i] = state] \in [1 .. n -> Forwarder]
      BY <1>3, <2>1
    <2> HIDE DEF p
    <2> QED
      BY <2>2, IsSequence
  <1>4. {"unborn", "dialing", "listening", "refused", "lost", "received", "ended",
         "abandoned"} \subseteq Forwarder
    BY DEF Forwarder
  <1>5. ASSUME NEW n \in Handle, Change(h, n)
        PROVE  typed /\ q = n
    BY <1>5, ChangeChangesOne
  <1>6. ASSUME StartBegins(h)
        PROVE  typed /\ q.starting /\ ~q.started /\ q.stopped = p.stopped /\ q.closes = p.closes
    <2> DEFINE n == [p EXCEPT !.starting = TRUE, !.attempts = Append(@, "dialing")]
    <2>1. n \in Handle
      BY <1>1, <1>2, <1>4 DEF Handle
    <2>2. /\ n.starting = TRUE /\ n.started = p.started
          /\ n.stopped = p.stopped /\ n.closes = p.closes
      BY <1>1 DEF Handle
    <2>3. Change(h, n)
      BY <1>6 DEF StartBegins, MayStart
    <2> HIDE DEF n
    <2>4. typed /\ q = n
      BY <1>5, <2>1, <2>3
    <2> QED
      BY <1>6, <2>2, <2>4 DEF StartBegins, MayStart
  <1>7. ASSUME StartBreaks(h)
        PROVE  typed /\ ~q.starting /\ ~q.started /\ q.stopped = p.stopped /\ q.closes = p.closes
    <2> DEFINE n == [p EXCEPT !.attempts = Append(@, "unborn")]
    <2>1. n \in Handle
      BY <1>1, <1>2, <1>4 DEF Handle
    <2>2. /\ n.starting = p.starting /\ n.started = p.started
          /\ n.stopped = p.stopped /\ n.closes = p.closes
      BY <1>1 DEF Handle
    <2>3. Change(h, n)
      BY <1>7 DEF StartBreaks, MayStart
    <2> HIDE DEF n
    <2>4. typed /\ q = n
      BY <1>5, <2>1, <2>3
    <2> QED
      BY <1>7, <2>2, <2>4 DEF StartBreaks, MayStart
  <1>8. ASSUME StartSucceeds(h)
        PROVE  typed /\ ~q.starting /\ q.stopped = p.stopped /\ q.closes = p.closes
    <2> DEFINE n == [p EXCEPT !.starting = FALSE, !.started = TRUE]
    <2>1. n \in Handle
      BY <1>1, <1>2, <1>4 DEF Handle
    <2>2. /\ n.starting = FALSE /\ n.started = TRUE
          /\ n.stopped = p.stopped /\ n.closes = p.closes
      BY <1>1 DEF Handle
    <2>3. Change(h, n)
      BY <1>8 DEF StartSucceeds
    <2> HIDE DEF n
    <2>4. typed /\ q = n
      BY <1>5, <2>1, <2>3
    <2> QED
      BY <1>8, <2>2, <2>4 DEF StartSucceeds
  <1>9. \A state \in Forwarder : Became(h, state) \in Seq(Forwarder)
    BY <1>3 DEF Became
  <1>10. ASSUME StartFails(h) \/ StartRejectsPorts(h)
         PROVE  /\ typed /\ ~q.starting /\ q.started = p.started
                /\ q.stopped = p.stopped /\ q.closes \in {p.closes, p.closes + 1}
    <2> DEFINE n(closes, attempts) ==
                 [p EXCEPT !.starting = FALSE, !.closes = closes, !.attempts = attempts]
               m(closes) == [p EXCEPT !.starting = FALSE, !.closes = closes]
               o(attempts) == [p EXCEPT !.starting = FALSE, !.attempts = attempts]
               left == IF Current(h) = "listening" THEN Became(h, "abandoned") ELSE p.attempts
    <2>1. /\ n(p.closes + 1, Became(h, "received")) \in Handle
          /\ m(p.closes + 1) \in Handle
          /\ o(left) \in Handle
      <3>1. /\ p.closes + 1 \in Nat
            /\ Became(h, "received") \in Seq(Forwarder)
            /\ left \in Seq(Forwarder)
        BY <1>1, <1>4, <1>9
      <3>2. ASSUME NEW closes \in Nat, NEW attempts \in Seq(Forwarder)
            PROVE  /\ n(closes, attempts) \in Handle
                   /\ m(closes) \in Handle
                   /\ o(attempts) \in Handle
        BY <1>1 DEF Handle
      <3> HIDE DEF n, m, o, left
      <3> QED
        BY <3>1, <3>2
    <2>2. ASSUME NEW closes, NEW attempts
          PROVE  /\ ~n(closes, attempts).starting /\ n(closes, attempts).started = p.started
                 /\ n(closes, attempts).stopped = p.stopped /\ n(closes, attempts).closes = closes
                 /\ ~m(closes).starting /\ m(closes).started = p.started
                 /\ m(closes).stopped = p.stopped /\ m(closes).closes = closes
                 /\ ~o(attempts).starting /\ o(attempts).started = p.started
                 /\ o(attempts).stopped = p.stopped /\ o(attempts).closes = p.closes
      BY <1>1 DEF Handle
    <2>3. \/ Change(h, n(p.closes + 1, Became(h, "received")))
          \/ Change(h, m(p.closes + 1))
          \/ Change(h, o(left))
      BY <1>10 DEF StartFails, StartRejectsPorts, ClosesOnFailure
    <2> HIDE DEF n, m, o, left, p, q, typed
    <2>4. CASE Change(h, n(p.closes + 1, Became(h, "received")))
      <3>1. typed /\ q = n(p.closes + 1, Became(h, "received"))
        BY <1>5, <2>1, <2>4
      <3> QED
        BY <2>2, <3>1
    <2>5. CASE Change(h, m(p.closes + 1))
      <3>1. typed /\ q = m(p.closes + 1)
        BY <1>5, <2>1, <2>5
      <3> QED
        BY <2>2, <3>1
    <2>6. CASE Change(h, o(left))
      <3>1. typed /\ q = o(left)
        BY <1>5, <2>1, <2>6
      <3> QED
        BY <2>2, <3>1
    <2> QED
      BY <2>3, <2>4, <2>5, <2>6
  <1>11. ASSUME Stop(h)
         PROVE  /\ typed
                /\ q.starting = p.starting /\ q.started = p.started
                /\ p.started => q.stopped
                /\ ~p.started => q = p
                /\ q.closes \in {p.closes, p.closes + 1}
    <2> DEFINE with(closes) == [p EXCEPT !.stopped = TRUE, !.closes = closes]
               n == with(p.closes + 1)
    <2>1. n \in Handle
      <3>1. \A closes \in Nat : with(closes) \in Handle
        BY <1>1 DEF Handle
      <3> HIDE DEF with
      <3> QED
        BY <1>1, <3>1
    <2>2. /\ n.starting = p.starting /\ n.started = p.started
          /\ n.stopped /\ n.closes = p.closes + 1
      BY <1>1 DEF Handle
    <2>3. CASE ~p.started \/ p.stopped
      BY <1>11, <2>3 DEF Stop
    <2>4. CASE ~(~p.started \/ p.stopped)
      <3>1. Change(h, n)
        BY <1>11, <2>4 DEF Stop
      <3> HIDE DEF n
      <3>2. typed /\ q = n
        BY <1>5, <2>1, <3>1
      <3> QED
        BY <2>2, <2>4, <3>2
    <2> QED
      BY <2>3, <2>4
  <1>12. ASSUME Forwarding(h)
         PROVE  /\ typed
                /\ q.starting = p.starting /\ q.started = p.started
                /\ q.stopped = p.stopped /\ q.closes = p.closes
    <2>1. PICK i \in DOMAIN p.attempts, state \in Forwarder :
            Change(h, [p EXCEPT !.attempts[i] = state])
      BY <1>4, <1>12 DEF Forwarding, Connect, Refuse, Lose, End, Steps
    <2> DEFINE n == [p EXCEPT !.attempts = [p.attempts EXCEPT ![i] = state]]
    <2>2. n \in Handle
      BY <1>1, <1>3 DEF Handle
    <2>3. /\ n.starting = p.starting /\ n.started = p.started
          /\ n.stopped = p.stopped /\ n.closes = p.closes
      BY <1>1 DEF Handle
    <2>4. Change(h, n)
      BY <1>1, <2>1 DEF Handle
    <2> HIDE DEF n
    <2> QED
      BY <1>5, <2>2, <2>3, <2>4
  <1> QED
    BY <1>6, <1>7, <1>8, <1>10, <1>11, <1>12

-----------------------------------------------------------------------------
LEMMA InitEstablishes == Init => IInv
PROOF
  <1> SUFFICES ASSUME Init PROVE IInv
    OBVIOUS
  <1>1. forwards \in [Handles -> Handle]
    <2>1. New \in Handle
      BY DEF New, Handle
    <2> QED
      BY <2>1 DEF Init, PortForwardInit
  <1>2. TypeOK
    BY <1>1, ResolverAssumption DEF Init, TypeOK, At, Nothing, LookupAnswer
  <1>3. TasksAreSound
    BY ResolverAssumption DEF Init, TasksAreSound, HandleIsSound, Forwarded, AnswerIsSound, At,
       PortForwardInit, New
  <1>4. VerdictIsJustified
    BY DEF Init, VerdictIsJustified
  <1> QED
    BY <1>2, <1>3, <1>4 DEF IInv

-----------------------------------------------------------------------------
(* Steps *)

\* What can be concluded stays so when more configurations are loaded.
LEMMA CanFitIsStable ==
  ASSUME NEW e, NEW yes, CanFit(e, yes), call' = call, loaded[e] \subseteq loaded'[e]
  PROVE  CanFit(e, yes)'
PROOF
  <1>1. PICK t \in loaded[e], u \in loaded[e] : Fits(t, u) = yes
    BY DEF CanFit
  <1>2. Fits(t, u)' = Fits(t, u)
    BY DEF Fits
  <1> QED
    BY <1>1, <1>2 DEF CanFit

\* A goroutine goes on, with or without sending its result.
LEMMA GotoTypes ==
  ASSUME TypeOK, NEW e \in Endpoints, UNCHANGED <<call, phase, asked, verdict, served, loaded>>,
         NEW pc \in {"none", "start", "starting", "host", "expected", "stop", "ended"},
         task' = [task EXCEPT ![e].pc = pc],
         result' \in [Endpoints -> Result \cup {NoResult}],
         \A d \in Endpoints \ {e} : result'[d] = result[d],
         result'[e] # NoResult <=> pc \in {"stop", "ended"},
         forwards' \in [Handles -> Handle]
  PROVE  /\ TypeOK'
         /\ task'[e].pc = pc /\ task'[e].host = task[e].host
         /\ \A d \in Endpoints \ {e} : task'[d] = task[d]
PROOF
  <1> DEFINE Task == [pc : {"none", "start", "starting", "host", "expected", "stop", "ended"},
                      host : LookupAnswer]
  <1>1. task \in [Endpoints -> Task]
    BY DEF TypeOK
  <1>2. [task[e] EXCEPT !.pc = pc] \in Task
    BY <1>1
  <1>3. /\ task' \in [Endpoints -> Task]
        /\ task'[e].pc = pc /\ task'[e].host = task[e].host
        /\ \A d \in Endpoints \ {e} : task'[d] = task[d]
    BY <1>1, <1>2
  <1>4. \A d \in Endpoints : result'[d] # NoResult <=> task'[d].pc \in {"stop", "ended"}
    BY <1>3 DEF TypeOK
  <1> QED
    BY <1>3, <1>4 DEF TypeOK

\* What is sound of an answer stays so when the goroutine goes on to something else.
LEMMA AnswerStays ==
  ASSUME NEW e, AnswerIsSound(e), UNCHANGED <<call, served, loaded>>,
         result'[e] = result[e],
         task'[e].pc # "expected" \/ task'[e] = task[e]
  PROVE  AnswerIsSound(e)'
PROOF
  <1>1. \A yes : CanFit(e, yes)' <=> CanFit(e, yes)
    BY DEF CanFit, Fits
  <1>2. At(e, "expected")' => At(e, "expected") /\ task'[e] = task[e]
    BY DEF At
  <1> QED
    BY <1>1, <1>2 DEF AnswerIsSound

\* A step of one endpoint, its goroutine or its forwarder leaves the others alone.
LEMMA OneEndpointActs ==
  ASSUME IInv, TypeOK', NEW e \in Endpoints,
         UNCHANGED <<call, phase, asked, verdict>>,
         phase \in {"service", "endpoints"} => task'[e] = task[e],
         \A d \in Endpoints : loaded[d] \subseteq loaded'[d],
         \A d \in Endpoints \ {e} :
            /\ task'[d] = task[d] /\ result'[d] = result[d] /\ served'[d] = served[d]
            /\ forwards'[d] = forwards[d],
         HandleIsSound(e)', AnswerIsSound(e)'
  PROVE  IInv'
PROOF
  <1>1. ASSUME NEW d \in Endpoints \ {e}
        PROVE  HandleIsSound(d)' /\ AnswerIsSound(d)'
    <2>1. HandleIsSound(d) /\ AnswerIsSound(d)
      BY DEF IInv, TasksAreSound
    <2>2. HandleIsSound(d)'
      BY <2>1 DEF HandleIsSound, Forwarded
    <2>3. ASSUME result'[d] # NoResult, ~result'[d].err
          PROVE  \E t, u \in loaded'[d] : Fits(t, u)' = result'[d].active
      <3>1. result[d] \in Result /\ result'[d] = result[d]
        BY <2>3 DEF IInv, TypeOK
      <3>2. PICK yes \in BOOLEAN : yes = result[d].active
        BY <3>1 DEF Result
      <3>3. CanFit(d, yes)
        BY <2>1, <2>3, <3>1, <3>2 DEF AnswerIsSound
      <3>4. CanFit(d, yes)'
        BY <3>3, CanFitIsStable
      <3> QED
        BY <3>1, <3>2, <3>4 DEF CanFit
    <2>4. AnswerIsSound(d)'
      <3>1. result'[d] # NoResult /\ ~result'[d].err
              => CanFit(d, result[d].active)'
        BY <2>3 DEF CanFit
      <3>2. served'[d] \in loaded'[d]
        BY <2>1 DEF AnswerIsSound
      <3>3. At(d, "expected")' => At(d, "expected") /\ task'[d] = task[d]
        BY DEF At
      <3>4. call'.expected = call.expected /\ call'.host = call.host
        OBVIOUS
      <3>5. (At(d, "expected") /\ ~task[d].host.err =>
               \E t \in loaded[d] : task[d].host.addresses = Lookup(t, call.host))'
        BY <2>1, <3>3, <3>4 DEF AnswerIsSound
      <3> QED
        BY <2>1, <3>1, <3>2, <3>3, <3>4, <3>5 DEF AnswerIsSound
    <2> QED
      BY <2>2, <2>4
  <1>2. TasksAreSound'
    <2>1. phase \in {"service", "endpoints"} => \A d \in Endpoints : At(d, "none")'
      BY DEF IInv, TasksAreSound, At
    <2> QED
      BY <1>1, <2>1 DEF IInv, TasksAreSound
  <1>3. VerdictIsJustified'
    <2>1. asked \subseteq Endpoints
      BY DEF IInv, TypeOK
    <2>2. \A d \in asked : (CanFit(d, TRUE) => CanFit(d, TRUE)')
                           /\ (CanFit(d, FALSE) => CanFit(d, FALSE)')
      BY <2>1, CanFitIsStable
    <2> QED
      BY <2>2 DEF IInv, VerdictIsJustified
  <1> QED
    BY <1>2, <1>3 DEF IInv

\* The result of two answers that were true is true.
LEMMA ResultsAreTrue ==
  ASSUME TypeOK, NEW e \in Endpoints, NEW host \in LookupAnswer,
         NEW expected \in LookupAnswer,
         NEW t \in loaded[e], NEW u \in loaded[e],
         ~host.err => host.addresses = Lookup(t, call.host),
         call.expected # NoTarget /\ ~expected.err
           => expected.addresses = Lookup(u, call.expected),
         SendResult(e, host, expected),
         call' = call, loaded' = loaded
  PROVE  /\ result' \in [Endpoints -> Result \cup {NoResult}]
         /\ result'[e] \in Result
         /\ \A d \in Endpoints \ {e} : result'[d] = result[d]
         /\ ~result'[e].err => CanFit(e, result[e].active)'
PROOF
  <1> DEFINE err  == host.err \/ expected.err
             fits == IF call.expected = NoTarget THEN host.addresses = {}
                                                 ELSE Agrees(host.addresses, expected.addresses)
             sent == [active |-> ~err /\ fits, err |-> err]
  <1>1. err \in BOOLEAN
    BY DEF LookupAnswer
  <1>2. (~err /\ fits) \in BOOLEAN
    OBVIOUS
  <1>3. sent \in Result
    BY <1>1, <1>2 DEF Result
  <1>4. result' = [result EXCEPT ![e] = sent]
    BY DEF SendResult, Send
  <1>5. result \in [Endpoints -> Result \cup {NoResult}]
    BY DEF TypeOK
  <1>6. ~err => fits = Fits(t, u)
    BY DEF Fits, Agrees
  <1> HIDE DEF sent
  <1>8. result'[e] = sent
    BY <1>4, <1>5
  <1>9. /\ sent.err = err
        /\ sent.active = (~err /\ fits)
    BY DEF sent
  <1>10. ASSUME ~result'[e].err
         PROVE  CanFit(e, result[e].active)'
    <2>1. Fits(t, u)' = Fits(t, u)
      BY DEF Fits
    <2>2. ~err /\ result'[e].active = fits
      <3>1. ~err
        BY <1>8, <1>9, <1>10
      <3>2. fits \in BOOLEAN
        BY DEF Agrees
      <3>3. (~err /\ fits) = fits
        BY <3>1, <3>2
      <3> QED
        BY <1>8, <1>9, <3>1, <3>3
    <2>3. Fits(t, u)' = result'[e].active
      BY <1>6, <2>1, <2>2
    <2> QED
      BY <2>3 DEF CanFit
  <1> QED
    BY <1>3, <1>4, <1>5, <1>8, <1>10

LEMMA ReturnStep ==
  ASSUME IInv, NEW active \in BOOLEAN, NEW err \in BOOLEAN, Return(active, err),
         UNCHANGED <<call, result, served, loaded, forwards>>,
         ~err => IF active THEN \A e \in asked : CanFit(e, TRUE)
                           ELSE \E e \in asked : CanFit(e, FALSE)
  PROVE  IInv'
PROOF
  <1>1. /\ phase' = "returned" /\ UNCHANGED <<asked, task>>
        /\ verdict' = [active |-> active, err |-> err]
    BY DEF Return
  <1>2. TypeOK'
    BY <1>1 DEF IInv, TypeOK, At, Result
  <1>3. TasksAreSound'
    <2>1. \A e \in Endpoints : HandleIsSound(e)'
      BY <1>1 DEF IInv, TasksAreSound, HandleIsSound, Forwarded
    <2>2. \A e \in Endpoints : AnswerIsSound(e)'
      BY <1>1, AnswerStays DEF IInv, TasksAreSound
    <2> QED
      BY <1>1, <2>1, <2>2 DEF TasksAreSound
  <1>4. VerdictIsJustified'
    BY <1>1 DEF VerdictIsJustified, CanFit, Fits
  <1> QED
    BY <1>2, <1>3, <1>4 DEF IInv

LEMMA LaunchStep ==
  ASSUME IInv, NEW endpoints \in SUBSET Endpoints, Launch(endpoints),
         phase \in {"service", "endpoints"},
         UNCHANGED <<call, result, served, loaded, forwards>>
  PROVE  IInv'
PROOF
  <1> DEFINE first(e) == IF e \notin endpoints THEN "none"
                         ELSE IF Forwarded(e) THEN "start" ELSE "host"
  <1>1. /\ phase' = "collect" /\ asked' = endpoints /\ verdict' = verdict
        /\ task' = [e \in Endpoints |-> [task[e] EXCEPT !.pc = first(e)]]
    BY DEF Launch
  <1>2. verdict = NoResult /\ \A e \in Endpoints : task[e].pc = "none"
    BY DEF IInv, TasksAreSound, At
  <1>3. \A e \in Endpoints : /\ task'[e].pc \in {"none", "start", "host"}
                             /\ task'[e].pc = "start" => Forwarded(e)
    BY <1>1 DEF IInv, TypeOK
  <1>4. TypeOK'
    <2>1. task' \in [Endpoints ->
                       [pc : {"none", "start", "starting", "host", "expected", "stop", "ended"},
                        host : LookupAnswer]]
      BY <1>1 DEF IInv, TypeOK
    <2> QED
      BY <1>1, <1>2, <1>3, <2>1 DEF IInv, TypeOK
  <1>5. \A e \in Endpoints : HandleIsSound(e)'
    BY <1>2, <1>3 DEF IInv, TasksAreSound, HandleIsSound, Forwarded
  <1>6. \A e \in Endpoints : AnswerIsSound(e)'
    BY <1>2, <1>3 DEF IInv, TasksAreSound, TypeOK, AnswerIsSound, At
  <1> QED
    BY <1>1, <1>2, <1>4, <1>5, <1>6 DEF IInv, TasksAreSound, VerdictIsJustified

LEMMA CallerStep ==
  ASSUME IInv, Caller
  PROVE  IInv'
PROOF
  <1>1. CASE GetService
    <2>1. call.configured \subseteq Endpoints
      BY ResolverAssumption DEF IInv, TypeOK
    <2>2. CASE Launch(call.configured)
      BY <1>1, <2>1, <2>2, LaunchStep DEF GetService
    <2>3. CASE Return(FALSE, TRUE)
      BY <1>1, <2>3, ReturnStep DEF GetService
    <2>4. CASE phase' = "endpoints" /\ UNCHANGED <<asked, task, verdict>>
      BY <1>1, <2>4
         DEF GetService, IInv, TypeOK, TasksAreSound, HandleIsSound, Forwarded, AnswerIsSound, At,
             CanFit, Fits, VerdictIsJustified
    <2> QED
      BY <1>1, <2>2, <2>3, <2>4 DEF GetService
  <1>2. CASE GetEndpoints
    <2>1. CASE Return(FALSE, TRUE)
      BY <1>2, <2>1, ReturnStep DEF GetEndpoints
    <2>2. CASE \E listing \in Listings : Launch(Discovered(listing))
      <3>1. PICK listing \in Listings : Launch(Discovered(listing))
        BY <2>2
      <3>2. Discovered(listing) \subseteq Endpoints
        BY DEF Listings, Discovered
      <3> QED
        BY <1>2, <3>1, <3>2, LaunchStep DEF GetEndpoints
    <2> QED
      BY <1>2, <2>1, <2>2 DEF GetEndpoints
  <1>3. CASE Collect
    <2> DEFINE active == \A e \in asked : result[e].active
               err    == \E e \in asked : result[e].err
    <2>1. Return(active, err) /\ UNCHANGED <<call, result, served, loaded, forwards>>
          /\ \A e \in asked : result[e] # NoResult
      BY <1>3 DEF Collect
    <2>2. asked \subseteq Endpoints /\ \A e \in asked : result[e] \in Result
      BY <2>1 DEF IInv, TypeOK
    <2>3. ASSUME ~err, active PROVE \A e \in asked : CanFit(e, TRUE)
      BY <2>1, <2>2, <2>3 DEF IInv, TasksAreSound, AnswerIsSound, Result, CanFit
    <2>4. ASSUME ~err, ~active PROVE \E e \in asked : CanFit(e, FALSE)
      BY <2>1, <2>2, <2>4 DEF IInv, TasksAreSound, AnswerIsSound, Result, CanFit
    <2> HIDE DEF active, err
    <2>5. active \in BOOLEAN /\ err \in BOOLEAN
      BY DEF active, err
    <2> QED
      BY <2>1, <2>3, <2>4, <2>5, ReturnStep
  <1> QED
    BY <1>1, <1>2, <1>3 DEF Caller

\* The goroutine writes that it could not start.
LEMMA GiveUpStep ==
  ASSUME IInv, NEW e \in Endpoints, GiveUp(e), ~At(e, "none"),
         UNCHANGED <<call, phase, asked, verdict, served, loaded>>,
         forwards' \in [Handles -> Handle],
         \A d \in Handles \ {e} : forwards'[d] = forwards[d],
         ~forwards'[e].starting, ~forwards'[e].started, ~forwards'[e].stopped,
         forwards'[e].closes \in {0, 1}
  PROVE  IInv'
PROOF
  <1>1. /\ task' = [task EXCEPT ![e].pc = "ended"]
        /\ result' = [result EXCEPT ![e] = [active |-> FALSE, err |-> TRUE]]
    BY DEF GiveUp, Goto, Send
  <1>2. [active |-> FALSE, err |-> TRUE] \in Result
    BY DEF Result
  <1>3. TypeOK' /\ task'[e].pc = "ended" /\ \A d \in Endpoints \ {e} : task'[d] = task[d]
    <2>1. TypeOK /\ result \in [Endpoints -> Result \cup {NoResult}]
      BY DEF IInv, TypeOK
    <2>2. /\ result' \in [Endpoints -> Result \cup {NoResult}]
          /\ result'[e] # NoResult
          /\ \A d \in Endpoints \ {e} : result'[d] = result[d]
      BY <1>1, <1>2, <2>1, ResolverAssumption
    <2> QED
      BY <1>1, <2>1, <2>2, GotoTypes
  <1>4. task'[e].pc = "ended" /\ result'[e].err
    BY <1>1, <1>3 DEF IInv, TypeOK
  <1>5. HandleIsSound(e)' /\ AnswerIsSound(e)'
    BY <1>4 DEF IInv, TasksAreSound, HandleIsSound, Forwarded, AnswerIsSound, At
  <1>6. phase \notin {"service", "endpoints"}
    BY DEF IInv, TasksAreSound
  <1> QED
    BY <1>1, <1>3, <1>5, <1>6, OneEndpointActs, ResolverAssumption DEF IInv, TypeOK

\* The goroutine goes on after Start has begun or succeeded.
LEMMA GotoStep ==
  ASSUME IInv, NEW e \in Endpoints, NEW pc \in {"starting", "host"}, Goto(e, pc),
         At(e, "start") \/ At(e, "starting"),
         UNCHANGED <<call, phase, asked, result, verdict, served, loaded>>,
         forwards' \in [Handles -> Handle],
         \A d \in Handles \ {e} : forwards'[d] = forwards[d],
         HandleIsSound(e)'
  PROVE  IInv'
PROOF
  <1>1. task' = [task EXCEPT ![e].pc = pc]
    BY DEF Goto
  <1>2. TypeOK'
    BY <1>1, ResolverAssumption DEF IInv, TypeOK, At
  <1>3. AnswerIsSound(e)'
    BY <1>1 DEF IInv, TypeOK, TasksAreSound, AnswerIsSound, At, CanFit, Fits
  <1>4. phase \notin {"service", "endpoints"}
    BY DEF IInv, TasksAreSound, At
  <1> QED
    BY <1>1, <1>2, <1>3, <1>4, OneEndpointActs, ResolverAssumption DEF IInv, TypeOK

LEMMA StartForwardStep ==
  ASSUME IInv, NEW e \in Endpoints, StartForward(e)
  PROVE  IInv'
PROOF
  <1>1. UNCHANGED <<call, phase, asked, verdict, served, loaded>>
    BY DEF StartForward
  <1>2. forwards \in [Handles -> Handle] /\ e \in Handles
    BY ResolverAssumption DEF IInv, TypeOK
  <1>3. HandleIsSound(e) /\ AnswerIsSound(e)
    BY DEF IInv, TasksAreSound
  <1>4. CASE At(e, "start") /\ StartBegins(e) /\ Goto(e, "starting") /\ UNCHANGED result
    <2>1. /\ forwards' \in [Handles -> Handle]
          /\ \A d \in Handles \ {e} : forwards'[d] = forwards[d]
          /\ forwards'[e].starting /\ ~forwards'[e].started
          /\ forwards'[e].stopped = forwards[e].stopped
          /\ forwards'[e].closes = forwards[e].closes
      BY <1>2, <1>4, HandleSteps
    <2>2. task'[e].pc = "starting"
      BY <1>4 DEF IInv, TypeOK, Goto
    <2>3. HandleIsSound(e)'
      BY <1>1, <1>3, <1>4, <2>1, <2>2 DEF HandleIsSound, Forwarded, At
    <2> QED
      BY <1>1, <1>3, <1>4, <2>1, <2>2, <2>3, GotoStep
  <1>5. CASE At(e, "start") /\ StartBreaks(e) /\ GiveUp(e)
    <2>1. /\ forwards' \in [Handles -> Handle]
          /\ \A d \in Handles \ {e} : forwards'[d] = forwards[d]
          /\ ~forwards'[e].starting /\ ~forwards'[e].started
          /\ forwards'[e].stopped = forwards[e].stopped
          /\ forwards'[e].closes = forwards[e].closes
      BY <1>2, <1>5, HandleSteps
    <2> QED
      BY <1>1, <1>3, <1>5, <2>1, GiveUpStep DEF HandleIsSound, Forwarded, At
  <1>6. CASE At(e, "starting") /\ StartSucceeds(e) /\ Goto(e, "host") /\ UNCHANGED result
    <2>1. /\ forwards' \in [Handles -> Handle]
          /\ \A d \in Handles \ {e} : forwards'[d] = forwards[d]
          /\ ~forwards'[e].starting
          /\ forwards'[e].stopped = forwards[e].stopped
          /\ forwards'[e].closes = forwards[e].closes
      BY <1>2, <1>6, HandleSteps
    <2>2. task'[e].pc = "host"
      BY <1>6 DEF IInv, TypeOK, Goto
    <2>3. HandleIsSound(e)'
      BY <1>1, <1>3, <1>6, <2>1, <2>2 DEF HandleIsSound, Forwarded, At
    <2> QED
      BY <1>1, <1>3, <1>6, <2>1, <2>2, <2>3, GotoStep
  <1>7. CASE At(e, "starting") /\ (StartFails(e) \/ StartRejectsPorts(e)) /\ GiveUp(e)
    <2>1. /\ forwards' \in [Handles -> Handle]
          /\ \A d \in Handles \ {e} : forwards'[d] = forwards[d]
          /\ ~forwards'[e].starting /\ forwards'[e].started = forwards[e].started
          /\ forwards'[e].stopped = forwards[e].stopped
          /\ forwards'[e].closes \in {forwards[e].closes, forwards[e].closes + 1}
      BY <1>2, <1>7, HandleSteps
    <2>2. ~forwards[e].started /\ ~forwards[e].stopped /\ forwards[e].closes = 0
      BY <1>3, <1>7 DEF HandleIsSound, Forwarded, At
    <2>3. forwards'[e].closes \in {0, 1}
      BY <2>1, <2>2
    <2> QED
      BY <1>1, <1>7, <2>1, <2>2, <2>3, GiveUpStep DEF At
  <1> QED
    BY <1>4, <1>5, <1>6, <1>7 DEF StartForward

\* A goroutine that has its answers sends its result, and goes to the deferred Stop.
LEMMA ResultStep ==
  ASSUME IInv, NEW e \in Endpoints, At(e, "host") \/ At(e, "expected"),
         UNCHANGED <<call, phase, asked, verdict, served, loaded, forwards>>,
         NEW host \in LookupAnswer, NEW expected \in LookupAnswer,
         NEW t \in loaded[e], NEW u \in loaded[e],
         ~host.err => host.addresses = Lookup(t, call.host),
         call.expected # NoTarget /\ ~expected.err
           => expected.addresses = Lookup(u, call.expected),
         SendResult(e, host, expected),
         task' = [task EXCEPT ![e] = [pc |-> AfterResult(e), host |-> host]]
  PROVE  IInv'
PROOF
  <1>1. TypeOK /\ HandleIsSound(e) /\ AnswerIsSound(e)
    BY DEF IInv, TasksAreSound
  <1>2. /\ result' \in [Endpoints -> Result \cup {NoResult}]
        /\ result'[e] \in Result
        /\ \A d \in Endpoints \ {e} : result'[d] = result[d]
        /\ ~result'[e].err => CanFit(e, result[e].active)'
    BY <1>1, ResultsAreTrue
  <1>3. AfterResult(e) \in {"stop", "ended"}
    BY DEF AfterResult
  <1>4. task'[e].pc = AfterResult(e)
    BY <1>1 DEF TypeOK
  <1>5. TypeOK'
    <2>1. [pc |-> AfterResult(e), host |-> host] \in
            [pc : {"none", "start", "starting", "host", "expected", "stop", "ended"},
             host : LookupAnswer]
      BY <1>3
    <2>2. \A d \in Endpoints : result'[d] # NoResult <=> task'[d].pc \in {"stop", "ended"}
      BY <1>1, <1>2, <1>3, <1>4, ResolverAssumption DEF TypeOK
    <2> QED
      BY <1>1, <1>2, <2>1, <2>2 DEF TypeOK
  <1>6. HandleIsSound(e)'
    BY <1>1, <1>3, <1>4 DEF HandleIsSound, Forwarded, AfterResult, At
  <1>7. AnswerIsSound(e)'
    BY <1>1, <1>2, <1>3, <1>4 DEF AnswerIsSound, At
  <1>8. phase \notin {"service", "endpoints"}
    BY DEF IInv, TasksAreSound, At
  <1> QED
    BY <1>1, <1>2, <1>5, <1>6, <1>7, <1>8, OneEndpointActs DEF TypeOK

\* The answer to the first lookup is remembered, or compared with nothing.
LEMMA LookupHostStep ==
  ASSUME IInv, NEW e \in Endpoints, LookupHost(e)
  PROVE  IInv'
PROOF
  <1>1. PICK host \in Answers(e, call.host) :
          IF call.expected = NoTarget
          THEN /\ task' = [task EXCEPT ![e] = [pc |-> AfterResult(e), host |-> host]]
               /\ SendResult(e, host, Nothing)
          ELSE /\ task' = [task EXCEPT ![e] = [pc |-> "expected", host |-> host]]
               /\ UNCHANGED result
    BY DEF LookupHost
  <1>2. At(e, "host") /\ UNCHANGED <<call, phase, asked, verdict, served, loaded, forwards>>
    BY DEF LookupHost
  <1>3. /\ host \in LookupAnswer
        /\ ~host.err => host.addresses = Lookup(served[e], call.host)
    BY AnswersAreTrue
  <1>4. HandleIsSound(e) /\ AnswerIsSound(e) /\ TypeOK
    BY DEF IInv, TasksAreSound
  <1>5. phase \notin {"service", "endpoints"}
    BY <1>2 DEF IInv, TasksAreSound, At
  <1>6. AfterResult(e) \in {"stop", "ended"}
    BY DEF AfterResult
  <1>7. CASE call.expected = NoTarget
    <2>1. task'[e] = [pc |-> AfterResult(e), host |-> host] /\ SendResult(e, host, Nothing)
      BY <1>1, <1>4, <1>7 DEF TypeOK
    <2>2. Nothing \in LookupAnswer
      BY DEF Nothing, LookupAnswer
    <2>3. served[e] \in loaded[e]
      BY <1>4 DEF AnswerIsSound
    <2> HIDE DEF Nothing
    <2> QED
      BY <1>1, <1>2, <1>3, <1>7, <2>1, <2>2, <2>3, ResultStep
  <1>8. CASE call.expected # NoTarget
    <2>1. task'[e] = [pc |-> "expected", host |-> host]
      BY <1>1, <1>4, <1>8 DEF TypeOK
    <2>2. TypeOK'
      <3>1. [pc |-> "expected", host |-> host] \in
              [pc : {"none", "start", "starting", "host", "expected", "stop", "ended"},
               host : LookupAnswer]
        BY <1>3
      <3> QED
        BY <1>1, <1>2, <1>4, <1>8, <2>1, <3>1 DEF TypeOK, At
    <2>3. HandleIsSound(e)'
      BY <1>2, <1>4, <2>1 DEF HandleIsSound, Forwarded, At
    <2>4. result[e] = NoResult
      BY <1>2, <1>4 DEF TypeOK, At
    <2>5. AnswerIsSound(e)'
      BY <1>1, <1>2, <1>3, <1>4, <1>8, <2>1, <2>4 DEF AnswerIsSound, At
    <2> QED
      BY <1>1, <1>2, <1>4, <1>5, <1>8, <2>2, <2>3, <2>5, OneEndpointActs DEF TypeOK
  <1> QED
    BY <1>7, <1>8

LEMMA LookupExpectedStep ==
  ASSUME IInv, NEW e \in Endpoints, LookupExpected(e)
  PROVE  IInv'
PROOF
  <1>1. PICK expected \in Answers(e, call.expected) :
          SendResult(e, task[e].host, expected)
    BY DEF LookupExpected
  <1>2. /\ At(e, "expected") /\ Goto(e, AfterResult(e))
        /\ UNCHANGED <<call, phase, asked, verdict, served, loaded, forwards>>
    BY DEF LookupExpected
  <1>3. /\ expected \in LookupAnswer
        /\ ~expected.err => expected.addresses = Lookup(served[e], call.expected)
    BY AnswersAreTrue
  <1>4. AnswerIsSound(e) /\ TypeOK
    BY DEF IInv, TasksAreSound
  <1>5. /\ task[e].host \in LookupAnswer
        /\ task' = [task EXCEPT ![e] = [pc |-> AfterResult(e), host |-> task[e].host]]
    <2>1. task[e] \in [pc : {"none", "start", "starting", "host", "expected", "stop", "ended"},
                       host : LookupAnswer]
      BY <1>4 DEF TypeOK
    <2>2. [task[e] EXCEPT !.pc = AfterResult(e)] = [pc |-> AfterResult(e), host |-> task[e].host]
      BY <2>1
    <2> QED
      BY <1>2, <1>4, <2>1, <2>2 DEF TypeOK, Goto
  <1>6. PICK t \in loaded[e] :
          ~task[e].host.err => task[e].host.addresses = Lookup(t, call.host)
    BY <1>2, <1>4 DEF AnswerIsSound
  <1>7. served[e] \in loaded[e]
    BY <1>4 DEF AnswerIsSound
  <1> QED
    BY <1>1, <1>2, <1>3, <1>5, <1>6, <1>7, ResultStep

LEMMA StopForwardStep ==
  ASSUME IInv, NEW e \in Endpoints, StopForward(e)
  PROVE  IInv'
PROOF
  <1>1. At(e, "stop") /\ Stop(e) /\ Goto(e, "ended")
        /\ UNCHANGED <<call, phase, asked, result, verdict, served, loaded>>
    BY DEF StopForward
  <1>2. /\ forwards' \in [Handles -> Handle]
        /\ \A d \in Handles \ {e} : forwards'[d] = forwards[d]
        /\ forwards'[e].starting = forwards[e].starting
        /\ forwards'[e].started = forwards[e].started
        /\ forwards[e].started => forwards'[e].stopped
        /\ ~forwards[e].started => forwards'[e] = forwards[e]
        /\ forwards'[e].closes \in {forwards[e].closes, forwards[e].closes + 1}
    BY <1>1, HandleSteps, ResolverAssumption DEF IInv, TypeOK
  <1>3. TypeOK'
    <2>2. result[e] # NoResult <=> task[e].pc \in {"stop", "ended"}
      BY DEF IInv, TypeOK
    <2>3. result' \in [Endpoints -> Result \cup {NoResult}] /\ result' = result
      BY <1>1 DEF IInv, TypeOK
    <2>4. task' = [task EXCEPT ![e].pc = "ended"]
      BY <1>1 DEF Goto
    <2> QED
      BY <1>1, <1>2, <2>2, <2>3, <2>4, GotoTypes DEF IInv, At
  <1>4. HandleIsSound(e)'
    <2>1. task'[e].pc = "ended"
      BY <1>1 DEF IInv, TypeOK, Goto
    <2>2. ~forwards[e].starting /\ ~forwards[e].stopped /\ forwards[e].closes = 0
      BY <1>1 DEF IInv, TasksAreSound, HandleIsSound, Forwarded, At
    <2>3. forwards'[e].closes <= 1
      BY <1>2, <2>2
    <2> QED
      BY <1>1, <1>2, <2>1, <2>2, <2>3 DEF IInv, TasksAreSound, HandleIsSound, Forwarded
  <1>5. AnswerIsSound(e)'
    <2>1. task'[e].pc = "ended"
      BY <1>1 DEF IInv, TypeOK, Goto
    <2> QED
      BY <1>1, <2>1, AnswerStays DEF IInv, TasksAreSound
  <1> QED
    <2>1. phase \notin {"service", "endpoints"}
      BY <1>1 DEF IInv, TasksAreSound, At
    <2>2. \A d \in Endpoints \ {e} : task'[d] = task[d]
      BY <1>1 DEF IInv, TypeOK, Goto
    <2> QED
      BY <1>1, <1>2, <1>3, <1>4, <1>5, <2>1, <2>2, OneEndpointActs, ResolverAssumption

LEMMA ForwarderKeeps ==
  ASSUME IInv, NEW e \in Endpoints, ForwarderStep(e)
  PROVE  IInv'
PROOF
  <1>1. /\ Forwarding(e)
        /\ UNCHANGED <<call, phase, asked, task, result, verdict, served, loaded>>
    BY DEF ForwarderStep
  <1>2. /\ forwards' \in [Handles -> Handle]
        /\ \A d \in Handles \ {e} : forwards'[d] = forwards[d]
        /\ forwards'[e].starting = forwards[e].starting
        /\ forwards'[e].started = forwards[e].started
        /\ forwards'[e].stopped = forwards[e].stopped
        /\ forwards'[e].closes = forwards[e].closes
    BY <1>1, HandleSteps, ResolverAssumption DEF IInv, TypeOK
  <1>3. TypeOK'
    BY <1>1, <1>2 DEF IInv, TypeOK, At
  <1>4. HandleIsSound(e)'
    BY <1>1, <1>2 DEF IInv, TasksAreSound, HandleIsSound, Forwarded
  <1>5. AnswerIsSound(e)'
    BY <1>1 DEF IInv, TasksAreSound, AnswerIsSound, At, CanFit, Fits
  <1> QED
    BY <1>1, <1>2, <1>3, <1>4, <1>5, OneEndpointActs, ResolverAssumption

LEMMA ReloadStep ==
  ASSUME IInv, NEW e \in Endpoints, Reload(e)
  PROVE  IInv'
PROOF
  <1>1. PICK t \in Configurations :
          /\ served' = [served EXCEPT ![e] = t]
          /\ loaded' = [loaded EXCEPT ![e] = @ \cup {t}]
    BY DEF Reload
  <1>2. UNCHANGED <<call, phase, asked, task, result, verdict, forwards>>
    BY DEF Reload
  <1>3. TypeOK'
    BY <1>1, <1>2 DEF IInv, TypeOK, At
  <1>4. HandleIsSound(e)'
    BY <1>2 DEF IInv, TasksAreSound, HandleIsSound, Forwarded
  <1>5. /\ loaded'[e] = loaded[e] \cup {t} /\ served'[e] = t
        /\ \A d \in Endpoints \ {e} : loaded'[d] = loaded[d] /\ served'[d] = served[d]
    BY <1>1 DEF IInv, TypeOK
  <1>6. AnswerIsSound(e)'
    <2>1. AnswerIsSound(e)
      BY DEF IInv, TasksAreSound
    <2>2. served'[e] \in loaded'[e]
      BY <1>5
    <2>3. (At(e, "expected") /\ ~task[e].host.err =>
             \E u \in loaded[e] : task[e].host.addresses = Lookup(u, call.host))'
      BY <1>2, <1>5, <2>1 DEF AnswerIsSound, At
    <2>4. ASSUME result[e] # NoResult, ~result[e].err
          PROVE  CanFit(e, result[e].active)'
      <3>1. PICK u, v \in loaded[e] : Fits(u, v) = result[e].active
        BY <2>1, <2>4 DEF AnswerIsSound, CanFit
      <3>2. Fits(u, v)' = Fits(u, v)
        BY <1>2 DEF Fits
      <3> QED
        BY <1>2, <1>5, <3>1, <3>2 DEF CanFit
    <2> QED
      BY <1>2, <2>1, <2>2, <2>3, <2>4 DEF AnswerIsSound, At
  <1> QED
    BY <1>2, <1>3, <1>4, <1>5, <1>6, OneEndpointActs

-----------------------------------------------------------------------------
(* Theorems *)

LEMMA StepPreserves == IInv /\ [Next]_resolverVars => IInv'
PROOF
  <1> SUFFICES ASSUME IInv, [Next]_resolverVars PROVE IInv'
    OBVIOUS
  <1>1. CASE Caller
    BY <1>1, CallerStep
  <1>2. CASE \E e \in Endpoints : Goroutine(e)
    BY <1>2, StartForwardStep, LookupHostStep, LookupExpectedStep, StopForwardStep
       DEF Goroutine
  <1>3. CASE \E e \in Endpoints : ForwarderStep(e)
    BY <1>3, ForwarderKeeps
  <1>4. CASE \E e \in Endpoints : Reload(e)
    BY <1>4, ReloadStep
  <1>5. CASE UNCHANGED resolverVars
    <2>1. TypeOK'
      BY <1>5 DEF resolverVars, IInv, TypeOK, At
    <2>2. \A e \in Endpoints : HandleIsSound(e)'
      BY <1>5 DEF resolverVars, IInv, TasksAreSound, HandleIsSound, Forwarded
    <2>3. \A e \in Endpoints : AnswerIsSound(e)'
      BY <1>5 DEF resolverVars, IInv, TasksAreSound, AnswerIsSound, At, CanFit, Fits
    <2>4. TasksAreSound'
      BY <1>5, <2>2, <2>3 DEF resolverVars, IInv, TasksAreSound, At
    <2>5. VerdictIsJustified'
      BY <1>5 DEF resolverVars, IInv, VerdictIsJustified, CanFit, Fits
    <2> QED
      BY <2>1, <2>4, <2>5 DEF IInv
  <1> QED
    BY <1>1, <1>2, <1>3, <1>4, <1>5 DEF Next

LEMMA Invariance == Spec => []IInv
PROOF BY InitEstablishes, StepPreserves, PTL DEF Spec

\* The types of CheckRecord's variables; a result is sent before the goroutine is
\* done, not earlier.
THEOREM ResolverTypeCorrect == Spec => []TypeOK
PROOF
  <1>1. IInv => TypeOK
    BY DEF IInv
  <1> QED
    BY <1>1, Invariance, PTL

\* Handles and answers are what the goroutines take them for at each of their steps.
THEOREM ResolverTasksAreSound == Spec => []TasksAreSound
PROOF
  <1>1. IInv => TasksAreSound
    BY DEF IInv
  <1> QED
    BY <1>1, Invariance, PTL

\* A goroutine that calls Start once and Stop only if that succeeded never closes
\* the stop channel of its port forward twice.
THEOREM NoDoubleClose == Spec => []StopClosedOnce
PROOF
  <1>1. IInv => StopClosedOnce
    BY ResolverAssumption DEF IInv, TypeOK, TasksAreSound, HandleIsSound, StopClosedOnce
  <1> QED
    BY <1>1, Invariance, PTL

\* What CheckRecord returns without an error is true of configurations that were
\* loaded meanwhile, for every number of endpoints and every order of steps.
THEOREM VerdictsAreJustified == Spec => []VerdictIsJustified
PROOF
  <1>1. IInv => VerdictIsJustified
    BY DEF IInv
  <1> QED
    BY <1>1, Invariance, PTL

=============================================================================
