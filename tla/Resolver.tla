------------------------------- MODULE Resolver -------------------------------
(***************************************************************************)
(* One call of CheckRecord of internal/coredns/resolver.go: the endpoints  *)
(* are discovered, a goroutine per endpoint looks up the host and then the *)
(* expected result, through a port forward when the operator is outside of *)
(* the cluster, and the results are collected.  coredns may load another   *)
(* configuration between any two lookups, a lookup may fail, a pod may     *)
(* refuse or lose a connection.                                            *)
(***************************************************************************)
EXTENDS ClusterDns, PortForward

CONSTANTS
  Endpoints,       \* nameservers; the handles of their port forwards are theirs
  External,        \* the endpoints that are not pods of the cluster
  Calls,           \* the calls that are made
  Configurations,  \* the rule sets an endpoint may have loaded
  NoTarget,        \* an empty expected result
  NoResult

Result == [active : BOOLEAN, err : BOOLEAN]

ASSUME ResolverAssumption ==
  /\ Handles = Endpoints
  /\ External \subseteq Endpoints
  /\ Calls \subseteq [host : Name, expected : Target \cup {NoTarget},
                      configured : SUBSET Endpoints, inCluster : BOOLEAN]
  /\ NoResult \notin Result

VARIABLES
  call,      \* the arguments, the endpoints given to NewResolver, and whether
             \* the operator runs in the cluster
  phase,     \* where the caller's goroutine is
  asked,     \* the endpoints that are asked
  task,      \* the goroutine of each endpoint, with what has been looked up
  result,    \* the channel each goroutine writes its result to
  verdict,   \* what CheckRecord returns
  served,    \* the rule set each endpoint has loaded
  loaded     \* history: all it has had loaded since the call

resolverVars == <<call, phase, asked, task, result, verdict, served, loaded, forwards>>

-----------------------------------------------------------------------------
(* The endpoints *)

Return(active, err) ==
  /\ phase' = "returned"
  /\ verdict' = [active |-> active, err |-> err]
  /\ UNCHANGED <<asked, task>>

\* The port forward is only used for pods, and from outside of the cluster.
Forwarded(e) == e \notin External /\ ~call.inCluster

Launch(endpoints) ==
  /\ phase' = "collect"
  /\ asked' = endpoints
  /\ task' = [e \in Endpoints |->
                [task[e] EXCEPT !.pc = IF e \notin endpoints THEN "none"
                                       ELSE IF Forwarded(e) THEN "start" ELSE "host"]]
  /\ UNCHANGED verdict

\* The service may be missing, or have no named port tcp/53.
GetService ==
  /\ phase = "service"
  /\ \/ /\ call.configured # {}
        /\ Launch(call.configured)
     \/ /\ call.configured = {}
        /\ \/ Return(FALSE, TRUE)
           \/ /\ phase' = "endpoints"
              /\ UNCHANGED <<asked, task, verdict>>
  /\ UNCHANGED <<call, result, served, loaded, forwards>>

\* How an endpoint may be listed; only ready pods with the port of that name in
\* their subset are asked.
Listings == [Endpoints \ External -> {"pod", "notPod", "otherPort", "notReady"}]
Discovered(listing) == {e \in DOMAIN listing : listing[e] = "pod"}

GetEndpoints ==
  /\ phase = "endpoints"
  /\ \/ Return(FALSE, TRUE)
     \/ \E listing \in Listings : Launch(Discovered(listing))
  /\ UNCHANGED <<call, result, served, loaded, forwards>>

-----------------------------------------------------------------------------
(* The goroutine of an endpoint *)

At(e, pc) == task[e].pc = pc
Goto(e, pc) == task' = [task EXCEPT ![e].pc = pc]
Send(e, active, err) == result' = [result EXCEPT ![e] = [active |-> active, err |-> err]]

\* Start returns an error; there is nothing to stop (mutants: it is called again
\* on the same handle; the goroutine returns without a result).
RetryStart(e) == Goto(e, "start") /\ UNCHANGED result
LeaveSilently(e) == Goto(e, "ended") /\ UNCHANGED result
GiveUp(e) == Goto(e, "ended") /\ Send(e, FALSE, TRUE)

StartForward(e) ==
  /\ \/ At(e, "start") /\ StartBegins(e) /\ Goto(e, "starting") /\ UNCHANGED result
     \/ At(e, "start") /\ StartBreaks(e) /\ GiveUp(e)
     \/ At(e, "starting") /\ StartSucceeds(e) /\ Goto(e, "host") /\ UNCHANGED result
     \/ At(e, "starting") /\ (StartFails(e) \/ StartRejectsPorts(e)) /\ GiveUp(e)
  /\ UNCHANGED <<call, phase, asked, verdict, served, loaded>>

LookupAnswer == [addresses : SUBSET Addresses, err : BOOLEAN]
Nothing == [addresses |-> {}, err |-> FALSE]

\* What dnsutil.Lookup may return: an address resolves to itself, a name needs a
\* connection to the nameserver; what is not found has no addresses, every other
\* failure is an error.
Answers(e, target) ==
  LET found  == [addresses |-> Lookup(served[e], target), err |-> FALSE]
      failed == [addresses |-> {}, err |-> TRUE]
  IN  IF target \in Addresses THEN {found}
      ELSE IF Forwarded(e) /\ Current(e) # "listening" THEN {failed}
      ELSE {found, failed}

\* Whether the addresses are the expected ones (mutant: also if there are none).
AgreesIfEqual(host, expected) == host = expected
Agrees(host, expected) == host # {} /\ host = expected

\* The result of a comparison, or, when no address is expected, of one lookup.
SendResult(e, host, expected) ==
  LET err == host.err \/ expected.err
      fits == IF call.expected = NoTarget THEN host.addresses = {}
                                          ELSE Agrees(host.addresses, expected.addresses)
  IN  Send(e, ~err /\ fits, err)

\* The deferred Stop (mutant: none).
AfterResultOnly(e) == "ended"
AfterResult(e) == IF Forwarded(e) THEN "stop" ELSE "ended"

LookupHost(e) ==
  /\ At(e, "host")
  /\ \E host \in Answers(e, call.host) :
       IF call.expected = NoTarget
       THEN /\ task' = [task EXCEPT ![e] = [pc |-> AfterResult(e), host |-> host]]
            /\ SendResult(e, host, Nothing)
       ELSE /\ task' = [task EXCEPT ![e] = [pc |-> "expected", host |-> host]]
            /\ UNCHANGED result
  /\ UNCHANGED <<call, phase, asked, verdict, served, loaded, forwards>>

LookupExpected(e) ==
  /\ At(e, "expected")
  /\ \E expected \in Answers(e, call.expected) : SendResult(e, task[e].host, expected)
  /\ Goto(e, AfterResult(e))
  /\ UNCHANGED <<call, phase, asked, verdict, served, loaded, forwards>>

StopForward(e) ==
  /\ At(e, "stop")
  /\ Stop(e)
  /\ Goto(e, "ended")
  /\ UNCHANGED <<call, phase, asked, result, verdict, served, loaded>>

Goroutine(e) == StartForward(e) \/ LookupHost(e) \/ LookupExpected(e) \/ StopForward(e)

-----------------------------------------------------------------------------
\* Receiving from one channel after the other ends when the last result is there.
Collect ==
  /\ phase = "collect"
  /\ \A e \in asked : result[e] # NoResult
  /\ Return(\A e \in asked : result[e].active, \E e \in asked : result[e].err)
  /\ UNCHANGED <<call, result, served, loaded, forwards>>

Caller == GetService \/ GetEndpoints \/ Collect

\* An endpoint loads another configuration.
Reload(e) ==
  /\ \E t \in Configurations :
       /\ served' = [served EXCEPT ![e] = t]
       /\ loaded' = [loaded EXCEPT ![e] = @ \cup {t}]
  /\ UNCHANGED <<call, phase, asked, task, result, verdict, forwards>>

-----------------------------------------------------------------------------
Init ==
  /\ call \in Calls
  /\ phase = "service"
  /\ asked = {}
  /\ task = [e \in Endpoints |-> [pc |-> "none", host |-> Nothing]]
  /\ result = [e \in Endpoints |-> NoResult]
  /\ verdict = NoResult
  /\ served \in [Endpoints -> Configurations]
  /\ loaded = [e \in Endpoints |-> {served[e]}]
  /\ PortForwardInit

ForwarderStep(e) ==
  /\ Forwarding(e)
  /\ UNCHANGED <<call, phase, asked, task, result, verdict, served, loaded>>

Next ==
  \/ Caller
  \/ \E e \in Endpoints : Goroutine(e) \/ ForwarderStep(e) \/ Reload(e)

Spec == Init /\ [][Next]_resolverVars

\* The API and the nameservers answer in time or not at all, Start has a time
\* limit, and goroutines get to run.  A dial need not end, and coredns need not
\* load anything.
Fairness ==
  /\ WF_resolverVars(Caller)
  /\ \A e \in Endpoints :
       /\ WF_resolverVars(Goroutine(e))
       /\ WF_resolverVars(ForwarderStep(e) /\ End(e))

FairSpec == Spec /\ Fairness

-----------------------------------------------------------------------------
(* Properties *)

\* Every variable has its type, and a goroutine has sent its result when it is
\* about to stop the port forward or has ended, not before.
TypeOK ==
  /\ call \in Calls
  /\ phase \in {"service", "endpoints", "collect", "returned"}
  /\ asked \subseteq Endpoints
  /\ task \in [Endpoints ->
                [pc : {"none", "start", "starting", "host", "expected", "stop", "ended"},
                 host : LookupAnswer]]
  /\ result \in [Endpoints -> Result \cup {NoResult}]
  /\ \A e \in Endpoints : result[e] # NoResult <=> task[e].pc \in {"stop", "ended"}
  /\ verdict \in Result \cup {NoResult}
  /\ served \in [Endpoints -> Configurations]
  /\ loaded \in [Endpoints -> SUBSET Configurations]
  /\ forwards \in [Handles -> Handle]

\* What CheckRecord is to find out, with the host looked up in one configuration
\* and the expected result in another.
Fits(hosts, expecteds) ==
  IF call.expected = NoTarget THEN Lookup(hosts, call.host) = {}
  ELSE /\ Lookup(hosts, call.host) # {}
       /\ Lookup(hosts, call.host) = Lookup(expecteds, call.expected)

CanFit(e, yes) == \E t, u \in loaded[e] : Fits(t, u) = yes

\* What a goroutine relies on: the handle of its port forward is as Start and Stop
\* have left it, its stop channel open until it is done.
HandleIsSound(e) ==
  LET handle == forwards[e]
      pc     == task[e].pc
  IN  /\ handle.starting <=> pc = "starting"
      /\ pc \in {"none", "start", "starting"} => ~handle.started
      /\ pc \in {"start", "starting"} \/ handle.started => Forwarded(e)
      /\ pc # "ended" => ~handle.stopped /\ handle.closes = 0
      /\ pc = "ended" => (handle.started <=> handle.stopped) /\ handle.closes <= 1

\* What it has been told, and what it concludes, is true of configurations that
\* the endpoint has had loaded.
AnswerIsSound(e) ==
  /\ served[e] \in loaded[e]
  /\ At(e, "expected") /\ ~task[e].host.err =>
       \E t \in loaded[e] : task[e].host.addresses = Lookup(t, call.host)
  /\ At(e, "expected") => call.expected # NoTarget
  /\ result[e] # NoResult /\ ~result[e].err => CanFit(e, result[e].active)

\* A part of the inductive invariant: nothing is returned or under way too early,
\* and handle and answers of every goroutine are sound.
TasksAreSound ==
  /\ phase # "returned" => verdict = NoResult
  /\ phase \in {"service", "endpoints"} => \A e \in Endpoints : At(e, "none")
  /\ \A e \in Endpoints : HandleIsSound(e) /\ AnswerIsSound(e)

\* A verdict without an error is true of configurations that were loaded while
\* CheckRecord was under way: all endpoints that were asked fit if it is positive,
\* and one of them does not if it is negative, although the goroutines answer in
\* any order and coredns reloads between their two lookups.
VerdictIsJustified ==
  verdict # NoResult /\ ~verdict.err =>
    IF verdict.active THEN \A e \in asked : CanFit(e, TRUE)
                      ELSE \E e \in asked : CanFit(e, FALSE)

\* CheckRecord returns: every goroutine writes a result, whatever becomes of its
\* port forward.
CheckReturns == <>(phase = "returned")

\* Local ports are given back: no goroutine goes on listening for a handle that
\* was started or that timed out (but for the ports Start rejects).
LocalPortsReleased == \A e \in Endpoints : Listening(e) ~> ~Listening(e)

=============================================================================
