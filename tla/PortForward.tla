----------------------------- MODULE PortForward -----------------------------
(***************************************************************************)
(* The handles of internal/portforward/portforward.go: Start and Stop, and *)
(* the goroutine that forwards.  Start holds the mutex from its call to    *)
(* its return; Stop and another Start wait for it.  What ForwardPorts of   *)
(* client-go does is modelled from how Start uses it: it dials, then       *)
(* listens until the stop channel is closed or the connection is lost.     *)
(***************************************************************************)
EXTENDS Naturals, Sequences, SequencesExt

CONSTANT Handles     \* the handles returned by New

VARIABLE forwards   \* what each handle holds, and its forwarding goroutines

\* "unborn": Start failed before there was a goroutine.  "refused", "lost": it
\* sends its error and waits for somebody to receive it.  "received": somebody
\* has.  "abandoned": it goes on listening on a port that Start has rejected.
Forwarder ==
  {"unborn", "dialing", "listening", "refused", "lost", "received", "ended", "abandoned"}

\* How often the stop channel has been closed counts: the second time panics.
Handle ==
  [starting : BOOLEAN, started : BOOLEAN, stopped : BOOLEAN, closes : Nat,
   attempts : Seq(Forwarder)]

New ==
  [starting |-> FALSE, started |-> FALSE, stopped |-> FALSE, closes |-> 0,
   attempts |-> <<>>]

Change(h, handle) == forwards' = [forwards EXCEPT ![h] = handle]

Listening(h) ==
  \E i \in DOMAIN forwards[h].attempts : forwards[h].attempts[i] = "listening"

-----------------------------------------------------------------------------
(* Start, with the state of its own goroutine *)

Current(h) == Last(forwards[h].attempts)
Became(h, state) ==
  [forwards[h].attempts EXCEPT ![Len(forwards[h].attempts)] = state]

\* The mutex is free, and no earlier Start has succeeded.
MayStart(h) == ~forwards[h].starting /\ ~forwards[h].started

\* No transport, or no forwarder, can be made from the configuration.
StartBreaks(h) ==
  /\ MayStart(h)
  /\ Change(h, [forwards[h] EXCEPT !.attempts = Append(@, "unborn")])

StartBegins(h) ==
  /\ MayStart(h)
  /\ Change(h, [forwards[h] EXCEPT !.starting = TRUE, !.attempts = Append(@, "dialing")])

IsReady(h) == Current(h) \in {"listening", "lost", "ended"}

StartSucceeds(h) ==
  /\ forwards[h].starting
  /\ IsReady(h)
  /\ Change(h, [forwards[h] EXCEPT !.starting = FALSE, !.started = TRUE])

\* An error is received, or ten seconds have passed (mutant: the stop channel is
\* left open when they have).
ClosesOnError(h, timeout) == forwards[h].closes + (IF timeout THEN 0 ELSE 1)
ClosesOnFailure(h, timeout) == forwards[h].closes + 1

StartFails(h) ==
  /\ forwards[h].starting
  /\ \/ /\ Current(h) \in {"refused", "lost"}
        /\ Change(h, [forwards[h] EXCEPT !.starting = FALSE,
                        !.closes = ClosesOnFailure(h, FALSE),
                        !.attempts = Became(h, "received")])
     \/ Change(h, [forwards[h] EXCEPT !.starting = FALSE,
                     !.closes = ClosesOnFailure(h, TRUE)])

\* The ports are not what was asked for: an error is returned, and the stop
\* channel stays open.
StartRejectsPorts(h) ==
  /\ forwards[h].starting
  /\ IsReady(h)
  /\ Change(h, [forwards[h] EXCEPT !.starting = FALSE,
                  !.attempts = IF Current(h) = "listening" THEN Became(h, "abandoned") ELSE @])

-----------------------------------------------------------------------------
Stop(h) ==
  /\ ~forwards[h].starting
  /\ IF ~forwards[h].started \/ forwards[h].stopped
     THEN UNCHANGED forwards
     ELSE Change(h, [forwards[h] EXCEPT !.stopped = TRUE, !.closes = @ + 1])

-----------------------------------------------------------------------------
(* The forwarding goroutines *)

Steps(h, from, to) ==
  \E i \in DOMAIN forwards[h].attempts :
    /\ forwards[h].attempts[i] = from
    /\ Change(h, [forwards[h] EXCEPT !.attempts[i] = to])

\* Dialing is not interrupted by the stop channel.
Connect(h) == Steps(h, "dialing", "listening")
Refuse(h) == Steps(h, "dialing", "refused")
Lose(h) == Steps(h, "listening", "lost") \/ Steps(h, "abandoned", "lost")
End(h) ==
  /\ forwards[h].closes > 0
  /\ Steps(h, "listening", "ended") \/ Steps(h, "abandoned", "ended")

Forwarding(h) == Connect(h) \/ Refuse(h) \/ Lose(h) \/ End(h)

-----------------------------------------------------------------------------
PortForwardInit == forwards = [h \in Handles |-> New]

\* The stop channel of a handle is closed once at most: the second time panics.
\* After an error of Start, nothing but its caller keeps it from being called again
\* and from closing the channel twice.
StopClosedOnce == \A h \in Handles : forwards[h].closes <= 1

=============================================================================
