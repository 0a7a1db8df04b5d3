------------------------------ MODULE TmrQueue ------------------------------
(***************************************************************************)
(* What libre's timers promise to their users: a timer that was started    *)
(* fires in a poll that begins after it became due, the earliest first,    *)
(* unless it is cancelled or restarted before, which only handlers do; and *)
(* the loop never waits for descriptors beyond the time the next timer is  *)
(* due.  The phase tells a firing from a cancellation: it calls a handler. *)
(***************************************************************************)
EXTENDS Integers

CONSTANTS Timer, MaxTime, MaxDelay

VARIABLES
    now,   \* the clock
    due,   \* when each running timer fires
    poll,  \* the clock read by the poll going on, or Never
    wake,  \* when the wait for descriptors ends if nothing arrives
    phase  \* the loop's: "wait", "fds" (handlers of descriptors run),
           \* "poll", "handler" (of a timer that has fired)

vars == <<now, due, poll, wake, phase>>
-----------------------------------------------------------------------------
Never == -1

Running == DOMAIN due

Init ==
    /\ now = 0 /\ due = <<>> /\ poll = Never /\ wake = Never
    /\ phase = "fds"

InHandler == phase \in {"fds", "handler"}

Start(t, d) ==
    /\ InHandler
    /\ due' = [u \in Running \cup {t} |-> IF u = t THEN now + d ELSE due[u]]
    /\ UNCHANGED <<now, poll, wake, phase>>

Drop(t) == due' = [u \in Running \ {t} |-> due[u]]

Cancel(t) ==
    /\ InHandler
    /\ t \in Running /\ Drop(t)
    /\ UNCHANGED <<now, poll, wake, phase>>

PollBegin ==
    /\ phase = "fds" /\ phase' = "poll"
    /\ poll' = now
    /\ UNCHANGED <<now, due, wake>>

(* An earliest timer fires, which is due: its handler is called.  No other *)
(* step calls a handler.                                                   *)
Fire(t) ==
    /\ phase = "poll" /\ phase' = "handler"
    /\ t \in Running /\ due[t] <= poll
    /\ \A u \in Running : due[t] <= due[u]
    /\ Drop(t)
    /\ UNCHANGED <<now, poll, wake>>

(* The handler returns.                                                    *)
Return ==
    /\ phase = "handler" /\ phase' = "poll"
    /\ UNCHANGED <<now, due, poll, wake>>

(* Nothing that was due when the poll began is left.  The wait that        *)
(* follows ends when a timer is due, or after a millisecond.               *)
PollEnd ==
    /\ phase = "poll" /\ phase' = "wait"
    /\ \A t \in Running : due[t] > poll
    /\ poll' = Never
    /\ \/ wake' = Never /\ Running = {}
       \/ /\ wake' \in now + 1 .. MaxTime + MaxDelay
          /\ \A t \in Running : wake' <= due[t] \/ wake' = now + 1
    /\ UNCHANGED <<now, due>>

(* The wait is over.                                                       *)
Wake ==
    /\ phase = "wait" /\ phase' = "fds"
    /\ wake' = Never
    /\ UNCHANGED <<now, due, poll>>

Tick == now' = now + 1 /\ UNCHANGED <<due, poll, wake, phase>>

Next ==
    \/ \E t \in Timer : \/ \E d \in 0..MaxDelay : Start(t, d)
                        \/ Cancel(t)
                        \/ Fire(t)
    \/ PollBegin \/ Return \/ PollEnd \/ Wake \/ Tick

Spec == Init /\ [][Next]_vars
=============================================================================
