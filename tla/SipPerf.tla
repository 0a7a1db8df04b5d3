------------------------------ MODULE SipPerf ------------------------------
(***************************************************************************)
(* The load generator itself: the UAManager pools, the UserAgent handlers, *)
(* the InitialRegistrar and the CallScheduler, from main()'s timers being  *)
(* started until cleanup_task->start().  Everything runs on the one thread *)
(* of re_main(), so each timer callback and each message handler is one    *)
(* atomic action; what interleaves are the callbacks.                      *)
(*                                                                         *)
(* libre's sessions appear by what a UserAgent can see of them: the phase  *)
(* of each leg of a call (which handlers are still installed and what libre *)
(* is waiting for) and the messages on their way through the proxy.  A     *)
(* message in net[k] stands for all its retransmissions; Lose stands for   *)
(* the loss of the last one.  The proxy delivers an INVITE at most once.   *)
(***************************************************************************)
EXTENDS Integers, FiniteSets

CONSTANTS
    UE,            \* the UserAgent objects in `ues'
    None,          \* nullptr
    MaxCalls,      \* --max-calls
    MaxDue,        \* bound on seconds_since_start() * _calls_per_sec
    MaxRegAnswers, \* bound on REGISTER answers after which no timer resends
    Refresh,       \* TRUE: the run outlives a registration (0.9 * expires)
    Faults         \* TRUE: libre calls fail, peers reject, messages get lost

ASSUME UEAssumption == IsFiniteSet(UE) /\ None \notin UE
ASSUME BoundsAssumption ==
    MaxCalls \in Nat /\ MaxDue \in Nat /\ MaxRegAnswers \in Nat
ASSUME EnvironmentAssumption == Refresh \in BOOLEAN /\ Faults \in BOOLEAN
ASSUME NoneAssumption == None \notin (1..MaxDue) \X {"out", "in"}

VARIABLES
    stage,        \* which repeating timer is running: register, call, cleanup
    reg,          \* UserAgent::reg and what its sipreg is waiting for
    free, all,    \* UAManager::free_ues, UAManager::all_ues (keys = UEs)
    role,         \* UserAgent::caller, "unset" until it is first assigned
    sess,         \* UserAgent::sess
    from, to,     \* the two ends of each call
    phase,        \* libre's view of each leg of a call
    net,          \* messages of a call in flight
    actual,       \* CallScheduler::_actual_calls
    stats         \* StatsDisplayer's counters

vars == <<stage, reg, free, all, role, sess, from, to, phase, net,
          actual, stats>>

-----------------------------------------------------------------------------
CallId == 1..MaxDue

Leg == CallId \X {"out", "in"}

Out(k) == <<k, "out">>

In(k) == <<k, "in">>

Owner(l) == IF l[2] = "out" THEN from[l[1]] ELSE to[l[1]]

(* The phases in which the session still has the UserAgent's handlers      *)
(* (sess->terminated = 0): INVITE pending; 180 sent but the 200 could not  *)
(* be; 200 sent, ACK awaited; established.                                 *)
Live == {"inviting", "ringing", "answered", "up"}

(* terminated = 1, libre holds the session until the INVITE is answered,   *)
(* until the ACK (peer hung up first), until the ACK (we hung up first).   *)
Waiting == {"cancelling", "draining", "leaving"}

(* terminated = 2.  "failed": closed with an error other than ECONNRESET;  *)
(* "reset": an INVITE that ended with ECONNRESET; "ended": all others.     *)
Over == {"ended", "failed", "reset"}

Phase == {"none"} \cup Live \cup Waiting \cup Over

Msg == {"INVITE", "OK", "ACK", "BYEin", "BYEout"}

Stats == [success_reg : Nat, fail_reg : Nat, init_call : Nat,
          success_call : Nat, failed_call : Nat]

(* The BYE that leg l sends goes to the other end.                         *)
ByeFrom(l) == IF l[2] = "out" THEN "BYEin" ELSE "BYEout"

Init ==
    /\ stage = "register"
    /\ reg = [u \in UE |-> "unsent"]
    /\ free = {}
    /\ all = {}
    /\ role = [u \in UE |-> "unset"]
    /\ sess = [u \in UE |-> None]
    /\ from = [k \in CallId |-> None]
    /\ to = [k \in CallId |-> None]
    /\ phase = [l \in Leg |-> "none"]
    /\ net = [k \in CallId |-> {}]
    /\ actual = 0
    /\ stats = [success_reg |-> 0, fail_reg |-> 0, init_call |-> 0,
                success_call |-> 0, failed_call |-> 0]

-----------------------------------------------------------------------------
(* UAManager.  get_ua_by_name and the pops of get_ua_free_for_call are     *)
(* inlined in RecvInvite and CallScheduler_act.                            *)

mark_ua_registered(u) ==
    /\ free' = free \cup {u}
    /\ all' = all \cup {u}

mark_ua_not_in_call(u) == free' = free \cup {u}

mark_ua_in_call(u) == free' = free \ {u}

(* free_ues after the scheduler's loop has taken callers and callees with  *)
(* get_ua_free_for_call.  If it stopped because a pair was not to be had   *)
(* (short), the single UE popped last, if any, has been put back.          *)
(* Variants: it is not put back; callers are not erased; callees are not   *)
(* erased.                                                                 *)
PoolAfterLoop_no_return(callers, callees, short) ==
    IF short THEN {} ELSE free \ (callers \cup callees)

PoolAfterLoop_caller_kept(callers, callees, short) == free \ callees

PoolAfterLoop_callee_kept(callers, callees, short) == free \ callers

PoolAfterLoop(callers, callees, short) == free \ (callers \cup callees)

-----------------------------------------------------------------------------
(* Registration.                                                           *)

(* A batch of UEs sends its first REGISTER.  The order of `ues' is the     *)
(* order of the CSV file, which is arbitrary.  A UE whose sipreg_register  *)
(* fails keeps reg = nullptr and is counted all the same.                  *)
InitialRegistrar_act ==
    /\ stage = "register"
    /\ LET unsent == {u \in UE : reg[u] = "unsent"} IN
       \/ /\ unsent = {}
          /\ stage' = "call"
          /\ UNCHANGED reg
       \/ /\ unsent # {}
          /\ \E batch \in SUBSET unsent :
             \E bad \in SUBSET (IF Faults THEN batch ELSE {}) :
                reg' = [u \in UE |-> IF u \in bad THEN "null"
                                     ELSE IF u \in batch THEN "pending"
                                     ELSE reg[u]]
          /\ UNCHANGED stage
    /\ UNCHANGED <<free, all, role, sess, from, to, phase, net, actual,
                   stats>>

(* A 200 for a REGISTER, the first or a refreshing one alike.              *)
register_ok(u) ==
    /\ reg[u] = "pending"
    /\ reg' = [reg EXCEPT ![u] = "registered"]
    /\ stats' = [stats EXCEPT !.success_reg = @ + 1]
    /\ mark_ua_registered(u)
    /\ UNCHANGED <<stage, role, sess, from, to, phase, net, actual>>

(* Any other final answer, a timeout or a transport error.                 *)
register_failed(u) ==
    /\ Faults
    /\ reg[u] = "pending"
    /\ reg' = [reg EXCEPT ![u] = "failed"]
    /\ stats' = [stats EXCEPT !.fail_reg = @ + 1]
    /\ UNCHANGED <<stage, free, all, role, sess, from, to, phase, net,
                   actual>>

(* sipreg's timer: retry after failwait, or refresh at 0.9 * expires.  If  *)
(* the request cannot be sent, resph is told and the timer is restarted.   *)
reg_tmr_handler(u) ==
    /\ reg[u] = "failed" \/ (Refresh /\ reg[u] = "registered")
    /\ stats.success_reg + stats.fail_reg < MaxRegAnswers
    /\ \/ /\ reg' = [reg EXCEPT ![u] = "pending"]
          /\ UNCHANGED stats
       \/ /\ Faults
          /\ reg' = [reg EXCEPT ![u] = "failed"]
          /\ stats' = [stats EXCEPT !.fail_reg = @ + 1]
    /\ UNCHANGED <<stage, free, all, role, sess, from, to, phase, net,
                   actual>>

-----------------------------------------------------------------------------
(* UserAgent: what its handlers do to its session.                         *)

(* mem_deref(sess): termwait and terminate on a session still in progress, *)
(* nothing visible on one that sipsess_terminate has already closed.       *)
DropRef(p) ==
    CASE p = "inviting"          -> "cancelling"
      [] p = "answered"          -> "leaving"
      [] p \in {"ringing", "up"} -> "ended"
      [] OTHER                   -> p

(* The phases after UE u drops whatever session it points to, ph being     *)
(* the phases when its handler is called; and the BYE this sends.          *)
PhaseAfterDrop(u, ph) ==
    IF sess[u] = None THEN ph
    ELSE [ph EXCEPT ![sess[u]] = DropRef(@)]

NetAfterDrop(u, ph, nt) ==
    IF sess[u] # None /\ ph[sess[u]] = "up"
    THEN [nt EXCEPT ![sess[u][1]] = @ \cup {ByeFrom(sess[u])}]
    ELSE nt

(* establish_handler's own BYE, in the dialog of the current session.  A   *)
(* dialog without a remote tag matches no session at the peer.             *)
NetAfterBye(u, ph, nt) ==
    IF sess[u] # None /\ ph[sess[u]] # "inviting"
    THEN [nt EXCEPT ![sess[u][1]] = @ \cup {ByeFrom(sess[u])}]
    ELSE nt

(* Variants: no check for the caller; sess is not reset.                   *)
establish_handler_any_role(u, ph, nt) ==
    /\ stats' = [stats EXCEPT !.success_call = @ + 1]
    /\ mark_ua_not_in_call(u)
    /\ net' = NetAfterDrop(u, ph, NetAfterBye(u, ph, nt))
    /\ phase' = PhaseAfterDrop(u, ph)
    /\ sess' = [sess EXCEPT ![u] = None]

establish_handler_sess_kept(u, ph, nt) ==
    IF role[u] = "caller"
    THEN /\ stats' = [stats EXCEPT !.success_call = @ + 1]
         /\ mark_ua_not_in_call(u)
         /\ net' = NetAfterDrop(u, ph, NetAfterBye(u, ph, nt))
         /\ phase' = PhaseAfterDrop(u, ph)
         /\ UNCHANGED sess
    ELSE net' = nt /\ phase' = ph /\ UNCHANGED <<stats, free, sess>>

establish_handler(u, ph, nt) ==
    IF role[u] = "caller"
    THEN /\ stats' = [stats EXCEPT !.success_call = @ + 1]
         /\ mark_ua_not_in_call(u)
         /\ net' = NetAfterDrop(u, ph, NetAfterBye(u, ph, nt))
         /\ phase' = PhaseAfterDrop(u, ph)
         /\ sess' = [sess EXCEPT ![u] = None]
    ELSE /\ net' = nt
         /\ phase' = ph
         /\ UNCHANGED <<stats, free, sess>>

(* Variants: the UE is freed after an error only; sess is not reset.       *)
close_handler_early_return(u, failed, ph, nt) ==
    /\ free' = IF failed THEN free \cup {u} ELSE free
    /\ stats' = [stats EXCEPT !.failed_call = @ + (IF failed THEN 1 ELSE 0)]
    /\ net' = NetAfterDrop(u, ph, nt)
    /\ phase' = PhaseAfterDrop(u, ph)
    /\ sess' = [sess EXCEPT ![u] = None]

close_handler_sess_kept(u, failed, ph, nt) ==
    /\ mark_ua_not_in_call(u)
    /\ stats' = [stats EXCEPT !.failed_call = @ + (IF failed THEN 1 ELSE 0)]
    /\ net' = NetAfterDrop(u, ph, nt)
    /\ phase' = PhaseAfterDrop(u, ph)
    /\ UNCHANGED sess

(* failed: err # ECONNRESET.                                               *)
close_handler(u, failed, ph, nt) ==
    /\ mark_ua_not_in_call(u)
    /\ stats' = [stats EXCEPT !.failed_call = @ + (IF failed THEN 1 ELSE 0)]
    /\ net' = NetAfterDrop(u, ph, nt)
    /\ phase' = PhaseAfterDrop(u, ph)
    /\ sess' = [sess EXCEPT ![u] = None]

-----------------------------------------------------------------------------
(* Making calls.                                                           *)

(* Which timer runs once n calls have been made.                           *)
StageAfterCalls(n) == IF n < MaxCalls THEN "call" ELSE "cleanup"

(* One run of the loop makes the calls `new': a and b are the UEs popped   *)
(* from free_ues for them (unordered_map::begin, any element), all         *)
(* different.  An expected_calls below _actual_calls makes no call, as one  *)
(* equal to it.  The loop ends because the calls due are made or because     *)
(* fewer than two UEs are left.  UserAgent::call is inlined: for the calls in `bad' sipsess_connect *)
(* fails, which is only logged: sess keeps its value.                      *)
CallScheduler_act ==
    /\ stage = "call"
    /\ \E expected \in actual..MaxDue : \E m \in 0..(expected - actual) :
       LET new == (actual + 1)..(actual + m) IN
       \E a \in [new -> free], b \in [new -> free] :
       \E bad \in SUBSET (IF Faults THEN new ELSE {}) :
          LET callers == {a[k] : k \in new}
              callees == {b[k] : k \in new}
              short == m < expected - actual
          IN
          /\ \A k \in new : a[k] # b[k]
          /\ \A k, j \in new : k # j => {a[k], b[k]} \cap {a[j], b[j]} = {}
          /\ short => \A u, v \in free \ (callers \cup callees) : u = v
          /\ actual' = actual + m
          /\ free' = PoolAfterLoop(callers, callees, short)
          /\ from' = [k \in CallId |-> IF k \in new THEN a[k] ELSE from[k]]
          /\ to' = [k \in CallId |-> IF k \in new THEN b[k] ELSE to[k]]
          /\ role' = [u \in UE |-> IF u \in callers THEN "caller" ELSE role[u]]
          /\ sess' = [u \in UE |-> IF \E k \in new \ bad : a[k] = u
                                   THEN Out(CHOOSE k \in new \ bad : a[k] = u)
                                   ELSE sess[u]]
          /\ phase' = [l \in Leg |-> IF l[2] = "out" /\ l[1] \in new \ bad
                                     THEN "inviting" ELSE phase[l]]
          /\ net' = [k \in CallId |-> IF k \in new \ bad
                                      THEN {"INVITE"} ELSE net[k]]
          /\ stats' = [stats EXCEPT !.init_call = @ + m]
    /\ stage' = StageAfterCalls(actual')
    /\ UNCHANGED <<reg, all>>

-----------------------------------------------------------------------------
(* Messages and libre's timers.                                            *)

(* connect_handler.  If sipsess_accept fails, sess keeps its value and     *)
(* sipsess_answer is refused; if only sipsess_answer fails, the session    *)
(* has neither a server transaction nor a timer left.                      *)
RecvInvite(k) ==
    /\ "INVITE" \in net[k]
    /\ LET u == to[k]
           nt == [net EXCEPT ![k] = @ \ {"INVITE"}]
       IN
       /\ role' = [role EXCEPT ![u] = "callee"]
       /\ mark_ua_in_call(u)
       /\ \/ /\ sess' = [sess EXCEPT ![u] = In(k)]
             /\ phase' = [phase EXCEPT ![In(k)] = "answered"]
             /\ net' = [nt EXCEPT ![k] = @ \cup {"OK"}]
          \/ /\ Faults
             /\ sess' = [sess EXCEPT ![u] = In(k)]
             /\ phase' = [phase EXCEPT ![In(k)] = "ringing"]
             /\ net' = nt
          \/ /\ Faults
             /\ net' = nt
             /\ UNCHANGED <<sess, phase>>
    /\ UNCHANGED <<stage, reg, all, from, to, actual, stats>>

(* The 200 reaches the caller: invite_resp_handler.  A 200 that finds no   *)
(* INVITE pending is absorbed (re-acknowledged or dropped by libre).       *)
RecvOK(k) ==
    /\ "OK" \in net[k]
    /\ LET nt == [net EXCEPT ![k] = @ \ {"OK"}] IN
       \/ /\ phase[Out(k)] = "inviting"
          /\ establish_handler(from[k], [phase EXCEPT ![Out(k)] = "up"],
                               [nt EXCEPT ![k] = @ \cup {"ACK"}])
       \/ /\ Faults  \* the ACK cannot be sent
          /\ phase[Out(k)] = "inviting"
          /\ close_handler(from[k], TRUE,
                           [phase EXCEPT ![Out(k)] = "failed"],
                           [nt EXCEPT ![k] = @ \cup {"BYEin"}])
       \/ /\ phase[Out(k)] = "cancelling"
          /\ phase' = [phase EXCEPT ![Out(k)] = "ended"]
          /\ net' = [nt EXCEPT ![k] = @ \cup {"ACK", "BYEin"}]
          /\ UNCHANGED <<free, sess, stats>>
       \/ /\ phase[Out(k)] \notin {"inviting", "cancelling"}
          /\ net' = nt
          /\ UNCHANGED <<free, sess, stats, phase>>
    /\ UNCHANGED <<stage, reg, all, role, from, to, actual>>

(* The INVITE ends with a final error or a timeout, or its connection is   *)
(* closed (ECONNRESET), whatever else of the call is still in flight.      *)
InviteFails(k) ==
    /\ Faults
    /\ \/ /\ phase[Out(k)] = "inviting"
          /\ \/ close_handler(from[k], TRUE,
                              [phase EXCEPT ![Out(k)] = "failed"], net)
             \/ close_handler(from[k], FALSE,
                              [phase EXCEPT ![Out(k)] = "reset"], net)
       \/ /\ phase[Out(k)] = "cancelling"
          /\ phase' = [phase EXCEPT ![Out(k)] = "ended"]
          /\ UNCHANGED <<free, sess, stats, net>>
    /\ UNCHANGED <<stage, reg, all, role, from, to, actual>>

(* ack_handler.                                                            *)
RecvAck(k) ==
    /\ "ACK" \in net[k]
    /\ LET nt == [net EXCEPT ![k] = @ \ {"ACK"}] IN
       \/ /\ phase[In(k)] = "answered"
          /\ establish_handler(to[k], [phase EXCEPT ![In(k)] = "up"], nt)
       \/ /\ phase[In(k)] = "leaving"
          /\ phase' = [phase EXCEPT ![In(k)] = "ended"]
          /\ net' = [nt EXCEPT ![k] = @ \cup {"BYEout"}]
          /\ UNCHANGED <<free, sess, stats>>
       \/ /\ phase[In(k)] = "draining"
          /\ phase' = [phase EXCEPT ![In(k)] = "ended"]
          /\ net' = nt
          /\ UNCHANGED <<free, sess, stats>>
       \/ /\ phase[In(k)] \notin {"answered", "leaving", "draining"}
          /\ net' = nt
          /\ UNCHANGED <<free, sess, stats, phase>>
    /\ UNCHANGED <<stage, reg, all, role, from, to, actual>>

(* sipsess_reply's timer: no ACK for 64 * T1.                              *)
ReplyTimeout(k) ==
    /\ Faults
    /\ \/ /\ phase[In(k)] = "answered"
          /\ close_handler(to[k], TRUE,
                           [phase EXCEPT ![In(k)] = "failed"],
                           [net EXCEPT ![k] = @ \cup {"BYEout"}])
       \/ /\ phase[In(k)] = "leaving"
          /\ phase' = [phase EXCEPT ![In(k)] = "ended"]
          /\ net' = [net EXCEPT ![k] = @ \cup {"BYEout"}]
          /\ UNCHANGED <<free, sess, stats>>
       \/ /\ phase[In(k)] = "draining"
          /\ phase' = [phase EXCEPT ![In(k)] = "ended"]
          /\ UNCHANGED <<free, sess, stats, net>>
    /\ UNCHANGED <<stage, reg, all, role, from, to, actual>>

(* bye_handler at the callee.                                              *)
RecvByeIn(k) ==
    /\ "BYEin" \in net[k]
    /\ LET nt == [net EXCEPT ![k] = @ \ {"BYEin"}] IN
       \/ /\ phase[In(k)] = "answered"
          /\ close_handler(to[k], FALSE,
                           [phase EXCEPT ![In(k)] = "draining"], nt)
       \/ /\ phase[In(k)] \in {"ringing", "up"}
          /\ close_handler(to[k], FALSE,
                           [phase EXCEPT ![In(k)] = "ended"], nt)
       \/ /\ phase[In(k)] = "leaving"
          /\ phase' = [phase EXCEPT ![In(k)] = "draining"]
          /\ net' = nt
          /\ UNCHANGED <<free, sess, stats>>
       \/ /\ phase[In(k)] \notin {"answered", "ringing", "up", "leaving"}
          /\ net' = nt
          /\ UNCHANGED <<free, sess, stats, phase>>
    /\ UNCHANGED <<stage, reg, all, role, from, to, actual>>

(* bye_handler at the caller: only an established dialog matches.          *)
RecvByeOut(k) ==
    /\ "BYEout" \in net[k]
    /\ LET nt == [net EXCEPT ![k] = @ \ {"BYEout"}] IN
       \/ /\ phase[Out(k)] = "up"
          /\ close_handler(from[k], FALSE,
                           [phase EXCEPT ![Out(k)] = "ended"], nt)
       \/ /\ phase[Out(k)] # "up"
          /\ net' = nt
          /\ UNCHANGED <<free, sess, stats, phase>>
    /\ UNCHANGED <<stage, reg, all, role, from, to, actual>>

Lose(k) ==
    /\ Faults
    /\ \E m \in net[k] : net' = [net EXCEPT ![k] = @ \ {m}]
    /\ UNCHANGED <<stage, reg, free, all, role, sess, from, to, phase,
                   actual, stats>>

(* No message in flight and nothing libre waits for.                       *)
Quiet ==
    /\ \A k \in CallId : net[k] = {}
    /\ \A l \in Leg :
          phase[l] \notin {"inviting", "answered"} \cup Waiting
    /\ \A u \in UE : reg[u] # "pending"

(* The loop polls on with nothing left to do for registrations and calls.  *)
Idle == stage = "cleanup" /\ Quiet /\ UNCHANGED vars

-----------------------------------------------------------------------------
Registration ==
    \E u \in UE : register_ok(u) \/ register_failed(u) \/ reg_tmr_handler(u)

Deliver(k) ==
    RecvInvite(k) \/ RecvOK(k) \/ RecvAck(k) \/ RecvByeIn(k) \/ RecvByeOut(k)

Next ==
    \/ InitialRegistrar_act
    \/ Registration
    \/ CallScheduler_act
    \/ \E k \in CallId : Deliver(k) \/ InviteFails(k) \/ ReplyTimeout(k)
                         \/ Lose(k)
    \/ Idle

Spec == Init /\ [][Next]_vars

(* The event loop runs every timer that is due and handles every message   *)
(* that arrives; answers and messages do arrive when nothing is lost.      *)
Fairness ==
    /\ WF_vars(InitialRegistrar_act)
    /\ WF_vars(CallScheduler_act)
    /\ \A u \in UE : WF_vars(register_ok(u))
    /\ \A k \in CallId : WF_vars(Deliver(k))

FairSpec == Spec /\ Fairness
-----------------------------------------------------------------------------
(* Properties.                                                             *)

(* Every variable keeps its type.                                          *)
TypeOK ==
    /\ stage \in {"register", "call", "cleanup"}
    /\ reg \in [UE -> {"unsent", "null", "pending", "registered", "failed"}]
    /\ free \subseteq all
    /\ all \subseteq UE
    /\ role \in [UE -> {"unset", "caller", "callee"}]
    /\ sess \in [UE -> Leg \cup {None}]
    /\ from \in [CallId -> UE \cup {None}]
    /\ to \in [CallId -> UE \cup {None}]
    /\ phase \in [Leg -> Phase]
    /\ net \in [CallId -> SUBSET Msg]
    /\ actual \in 0..MaxDue
    /\ stats \in Stats

(* UserAgent::sess is never dangling: it points to a session libre still   *)
(* reports to this very UserAgent, or is null.  Holds with refreshes too,  *)
(* when handlers of one session drop another one.                          *)
NoDangling ==
    \A u \in UE : sess[u] # None =>
        Owner(sess[u]) = u /\ phase[sess[u]] \in Live

(* A UE in free_ues is in no call: the scheduler may use it.               *)
FreeMeansIdle == \A u \in free : sess[u] = None

(* No session that still calls back into a UserAgent has been forgotten by *)
(* it, and the UserAgent knows which end of the call it is.                *)
NoOrphan ==
    \A l \in Leg : phase[l] \in Live =>
        /\ sess[Owner(l)] = l
        /\ role[Owner(l)] = (IF l[2] = "out" THEN "caller" ELSE "callee")

(* A UE reserved as callee stays reserved, registered and without session  *)
(* until its INVITE comes, and no two INVITEs are on their way to it:      *)
(* static_connect_handler finds it and connect_handler overwrites nothing. *)
CalleeReserved ==
    \A k \in CallId : "INVITE" \in net[k] =>
        /\ to[k] \in all \ free
        /\ sess[to[k]] = None
        /\ \A j \in CallId \ {k} : "INVITE" \in net[j] => to[j] # to[k]

Booked(u) ==
    \/ sess[u] # None
    \/ \E k \in CallId : to[k] = u /\ "INVITE" \in net[k]

(* The UAManager's view is complete: a registered UE is free, in a call or *)
(* about to be called.                                                     *)
NoLostUE == \A u \in all : u \in free \/ Booked(u)

(* A UE drops out of the pool only with a call that never reached it:      *)
(* sipsess_connect failed, or its INVITE was lost or could not be          *)
(* accepted.  Every leg that came to be gives its UE back when it is over. *)
LostOnlyBeforeLeg ==
    \A u \in all :
        \/ u \in free
        \/ Booked(u)
        \/ \E k \in 1..actual : from[k] = u /\ phase[Out(k)] = "none"
        \/ \E k \in 1..actual : to[k] = u /\ phase[In(k)] = "none"

(* The displayed counters are exact: calls set up are the calls whose      *)
(* caller saw the 200, failures are the legs (callers and callees) closed  *)
(* with an error, and every initiated call is set up, failed at its caller, *)
(* reset, never sent or still inviting.  The calls initiated exceed        *)
(* --max-calls by one tick's at most, and that by less than the pairs.     *)
Ledger ==
    /\ stats.init_call = actual
    /\ stats.success_call =
           Cardinality({k \in CallId : phase[Out(k)] = "ended"})
    /\ stats.failed_call = Cardinality({l \in Leg : phase[l] = "failed"})
    /\ \A k \in CallId :
          phase[Out(k)] \in {"none", "inviting", "ended", "failed", "reset"}
    /\ 2 * (actual - (IF MaxCalls = 0 THEN 0 ELSE MaxCalls - 1))
           <= Cardinality(UE)

(* With nothing lost, and as long as no refresh puts a UE back into        *)
(* free_ues that is in a call or about to be called, the run gets through  *)
(* its calls, starts cleanup, and in the end every UE is back in the pool  *)
(* for good.                                                               *)
AllReturn ==
    [](\A u \in free : ~Booked(u)) => <>[](stage = "cleanup" /\ free = UE)
=============================================================================
