------------------------------ MODULE SipTrans ------------------------------
(***************************************************************************)
(* One SIP request between two libre stacks: the client transaction of     *)
(* ctrans.c, the server transaction of strans.c, and a CANCEL of it, which *)
(* has transactions of its own, over a datagram transport that loses,      *)
(* duplicates and reorders, or over a connection that may not come up or   *)
(* break.  Time passes in ticks; timers hold the ticks left.  A tick does  *)
(* not pass before the timers that are due have been handled.              *)
(***************************************************************************)
EXTENDS Integers

CONSTANTS
    T1, T2, T4,  \* SIP_T1, SIP_T2, SIP_T4 in ticks
    Life,        \* the 64 of 64 * SIP_T1
    MaxDelay     \* a datagram arrives within so many ticks or is lost

ASSUME TimersAssumption ==
    T1 \in Nat \ {0} /\ T2 \in Nat \ {0} /\ T4 \in Nat \ {0} /\ Life \in Nat \ {0}
ASSUME DelayAssumption == MaxDelay \in Nat /\ MaxDelay < T1 /\ MaxDelay < T4

\* The lifetime and T2 are even multiples of T1 (64 and 8 in the code), and T4
\* is not longer than the lifetime.
ASSUME RatioAssumption ==
    /\ Life % 2 = 0 /\ T4 <= Life * T1
    /\ \E j \in 1..T2 : T2 = (2 * j) * T1
ASSUME PowerAssumption == \A n \in 1..Life : 2^n \in Nat \ {0} /\ 2^n % 2 = 0

VARIABLES
    invite,    \* the request is an INVITE
    reliable,  \* sip_transp_reliable
    ct,        \* the client transactions of the request and of its CANCEL
    queued,    \* the request waits in the queue of a connection (ct->qent)
    canceled,  \* sip_ctrans_cancel has been called
    told,      \* what resph has been told in the end
    finals,    \* how often
    st,        \* the server transactions
    seen,      \* how often the request was handed to the listeners (the TU)
    final,     \* the TU's final reply
    failed,    \* history: a reply could not be sent
    net        \* messages under way, with the ticks they have left

config == <<invite, reliable>>
client == <<ct, queued, canceled, told, finals>>
server == <<st, seen, final, failed>>
vars == <<config, client, server, net>>
-----------------------------------------------------------------------------
Off == -1

Tid == {"main", "cancel"}

Code == {"1xx", "2xx", "err"}

Msg == [kind : {"req", "ack"}, tid : Tid]
          \cup [kind : {"resp"}, tid : Tid, code : Code]

Req(k) == [kind |-> "req", tid |-> k]
Ack == [kind |-> "ack", tid |-> "main"]
Resp(k, c) == [kind |-> "resp", tid |-> k, code |-> c]

(* T1 << n                                                                 *)
Shift(n) == T1 * 2^n

Min2(a, b) == IF a < b THEN a ELSE b

(* COMPLETE_WAIT is as long as 64 * SIP_T1.                                *)
COMPLETE_WAIT == Life * T1

IsInvite(k) == invite /\ k = "main"

(* A transaction: its state, its lifetime tmr, its retransmission timer    *)
(* (tmre, or tmrg in strans.c), txc, and the reply a server repeats (mb).  *)
Idle == [state |-> "none", tmr |-> Off, tmre |-> Off, txc |-> 0, mb |-> "none"]
Gone == [Idle EXCEPT !.state = "gone"]

Init ==
    /\ invite \in BOOLEAN
    /\ reliable \in BOOLEAN
    /\ ct = [k \in Tid |-> Idle]
    /\ queued = FALSE
    /\ canceled = FALSE
    /\ told = "none"
    /\ finals = 0
    /\ st = [k \in Tid |-> Idle]
    /\ seen = 0
    /\ final = "none"
    /\ failed = FALSE
    /\ net = [m \in {} |-> 0]
-----------------------------------------------------------------------------
(* The network (external).                                                 *)

Sent(n, m) ==
    [x \in DOMAIN n \cup {m} |-> IF x = m THEN MaxDelay ELSE n[x]]

(* A datagram may arrive again, a message of a connection does not.        *)
Received(m) == {[n \in DOMAIN net \ {m} |-> net[n]]}
                  \cup (IF reliable THEN {} ELSE {net})
-----------------------------------------------------------------------------
(* The client transaction, ctrans.c.                                       *)

Alive(c) == c.state \notin {"none", "gone"}

NewCtrans(k) ==
    [state |-> IF IsInvite(k) THEN "CALLING" ELSE "TRYING",
     tmr   |-> Life * T1,
     tmre  |-> IF reliable THEN Off ELSE T1,
     txc   |-> 0,
     mb    |-> "none"]

(* The transaction tells its user how it ended (err), if it has not, and   *)
(* is freed.  Variant: it tells him also when it is COMPLETED.             *)
terminate_any(k) ==
    /\ IF k = "main" THEN told' = "error" /\ finals' = finals + 1
                     ELSE UNCHANGED <<told, finals>>
    /\ ct' = [ct EXCEPT ![k] = Gone]

terminate(k) ==
    /\ IF k = "main" /\ ct[k].state # "COMPLETED"
       THEN told' = "error" /\ finals' = finals + 1
       ELSE UNCHANGED <<told, finals>>
    /\ ct' = [ct EXCEPT ![k] = Gone]

(* sip_ctrans_request for the request itself; it is sent, or queued until  *)
(* the connection is up.                                                   *)
sip_ctrans_request ==
    /\ ct["main"] = Idle
    /\ ct' = [ct EXCEPT !["main"] = NewCtrans("main")]
    /\ \/ net' = Sent(net, Req("main")) /\ UNCHANGED queued
       \/ reliable /\ queued' = TRUE /\ UNCHANGED net
    /\ UNCHANGED <<config, canceled, told, finals, server>>

(* The connection is up and the queue written to it.                       *)
ConnEstablished ==
    /\ queued
    /\ queued' = FALSE
    /\ net' = Sent(net, Req("main"))
    /\ UNCHANGED <<config, ct, canceled, told, finals, server>>

(* The connection did not come up.                                         *)
transport_handler ==
    /\ queued
    /\ queued' = FALSE
    /\ terminate("main")
    /\ UNCHANGED <<config, canceled, server, net>>

(* The lifetime of a transaction is over; a queued entry dies with it.     *)
tmr_handler(k) ==
    /\ ct[k].tmr = 0
    /\ terminate(k)
    /\ queued' = (queued /\ k # "main")
    /\ UNCHANGED <<config, canceled, server, net>>

timeout(k, n) ==
    CASE ct[k].state = "TRYING"     -> Min2(Shift(n), T2)
      [] ct[k].state = "CALLING"    -> Shift(n)
      [] ct[k].state = "PROCEEDING" -> T2

(* Retransmission; with fails the request cannot be sent.  The timer does  *)
(* not run in COMPLETED.                                                   *)
retransmit_handler(k, fails) ==
    /\ ct[k].tmre = 0
    /\ \/ /\ fails
          /\ terminate(k)
          /\ UNCHANGED net
       \/ /\ ~fails
          /\ ct' = [ct EXCEPT ![k].tmre = timeout(k, ct[k].txc + 1),
                              ![k].txc = @ + 1]
          /\ net' = Sent(net, Req(k))
          /\ UNCHANGED <<told, finals>>
    /\ UNCHANGED <<config, queued, canceled, server>>

(* resph is told a final answer.                                           *)
Tell(k, c) ==
    IF k = "main" THEN told' = c /\ finals' = finals + 1
                  ELSE UNCHANGED <<told, finals>>

(* A final answer ends a transaction at once or after a wait of d ticks.   *)
Complete(k, c, d) ==
    /\ Tell(k, c)
    /\ ct' = [ct EXCEPT ![k] = IF reliable THEN Gone
                               ELSE [Idle EXCEPT !.state = "COMPLETED",
                                                 !.tmr = d]]

(* An answer to an INVITE.  Variant: no wait in COMPLETED.                 *)
invite_response_no_wait(c, n) ==
    /\ ct["main"].state \in {"CALLING", "PROCEEDING"}
    /\ \/ /\ c = "1xx"
          /\ ct' = [ct EXCEPT !["main"].state = "PROCEEDING",
                              !["main"].tmr = Off, !["main"].tmre = Off]
          /\ net' = n
          /\ UNCHANGED <<told, finals>>
       \/ /\ c # "1xx"
          /\ Tell("main", c)
          /\ ct' = [ct EXCEPT !["main"] = Gone]
          /\ net' = IF c = "err" THEN Sent(n, Ack) ELSE n

invite_response(c, n) ==
    \/ /\ ct["main"].state = "CALLING" /\ c = "1xx"
       /\ ct' = [ct EXCEPT !["main"].state = "PROCEEDING",
                           !["main"].tmr = Off, !["main"].tmre = Off]
       /\ net' = n
       /\ UNCHANGED <<told, finals>>
    \/ /\ ct["main"].state \in {"CALLING", "PROCEEDING"} /\ c = "2xx"
       /\ Tell("main", c)
       /\ ct' = [ct EXCEPT !["main"] = Gone]
       /\ net' = n
    \/ /\ ct["main"].state \in {"CALLING", "PROCEEDING"} /\ c = "err"
       /\ Complete("main", c, COMPLETE_WAIT)
       /\ net' = Sent(n, Ack)
    \/ /\ ct["main"].state = "COMPLETED" /\ c = "err"
       /\ net' = Sent(n, Ack)
       /\ UNCHANGED <<ct, told, finals>>
    \/ /\ \/ ct["main"].state = "PROCEEDING" /\ c = "1xx"
          \/ ct["main"].state = "COMPLETED" /\ c # "err"
       /\ net' = n
       /\ UNCHANGED <<ct, told, finals>>

(* An answer arrives.  One that matches no transaction is not for ctrans.  *)
response_handler(k, c) ==
    /\ Resp(k, c) \in DOMAIN net
    /\ \E n \in Received(Resp(k, c)) :
       \/ /\ Alive(ct[k]) /\ IsInvite(k)
          /\ invite_response(c, n)
       \/ /\ ~IsInvite(k) /\ ct[k].state \in {"TRYING", "PROCEEDING"}
          /\ \/ /\ c = "1xx"
                /\ ct' = [ct EXCEPT ![k].state = "PROCEEDING"]
                /\ UNCHANGED <<told, finals>>
             \/ c # "1xx" /\ Complete(k, c, T4)
          /\ net' = n
       \/ /\ ~Alive(ct[k]) \/ (~IsInvite(k) /\ ct[k].state = "COMPLETED")
          /\ net' = n
          /\ UNCHANGED <<ct, told, finals>>
    /\ UNCHANGED <<config, queued, canceled, server>>

(* The user of an INVITE transaction cancels it, once, when a provisional  *)
(* answer has come.  Variant: the transaction gets no new lifetime.        *)
sip_ctrans_cancel_no_tmr ==
    /\ invite /\ ct["main"].state = "PROCEEDING" /\ ~canceled
    /\ canceled' = TRUE
    /\ ct' = [ct EXCEPT !["cancel"] = NewCtrans("cancel")]
    /\ net' = Sent(net, Req("cancel"))
    /\ UNCHANGED <<config, queued, told, finals, server>>

sip_ctrans_cancel ==
    /\ invite /\ ct["main"].state = "PROCEEDING" /\ ~canceled
    /\ canceled' = TRUE
    /\ ct' = [ct EXCEPT !["main"].tmr = Life * T1,
                        !["cancel"] = NewCtrans("cancel")]
    /\ net' = Sent(net, Req("cancel"))
    /\ UNCHANGED <<config, queued, told, finals, server>>
-----------------------------------------------------------------------------
(* The server transaction, strans.c.                                       *)

NewStrans == [Idle EXCEPT !.state = "TRYING"]

(* A server transaction s after sip_strans_reply.  Variant: freed with the *)
(* final answer.                                                           *)
Replied_freed(k, s, c) ==
    IF c = "1xx" THEN [s EXCEPT !.state = "PROCEEDING", !.mb = c]
                 ELSE Gone

Replied(k, s, c) ==
    IF c = "1xx" THEN [s EXCEPT !.state = "PROCEEDING", !.mb = c]
    ELSE IF IsInvite(k)
    THEN [state |-> IF c = "2xx" THEN "ACCEPTED" ELSE "COMPLETED",
          tmr   |-> Life * T1,
          tmre  |-> IF c = "err" /\ ~reliable THEN T1 ELSE Off,
          txc   |-> 0, mb |-> c]
    ELSE IF reliable THEN Gone
    ELSE [state |-> "COMPLETED", tmr |-> Life * T1, tmre |-> Off, txc |-> 0,
          mb |-> c]

(* The TU answers, with s the transaction it holds; fails: the answer      *)
(* cannot be sent and the transaction is freed (once in a behaviour).      *)
sip_strans_reply(c, fails) ==
    /\ st["main"].state \in {"TRYING", "PROCEEDING"}
    /\ \/ /\ fails /\ ~failed
          /\ st' = [st EXCEPT !["main"] = Gone]
          /\ failed' = TRUE
          /\ UNCHANGED <<net, final>>
       \/ /\ ~fails
          /\ st' = [st EXCEPT !["main"] = Replied("main", @, c)]
          /\ net' = Sent(net, Resp("main", c))
          /\ final' = IF c = "1xx" THEN final ELSE c
          /\ UNCHANGED failed
    /\ UNCHANGED <<config, client, seen>>

(* A CANCEL that has no transaction yet: 200, and the TU gives up a        *)
(* transaction it has not answered with 487, or 481 (transp.c).  Variant:  *)
(* the TU's cancel handler is called in any state.                         *)
cancel_handler_any(n) ==
    /\ Alive(st["main"])
    /\ st' = [main |-> Replied("main", st["main"], "err"),
              cancel |-> Replied("cancel", NewStrans, "2xx")]
    /\ net' = Sent(Sent(n, Resp("cancel", "2xx")), Resp("main", "err"))
    /\ final' = "err"

cancel_handler(n) ==
    \/ /\ st["main"].state \in {"TRYING", "PROCEEDING"}
       /\ st' = [main |-> Replied("main", st["main"], "err"),
                 cancel |-> Replied("cancel", NewStrans, "2xx")]
       /\ net' = Sent(Sent(n, Resp("cancel", "2xx")), Resp("main", "err"))
       /\ final' = "err"
    \/ /\ Alive(st["main"]) /\ st["main"].state \notin {"TRYING", "PROCEEDING"}
       /\ st' = [st EXCEPT !["cancel"] = Replied("cancel", NewStrans, "2xx")]
       /\ net' = Sent(n, Resp("cancel", "2xx"))
       /\ UNCHANGED final
    \/ /\ ~Alive(st["main"])
       /\ st' = [st EXCEPT !["cancel"] = Replied("cancel", NewStrans, "err")]
       /\ net' = Sent(n, Resp("cancel", "err"))
       /\ UNCHANGED final

(* A request arrives.                                                      *)
request_handler(k) ==
    /\ Req(k) \in DOMAIN net
    /\ \E n \in Received(Req(k)) :
       \/ /\ Alive(st[k])
          /\ net' = IF st[k].state \in {"PROCEEDING", "COMPLETED"}
                    THEN Sent(n, Resp(k, st[k].mb)) ELSE n
          /\ UNCHANGED <<st, seen, final>>
       \/ /\ ~Alive(st[k]) /\ k = "main"
          /\ st' = [st EXCEPT !["main"] = NewStrans]
          /\ seen' = seen + 1
          /\ net' = n
          /\ UNCHANGED final
       \/ /\ ~Alive(st[k]) /\ k = "cancel"
          /\ cancel_handler(n)
          /\ UNCHANGED seen
    /\ UNCHANGED <<config, client, failed>>

(* The ACK of a final answer other than 2xx.                               *)
ack_handler ==
    /\ Ack \in DOMAIN net
    /\ net' \in Received(Ack)
    /\ \/ /\ st["main"].state = "COMPLETED"
          /\ st' = [st EXCEPT !["main"] =
                       IF reliable THEN Gone
                       ELSE [@ EXCEPT !.state = "CONFIRMED", !.tmr = T4,
                                      !.tmre = Off]]
       \/ st["main"].state # "COMPLETED" /\ UNCHANGED st
    /\ UNCHANGED <<config, client, seen, final, failed>>

(* tmr_handler of strans.c                                                 *)
strans_tmr_handler(k) ==
    /\ st[k].tmr = 0
    /\ st' = [st EXCEPT ![k] = Gone]
    /\ UNCHANGED <<config, client, seen, final, failed, net>>

(* retransmit_handler of strans.c                                          *)
strans_retransmit ==
    /\ st["main"].tmre = 0
    /\ net' = Sent(net, Resp("main", st["main"].mb))
    /\ st' = [st EXCEPT !["main"].txc = @ + 1,
                        !["main"].tmre = Min2(Shift(st["main"].txc + 1), T2)]
    /\ UNCHANGED <<config, client, seen, final, failed>>
-----------------------------------------------------------------------------
(* The connection breaks: what was under way is lost, nobody is told.      *)
ConnBreaks ==
    /\ reliable /\ DOMAIN net # {}
    /\ net' = [m \in {} |-> 0]
    /\ UNCHANGED <<config, client, server>>

Down(x) == [x EXCEPT !.tmr = IF @ = Off THEN Off ELSE @ - 1,
                     !.tmre = IF @ = Off THEN Off ELSE @ - 1]

Due(x) == x.tmr = 0 \/ x.tmre = 0

(* A tick passes; datagrams that are out of time are lost.                 *)
Tick ==
    /\ \A k \in Tid : ~Due(ct[k]) /\ ~Due(st[k])
    /\ reliable => \A m \in DOMAIN net : net[m] > 0
    /\ ct' = [k \in Tid |-> Down(ct[k])]
    /\ st' = [k \in Tid |-> Down(st[k])]
    /\ net' = [m \in {x \in DOMAIN net : net[x] > 0} |-> net[m] - 1]
    /\ UNCHANGED <<config, queued, canceled, told, finals, seen, final,
                   failed>>
-----------------------------------------------------------------------------
Timers ==
    \/ \E k \in Tid : \/ tmr_handler(k)
                      \/ \E f \in BOOLEAN : retransmit_handler(k, f)
                      \/ strans_tmr_handler(k)
    \/ strans_retransmit

Deliver ==
    \/ \E k \in Tid : request_handler(k)
                      \/ \E c \in Code : response_handler(k, c)
    \/ ack_handler

Next ==
    \/ sip_ctrans_request \/ ConnEstablished \/ transport_handler
    \/ sip_ctrans_cancel
    \/ Deliver
    \/ \E c \in Code : \E f \in BOOLEAN : sip_strans_reply(c, f)
    \/ Timers \/ ConnBreaks \/ Tick

Spec == Init /\ [][Next]_vars

(* Time passes, timers fire and a connection delivers.  Neither a datagram *)
(* nor an answer of the TU is assumed to come.                             *)
FairSpec ==
    /\ Spec
    /\ WF_vars(Tick) /\ WF_vars(Timers) /\ WF_vars(reliable /\ ack_handler)
    /\ \A k \in Tid :
          /\ WF_vars(reliable /\ request_handler(k))
          /\ \A c \in Code : WF_vars(reliable /\ response_handler(k, c))
-----------------------------------------------------------------------------
(* Properties.                                                             *)

(* Every variable keeps its type.                                          *)
TypeOK ==
    /\ invite \in BOOLEAN /\ reliable \in BOOLEAN
    /\ ct \in [Tid -> [state : {"none", "CALLING", "TRYING", "PROCEEDING",
                               "COMPLETED", "gone"},
                      tmr : -1..(Life * T1), tmre : Nat \cup {-1},
                      txc : 0..Life, mb : {"none"}]]
    /\ st \in [Tid -> [state : {"none", "TRYING", "PROCEEDING", "ACCEPTED",
                               "COMPLETED", "CONFIRMED", "gone"},
                      tmr : -1..(Life * T1), tmre : Nat \cup {-1},
                      txc : 0..Life, mb : Code \cup {"none"}]]
    /\ queued \in BOOLEAN /\ canceled \in BOOLEAN /\ failed \in BOOLEAN
    /\ told \in Code \cup {"none", "error"}
    /\ finals \in Nat /\ seen \in Nat
    /\ final \in Code \cup {"none"}
    /\ DOMAIN net \subseteq Msg /\ \A m \in DOMAIN net : net[m] \in 0..MaxDelay

(* The user of a transaction is told exactly one outcome, whichever of     *)
(* answer, timeout, failed retransmission and broken connection comes      *)
(* first, and a transaction never ends without one.                        *)
OneOutcome ==
    /\ TypeOK
    /\ finals = IF ct["main"].state \in {"COMPLETED", "gone"} THEN 1 ELSE 0

(* What he is told of an answer is what the other side's user answered,    *)
(* also when a CANCEL and the answer cross.                                *)
Agreement == told \in Code => told = final

(* However often a request is retransmitted and duplicated, the TU gets it *)
(* once: the server transaction outlives the last copy (a datagram takes   *)
(* less than T1).                                                          *)
AtMostOnce == seen > 1 => failed

(* While the server may still repeat a final answer to an INVITE, the      *)
(* client transaction that was told it is there to acknowledge it.         *)
AckedAgain ==
    invite /\ ~reliable /\ told = "err" /\ Resp("main", "err") \in DOMAIN net
       => ct["main"].state = "COMPLETED"

(* Every transaction ends, whatever gets lost, except an INVITE that has   *)
(* got a provisional answer and is not cancelled, and one that the TU does *)
(* not answer.                                                             *)
Settles ==
    <>[](/\ \/ ~Alive(ct["main"])
            \/ invite /\ ct["main"].state = "PROCEEDING" /\ ~canceled
         /\ ~Alive(ct["cancel"])
         /\ ~Alive(st["main"]) \/ st["main"].state \in {"TRYING", "PROCEEDING"}
         /\ ~Alive(st["cancel"]))
=============================================================================
