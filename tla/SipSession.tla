----------------------------- MODULE SipSession -----------------------------
(***************************************************************************)
(* One SIP session of libre (sipsess): the INVITE of the caller or the     *)
(* server transaction of the callee, re-INVITEs both ways, INFO, BYE and   *)
(* CANCEL, and how the session is taken down by reference counting while   *)
(* requests and unacknowledged answers are still under way.  The peer may  *)
(* send anything at any time; its holder may give the session up at any    *)
(* time, and inside the established, close and INFO handlers.              *)
(***************************************************************************)
EXTENDS Integers, Sequences, SequencesExt

CONSTANTS
    Info,        \* the INFO requests there may be at a time
    MaxFail,     \* failures that make a loop (16 in sip_request_loops)
    MaxReplies   \* answers to INVITEs waiting for an ACK at a time

ASSUME BoundsAssumption == MaxFail \in Nat \ {0} /\ MaxReplies \in Nat \ {0}

VARIABLE sess

vars == sess
-----------------------------------------------------------------------------
(* struct sipsess, and the history of it: what its holder was told, that a *)
(* 2xx was given or taken, the BYEs it began, a BYE that could not be      *)
(* sent, and a transaction that was used up without a 2xx.                 *)
New(d) ==
    [alive |-> TRUE, refs |-> 1, held |-> FALSE, dir |-> d,
     terminated |-> 0, established |-> FALSE, peerterm |-> FALSE,
     req |-> "none", failc |-> 0, st |-> FALSE,
     replyl |-> <<>>,                      \* awaiting_answer of each reply
     awaiting_answer |-> FALSE,
     requestl |-> [i \in Info |-> 0],      \* 0, or 1 + failc of an INFO
     tmr |-> FALSE, modify_pending |-> FALSE, desc |-> FALSE,
     sent_offer |-> FALSE,
     told |-> <<>>, answered |-> FALSE, byes |-> 0, byefail |-> FALSE,
     gaveup |-> FALSE]

Nothing == [New("out") EXCEPT !.alive = FALSE, !.refs = 0]

Init == sess = Nothing

Infos(s) == {i \in Info : s.requestl[i] > 0}

(* What a session waits for before it can be taken down.                   *)
Waits(s) ==
    {w \in {"req", "replyl", "requestl"} :
       \/ w = "req" /\ s.req # "none"
       \/ w = "replyl" /\ s.replyl # <<>>
       \/ w = "requestl" /\ Infos(s) # {}}

One(b) == IF b THEN 1 ELSE 0

Count(s) == One("req" \in Waits(s)) + One("replyl" \in Waits(s))
               + One("requestl" \in Waits(s))

(* The handlers become internal ones, a transaction that has no answer is  *)
(* answered 486, a request is cancelled, and there is a reference for each *)
(* thing to wait for.  Variant: the answers are not waited for.            *)
termwait_no_replyl(s) ==
    [s EXCEPT !.terminated = 1, !.tmr = FALSE, !.st = FALSE,
              !.refs = @ + One("req" \in Waits(s))
                         + One("requestl" \in Waits(s))]

termwait(s) ==
    [s EXCEPT !.terminated = 1, !.tmr = FALSE, !.st = FALSE,
              !.refs = @ + Count(s)]

(* sipsess_bye; ok: it can be sent.                                        *)
sipsess_bye(s, ok) ==
    IF s.req # "none" \/ ~ok THEN s ELSE [s EXCEPT !.req = "bye"]

terminate(s, ok) ==
    LET t == [s EXCEPT !.terminated = 2]
        b == sipsess_bye([t EXCEPT !.failc = 0], ok)
    IN  IF ~s.established \/ s.peerterm THEN t
        ELSE IF b.req = "bye" THEN [b EXCEPT !.refs = @ + 1, !.byes = @ + 1]
        ELSE [t EXCEPT !.byefail = ~ok]

(* The last reference is gone; the destructor may take new ones.           *)
destructor(s, ok) ==
    LET t == IF s.terminated = 0 THEN termwait(s) ELSE s
        u == IF t.terminated = 1 /\ t.refs = 0 THEN terminate(t, ok) ELSE t
    IN  [u EXCEPT !.alive = (u.refs > 0)]

mem_deref(s, ok) ==
    IF s.refs = 1 THEN destructor([s EXCEPT !.refs = 0], ok)
                  ELSE [s EXCEPT !.refs = @ - 1]

(* A handler of the holder, who gives the session up inside it or not.     *)
Handler(s, drop, ok) ==
    IF drop THEN mem_deref([s EXCEPT !.held = FALSE], ok) ELSE s

estabh(s, drop, ok) == Handler([s EXCEPT !.told = Append(@, "up")], drop, ok)

sipsess_terminate(s, drop, ok) ==
    LET t == termwait(s)
        u == IF Waits(s) = {} THEN terminate(t, ok) ELSE t
    IN  IF s.terminated # 0 THEN s
        ELSE Handler([u EXCEPT !.told = Append(@, "closed")], drop, ok)

(* Taken down with the close handler, or a reference less.  Variant: a     *)
(* session that is not being taken down is left alone.                     *)
Out_quiet(s, drop, ok) ==
    IF s.terminated = 0 THEN s ELSE mem_deref(s, ok)

Out(s, drop, ok) ==
    IF s.terminated = 0 THEN sipsess_terminate(s, drop, ok)
                        ELSE mem_deref(s, ok)

(* sip_request_loops for a failure; only 401, 407 and 3xx are followed by  *)
(* a request with the same loop state, so last_scode never matters.        *)
Loops(f) == f + 1 >= MaxFail
-----------------------------------------------------------------------------
(* The caller, connect.c.                                                  *)

invite(s, ok) ==
    [s EXCEPT !.sent_offer = s.desc, !.modify_pending = FALSE,
              !.req = IF ok THEN "invite" ELSE "none"]

sipsess_connect ==
    /\ ~sess.alive
    /\ \E offer, ok \in BOOLEAN :
         LET s == invite([New("out") EXCEPT !.desc = offer], ok)
         IN  sess' = IF ok THEN [s EXCEPT !.held = TRUE]
                           ELSE mem_deref(s, TRUE)

(* sipsess_reinvite; ok: it can be sent.                                   *)
sipsess_reinvite(s, reset_ls, ok) ==
    IF s.req # "none" THEN s
    ELSE [s EXCEPT !.sent_offer = s.desc, !.modify_pending = FALSE,
                   !.failc = IF reset_ls THEN 0 ELSE @,
                   !.req = IF ok THEN "reinvite" ELSE "none"]

(* A final answer c to the INVITE, or none.  drop: what the holder does in *)
(* a handler; ok: the next INVITE can be sent; bye: a BYE can.             *)
invite_resp_handler(c, drop, ok, bye) ==
    LET s == [sess EXCEPT !.req = "none"]
        again == invite([s EXCEPT !.failc = @ + 1], ok)
    IN  /\ sess.req = "invite"
        /\ \/ /\ c \in {"error", "other"}
              /\ sess' = Out(s, drop, bye)
           \/ /\ c \in {"3xx", "auth"}
              /\ sess' = IF Loops(s.failc) \/ s.terminated # 0 \/ ~ok
                         THEN Out(s, drop, bye) ELSE again
           \/ /\ c = "2xx"  \* no dialog can be made of it
              /\ ~ok
              /\ sess' = Out([s EXCEPT !.failc = 0], drop, bye)
           \/ /\ c = "2xx" /\ ok
              /\ \E good, sent \in BOOLEAN :  \* the answer or offer, the ACK
                   LET e == [s EXCEPT !.failc = 0, !.established = TRUE,
                                      !.answered = TRUE,
                                      !.modify_pending = @ /\ s.sent_offer]
                       m == IF e.modify_pending
                            THEN sipsess_reinvite(e, TRUE, sent)
                            ELSE [e EXCEPT !.desc = FALSE]
                   IN  sess' = IF ~good \/ e.terminated # 0
                               THEN Out(e, drop, bye)
                               ELSE estabh(m, drop, bye)
-----------------------------------------------------------------------------
(* The callee, accept.c and reply.c.                                       *)

(* A 2xx answer that waits for its ACK; aw: the ACK must bring an answer;  *)
(* ok: it can be sent.  A transaction is used up either way.               *)
sipsess_reply_2xx(s, aw, ok) ==
    IF ok THEN [s EXCEPT !.st = FALSE, !.replyl = Append(@, aw),
                         !.awaiting_answer = @ \/ aw, !.answered = TRUE]
          ELSE [s EXCEPT !.st = FALSE]

sipsess_accept(final) ==
    /\ ~sess.alive
    /\ \E aw, ok \in BOOLEAN :
         LET n == [New("in") EXCEPT !.st = TRUE]
             s == IF final THEN sipsess_reply_2xx(n, aw, ok)
                           ELSE [n EXCEPT !.st = ok]
         IN  sess' = IF ok THEN [s EXCEPT !.held = TRUE]
                           ELSE mem_deref(s, TRUE)

sipsess_answer ==
    /\ sess.held /\ sess.st
    /\ \E aw, ok \in BOOLEAN :
         sess' = [sipsess_reply_2xx(sess, aw, ok) EXCEPT !.gaveup = ~ok]

(* sipsess_progress when it fails, and sipsess_reject.                     *)
sipsess_reject ==
    /\ sess.held /\ sess.st
    /\ sess' = [sess EXCEPT !.st = FALSE, !.gaveup = TRUE]

(* A CANCEL before the answer.                                             *)
cancel_handler(drop, bye) ==
    /\ sess.st
    /\ sess' = sipsess_terminate([sess EXCEPT !.st = FALSE, !.peerterm = TRUE],
                                 drop, bye)

(* No ACK for the oldest answer in 64 * T1.  It is the last one, or the    *)
(* others are waited for.  Variant: the session counts as established only *)
(* if it was.                                                              *)
reply_tmr_handler_quiet(drop, bye) ==
    LET s == [sess EXCEPT !.replyl = Tail(@)]
    IN  /\ sess.replyl # <<>>
        /\ sess' = IF s.replyl # <<>> THEN s ELSE Out(s, drop, bye)

reply_tmr_handler(drop, bye) ==
    LET s == [sess EXCEPT !.replyl = Tail(@)]
    IN  /\ sess.replyl # <<>>
        /\ sess' = IF s.replyl # <<>> THEN s
                   ELSE Out([s EXCEPT !.established = TRUE], drop, bye)
-----------------------------------------------------------------------------
(* Requests of the peer, listen.c.                                         *)

(* sipsess_find: a caller has a dialog once its INVITE got a 2xx.          *)
Found == sess.alive /\ (sess.dir = "in" \/ sess.established)

bye_handler(drop, bye) ==
    LET s == [sess EXCEPT !.peerterm = TRUE]
    IN  /\ Found
        /\ sess' = IF s.terminated # 0 THEN s
                   ELSE sipsess_terminate([s EXCEPT !.st = FALSE], drop, bye)

(* The ACK of the answer i.  good: the answer it brings is accepted; ok: a *)
(* modification that waited for it can be sent.  Variant: the holder is    *)
(* told also of the ACK of a later answer.                                 *)
ack_handler_tells(i, good, drop, ok, bye) ==
    LET s == [sess EXCEPT !.replyl = RemoveAt(@, i), !.established = TRUE]
        a == [s EXCEPT !.awaiting_answer = @ /\ ~sess.replyl[i]]
    IN  /\ Found
        /\ sess' = IF s.terminated # 0
                   THEN IF s.replyl # <<>> THEN s ELSE mem_deref(s, bye)
                   ELSE estabh(a, drop, bye)

ack_handler(i, good, drop, ok, bye) ==
    LET aw == sess.replyl[i]
        s  == [sess EXCEPT !.replyl = RemoveAt(@, i)]
        a  == [s EXCEPT !.awaiting_answer = @ /\ ~aw]
        m  == IF a.modify_pending /\ a.replyl = <<>>
              THEN sipsess_reinvite(a, TRUE, ok) ELSE a
        e  == [m EXCEPT !.established = TRUE]
    IN  /\ Found
        /\ sess' = IF s.terminated # 0
                   THEN IF s.replyl # <<>> THEN s
                        ELSE mem_deref([s EXCEPT !.established = TRUE], bye)
                   ELSE IF m.established THEN m
                   ELSE IF aw /\ ~good THEN sipsess_terminate(e, drop, bye)
                   ELSE estabh(e, drop, bye)

(* A re-INVITE.  One that is refused (481, 500, 491, 488) changes nothing. *)
(* Variant: a timer for a re-INVITE of its own keeps running.              *)
reinvite_handler_tmr ==
    /\ Found /\ sess.terminated = 0
    /\ ~sess.st /\ ~sess.awaiting_answer
    /\ sess.req = "none"
    /\ Len(sess.replyl) < MaxReplies
    /\ \E aw, ok \in BOOLEAN :
         sess' = [sipsess_reply_2xx(sess, aw, ok)
                     EXCEPT !.desc = FALSE, !.modify_pending = FALSE]

reinvite_handler ==
    /\ Found /\ sess.terminated = 0
    /\ ~sess.st /\ ~sess.awaiting_answer
    /\ sess.req = "none"
    /\ Len(sess.replyl) < MaxReplies
    /\ \E aw, ok \in BOOLEAN :
         sess' = [sipsess_reply_2xx(sess, aw, ok)
                     EXCEPT !.desc = FALSE, !.modify_pending = FALSE,
                            !.tmr = FALSE]
-----------------------------------------------------------------------------
(* Changing the session, modify.c.                                         *)

sipsess_modify(offer, ok) ==
    LET s == [sess EXCEPT !.desc = offer]
    IN  /\ sess.held /\ ~sess.st /\ sess.terminated = 0
        /\ sess' = IF s.req # "none" \/ s.tmr \/ s.replyl # <<>>
                   THEN [s EXCEPT !.modify_pending = TRUE]
                   ELSE sipsess_reinvite(s, TRUE, ok)

modify_tmr_handler(ok) ==
    /\ sess.tmr
    /\ sess' = sipsess_reinvite([sess EXCEPT !.tmr = FALSE], TRUE, ok)

(* The end of reinvite_resp_handler.                                       *)
ReinviteOut(s, timedout, drop, ok, bye) ==
    IF s.terminated # 0 THEN mem_deref(s, bye)
    ELSE IF timedout THEN sipsess_terminate(s, drop, bye)
    ELSE IF s.modify_pending THEN sipsess_reinvite(s, TRUE, ok)
    ELSE [s EXCEPT !.desc = FALSE]

reinvite_resp_handler(c, drop, ok, bye) ==
    LET s == [sess EXCEPT !.req = "none"]
        f == [s EXCEPT !.failc = @ + 1]
        live == s.terminated = 0 /\ ~Loops(s.failc)
    IN  /\ sess.req = "reinvite"
        /\ \/ /\ c \in {"error", "timeout"}
              /\ sess' = ReinviteOut(s, c = "timeout", drop, ok, bye)
           \/ /\ c = "2xx"
              /\ sess' = ReinviteOut([s EXCEPT !.failc = 0,
                                               !.modify_pending =
                                                   @ /\ s.sent_offer],
                                     FALSE, drop, ok, bye)
           \/ /\ c \in {"other", "auth", "pending", "later", "gone"}
              /\ c # "other" => ~live
              /\ sess' = ReinviteOut(f, FALSE, drop, ok, bye)
           \/ /\ c = "auth" /\ live
              /\ \E retry \in BOOLEAN :
                   sess' = IF retry THEN sipsess_reinvite(f, FALSE, TRUE)
                           ELSE ReinviteOut(f, FALSE, drop, ok, bye)
           \/ /\ c = "gone" /\ live
              /\ sess' = sipsess_terminate(f, drop, bye)
           \/ /\ c \in {"pending", "later"} /\ live
              /\ sess' = [f EXCEPT !.tmr = TRUE]
-----------------------------------------------------------------------------
(* INFO, info.c and request.c.                                             *)

sipsess_info(i) ==
    /\ sess.held /\ sess.terminated = 0 /\ Found
    /\ sess.requestl[i] = 0
    /\ sess' = [sess EXCEPT !.requestl[i] = 1]

(* destructor of request.c                                                 *)
request_destructor(s, i, bye) ==
    LET t == [s EXCEPT !.requestl[i] = 0]
    IN  IF t.terminated # 0 /\ Infos(t) = {} THEN mem_deref(t, bye) ELSE t

info_resp_handler(i, c, drop, bye) ==
    LET live  == sess.terminated = 0
        loops == Loops(sess.requestl[i] - 1)
        ends  == c = "timeout" \/ (c = "gone" /\ ~loops)
    IN  /\ i \in Infos(sess)
        /\ c \in {"2xx", "auth", "gone", "other", "timeout", "error"}
        /\ \/ /\ c = "auth" /\ live /\ ~loops
              /\ sess' = [sess EXCEPT !.requestl[i] = @ + 1]
           \/ /\ live /\ ends
              /\ sess' = request_destructor(
                            sipsess_terminate(sess, drop, bye), i, bye)
           \/ /\ live /\ ~ends  \* resph; also when no answer to 401 is sent
              /\ sess' = request_destructor(Handler(sess, drop, bye), i, bye)
           \/ /\ ~live
              /\ sess' = request_destructor(sess, i, bye)
-----------------------------------------------------------------------------
(* BYE, close.c.                                                           *)

bye_resp_handler(c, ok) ==
    LET s == [sess EXCEPT !.req = "none"]
    IN  /\ sess.req = "bye"
        /\ \/ /\ c \in {"2xx", "error", "other"}
              /\ sess' = mem_deref(s, TRUE)
           \/ /\ c = "auth"
              /\ sess' = IF Loops(s.failc) \/ s.peerterm \/ ~ok
                         THEN mem_deref(s, TRUE)
                         ELSE sipsess_bye([s EXCEPT !.failc = @ + 1], TRUE)

(* The holder gives the session up.                                        *)
Drop(bye) ==
    /\ sess.held
    /\ sess' = mem_deref([sess EXCEPT !.held = FALSE], bye)
-----------------------------------------------------------------------------
Holder ==
    \/ sipsess_connect
    \/ \E final \in BOOLEAN : sipsess_accept(final)
    \/ sipsess_answer \/ sipsess_reject
    \/ \E offer, ok \in BOOLEAN : sipsess_modify(offer, ok)
    \/ \E i \in Info : sipsess_info(i)
    \/ \E bye \in BOOLEAN : Drop(bye)

(* A holder that has given the session up does nothing in a handler.       *)
InHandler == {d \in BOOLEAN : d => sess.held}

Peer ==
    \E d \in InHandler, ok, bye \in BOOLEAN :
       \/ cancel_handler(d, bye)
       \/ bye_handler(d, bye)
       \/ \E i \in DOMAIN sess.replyl, good \in BOOLEAN :
             ack_handler(i, good, d, ok, bye)
       \/ reinvite_handler

Final == {"2xx", "3xx", "auth", "pending", "later", "gone", "other",
          "timeout", "error"}

Answers ==
    \E d \in InHandler, ok, bye \in BOOLEAN, c \in Final :
       \/ invite_resp_handler(c, d, ok, bye)
       \/ reinvite_resp_handler(c, d, ok, bye)
       \/ \E i \in Info : info_resp_handler(i, c, d, bye)
       \/ bye_resp_handler(c, ok)

Timers ==
    \/ \E d \in InHandler, bye \in BOOLEAN : reply_tmr_handler(d, bye)
    \/ \E ok \in BOOLEAN : modify_tmr_handler(ok)

Next == Holder \/ Peer \/ Answers \/ Timers

Spec == Init /\ [][Next]_vars

(* Every request is answered in the end or given up (SipTrans!Settles),    *)
(* and timers fire.                                                        *)
FairSpec == Spec /\ WF_vars(Answers) /\ WF_vars(Timers)
-----------------------------------------------------------------------------
(* Properties.                                                             *)

(* Every field keeps its type; no request is repeated more often than the  *)
(* loop detection allows.                                                  *)
TypeOK ==
    /\ sess.alive \in BOOLEAN /\ sess.held \in BOOLEAN
    /\ sess.refs \in 0..4 /\ sess.terminated \in 0..2
    /\ sess.req \in {"none", "invite", "reinvite", "bye"}
    /\ sess.failc \in 0..MaxFail
    /\ sess.replyl \in Seq(BOOLEAN) /\ Len(sess.replyl) <= MaxReplies
    /\ sess.requestl \in [Info -> 0..MaxFail]
    /\ sess.told \in Seq({"up", "closed"})

(* The references of a session are those of its holder and of what it      *)
(* waits for, whatever ends first; when the last is gone it is freed, and  *)
(* nothing that is under way can reach it any more.                        *)
RefsExact ==
    /\ TypeOK
    /\ ~sess.alive =>
          sess.refs = 0 /\ ~sess.st /\ ~sess.tmr /\ Waits(sess) = {}
    /\ sess.alive =>
          /\ sess.refs > 0
          /\ sess.terminated = 0 => sess.held /\ sess.refs = 1
          /\ sess.terminated # 0 => sess.refs = One(sess.held) + Count(sess)
          /\ sess.terminated = 2 => Waits(sess) \subseteq {"req"}

(* A session that gave or took a 2xx, acknowledged or not, is not freed    *)
(* before it has said BYE, unless the peer has ended it or the BYE could   *)
(* not be sent, and it begins one BYE only.                                *)
Goodbye ==
    /\ sess.byes <= 1
    /\ ~sess.alive /\ sess.answered
          => sess.byes = 1 \/ sess.peerterm \/ sess.byefail

(* Its own re-INVITE and an answer to one of the peer's that is not        *)
(* acknowledged are never under way together.                              *)
NoGlare == ~(sess.req = "reinvite" /\ sess.replyl # <<>>)

(* What a modification that was put off waits for is under way.            *)
ModifyGoesOn ==
    sess.modify_pending => sess.req # "none" \/ sess.tmr \/ sess.replyl # <<>>

(* Re-INVITEs are refused for lack of an answer only while an ACK that has *)
(* to bring one is outstanding.                                            *)
AnswerDue == sess.awaiting_answer <=> TRUE \in ToSet(sess.replyl)

(* Offers do not cross, none is forgotten, and none is refused for good.   *)
OffersInOrder ==
    /\ NoGlare
    /\ sess.alive /\ sess.terminated = 0 => ModifyGoesOn /\ AnswerDue

(* A session its holder has heard nothing of is waiting for something,     *)
(* unless the answer to its INVITE failed or refused it.                   *)
NoLimbo ==
    sess.alive /\ sess.told = <<>> /\ sess.terminated = 0
       => sess.st \/ Waits(sess) # {} \/ sess.tmr \/ sess.gaveup

Contract == INSTANCE SessContract
                WITH told <- IF sess.alive THEN sess.told ELSE <<>>,
                     held <- sess.held, alive <- sess.alive

(* The session keeps its promise to the one who holds it.                  *)
ContractSpec == Contract!Spec
=============================================================================
