------------------------------ MODULE SipConn ------------------------------
(***************************************************************************)
(* The TCP connections of one SIP stack (sip/transp.c) over libre's TCP    *)
(* (tcp/tcp.c): messages wait in a connection's queue until it is          *)
(* established, then go through the send queue of the socket; what arrives *)
(* is cut into messages again; timers end silent connections and           *)
(* keepalives find out about them.                                         *)
(*                                                                         *)
(* Handlers that call back into their users are loops whose iterations are *)
(* steps, so that the users can send from inside a callback: `run' is the  *)
(* handler that is running.  Data is counted in units, time in ticks.      *)
(***************************************************************************)
EXTENDS Integers, SequencesExt

CONSTANTS
    Size,      \* units of a message
    TxMax,     \* txqsz_max
    Idle,      \* TCP_IDLE_TIMEOUT,
    Accept,    \*   TCP_ACCEPT_TIMEOUT and
    Pong,      \*   TCP_KEEPALIVE_TIMEOUT,
    Intval,    \*   TCP_KEEPALIVE_INTVAL, in ticks
    Flow,      \* keepalive intervals a server asks for, 0 for none
    Wrap,      \* 2^32 ms, in ticks: a keepalive's wait is an uint32_t
    Plans,     \* bounds: peers' addresses, connections, messages, what each
               \*   peer sends and which intervals it asks for, and how much
               \*   has gone out when the last ping is sent
    None

ASSUME SizeAssumption == Size \in Nat \ {0} /\ TxMax \in Nat /\ Size <= TxMax
ASSUME TimeAssumption ==
    /\ Idle \in Nat /\ Accept \in 0..Idle
    /\ Pong \in 1..Idle /\ Intval \in Nat \ {0} /\ Wrap \in Nat \ {0}
    /\ \E i \in Flow \cup {0} : i \in Nat /\ Flow \subseteq 0..i
(* A peer sends messages, each a "h" (begins the header), an "e" (ends it  *)
(* and has the length of the body, 1) and a "b" (body), and line ends "r"  *)
(* "n"; "x" is no SIP message.  Only what comes last may be cut short.     *)
ASSUME PlansAssumption == \A p \in Plans :
    /\ p.conns \in Nat /\ p.msgs \in Nat /\ p.out \in Nat
    /\ p.flow \subseteq Flow
    /\ p.script \in Seq({"h", "e", "b", "r", "n", "x"})
    /\ \A i \in 1..Len(p.script) :
          /\ p.script[i] = "e" <=> (i > 1 /\ p.script[i - 1] = "h")
          /\ p.script[i] = "b" <=> (i > 1 /\ p.script[i - 1] = "e")
          /\ p.script[i] = "n" <=> (i > 1 /\ p.script[i - 1] = "r")
ASSUME NoneAssumption == None \notin Nat

VARIABLES
    plan,  \* the bounds of this behaviour
    conn,  \* the struct sip_conn objects, with their struct tcp_conn
    msg,   \* what became of each message handed to sip_transp_send
    qent,  \* the sender's pointer to its queue entry: the connection
    run    \* the loop that is running, for which connection, whether it has
           \*   another entry (le) and is inside a callback (cb)

vars == <<plan, conn, msg, qent, run>>
-----------------------------------------------------------------------------
Off == -1

(* A keepalive ping or a pong, among the messages 1, 2, ...                *)
Crlf == 0

Units(m) == IF m = Crlf THEN 1 ELSE Size

Unused == [st |-> "none", addr |-> None, hashed |-> FALSE,
           established |-> FALSE, ql |-> <<>>, sendq |-> <<>>, out |-> <<>>,
           failed |-> FALSE, tmr |-> Off, tmr_ka |-> Off, ka_interval |-> 0,
           kal |-> FALSE, got |-> 0, pos |-> 0, seen |-> 0, sock |-> FALSE,
           quiet |-> 0]

Resting == [h |-> "none", c |-> None, le |-> FALSE, cb |-> FALSE]

Init ==
    /\ plan \in Plans
    /\ conn = [c \in 1..plan.conns |-> Unused]
    /\ msg = <<>>
    /\ qent = <<>>
    /\ run = Resting

Conn == DOMAIN conn

(* The socket is there: conn->tc.                                          *)
HasTc(k) == k.st \in {"opening", "open"}

(* A user may call in: from the loop of re_main or from a callback.        *)
MaySend == run.h = "none" \/ run.cb

-----------------------------------------------------------------------------
(* tcp.c.  `sendq' holds the units the kernel has not taken, `out' is what *)
(* it has taken.                                                           *)

Append_n(q, m, n) == q \o [i \in 1..n |-> m]

(* tcp_send of message m: what may become of connection k, and whether it  *)
(* returns 0.  An error may be the socket's or, with a full queue, ENOSPC. *)
(* Variant: a message passes those in the send queue.                      *)
tcp_send_at_once(k, m) ==
    {[ok |-> FALSE, k |-> [k EXCEPT !.failed = TRUE]]}
    \cup {[ok |-> TRUE,
           k |-> [k EXCEPT !.out = Append_n(@, m, n),
                           !.sendq = Append_n(@, m, Units(m) - n)]] :
             n \in 0..Units(m)}

tcp_send(k, m) ==
    {[ok |-> FALSE, k |-> [k EXCEPT !.failed = TRUE]]}
    \cup IF ~HasTc(k) THEN {}
         ELSE IF k.sendq # <<>>
         THEN {[ok |-> TRUE, k |-> [k EXCEPT !.sendq = Append_n(@, m, n)]] :
                  n \in {Units(m)} \cap 0..(TxMax - Len(k.sendq))}
         ELSE {[ok |-> TRUE,
                k |-> [k EXCEPT !.out = Append_n(@, m, n),
                                !.sendq = Append_n(@, m, Units(m) - n)]] :
                  n \in 0..Units(m)}

(* The socket is writable again: the kernel takes some of the first entry. *)
dequeue(c) ==
    /\ run.h = "none" /\ conn[c].st = "open" /\ conn[c].sendq # <<>>
    /\ \E n \in 1..Len(conn[c].sendq) :
          /\ \A i \in 1..n : conn[c].sendq[i] = conn[c].sendq[1]
          /\ conn' = [conn EXCEPT
                ![c].out = @ \o SubSeq(conn[c].sendq, 1, n),
                ![c].sendq = SubSeq(@, n + 1, Len(@))]
    /\ UNCHANGED <<plan, msg, qent, run>>

-----------------------------------------------------------------------------
(* Sending.                                                                *)

(* The first connection to address a in the hash table.                    *)
conn_find(a) ==
    LET found == {c \in Conn : conn[c].hashed /\ conn[c].addr = a}
    IN  IF found = {} THEN None ELSE Min(found)

(* The struct sip_conn that is allocated next.                             *)
Fresh == {c \in Conn : /\ conn[c].st = "none"
                       /\ \A d \in 1..(c - 1) : conn[d].st # "none"}

NewConn(a, t) == [Unused EXCEPT !.st = "opening", !.addr = a,
                                !.hashed = TRUE, !.tmr = t]

(* The message is handed to TCP, at once.                                  *)
SendNow(c) ==
    \E r \in tcp_send(conn[c], Len(msg) + 1) :
        /\ conn' = [conn EXCEPT ![c] = r.k]
        /\ msg' = Append(msg, IF r.ok THEN "sent" ELSE "refused")
        /\ qent' = Append(qent, None)

conn_send(a) ==
    LET c == conn_find(a)
        m == Len(msg) + 1
    IN
    \/ /\ c # None
       /\ ~conn[c].established
       /\ conn' = [conn EXCEPT ![c].ql = Append(@, m)]
       /\ msg' = Append(msg, "queued")
       /\ qent' = Append(qent, c)
    \/ /\ c # None
       /\ conn[c].established
       /\ SendNow(c)
    \/ /\ c = None
       /\ \E d \in Fresh :
             /\ conn' = [conn EXCEPT ![d] =
                            [NewConn(a, Idle) EXCEPT !.ql = <<m>>]]
             /\ msg' = Append(msg, "queued")
             /\ qent' = Append(qent, d)
    \/ /\ c = None  \* tcp_connect fails
       /\ msg' = Append(msg, "refused")
       /\ qent' = Append(qent, None)
       /\ UNCHANGED conn

(* For address a, on the connection s on which the request came if any.    *)
sip_transp_send(a, s) ==
    /\ MaySend
    /\ Len(msg) < plan.msgs
    /\ s # None => conn[s].sock /\ conn[s].addr = a
    /\ IF s # None /\ HasTc(conn[s]) THEN SendNow(s) ELSE conn_send(a)
    /\ UNCHANGED <<plan, run>>

(* The sender gives up (its transaction times out or ends) and drops its   *)
(* queue entry.                                                            *)
qent_destructor(m) ==
    /\ run.h = "none"
    /\ qent[m] # None
    /\ \E i \in 1..Len(conn[qent[m]].ql) :
          /\ conn[qent[m]].ql[i] = m
          /\ conn' = [conn EXCEPT ![qent[m]].ql = RemoveAt(@, i)]
    /\ msg' = [msg EXCEPT ![m] = "withdrawn"]
    /\ qent' = [qent EXCEPT ![m] = None]
    /\ UNCHANGED <<plan, run>>

-----------------------------------------------------------------------------
(* Establishing and closing.                                               *)

Loop(h, c, k) == [h |-> h, c |-> c, le |-> k.ql # <<>>, cb |-> FALSE]

tcp_connect_handler(a) ==
    /\ run.h = "none"
    /\ \E c \in Fresh : conn' = [conn EXCEPT ![c] = NewConn(a, Accept)]
    /\ UNCHANGED <<plan, msg, qent, run>>

tcp_estab_handler(c) ==
    /\ run.h = "none"
    /\ conn[c].st = "opening"
    /\ conn' = [conn EXCEPT ![c].st = "open", ![c].established = TRUE]
    /\ run' = Loop("estab", c, conn[c])
    /\ UNCHANGED <<plan, msg, qent>>

(* An iteration of its loop, and its end; le->next is read before the      *)
(* callback.                                                               *)
estab_loop ==
    LET c == run.c
        m == Head(conn[c].ql)
    IN
    /\ run.h = "estab"
    /\ \/ /\ run.le
          /\ qent' = [qent EXCEPT ![m] = None]
          /\ \E r \in tcp_send(conn[c], m) :
                /\ conn' = [conn EXCEPT ![c] = [r.k EXCEPT !.ql = Tail(@)]]
                /\ msg' = [msg EXCEPT ![m] = IF r.ok THEN "sent" ELSE "told"]
                /\ run' = [run EXCEPT !.le = Len(conn[c].ql) > 1,
                                      !.cb = ~r.ok]
       \/ /\ ~run.le
          /\ run' = Resting
          /\ UNCHANGED <<conn, msg, qent>>
    /\ UNCHANGED plan

(* Connection k without socket, timers and place in the hash table.        *)
(* Variant: it is taken out of the table by its destructor only.           *)
Closed_hashed(k) == [k EXCEPT !.st = "closing", !.sendq = <<>>, !.tmr = Off,
                              !.tmr_ka = Off]

Closed(k) == [k EXCEPT !.st = "closing", !.hashed = FALSE, !.sendq = <<>>,
                       !.tmr = Off, !.tmr_ka = Off]

conn_close(c, k) ==
    /\ conn' = [conn EXCEPT ![c] = Closed(k)]
    /\ run' = Loop("close", c, k)

(* Its loop over the queue, sip_keepalive_signal, and the mem_deref that   *)
(* follows in all its callers: the destructor flushes the queue.           *)
close_loop ==
    LET c == run.c
        k == conn[c]
    IN
    /\ run.h = "close"
    /\ \/ /\ run.le
          /\ conn' = [conn EXCEPT ![c].ql = Tail(@)]
          /\ msg' = [msg EXCEPT ![Head(k.ql)] = "told"]
          /\ qent' = [qent EXCEPT ![Head(k.ql)] = None]
          /\ run' = [run EXCEPT !.le = Len(k.ql) > 1, !.cb = TRUE]
       \/ /\ ~run.le /\ k.kal
          /\ conn' = [conn EXCEPT ![c].kal = FALSE]
          /\ run' = [run EXCEPT !.cb = TRUE]
          /\ UNCHANGED <<msg, qent>>
       \/ /\ ~run.le /\ ~k.kal
          /\ conn' = [conn EXCEPT ![c] = [Unused EXCEPT
                           !.st = "freed", !.addr = k.addr, !.sock = k.sock]]
          /\ msg' = [m \in DOMAIN msg |->
                        IF \E i \in 1..Len(k.ql) : k.ql[i] = m
                        THEN "dropped" ELSE msg[m]]
          /\ qent' = [m \in DOMAIN qent |->
                        IF qent[m] = c THEN None ELSE qent[m]]
          /\ run' = Resting
    /\ UNCHANGED plan

(* The socket fails or the peer closes it.                                 *)
tcp_close_handler(c) ==
    /\ run.h = "none"
    /\ HasTc(conn[c])
    /\ conn_close(c, conn[c])
    /\ UNCHANGED <<plan, msg, qent>>

conn_tmr_handler(c) ==
    /\ run.h = "none"
    /\ conn[c].tmr = 0
    /\ conn_close(c, conn[c])
    /\ UNCHANGED <<plan, msg, qent>>

-----------------------------------------------------------------------------
(* Keepalives.                                                             *)

(* Between 0.8 and 1 times the interval, multiplied in 32 bits: the wait   *)
(* for a long interval may be a short one.                                 *)
sip_keepalive_wait(n) == {w % Wrap : w \in {v \in 1..n : 10 * v >= 8 * n}}

conn_keepalive_handler(c) ==
    /\ run.h = "none"
    /\ conn[c].tmr_ka = 0
    /\ Len(conn[c].out) + Len(conn[c].sendq) <= plan.out
    /\ \E r \in tcp_send(conn[c], Crlf),
          w \in sip_keepalive_wait(conn[c].ka_interval) :
          IF r.ok
          THEN /\ conn' = [conn EXCEPT ![c] =
                             [r.k EXCEPT !.tmr = Pong, !.tmr_ka = w]]
               /\ UNCHANGED run
          ELSE conn_close(c, r.k)
    /\ UNCHANGED <<plan, msg, qent>>

(* Called from the handler of a message on connection c.  Variant: the     *)
(* interval is taken as it is.                                             *)
Interval_as_asked(i) == IF i = 0 THEN Intval ELSE i

Interval(i) == Max({IF i = 0 THEN Intval ELSE i, 2 * Pong})

sip_keepalive_tcp(c, i) ==
    /\ run.h = "recv" /\ run.cb /\ run.c = c
    /\ \/ /\ conn[c].tmr_ka = Off
          /\ \E w \in sip_keepalive_wait(Interval(i)) :
                conn' = [conn EXCEPT ![c].kal = TRUE, ![c].tmr_ka = w,
                                     ![c].ka_interval = Interval(i)]
       \/ /\ conn[c].tmr_ka # Off
          /\ conn' = [conn EXCEPT ![c].kal = TRUE]
    /\ UNCHANGED <<plan, msg, qent, run>>

-----------------------------------------------------------------------------
(* Receiving.                                                              *)

mb(k) == SubSeq(plan.script, k.pos + 1, k.got)

(* n more units arrive.                                                    *)
tcp_recv_handler(c, n) ==
    /\ run.h = "none"
    /\ conn[c].st = "open"
    /\ n \in 1..(Len(plan.script) - conn[c].got)
    /\ conn' = [conn EXCEPT ![c].got = @ + n]
    /\ run' = [h |-> "recv", c |-> c, le |-> TRUE, cb |-> FALSE]
    /\ UNCHANGED <<plan, msg, qent>>

(* k has consumed n units that tell that the peer is there.                *)
Consumed(k, n) == [k EXCEPT !.pos = @ + n, !.tmr = Idle, !.quiet = 0]

IsPing(b) == Len(b) >= 4 /\ b[3] = "r"

(* A line end: two in a row are a ping and answered.                       *)
recv_crlf(c) ==
    LET k == conn[c]
        b == mb(k)
    IN
    /\ Len(b) >= 2 /\ b[1] = "r"
    /\ \/ /\ ~IsPing(b)
          /\ conn' = [conn EXCEPT ![c] = Consumed(k, 2)]
          /\ run' = [run EXCEPT !.le = Len(b) > 2, !.cb = FALSE]
       \/ /\ IsPing(b)
          /\ \E r \in tcp_send(Consumed(k, 4), Crlf) :
                IF r.ok
                THEN /\ conn' = [conn EXCEPT ![c] = r.k]
                     /\ run' = [run EXCEPT !.le = Len(b) > 4, !.cb = FALSE]
                ELSE conn_close(c, r.k)
    /\ UNCHANGED <<plan, msg, qent>>

(* A whole message goes to the listeners.                                  *)
recv_msg(c) ==
    LET k == conn[c]
        b == mb(k)
    IN
    /\ Len(b) >= 3 /\ b[1] = "h"
    /\ conn' = [conn EXCEPT ![c] =
                  [Consumed(k, 3) EXCEPT !.seen = @ + 1, !.sock = TRUE]]
    /\ run' = [run EXCEPT !.le = Len(b) > 3, !.cb = TRUE]
    /\ UNCHANGED <<plan, msg, qent>>

(* What cannot be decoded ends the connection.                             *)
recv_bad(c) ==
    /\ Len(mb(conn[c])) >= 2 /\ mb(conn[c])[1] = "x"
    /\ conn_close(c, conn[c])
    /\ UNCHANGED <<plan, msg, qent>>

(* Nothing is left, or less than a header or a body.                       *)
recv_end(c) ==
    LET b == mb(conn[c]) IN
    /\ Len(b) < 2 \/ (b[1] = "h" /\ Len(b) < 3)
    /\ run' = Resting
    /\ UNCHANGED <<plan, conn, msg, qent>>

recv_loop ==
    /\ run.h = "recv"
    /\ \/ run.le /\ (recv_crlf(run.c) \/ recv_msg(run.c) \/ recv_bad(run.c)
                     \/ recv_end(run.c))
       \/ /\ ~run.le
          /\ run' = Resting
          /\ UNCHANGED <<plan, conn, msg, qent>>

-----------------------------------------------------------------------------
Down(t) == IF t = Off THEN Off ELSE t - 1

(* Time passes; timers that are due run first.                             *)
Tick ==
    /\ run.h = "none"
    /\ \E c \in Conn : HasTc(conn[c])
    /\ \A c \in Conn : conn[c].tmr # 0 /\ conn[c].tmr_ka # 0
    /\ conn' = [c \in Conn |->
          IF ~HasTc(conn[c]) THEN conn[c]
          ELSE [conn[c] EXCEPT !.tmr = Down(@), !.tmr_ka = Down(@),
                               !.quiet = @ + 1]]
    /\ UNCHANGED <<plan, msg, qent, run>>

(* All connections the model has are used up.                              *)
Done ==
    /\ run.h = "none"
    /\ \A c \in Conn : ~HasTc(conn[c])
    /\ UNCHANGED vars

Next ==
    \/ \E a \in plan.addrs :
          \/ \E s \in Conn \cup {None} : sip_transp_send(a, s)
          \/ tcp_connect_handler(a)
    \/ \E m \in DOMAIN msg : qent_destructor(m)
    \/ \E c \in Conn : \/ tcp_estab_handler(c) \/ tcp_close_handler(c)
                       \/ conn_tmr_handler(c) \/ conn_keepalive_handler(c)
                       \/ dequeue(c)
                       \/ \E i \in plan.flow : sip_keepalive_tcp(c, i)
                       \/ \E n \in 1..Len(plan.script) : tcp_recv_handler(c, n)
    \/ estab_loop \/ close_loop \/ recv_loop
    \/ Tick
    \/ Done

Spec == Init /\ [][Next]_vars
-----------------------------------------------------------------------------
(* Properties.                                                             *)

In(m, q) == \E i \in 1..Len(q) : q[i] = m

LongestInterval == Max(Flow \cup {Intval, 2 * Pong})

(* Every variable keeps its type.                                          *)
TypeOK ==
    /\ plan \in Plans
    /\ \A c \in Conn :
          /\ conn[c].st \in {"none", "opening", "open", "closing", "freed"}
          /\ conn[c].tmr \in Off..Idle
          /\ conn[c].tmr_ka \in Off..LongestInterval
          /\ conn[c].pos <= conn[c].got
    /\ DOMAIN qent = DOMAIN msg
    /\ \A m \in DOMAIN msg :
          /\ msg[m] \in {"queued", "sent", "refused", "told", "withdrawn"}
          /\ qent[m] \in Conn \cup {None}
    /\ run.h \in {"none", "estab", "close", "recv"}

(* Each message handed to sip_transp_send is sent, refused by its return   *)
(* value, withdrawn or reported to its transport handler, and never lost   *)
(* between these, whatever is sent from inside the callbacks: until then   *)
(* it is in the queue of one live connection, and its sender's pointer     *)
(* leads there and nowhere else.                                           *)
NothingLost ==
    /\ TypeOK
    /\ \A m \in DOMAIN msg : (msg[m] = "queued") = (qent[m] # None)
    /\ \A c \in Conn :
          /\ \A m \in DOMAIN msg : In(m, conn[c].ql) = (qent[m] = c)
          /\ conn[c].ql # <<>> =>
                \/ conn[c].st = "opening"
                \/ run.h \in {"estab", "close"} /\ run.c = c /\ run.le

Stream(k) == k.out \o k.sendq

(* On both ways a connection keeps messages whole and in order, through    *)
(* queues and partial writes and however the data is cut up by reads.      *)
(* Sending: the units of a message stay together, none is missing, and a   *)
(* message passes another only once a send has failed.  Receiving: the     *)
(* messages passed on are those that have arrived as a whole.              *)
StreamsKept ==
    \A c \in Conn : LET k == conn[c] s == Stream(k) IN
        HasTc(k) =>
          /\ Len(k.sendq) <= TxMax
          /\ \A i \in 1..Len(s) :
                s[i] = Crlf \/ \E j \in 1..i :
                    /\ i < j + Size /\ Len(s) >= j + Size - 1
                    /\ \A l \in 1..Len(s) :
                          (s[l] = s[i]) = (l \in j..(j + Size - 1))
          /\ k.failed \/ \A i, j \in 1..Len(s) :
                i < j /\ s[j] # Crlf => s[i] <= s[j]
          /\ run.h = "recv" \/
             k.seen = Cardinality({i \in 1..k.got : plan.script[i] = "b"})

(* A peer that is gone is noticed: a connection that has heard nothing     *)
(* for the idle time is closed, and one with keepalives after its interval *)
(* (or the idle time, if that is shorter) and the time for the pong,       *)
(* although every ping starts both timers again.  So no message waits      *)
(* longer than that to be sent.  With an interval of 2^32 ms or more       *)
(* sip_keepalive_wait may be shorter than the time for the pong, each ping *)
(* then puts the end off, and nothing is promised.                         *)
Heard ==
    \A c \in Conn : LET k == conn[c] IN
        /\ HasTc(k) /\ k.tmr_ka = Off => k.quiet <= Idle
        /\ HasTc(k) /\ k.tmr_ka # Off /\ k.ka_interval < Wrap =>
              k.quiet <= Min({Idle, k.ka_interval}) + Pong
=============================================================================
