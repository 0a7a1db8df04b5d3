----------------------------- MODULE SipRequest -----------------------------
(***************************************************************************)
(* One request of libre's SIP stack (request.c): where it is sent (NAPTR,  *)
(* SRV and address lookups), what happens when a server does not answer,   *)
(* is unavailable or cannot be reached, and how it ends for its user, who  *)
(* may cancel it or drop it at any time.  DNS client and transactions are  *)
(* seen from here: a query is answered with any records, a transaction     *)
(* ends in any way (SipTrans).                                             *)
(***************************************************************************)
EXTENDS Integers, Sequences, SequencesExt

CONSTANTS
    Target,     \* the hosts named in SRV records
    Supported,  \* transports of the stack, 1 (UDP) to 3 (TLS)
    Families,   \* of {"a", "aaaa"}: sip_transp_supported(..., AF_INET, AF_INET6)
    MaxAddr     \* bound on the addresses in an answer

ASSUME TargetAssumption == IsFiniteSet(Target) /\ "host" \notin Target
ASSUME SupportedAssumption == Supported \subseteq 1..3 /\ Supported # {}
ASSUME FamiliesAssumption == Families \subseteq {"a", "aaaa"} /\ Families # {}
ASSUME AddrAssumption == MaxAddr \in Nat

VARIABLES
    req,   \* struct sip_request
    pc,    \* "ready", or "next" inside request_next
    told,  \* the final outcomes resph was given
    out    \* history: how often it was sent, whether its user dropped it, and
           \*   whether there was a reason to end early

vars == <<req, pc, told, out>>
-----------------------------------------------------------------------------
Host == "host"

Nothing == [alive |-> FALSE, reqp |-> FALSE, stateful |-> TRUE, resph |-> TRUE,
            canceled |-> FALSE, provrecv |-> FALSE, ct |-> FALSE,
            tp |-> 0, tp_selected |-> FALSE, port |-> Host,
            dnsq |-> {},            \* the queries under way
            srvl |-> <<>>,          \* the servers not tried yet
            addrl |-> <<>>,         \* for each address left: whose it is
            cachel |-> [t \in Target |-> 0]]

Init ==
    /\ req = Nothing
    /\ pc = "ready"
    /\ told = <<>>
    /\ out = [used |-> FALSE, sent |-> 0, dropped |-> FALSE,
              excused |-> FALSE]

Set(r, p) == req' = r /\ pc' = p

(* terminate and mem_deref; how: the outcome.                              *)
terminate(r, how) ==
    /\ Set([r EXCEPT !.alive = FALSE, !.reqp = FALSE, !.ct = FALSE], "ready")
    /\ told' = IF r.resph THEN Append(told, how) ELSE told

(* A stateless request is over once it has been sent, or so it seems.      *)
Sent(r) ==
    IF r.stateful THEN Set(r, "ready") /\ UNCHANGED told
    ELSE terminate([r EXCEPT !.resph = FALSE], "none")

(* dnsc_query; started: it can be.                                         *)
Query(r, q, started) ==
    IF started THEN Set([r EXCEPT !.dnsq = q], "ready") /\ UNCHANGED told
               ELSE terminate(r, "error")

Excuse(b) == out' = [out EXCEPT !.excused = @ \/ b]
-----------------------------------------------------------------------------
(* transp_next, transp_next_srv                                            *)
transp_next == CHOOSE i \in Supported : \A j \in Supported : i <= j

Below(tp) == {i \in Supported : i < tp}

transp_next_srv(tp) == CHOOSE i \in Below(tp) : \A j \in Below(tp) : j <= i

(* sip_request: the destination is an address, a host with a port, or a    *)
(* domain, with or without a transport.  One that fails leaves nothing.    *)
sip_request(stateful, tp) ==
    LET r == [Nothing EXCEPT !.alive = TRUE, !.reqp = stateful,
                             !.stateful = stateful, !.tp_selected = (tp # 0),
                             !.tp = IF tp = 0 THEN transp_next ELSE tp]
    IN  /\ ~out.used
        /\ \/ /\ req' = [r EXCEPT !.alive = stateful, !.ct = stateful]
              /\ out' = [out EXCEPT !.used = TRUE, !.sent = 1]
           \/ /\ req' = [r EXCEPT !.dnsq = Families]
              /\ out' = [out EXCEPT !.used = TRUE]
           \/ /\ req' = [r EXCEPT !.dnsq = IF tp # 0 THEN {"srv"}
                                           ELSE {"naptr"}]
              /\ out' = [out EXCEPT !.used = TRUE]
        /\ UNCHANGED <<pc, told>>

(* request_next, the next address: the request is sent (ok) or the next    *)
(* destination is tried.  Variant: the servers left are not tried.         *)
request_next_addr_last(ok) ==
    LET r == [req EXCEPT !.addrl = Tail(@), !.provrecv = FALSE]
    IN  /\ pc = "next" /\ req.addrl # <<>>
        /\ \/ ok /\ Sent([r EXCEPT !.ct = r.stateful])
           \/ /\ ~ok /\ r.addrl # <<>>
              /\ Set(r, "next") /\ UNCHANGED told
           \/ ~ok /\ r.addrl = <<>> /\ terminate(r, "error")
        /\ out' = [out EXCEPT !.sent = @ + (IF ok THEN 1 ELSE 0)]

request_next_addr(ok) ==
    LET r == [req EXCEPT !.addrl = Tail(@), !.provrecv = FALSE]
    IN  /\ pc = "next" /\ req.addrl # <<>>
        /\ \/ ok /\ Sent([r EXCEPT !.ct = r.stateful])
           \/ /\ ~ok /\ (r.addrl # <<>> \/ r.srvl # <<>>)
              /\ Set(r, "next") /\ UNCHANGED told
           \/ ~ok /\ r.addrl = <<>> /\ r.srvl = <<>> /\ terminate(r, "error")
        /\ out' = [out EXCEPT !.sent = @ + (IF ok THEN 1 ELSE 0)]

Repeat(t, n) == [i \in 1..n |-> t]

(* request_next, the next server: its addresses are known or looked up; an *)
(* error of addr_lookup ends the request.                                  *)
request_next_srv(started) ==
    LET t == Head(req.srvl)
        r == [req EXCEPT !.srvl = Tail(@), !.port = t,
                         !.addrl = Repeat(t, req.cachel[t])]
    IN  /\ pc = "next" /\ req.addrl = <<>> /\ req.srvl # <<>>
        /\ \/ r.addrl # <<>> /\ Set(r, "next") /\ UNCHANGED <<told, out>>
           \/ /\ r.addrl = <<>> /\ started
              /\ Sent([r EXCEPT !.dnsq = Families])
              /\ UNCHANGED out
           \/ /\ r.addrl = <<>> /\ ~started
              /\ terminate(r, "error")
              /\ Excuse(TRUE)
-----------------------------------------------------------------------------
(* Answers of the DNS.                                                     *)

Caches == [Target -> 0..MaxAddr]

Servers == {SetToSeq(S) : S \in SUBSET Target}

(* A supported NAPTR gives the transport, and the servers if they came     *)
(* with it; without one the transports' SRV records are looked up.         *)
naptr_handler(started) ==
    /\ "naptr" \in req.dnsq
    /\ \/ \E tp \in Supported, s \in Servers, c \in Caches :
             LET r == [req EXCEPT !.dnsq = {}, !.tp = tp, !.tp_selected = TRUE,
                                  !.srvl = s]
             IN  IF s = <<>> THEN Query(r, {"srv"}, started)
                 ELSE Set([r EXCEPT !.cachel = c], "next") /\ UNCHANGED told
       \/ Query([req EXCEPT !.dnsq = {}, !.tp = transp_next_srv(4)], {"srv"},
                started)
    /\ Excuse(~started)

(* Without servers: the next transport is asked for, or the host itself.   *)
srv_handler(started) ==
    LET q == [req EXCEPT !.dnsq = {}]
    IN  /\ "srv" \in req.dnsq
        /\ \/ \E s \in Servers \ {<<>>}, c \in Caches :
                 /\ Set([q EXCEPT !.srvl = s, !.cachel = c], "next")
                 /\ UNCHANGED told
           \/ /\ ~q.tp_selected /\ Below(q.tp) # {}
              /\ Query([q EXCEPT !.tp = transp_next_srv(q.tp)], {"srv"},
                       started)
           \/ /\ ~q.tp_selected /\ Below(q.tp) = {}
              /\ Query([q EXCEPT !.tp = transp_next], Families, started)
           \/ q.tp_selected /\ Query(q, Families, started)
        /\ Excuse(~started)

(* One of the address queries is answered, with n addresses.  Variant: an  *)
(* answer without any changes nothing.                                     *)
addr_handler_idle(f, n) ==
    LET r == [req EXCEPT !.dnsq = @ \ {f},
                         !.addrl = @ \o Repeat(req.port, n)]
    IN  /\ f \in req.dnsq
        /\ Set(r, IF r.dnsq = {} /\ r.addrl # <<>> THEN "next" ELSE "ready")
        /\ UNCHANGED <<told, out>>

addr_handler(f, n) ==
    LET r == [req EXCEPT !.dnsq = @ \ {f},
                         !.addrl = @ \o Repeat(req.port, n)]
    IN  /\ f \in req.dnsq
        /\ \/ r.dnsq # {} /\ Set(r, "ready") /\ UNCHANGED told
           \/ /\ r.dnsq = {} /\ (r.addrl # <<>> \/ r.srvl # <<>>)
              /\ Set(r, "next") /\ UNCHANGED told
           \/ /\ r.dnsq = {} /\ r.addrl = <<>> /\ r.srvl = <<>>
              /\ terminate(r, "error")
        /\ UNCHANGED out
-----------------------------------------------------------------------------
(* The transaction.                                                        *)

Provisional ==
    /\ pc = "ready" /\ req.ct /\ ~req.provrecv
    /\ req' = [req EXCEPT !.provrecv = TRUE]
    /\ UNCHANGED <<pc, told, out>>

(* It ends: without an answer, with 503, or with another answer.           *)
response_handler(how) ==
    LET r == [req EXCEPT !.ct = FALSE]
    IN  /\ pc = "ready" /\ req.ct
        /\ \/ /\ ~r.canceled /\ how \in {"error", "503"}
              /\ r.addrl # <<>> \/ r.srvl # <<>>
              /\ Set(r, "next") /\ UNCHANGED told
           \/ /\ \/ r.canceled
                 \/ how = "answer"
                 \/ r.addrl = <<>> /\ r.srvl = <<>>
              /\ terminate(r, how)
        /\ UNCHANGED out
-----------------------------------------------------------------------------
(* The user.                                                               *)

sip_request_cancel ==
    /\ pc = "ready" /\ req.reqp /\ ~req.canceled
    /\ req' = [req EXCEPT !.canceled = TRUE]
    /\ Excuse(TRUE)
    /\ UNCHANGED <<pc, told>>

(* The user drops it: it is kept, cancelled, with nobody to tell.          *)
(* Variant: its user is told nevertheless.                                 *)
destructor_tells ==
    /\ pc = "ready" /\ req.reqp
    /\ req' = [req EXCEPT !.reqp = FALSE, !.canceled = TRUE]
    /\ out' = [out EXCEPT !.dropped = TRUE, !.excused = TRUE]
    /\ UNCHANGED <<pc, told>>

destructor ==
    /\ pc = "ready" /\ req.reqp
    /\ req' = [req EXCEPT !.reqp = FALSE, !.resph = FALSE, !.canceled = TRUE]
    /\ out' = [out EXCEPT !.dropped = TRUE, !.excused = TRUE]
    /\ UNCHANGED <<pc, told>>

(* sip_request_close: queries and transaction are given up.                *)
close_handler ==
    /\ pc = "ready" /\ req.alive
    /\ terminate([req EXCEPT !.dnsq = {}], "error")
    /\ Excuse(TRUE)
-----------------------------------------------------------------------------
Resolve ==
    \/ \E b \in BOOLEAN :
          \/ request_next_addr(b) \/ request_next_srv(b)
          \/ req.alive /\ (naptr_handler(b) \/ srv_handler(b))
    \/ \E f \in Families, n \in 0..MaxAddr : req.alive /\ addr_handler(f, n)

Respond == \E how \in {"error", "503", "answer"} : response_handler(how)

Next ==
    \/ \E stateful \in BOOLEAN, tp \in Supported \cup {0} :
          sip_request(stateful, tp)
    \/ Resolve \/ Provisional \/ Respond
    \/ sip_request_cancel \/ destructor \/ close_handler

Spec == Init /\ [][Next]_vars

(* Queries are answered or given up, transactions end.  (An INVITE that    *)
(* rings for ever is the exception, see SipTrans.)                         *)
FairSpec == Spec /\ WF_vars(Resolve) /\ WF_vars(Respond)
-----------------------------------------------------------------------------
(* Properties.                                                             *)

Ended == out.used /\ ~req.alive

(* A request has one thing under way until it ends: a transaction or       *)
(* queries, never both and never neither.  A stateful one then has told    *)
(* its user one outcome, or nothing when he has dropped it; a stateless    *)
(* one was sent, or has failed and said so, or else was given up with the  *)
(* addresses of an SRV target still being looked up: that one is lost.     *)
OneOutcome ==
    /\ req.alive /\ pc = "ready" => (req.ct <=> req.dnsq = {})
    /\ req.stateful => Len(told) = IF Ended /\ ~out.dropped THEN 1 ELSE 0
    /\ ~req.stateful /\ Ended =>
          \/ out.sent = 1 /\ told = <<>>
          \/ out.sent = 0 /\ told = <<"error">>
          \/ out.sent = 0 /\ told = <<>> /\ req.port # Host /\ req.dnsq # {}

(* The addresses left are those of the server whose port is used.          *)
RightPort == \A i \in DOMAIN req.addrl : req.addrl[i] = req.port

(* It fails only when every server and every address of each, at its port, *)
(* has been tried, unless it was cancelled or a query could not be made.   *)
AllTried ==
    /\ RightPort
    /\ Ended /\ told \in {<<"error">>, <<"503">>} /\ ~out.excused
          => req.addrl = <<>> /\ req.srvl = <<>> /\ req.dnsq = {}

(* Every request ends.                                                     *)
Ends == [](req.alive => <>Ended)
=============================================================================
