-------------------------- MODULE SipRequestProofs --------------------------
(***************************************************************************)
(* Proofs about SipRequest, for every set of SRV targets, all transports   *)
(* and address families supported and any number of addresses.             *)
(***************************************************************************)
EXTENDS SipRequest, FiniteSetTheorems, SequenceTheorems, TLAPS

Port == Target \cup {Host}

Queries == SUBSET {"a", "aaaa", "srv", "naptr"}

Record ==
    [alive : BOOLEAN, reqp : BOOLEAN, stateful : BOOLEAN, resph : BOOLEAN,
     canceled : BOOLEAN, provrecv : BOOLEAN, ct : BOOLEAN, tp : Nat,
     tp_selected : BOOLEAN, port : Port, dnsq : Queries, srvl : Seq(Target),
     addrl : Seq(Port), cachel : [Target -> Nat]]

History == [used : BOOLEAN, sent : Nat, dropped : BOOLEAN, excused : BOOLEAN]

Right(r) == \A i \in DOMAIN r.addrl : r.addrl[i] = r.port

(* There is somewhere left to send it.                                     *)
More(r) == r.addrl # <<>> \/ r.srvl # <<>>

(* What is under way, between two calls and inside request_next.           *)
UnderWay(r, p) ==
    /\ p \in {"ready", "next"}
    /\ p = "ready" => (r.ct <=> r.dnsq = {})
    /\ p = "next" => ~r.ct /\ r.dnsq = {} /\ More(r)
    /\ r.ct => r.stateful

(* While it lives: nobody has been told anything, a dropped request has    *)
(* nobody to tell, and a stateless one has not been sent.                  *)
Living ==
    /\ UnderWay(req, pc)
    /\ out.used /\ told = <<>>
    /\ req.resph <=> ~out.dropped
    /\ req.reqp => req.stateful
    /\ ~req.stateful => out.sent = 0 /\ ~out.dropped

Inv ==
    /\ req \in Record /\ out \in History
    /\ Right(req)
    /\ req.canceled => out.excused
    /\ req.alive => Living
    /\ ~req.alive => ~req.reqp /\ ~req.ct /\ pc = "ready"
    /\ ~out.used => req = Nothing /\ told = <<>> /\ out.sent = 0 /\ ~out.dropped
    /\ OneOutcome
    /\ AllTried
-----------------------------------------------------------------------------
(* The data.                                                               *)

LEMMA Members ==
    ASSUME NEW r \in Record
    PROVE  /\ r.alive \in BOOLEAN /\ r.reqp \in BOOLEAN
           /\ r.stateful \in BOOLEAN /\ r.resph \in BOOLEAN
           /\ r.canceled \in BOOLEAN /\ r.ct \in BOOLEAN
           /\ r.tp \in Nat /\ r.port \in Port /\ r.dnsq \in Queries
           /\ r.srvl \in Seq(Target) /\ r.addrl \in Seq(Port)
           /\ r.cachel \in [Target -> Nat]
  BY DEF Record

LEMMA FamilyFacts ==
    /\ Families \in Queries /\ Families # {}
    /\ {} \in Queries /\ {"srv"} \in Queries /\ {"naptr"} \in Queries
    /\ {"srv"} # {} /\ {"naptr"} # {}
    /\ "srv" \notin Families /\ "naptr" \notin Families
  BY FamiliesAssumption DEF Queries

(* A list of servers is a sequence of targets.                             *)
LEMMA ServersFacts ==
    Servers \subseteq Seq(Target) /\ Caches \subseteq [Target -> Nat]
<1>1. ASSUME NEW S \in SUBSET Target PROVE SetToSeq(S) \in Seq(Target)
  <2>1. IsFiniteSet(S)
    BY TargetAssumption, FS_Subset
  <2>2. Cardinality(S) \in Nat /\ ExistsBijection(1..Cardinality(S), S)
    BY <2>1, FS_CardinalityType
  <2>3. \E f \in [1..Cardinality(S) -> S] : IsInjective(f)
    BY <2>2 DEF ExistsBijection, Bijection, Injection
  <2>4. SetToSeq(S) \in [1..Cardinality(S) -> S]
    BY <2>3 DEF SetToSeq
  <2>5. SetToSeq(S) \in Seq(S)
    BY <2>2, <2>4, IsASeq
  <2> QED
    BY <2>5, SeqMonotonic
<1>2. Caches \subseteq [Target -> Nat]
  BY AddrAssumption DEF Caches
<1> QED
  BY <1>1, <1>2 DEF Servers

(* A transport is always found where one is looked for.                    *)
LEMMA TransportFacts ==
    /\ Supported \subseteq Nat
    /\ transp_next \in Nat
    /\ \A tp \in Nat : Below(tp) # {} => transp_next_srv(tp) \in Nat
    /\ Below(4) # {}
<1>1. \A i \in Supported : i \in 1..3
  BY SupportedAssumption
<1>2. transp_next \in Nat
  <2>1. \E i \in Supported : \A j \in Supported : i <= j
    <3>1. CASE 1 \in Supported
      BY <1>1, <3>1
    <3>2. CASE 1 \notin Supported /\ 2 \in Supported
      <4>1. \A j \in Supported : j \in 2..3
        BY <1>1, <3>2
      <4> QED
        BY <3>2, <4>1
    <3>3. CASE 1 \notin Supported /\ 2 \notin Supported
      <4>1. PICK i \in Supported : TRUE
        BY SupportedAssumption
      <4>2. \A j \in Supported : j = 3
        BY <1>1, <3>3
      <4>3. \A j \in Supported : i <= j
        BY <4>2
      <4> QED
        BY <4>3
    <3> QED
      BY <3>1, <3>2, <3>3
  <2> QED
    BY <1>1, <2>1 DEF transp_next
<1>3. ASSUME NEW tp \in Nat, Below(tp) # {} PROVE transp_next_srv(tp) \in Nat
  <2>1. \A i \in Below(tp) : i \in 1..3
    BY <1>1 DEF Below
  <2>2. \E i \in Below(tp) : \A j \in Below(tp) : j <= i
    BY <1>3, <2>1
  <2> QED
    BY <2>1, <2>2 DEF transp_next_srv
<1>4. Below(4) # {}
  <2>1. PICK i \in Supported : TRUE
    BY SupportedAssumption
  <2>2. i < 4
    BY <1>1
  <2> QED
    BY <2>2 DEF Below
<1> QED
  BY <1>1, <1>2, <1>3, <1>4

(* Addresses of one server.                                                *)
LEMMA RepeatFacts ==
    ASSUME NEW t \in Port, NEW n \in Nat
    PROVE  /\ Repeat(t, n) \in Seq(Port) /\ Len(Repeat(t, n)) = n
           /\ \A i \in DOMAIN Repeat(t, n) : Repeat(t, n)[i] = t
<1>1. Repeat(t, n) \in [1..n -> Port]
  BY DEF Repeat
<1>2. Repeat(t, n) \in Seq(Port) /\ Len(Repeat(t, n)) = n
  BY <1>1, IsASeq
<1> QED
  BY <1>2 DEF Repeat
-----------------------------------------------------------------------------
(* A request goes on.                                                      *)

(* r is the same request for its user.                                     *)
SameUser(r) ==
    /\ r.alive
    /\ r.stateful <=> req.stateful
    /\ r.resph <=> req.resph
    /\ r.reqp <=> req.reqp
    /\ r.canceled <=> req.canceled

LEMMA GoesOn ==
    ASSUME Inv, req.alive, NEW r \in Record, NEW p, Right(r), SameUser(r),
           UnderWay(r, p), req' = r, pc' = p, told' = told,
           out' \in History, out'.used = out.used, out'.dropped = out.dropped,
           out.excused => out'.excused,
           ~req.stateful => out'.sent = out.sent
    PROVE  Inv'
<1>1. Living
  BY DEF Inv
<1>2. /\ out.used \in BOOLEAN /\ out.dropped \in BOOLEAN
      /\ out.used /\ told = <<>>
  BY <1>1 DEF Inv, History, Living
<1>3. Living'
  BY <1>1, <1>2 DEF Living, SameUser
<1>4. OneOutcome'
  <2>1. ~Ended'
    BY DEF Ended, SameUser
  <2>2. req'.alive /\ pc' = "ready" => (req'.ct <=> req'.dnsq = {})
    BY DEF UnderWay
  <2>3. Len(told') = 0
    BY <1>2
  <2> QED
    BY <2>1, <2>2, <2>3 DEF OneOutcome
<1>5. AllTried'
  <2>1. ~Ended' /\ RightPort'
    BY DEF Ended, SameUser, RightPort, Right
  <2> QED
    BY <2>1 DEF AllTried
<1>6. req'.canceled => out'.excused
  BY DEF Inv, SameUser
<1> QED
  BY <1>2, <1>3, <1>4, <1>5, <1>6 DEF Inv, SameUser

(* A request ends and says so, if there is anybody to tell.                *)
LEMMA EndsStep ==
    ASSUME Inv, req.alive, NEW r \in Record, NEW how, Right(r), SameUser(r),
           terminate(r, how), how \in {"error", "503", "answer"},
           out' \in History, out'.used = out.used, out'.dropped = out.dropped,
           out'.sent = out.sent, out.excused => out'.excused,
           ~req.stateful => how = "error",
           how # "answer" /\ ~out'.excused => ~More(r) /\ r.dnsq = {}
    PROVE  Inv'
<1> DEFINE q == [r EXCEPT !.alive = FALSE, !.reqp = FALSE, !.ct = FALSE]
<1>1. Living
  BY DEF Inv
<1>2. /\ out.used \in BOOLEAN /\ out.dropped \in BOOLEAN
      /\ out.used /\ told = <<>>
  BY <1>1 DEF Inv, History, Living
<1>3. q \in Record
  BY DEF Record
<1>4. /\ ~q.alive /\ ~q.reqp /\ ~q.ct
      /\ q.stateful <=> req.stateful
      /\ q.canceled <=> req.canceled
      /\ q.addrl = r.addrl /\ q.srvl = r.srvl /\ q.dnsq = r.dnsq
      /\ q.port = r.port
  BY DEF Record, SameUser
<1>5. req' = q /\ pc' = "ready"
      /\ told' = IF r.resph THEN Append(told, how) ELSE told
  BY DEF terminate, Set
<1> HIDE DEF q
<1>6. told' = IF out.dropped THEN <<>> ELSE <<how>>
  BY <1>1, <1>2, <1>5 DEF Living, SameUser
<1>7. OneOutcome'
  <2>1. Ended'
    BY <1>2, <1>4, <1>5 DEF Ended
  <2>2. req'.stateful => Len(told') = IF out'.dropped THEN 0 ELSE 1
    BY <1>6
  <2>3. ~req'.stateful => out'.sent = 0 /\ told' = <<"error">>
    BY <1>1, <1>4, <1>5, <1>6 DEF Living
  <2> QED
    BY <1>2, <1>4, <1>5, <2>1, <2>2, <2>3 DEF OneOutcome
<1>8. AllTried'
  <2>1. RightPort'
    BY <1>4, <1>5 DEF RightPort, Right
  <2>2. ASSUME told' \in {<<"error">>, <<"503">>}, ~out'.excused
        PROVE  req'.addrl = <<>> /\ req'.srvl = <<>> /\ req'.dnsq = {}
    <3>1. how # "answer"
      BY <1>6, <2>2
    <3> QED
      BY <1>4, <1>5, <2>2, <3>1 DEF More
  <2> QED
    BY <2>1, <2>2 DEF AllTried
<1>9. Right(req)' /\ (req'.canceled => out'.excused)
  BY <1>4, <1>5 DEF Inv, Right
<1> QED
  BY <1>2, <1>3, <1>4, <1>5, <1>7, <1>8, <1>9 DEF Inv

(* A stateless request ends without a word, once it has been sent, or with *)
(* the addresses of a target still being looked up.                        *)
LEMMA EndsSilent ==
    ASSUME Inv, req.alive, NEW r \in Record, NEW how, Right(r), SameUser(r),
           ~req.stateful, terminate([r EXCEPT !.resph = FALSE], how),
           out' \in History, out'.used = out.used, out'.dropped = out.dropped,
           out'.excused = out.excused,
           \/ out'.sent = out.sent + 1
           \/ out'.sent = out.sent /\ r.port # Host /\ r.dnsq # {}
    PROVE  Inv'
<1> DEFINE o == [r EXCEPT !.resph = FALSE]
           q == [o EXCEPT !.alive = FALSE, !.reqp = FALSE, !.ct = FALSE]
<1>1. Living
  BY DEF Inv
<1>2. /\ out.used \in BOOLEAN /\ out.dropped \in BOOLEAN
      /\ out.used /\ told = <<>> /\ out.sent = 0
  BY <1>1 DEF Inv, History, Living
<1>3. o \in Record /\ ~o.resph
      /\ o.stateful = r.stateful /\ o.canceled = r.canceled
      /\ o.addrl = r.addrl /\ o.dnsq = r.dnsq /\ o.port = r.port
  BY DEF Record
<1> HIDE DEF o
<1>4. q \in Record
  BY <1>3 DEF Record
<1>5. /\ ~q.alive /\ ~q.reqp /\ ~q.ct
      /\ q.stateful = o.stateful /\ q.canceled = o.canceled
      /\ q.addrl = o.addrl /\ q.dnsq = o.dnsq /\ q.port = o.port
  BY <1>3 DEF Record
<1>6. terminate(o, how)
  BY DEF o
<1>7. req' = q /\ pc' = "ready" /\ told' = <<>>
  BY <1>2, <1>3, <1>6 DEF terminate, Set
<1> HIDE DEF q
<1>8. ~req'.stateful /\ (req'.canceled => out'.excused)
  BY <1>3, <1>5, <1>7, Members DEF SameUser, Inv
<1>9. Right(req)' /\ RightPort'
  BY <1>3, <1>5, <1>7 DEF Right, RightPort
<1>10. OneOutcome'
  BY <1>2, <1>3, <1>5, <1>7, <1>8 DEF OneOutcome, Ended
<1>11. AllTried'
  <2>1. told' \notin {<<"error">>, <<"503">>}
    BY <1>7
  <2> QED
    BY <1>9, <2>1 DEF AllTried
<1> QED
  BY <1>2, <1>4, <1>5, <1>7, <1>8, <1>9, <1>10, <1>11 DEF Inv
-----------------------------------------------------------------------------
(* The steps of a living request.                                          *)

LEMMA ExcuseFacts ==
    ASSUME out \in History, NEW b \in BOOLEAN, Excuse(b)
    PROVE  /\ out' \in History
           /\ out'.used = out.used /\ out'.dropped = out.dropped
           /\ out'.sent = out.sent
           /\ out'.excused <=> out.excused \/ b
  BY DEF History, Excuse

(* While queries are under way nothing else is; inside request_next        *)
(* nothing is.                                                             *)
LEMMA StateFacts ==
    ASSUME Inv
    PROVE  /\ pc = "next" => req.alive
           /\ req.alive /\ req.dnsq # {} => pc = "ready" /\ ~req.ct
           /\ pc = "next" => ~req.ct /\ req.dnsq = {}
           /\ req.alive /\ req.ct =>
                 pc = "ready" /\ req.stateful /\ req.dnsq = {}
  BY DEF Inv, Living, UnderWay

(* A query is made, or the request fails.                                  *)
LEMMA QueryStep ==
    ASSUME Inv, req.alive, NEW r \in Record, Right(r), SameUser(r), ~r.ct,
           NEW q \in Queries, q # {}, NEW b \in BOOLEAN,
           Query(r, q, b), Excuse(~b)
    PROVE  Inv'
<1>1. out \in History
  BY DEF Inv
<1>2. CASE b
  <2> DEFINE o == [r EXCEPT !.dnsq = q]
  <2>1. o \in Record
    BY DEF Record
  <2>2. /\ o.dnsq = q /\ o.ct = r.ct /\ o.alive = r.alive
        /\ o.stateful = r.stateful /\ o.resph = r.resph
        /\ o.reqp = r.reqp /\ o.canceled = r.canceled
        /\ o.addrl = r.addrl /\ o.port = r.port
    BY DEF Record
  <2>3. req' = o /\ pc' = "ready" /\ told' = told
    BY <1>2 DEF Query, Set
  <2> HIDE DEF o
  <2>4. Right(o) /\ SameUser(o) /\ UnderWay(o, "ready")
    BY <2>2 DEF Right, SameUser, UnderWay
  <2> QED
    BY <1>1, <2>1, <2>3, <2>4, ExcuseFacts, GoesOn
<1>3. CASE ~b
  <2>1. terminate(r, "error")
    BY <1>3 DEF Query
  <2>2. out'.excused
    BY <1>1, <1>3, ExcuseFacts
  <2> QED
    BY <1>1, <2>1, <2>2, ExcuseFacts, EndsStep
<1> QED
  BY <1>2, <1>3

LEMMA NaptrHandler ==
    ASSUME Inv, req.alive, NEW b \in BOOLEAN, naptr_handler(b)
    PROVE  Inv'
<1>1. req \in Record /\ Right(req) /\ out \in History
  BY DEF Inv
<1>2. pc = "ready" /\ ~req.ct
  BY StateFacts DEF naptr_handler
<1>3. Excuse(~b)
  BY DEF naptr_handler
<1>4. ASSUME NEW tp \in Supported, NEW s \in Servers, NEW c \in Caches,
             LET r == [req EXCEPT !.dnsq = {}, !.tp = tp, !.tp_selected = TRUE,
                                  !.srvl = s]
             IN  IF s = <<>> THEN Query(r, {"srv"}, b)
                 ELSE Set([r EXCEPT !.cachel = c], "next") /\ UNCHANGED told
      PROVE  Inv'
  <2> DEFINE o == [req EXCEPT !.dnsq = {}, !.tp = tp, !.tp_selected = TRUE,
                              !.srvl = s]
  <2>1. tp \in Nat /\ s \in Seq(Target) /\ c \in [Target -> Nat] /\ {} \in Queries
    BY TransportFacts, ServersFacts, FamilyFacts
  <2>2. o \in Record
    BY <1>1, <2>1 DEF Record
  <2>3. /\ o.dnsq = {} /\ o.ct = req.ct /\ o.alive = req.alive
        /\ o.stateful = req.stateful /\ o.resph = req.resph
        /\ o.reqp = req.reqp /\ o.canceled = req.canceled
        /\ o.addrl = req.addrl /\ o.port = req.port /\ o.srvl = s
    BY <1>1 DEF Record
  <2>4. IF s = <<>> THEN Query(o, {"srv"}, b)
        ELSE Set([o EXCEPT !.cachel = c], "next") /\ UNCHANGED told
    BY <1>4
  <2> HIDE DEF o
  <2>5. Right(o) /\ SameUser(o) /\ ~o.ct
    BY <1>1, <1>2, <2>3 DEF Right, SameUser
  <2>6. CASE s = <<>>
    BY <1>3, <2>2, <2>4, <2>5, <2>6, FamilyFacts, QueryStep
  <2>7. CASE s # <<>>
    <3> DEFINE w == [o EXCEPT !.cachel = c]
    <3>1. w \in Record
      BY <2>1, <2>2 DEF Record
    <3>2. /\ w.dnsq = o.dnsq /\ w.ct = o.ct /\ w.alive = o.alive
          /\ w.stateful = o.stateful /\ w.resph = o.resph
          /\ w.reqp = o.reqp /\ w.canceled = o.canceled
          /\ w.addrl = o.addrl /\ w.port = o.port /\ w.srvl = o.srvl
      BY <2>2 DEF Record
    <3>3. req' = w /\ pc' = "next" /\ told' = told
      BY <2>4, <2>7 DEF Set
    <3> HIDE DEF w
    <3>4. Right(w) /\ SameUser(w) /\ UnderWay(w, "next")
      BY <2>3, <2>5, <2>7, <3>2 DEF Right, SameUser, UnderWay, More
    <3> QED
      BY <1>1, <1>3, <3>1, <3>3, <3>4, ExcuseFacts, GoesOn
  <2> QED
    BY <2>6, <2>7
<1>5. ASSUME Query([req EXCEPT !.dnsq = {}, !.tp = transp_next_srv(4)],
                   {"srv"}, b)
      PROVE  Inv'
  <2> DEFINE o == [req EXCEPT !.dnsq = {}, !.tp = transp_next_srv(4)]
  <2>1. transp_next_srv(4) \in Nat /\ {} \in Queries
    BY TransportFacts, FamilyFacts
  <2>2. o \in Record
    BY <1>1, <2>1 DEF Record
  <2>3. /\ o.ct = req.ct /\ o.alive = req.alive
        /\ o.stateful = req.stateful /\ o.resph = req.resph
        /\ o.reqp = req.reqp /\ o.canceled = req.canceled
        /\ o.addrl = req.addrl /\ o.port = req.port
    BY <1>1 DEF Record
  <2>4. Query(o, {"srv"}, b)
    BY <1>5
  <2> HIDE DEF o
  <2>5. Right(o) /\ SameUser(o) /\ ~o.ct
    BY <1>1, <1>2, <2>3 DEF Right, SameUser
  <2> QED
    BY <1>3, <2>2, <2>4, <2>5, FamilyFacts, QueryStep
<1> QED
  BY <1>4, <1>5 DEF naptr_handler

LEMMA SrvHandler ==
    ASSUME Inv, req.alive, NEW b \in BOOLEAN, srv_handler(b)
    PROVE  Inv'
<1> DEFINE q == [req EXCEPT !.dnsq = {}]
<1>1. req \in Record /\ Right(req) /\ out \in History
  BY DEF Inv
<1>2. pc = "ready" /\ ~req.ct
  BY StateFacts DEF srv_handler
<1>3. Excuse(~b)
  BY DEF srv_handler
<1>4. q \in Record
  BY <1>1, FamilyFacts DEF Record
<1>5. /\ q.dnsq = {} /\ q.ct = req.ct /\ q.alive = req.alive
      /\ q.stateful = req.stateful /\ q.resph = req.resph
      /\ q.reqp = req.reqp /\ q.canceled = req.canceled
      /\ q.addrl = req.addrl /\ q.port = req.port
  BY <1>1 DEF Record
<1>6. \/ \E s \in Servers \ {<<>>}, c \in Caches :
            /\ Set([q EXCEPT !.srvl = s, !.cachel = c], "next")
            /\ UNCHANGED told
      \/ /\ ~q.tp_selected /\ Below(q.tp) # {}
         /\ Query([q EXCEPT !.tp = transp_next_srv(q.tp)], {"srv"}, b)
      \/ Query([q EXCEPT !.tp = transp_next], Families, b)
      \/ Query(q, Families, b)
  BY DEF srv_handler
<1> HIDE DEF q
<1>7. Right(q) /\ SameUser(q) /\ ~q.ct
  BY <1>1, <1>2, <1>5 DEF Right, SameUser
<1>8. ASSUME NEW t \in Nat, NEW f \in Queries, f # {},
             Query([q EXCEPT !.tp = t], f, b)
      PROVE  Inv'
  <2> DEFINE o == [q EXCEPT !.tp = t]
  <2>1. o \in Record
    BY <1>4 DEF Record
  <2>2. /\ o.ct = q.ct /\ o.alive = q.alive
        /\ o.stateful = q.stateful /\ o.resph = q.resph
        /\ o.reqp = q.reqp /\ o.canceled = q.canceled
        /\ o.addrl = q.addrl /\ o.port = q.port
    BY <1>4 DEF Record
  <2>3. Query(o, f, b)
    BY <1>8
  <2> HIDE DEF o
  <2>4. Right(o) /\ SameUser(o) /\ ~o.ct
    BY <1>7, <2>2 DEF Right, SameUser
  <2> QED
    BY <1>3, <1>8, <2>1, <2>3, <2>4, QueryStep
<1>9. ASSUME NEW s \in Servers \ {<<>>}, NEW c \in Caches,
             Set([q EXCEPT !.srvl = s, !.cachel = c], "next"), told' = told
      PROVE  Inv'
  <2> DEFINE o == [q EXCEPT !.srvl = s, !.cachel = c]
  <2>1. s \in Seq(Target) /\ c \in [Target -> Nat]
    BY ServersFacts
  <2>2. o \in Record
    BY <1>4, <2>1 DEF Record
  <2>3. /\ o.ct = q.ct /\ o.alive = q.alive /\ o.dnsq = q.dnsq
        /\ o.stateful = q.stateful /\ o.resph = q.resph
        /\ o.reqp = q.reqp /\ o.canceled = q.canceled
        /\ o.addrl = q.addrl /\ o.port = q.port /\ o.srvl = s
    BY <1>4 DEF Record
  <2>4. req' = o /\ pc' = "next"
    BY <1>9 DEF Set
  <2> HIDE DEF o
  <2>5. Right(o) /\ SameUser(o) /\ UnderWay(o, "next")
    BY <1>5, <1>7, <2>3 DEF Right, SameUser, UnderWay, More
  <2> QED
    BY <1>1, <1>3, <1>9, <2>2, <2>4, <2>5, ExcuseFacts, GoesOn
<1>10. q.tp \in Nat
  BY <1>4, Members
<1>11. transp_next \in Nat /\ (Below(q.tp) # {} => transp_next_srv(q.tp) \in Nat)
  BY <1>10, TransportFacts
<1>12. CASE Query(q, Families, b)
  BY <1>3, <1>4, <1>7, <1>12, FamilyFacts, QueryStep
<1> QED
  BY <1>6, <1>8, <1>9, <1>11, <1>12, FamilyFacts

(* One of the address queries is answered.                                 *)
LEMMA AddrHandler ==
    ASSUME Inv, req.alive, NEW f \in Families, NEW n \in 0..MaxAddr,
           addr_handler(f, n)
    PROVE  Inv'
<1> DEFINE l == req.addrl \o Repeat(req.port, n)
           r == [req EXCEPT !.dnsq = @ \ {f}, !.addrl = l]
<1>1. req \in Record /\ Right(req) /\ out \in History
  BY DEF Inv
<1>2. pc = "ready" /\ ~req.ct
  BY StateFacts DEF addr_handler
<1>3. n \in Nat /\ req.port \in Port /\ req.addrl \in Seq(Port)
      /\ req.dnsq \in Queries
  BY <1>1, AddrAssumption, Members
<1>4. /\ Repeat(req.port, n) \in Seq(Port)
      /\ \A i \in DOMAIN Repeat(req.port, n) : Repeat(req.port, n)[i] = req.port
  BY <1>3, RepeatFacts
<1>5. l \in Seq(Port) /\ \A i \in DOMAIN l : l[i] = req.port
  <2> DEFINE m == Repeat(req.port, n)
             k == req.addrl
  <2>1. k \in Seq(Port) /\ m \in Seq(Port)
    BY <1>3, <1>4
  <2>2. /\ \A i \in 1..Len(k) : k[i] = req.port
        /\ \A i \in 1..Len(m) : m[i] = req.port
    BY <1>1, <1>4, <2>1 DEF Right
  <2> HIDE DEF m, k
  <2>3. /\ k \o m \in Seq(Port) /\ Len(k \o m) = Len(k) + Len(m)
        /\ Len(k) \in Nat /\ Len(m) \in Nat
    BY <2>1, ConcatProperties
  <2>4. ASSUME NEW i \in 1..Len(k \o m) PROVE (k \o m)[i] = req.port
    <3>1. CASE i <= Len(k)
      BY <2>1, <2>2, <2>3, <2>4, <3>1
    <3>2. CASE i > Len(k)
      <4>1. i - Len(k) \in 1..Len(m)
        BY <2>3, <2>4, <3>2
      <4>2. (k \o m)[i] = m[i - Len(k)]
        BY <2>1, <2>3, <2>4, <3>2
      <4> QED
        BY <2>2, <4>1, <4>2
    <3> QED
      BY <2>3, <3>1, <3>2
  <2>5. DOMAIN (k \o m) = 1..Len(k \o m)
    BY <2>3
  <2>6. l = k \o m
    BY DEF k, m
  <2> HIDE DEF l
  <2> QED
    BY <2>3, <2>4, <2>5, <2>6
<1>6. /\ f \in req.dnsq
      /\ \/ r.dnsq # {} /\ Set(r, "ready") /\ UNCHANGED told
         \/ /\ r.dnsq = {} /\ (r.addrl # <<>> \/ r.srvl # <<>>)
            /\ Set(r, "next") /\ UNCHANGED told
         \/ /\ r.dnsq = {} /\ r.addrl = <<>> /\ r.srvl = <<>>
            /\ terminate(r, "error")
      /\ out' = out
  BY DEF addr_handler
<1>7. req.dnsq \ {f} \in Queries
  BY <1>3 DEF Queries
<1> HIDE DEF l
<1>8. r \in Record
  BY <1>1, <1>5, <1>7 DEF Record
<1>9. /\ r.ct = req.ct /\ r.alive = req.alive
      /\ r.stateful = req.stateful /\ r.resph = req.resph
      /\ r.reqp = req.reqp /\ r.canceled = req.canceled
      /\ r.addrl = l /\ r.port = req.port
  BY <1>1 DEF Record
<1> HIDE DEF r
<1>10. Right(r) /\ SameUser(r)
  BY <1>5, <1>9 DEF Right, SameUser
<1>11. CASE r.dnsq # {} /\ Set(r, "ready") /\ told' = told
  <2>1. UnderWay(r, "ready")
    BY <1>2, <1>9, <1>11 DEF UnderWay
  <2> QED
    BY <1>1, <1>6, <1>8, <1>10, <1>11, <2>1, GoesOn DEF Set
<1>12. CASE r.dnsq = {} /\ More(r) /\ Set(r, "next") /\ told' = told
  <2>1. UnderWay(r, "next")
    BY <1>2, <1>9, <1>12 DEF UnderWay
  <2> QED
    BY <1>1, <1>6, <1>8, <1>10, <1>12, <2>1, GoesOn DEF Set
<1>13. CASE r.dnsq = {} /\ ~More(r) /\ terminate(r, "error")
  BY <1>1, <1>6, <1>8, <1>10, <1>13, EndsStep
<1> QED
  BY <1>6, <1>11, <1>12, <1>13 DEF More

(* The request is sent to the next address, or cannot be.                  *)
LEMMA NextAddr ==
    ASSUME Inv, NEW ok \in BOOLEAN, request_next_addr(ok)
    PROVE  Inv'
<1> DEFINE r == [req EXCEPT !.addrl = Tail(@), !.provrecv = FALSE]
<1>1. req \in Record /\ Right(req) /\ out \in History
  BY DEF Inv
<1>2. pc = "next" /\ req.alive /\ ~req.ct /\ req.dnsq = {}
  BY StateFacts DEF request_next_addr
<1>3. req.addrl \in Seq(Port) /\ req.addrl # <<>>
  BY <1>1, Members DEF request_next_addr
<1>4. /\ Tail(req.addrl) \in Seq(Port)
      /\ \A i \in DOMAIN Tail(req.addrl) : Tail(req.addrl)[i] = req.port
  <2>1. /\ Tail(req.addrl) \in Seq(Port)
        /\ Len(Tail(req.addrl)) = Len(req.addrl) - 1
        /\ \A i \in 1..Len(Tail(req.addrl)) :
              Tail(req.addrl)[i] = req.addrl[i + 1]
    BY <1>3, HeadTailProperties
  <2>2. /\ DOMAIN Tail(req.addrl) = 1..Len(Tail(req.addrl))
        /\ DOMAIN req.addrl = 1..Len(req.addrl) /\ Len(req.addrl) \in Nat
    BY <1>3, <2>1
  <2>3. \A i \in 1..Len(Tail(req.addrl)) : i + 1 \in DOMAIN req.addrl
    BY <2>1, <2>2
  <2> QED
    BY <1>1, <2>1, <2>2, <2>3 DEF Right
<1>5. r \in Record
  BY <1>1, <1>4 DEF Record
<1>6. /\ r.ct = req.ct /\ r.alive = req.alive
      /\ r.stateful = req.stateful /\ r.resph = req.resph
      /\ r.reqp = req.reqp /\ r.canceled = req.canceled
      /\ r.dnsq = req.dnsq /\ r.port = req.port
      /\ r.addrl = Tail(req.addrl)
  BY <1>1 DEF Record
<1>7. /\ \/ ok /\ Sent([r EXCEPT !.ct = r.stateful])
         \/ /\ ~ok /\ (r.addrl # <<>> \/ r.srvl # <<>>)
            /\ Set(r, "next") /\ UNCHANGED told
         \/ ~ok /\ r.addrl = <<>> /\ r.srvl = <<>> /\ terminate(r, "error")
      /\ out' = [out EXCEPT !.sent = @ + (IF ok THEN 1 ELSE 0)]
  BY DEF request_next_addr
<1> HIDE DEF r
<1>8. Right(r) /\ SameUser(r)
  BY <1>2, <1>4, <1>6 DEF Right, SameUser
<1>9. /\ out' \in History /\ out'.used = out.used
      /\ out'.dropped = out.dropped /\ out'.excused = out.excused
      /\ ok => out'.sent = out.sent + 1
      /\ ~ok => out'.sent = out.sent
  BY <1>1, <1>7 DEF History
<1>10. CASE ok
  <2> DEFINE o == [r EXCEPT !.ct = r.stateful]
  <2>1. r.stateful \in BOOLEAN
    BY <1>5, Members
  <2>2. o \in Record
    BY <1>5, <2>1 DEF Record
  <2>3. /\ o.ct = r.stateful /\ o.alive = r.alive
        /\ o.stateful = r.stateful /\ o.resph = r.resph
        /\ o.reqp = r.reqp /\ o.canceled = r.canceled
        /\ o.dnsq = r.dnsq /\ o.port = r.port /\ o.addrl = r.addrl
    BY <1>5 DEF Record
  <2>4. Sent(o)
    BY <1>7, <1>10
  <2> HIDE DEF o
  <2>5. Right(o) /\ SameUser(o)
    BY <1>8, <2>3 DEF Right, SameUser
  <2>6. CASE req.stateful
    <3>1. req' = o /\ pc' = "ready" /\ told' = told
      BY <1>6, <2>3, <2>4, <2>6 DEF Sent, Set
    <3>2. UnderWay(o, "ready")
      BY <1>2, <1>6, <2>3, <2>6 DEF UnderWay
    <3> QED
      BY <1>2, <1>9, <2>2, <2>5, <2>6, <3>1, <3>2, GoesOn
  <2>7. CASE ~req.stateful
    <3>1. terminate([o EXCEPT !.resph = FALSE], "none")
      BY <1>6, <2>3, <2>4, <2>7 DEF Sent
    <3> QED
      BY <1>2, <1>9, <1>10, <2>2, <2>5, <2>7, <3>1, EndsSilent
  <2> QED
    BY <2>6, <2>7
<1>11. CASE ~ok /\ More(r) /\ Set(r, "next") /\ told' = told
  <2>1. UnderWay(r, "next")
    BY <1>2, <1>6, <1>11 DEF UnderWay
  <2> QED
    BY <1>2, <1>5, <1>8, <1>9, <1>11, <2>1, GoesOn DEF Set
<1>12. CASE ~ok /\ ~More(r) /\ terminate(r, "error")
  BY <1>2, <1>5, <1>6, <1>8, <1>9, <1>12, EndsStep
<1> QED
  BY <1>7, <1>10, <1>11, <1>12 DEF More

(* The next server is taken up.                                            *)
LEMMA NextSrv ==
    ASSUME Inv, NEW b \in BOOLEAN, request_next_srv(b)
    PROVE  Inv'
<1> DEFINE t == Head(req.srvl)
           l == Repeat(t, req.cachel[t])
           r == [req EXCEPT !.srvl = Tail(@), !.port = t, !.addrl = l]
<1>1. req \in Record /\ Right(req) /\ out \in History
  BY DEF Inv
<1>2. pc = "next" /\ req.alive /\ ~req.ct /\ req.dnsq = {}
  BY StateFacts DEF request_next_srv
<1>3. /\ req.srvl \in Seq(Target) /\ req.srvl # <<>>
      /\ req.cachel \in [Target -> Nat]
  BY <1>1, Members DEF request_next_srv
<1>4. t \in Target /\ Tail(req.srvl) \in Seq(Target)
  BY <1>3, HeadTailProperties
<1>5. t \in Port /\ t # Host
  BY <1>4, TargetAssumption DEF Port, Host
<1>6. req.cachel[t] \in Nat
  BY <1>3, <1>4
<1>7. \/ r.addrl # <<>> /\ Set(r, "next") /\ UNCHANGED <<told, out>>
      \/ /\ r.addrl = <<>> /\ b
         /\ Sent([r EXCEPT !.dnsq = Families])
         /\ UNCHANGED out
      \/ /\ r.addrl = <<>> /\ ~b
         /\ terminate(r, "error")
         /\ Excuse(TRUE)
  BY DEF request_next_srv
<1> HIDE DEF t
<1>8. l \in Seq(Port) /\ \A i \in DOMAIN l : l[i] = t
  BY <1>5, <1>6, RepeatFacts
<1> HIDE DEF l
<1>9. r \in Record
  BY <1>1, <1>4, <1>5, <1>8 DEF Record
<1>10. /\ r.ct = req.ct /\ r.alive = req.alive
       /\ r.stateful = req.stateful /\ r.resph = req.resph
       /\ r.reqp = req.reqp /\ r.canceled = req.canceled
       /\ r.dnsq = req.dnsq /\ r.port = t /\ r.addrl = l
  BY <1>1 DEF Record
<1> HIDE DEF r
<1>11. Right(r) /\ SameUser(r)
  BY <1>2, <1>8, <1>10 DEF Right, SameUser
<1>12. CASE r.addrl # <<>> /\ Set(r, "next") /\ told' = told /\ out' = out
  <2>1. UnderWay(r, "next")
    BY <1>2, <1>10, <1>12 DEF UnderWay, More
  <2> QED
    BY <1>1, <1>2, <1>9, <1>11, <1>12, <2>1, GoesOn DEF Set
<1>13. CASE Sent([r EXCEPT !.dnsq = Families]) /\ out' = out
  <2> DEFINE o == [r EXCEPT !.dnsq = Families]
  <2>1. o \in Record
    BY <1>9, FamilyFacts DEF Record
  <2>2. /\ o.ct = r.ct /\ o.alive = r.alive
        /\ o.stateful = r.stateful /\ o.resph = r.resph
        /\ o.reqp = r.reqp /\ o.canceled = r.canceled
        /\ o.dnsq = Families /\ o.port = r.port /\ o.addrl = r.addrl
    BY <1>9 DEF Record
  <2>3. Sent(o)
    BY <1>13
  <2> HIDE DEF o
  <2>4. Right(o) /\ SameUser(o) /\ o.dnsq # {} /\ o.port # Host
    BY <1>5, <1>10, <1>11, <2>2, FamilyFacts DEF Right, SameUser
  <2>5. CASE req.stateful
    <3>1. req' = o /\ pc' = "ready" /\ told' = told
      BY <1>10, <2>2, <2>3, <2>5 DEF Sent, Set
    <3>2. UnderWay(o, "ready")
      BY <1>2, <1>10, <2>2, <2>4, <2>5 DEF UnderWay
    <3> QED
      BY <1>1, <1>2, <1>13, <2>1, <2>4, <3>1, <3>2, GoesOn
  <2>6. CASE ~req.stateful
    <3>1. terminate([o EXCEPT !.resph = FALSE], "none")
      BY <1>10, <2>2, <2>3, <2>6 DEF Sent
    <3> QED
      BY <1>1, <1>2, <1>13, <2>1, <2>4, <2>6, <3>1, EndsSilent
  <2> QED
    BY <2>5, <2>6
<1>14. CASE terminate(r, "error") /\ Excuse(TRUE)
  <2>1. /\ out' \in History /\ out'.used = out.used
        /\ out'.dropped = out.dropped /\ out'.sent = out.sent
        /\ out'.excused
    BY <1>1, <1>14, ExcuseFacts
  <2> QED
    BY <1>2, <1>9, <1>11, <1>14, <2>1, EndsStep
<1> QED
  BY <1>7, <1>12, <1>13, <1>14

(* The transaction ends.                                                   *)
LEMMA ResponseHandler ==
    ASSUME Inv, NEW how \in {"error", "503", "answer"}, response_handler(how)
    PROVE  Inv'
<1> DEFINE r == [req EXCEPT !.ct = FALSE]
<1>1. req \in Record /\ Right(req) /\ out \in History
  BY DEF Inv
<1>2. pc = "ready" /\ req.ct /\ out' = out
  BY DEF response_handler
<1>3. req.alive /\ req.stateful /\ req.dnsq = {}
  BY <1>2, StateFacts DEF Inv
<1>4. r \in Record
  BY <1>1 DEF Record
<1>5. /\ ~r.ct /\ r.alive = req.alive
      /\ r.stateful = req.stateful /\ r.resph = req.resph
      /\ r.reqp = req.reqp /\ r.canceled = req.canceled
      /\ r.dnsq = req.dnsq /\ r.port = req.port /\ r.addrl = req.addrl
  BY <1>1 DEF Record
<1>6. \/ /\ ~r.canceled /\ how \in {"error", "503"}
         /\ r.addrl # <<>> \/ r.srvl # <<>>
         /\ Set(r, "next") /\ UNCHANGED told
      \/ /\ \/ r.canceled
            \/ how = "answer"
            \/ r.addrl = <<>> /\ r.srvl = <<>>
         /\ terminate(r, how)
  BY DEF response_handler
<1> HIDE DEF r
<1>7. Right(r) /\ SameUser(r)
  BY <1>1, <1>3, <1>5 DEF Right, SameUser
<1>8. CASE More(r) /\ Set(r, "next") /\ told' = told
  <2>1. UnderWay(r, "next")
    BY <1>3, <1>5, <1>8 DEF UnderWay
  <2> QED
    BY <1>1, <1>2, <1>3, <1>4, <1>7, <1>8, <2>1, GoesOn DEF Set
<1>9. CASE (r.canceled \/ how = "answer" \/ ~More(r)) /\ terminate(r, how)
  <2>1. how # "answer" /\ ~out'.excused => ~More(r) /\ r.dnsq = {}
    BY <1>2, <1>3, <1>5, <1>9 DEF Inv
  <2> QED
    BY <1>1, <1>2, <1>3, <1>4, <1>7, <1>9, <2>1, EndsStep
<1> QED
  BY <1>6, <1>8, <1>9 DEF More

LEMMA ProvisionalStep ==
    ASSUME Inv, Provisional
    PROVE  Inv'
<1> DEFINE r == [req EXCEPT !.provrecv = TRUE]
<1>1. req \in Record /\ Right(req) /\ out \in History
  BY DEF Inv
<1>2. pc = "ready" /\ req.ct /\ req' = r /\ pc' = pc /\ told' = told /\ out' = out
  BY DEF Provisional
<1>3. req.alive /\ req.stateful /\ req.dnsq = {}
  BY <1>2, StateFacts DEF Inv
<1>4. r \in Record
  BY <1>1 DEF Record
<1>5. /\ r.ct = req.ct /\ r.alive = req.alive
      /\ r.stateful = req.stateful /\ r.resph = req.resph
      /\ r.reqp = req.reqp /\ r.canceled = req.canceled
      /\ r.dnsq = req.dnsq /\ r.port = req.port /\ r.addrl = req.addrl
  BY <1>1 DEF Record
<1> HIDE DEF r
<1>6. Right(r) /\ SameUser(r) /\ UnderWay(r, "ready")
  BY <1>1, <1>2, <1>3, <1>5 DEF Right, SameUser, UnderWay
<1> QED
  BY <1>1, <1>2, <1>3, <1>4, <1>6, GoesOn

(* The stack closes.                                                       *)
LEMMA CloseHandler ==
    ASSUME Inv, close_handler
    PROVE  Inv'
<1> DEFINE r == [req EXCEPT !.dnsq = {}]
<1>1. req \in Record /\ Right(req) /\ out \in History
  BY DEF Inv
<1>2. req.alive /\ terminate(r, "error") /\ Excuse(TRUE)
  BY DEF close_handler
<1>3. r \in Record
  BY <1>1, FamilyFacts DEF Record
<1>4. /\ r.alive = req.alive
      /\ r.stateful = req.stateful /\ r.resph = req.resph
      /\ r.reqp = req.reqp /\ r.canceled = req.canceled
      /\ r.port = req.port /\ r.addrl = req.addrl
  BY <1>1 DEF Record
<1> HIDE DEF r
<1>5. Right(r) /\ SameUser(r)
  BY <1>1, <1>2, <1>4 DEF Right, SameUser
<1>6. /\ out' \in History /\ out'.used = out.used
      /\ out'.dropped = out.dropped /\ out'.sent = out.sent
      /\ out'.excused
  BY <1>1, <1>2, ExcuseFacts
<1> QED
  BY <1>2, <1>3, <1>5, <1>6, EndsStep
-----------------------------------------------------------------------------
(* The user.                                                               *)

LEMMA Cancel ==
    ASSUME Inv, sip_request_cancel
    PROVE  Inv'
<1> DEFINE r == [req EXCEPT !.canceled = TRUE]
<1>1. req \in Record /\ Right(req) /\ out \in History
  BY DEF Inv
<1>2. /\ pc = "ready" /\ req.reqp /\ req' = r /\ pc' = pc /\ told' = told
      /\ Excuse(TRUE)
  BY DEF sip_request_cancel
<1>3. req.alive /\ Living
  BY <1>2 DEF Inv
<1>4. r \in Record
  BY <1>1 DEF Record
<1>5. /\ r.ct = req.ct /\ r.alive = req.alive
      /\ r.stateful = req.stateful /\ r.resph = req.resph
      /\ r.reqp = req.reqp /\ r.dnsq = req.dnsq /\ r.port = req.port
      /\ r.addrl = req.addrl
  BY <1>1 DEF Record
<1> HIDE DEF r
<1>6. /\ out' \in History /\ out'.used = out.used
      /\ out'.dropped = out.dropped /\ out'.sent = out.sent
      /\ out'.excused
  BY <1>1, <1>2, ExcuseFacts
<1>7. Living'
  BY <1>2, <1>3, <1>5, <1>6 DEF Living, UnderWay
<1>8. Right(req)' /\ RightPort'
  BY <1>1, <1>2, <1>5 DEF Right, RightPort
<1>9. ~Ended /\ ~Ended' /\ req'.alive /\ out'.used
  BY <1>2, <1>3, <1>5, <1>6 DEF Ended, Living
<1>10. OneOutcome'
  <2>1. Len(told') = 0
    BY <1>2, <1>3 DEF Living
  <2> QED
    BY <1>7, <1>9, <2>1 DEF OneOutcome, Living, UnderWay
<1> QED
  BY <1>2, <1>4, <1>6, <1>7, <1>8, <1>9, <1>10 DEF Inv, AllTried

LEMMA Destructor ==
    ASSUME Inv, destructor
    PROVE  Inv'
<1> DEFINE r == [req EXCEPT !.reqp = FALSE, !.resph = FALSE, !.canceled = TRUE]
<1>1. req \in Record /\ Right(req) /\ out \in History
  BY DEF Inv
<1>2. /\ pc = "ready" /\ req.reqp /\ req' = r /\ pc' = pc /\ told' = told
      /\ out' = [out EXCEPT !.dropped = TRUE, !.excused = TRUE]
  BY DEF destructor
<1>3. req.alive /\ Living /\ req.stateful
  BY <1>2 DEF Inv, Living
<1>4. r \in Record
  BY <1>1 DEF Record
<1>5. /\ r.ct = req.ct /\ r.alive = req.alive
      /\ r.stateful = req.stateful /\ ~r.resph
      /\ ~r.reqp /\ r.dnsq = req.dnsq /\ r.port = req.port
      /\ r.addrl = req.addrl
  BY <1>1 DEF Record
<1> HIDE DEF r
<1>6. /\ out' \in History /\ out'.used = out.used
      /\ out'.dropped /\ out'.sent = out.sent
      /\ out'.excused
  BY <1>1, <1>2 DEF History
<1>7. Living'
  BY <1>2, <1>3, <1>5, <1>6 DEF Living, UnderWay
<1>8. Right(req)' /\ RightPort'
  BY <1>1, <1>2, <1>5 DEF Right, RightPort
<1>9. ~Ended /\ ~Ended' /\ req'.alive /\ out'.used
  BY <1>2, <1>3, <1>5, <1>6 DEF Ended, Living
<1>10. OneOutcome'
  <2>1. Len(told') = 0
    BY <1>2, <1>3 DEF Living
  <2> QED
    BY <1>7, <1>9, <2>1 DEF OneOutcome, Living, UnderWay
<1> QED
  BY <1>2, <1>4, <1>6, <1>7, <1>8, <1>9, <1>10 DEF Inv, AllTried

LEMMA NothingFacts ==
    /\ Nothing \in Record /\ Right(Nothing)
    /\ ~Nothing.alive /\ ~Nothing.reqp /\ ~Nothing.ct /\ Nothing.stateful
    /\ Nothing.resph /\ ~Nothing.canceled /\ Nothing.dnsq = {}
    /\ Nothing.addrl = <<>>
<1>1. /\ Host \in Port /\ {} \in Queries /\ <<>> \in Seq(Target)
      /\ <<>> \in Seq(Port) /\ [t \in Target |-> 0] \in [Target -> Nat]
  BY DEF Port, Queries
<1>2. Nothing \in Record
  BY <1>1 DEF Nothing, Record
<1>3. /\ ~Nothing.alive /\ ~Nothing.reqp /\ ~Nothing.ct /\ Nothing.stateful
      /\ Nothing.resph /\ ~Nothing.canceled /\ Nothing.dnsq = {}
      /\ Nothing.addrl = <<>>
  BY DEF Nothing
<1> QED
  BY <1>2, <1>3 DEF Right

LEMMA Request ==
    ASSUME Inv, NEW stateful \in BOOLEAN, NEW tp \in Supported \cup {0},
           sip_request(stateful, tp)
    PROVE  Inv'
<1> DEFINE n == IF tp = 0 THEN transp_next ELSE tp
           o == [Nothing EXCEPT !.alive = TRUE, !.reqp = stateful,
                                !.stateful = stateful]
           r == [Nothing EXCEPT !.alive = TRUE, !.reqp = stateful,
                                !.stateful = stateful, !.tp_selected = (tp # 0),
                                !.tp = IF tp = 0 THEN transp_next ELSE tp]
           a == [r EXCEPT !.alive = stateful, !.ct = stateful]
           d == [r EXCEPT !.dnsq = Families]
           e == [r EXCEPT !.dnsq = IF tp # 0 THEN {"srv"} ELSE {"naptr"}]
<1>1. out \in History
  BY DEF Inv
<1>2. ~out.used /\ told = <<>> /\ out.sent = 0 /\ ~out.dropped /\ pc = "ready"
  BY NothingFacts DEF Inv, sip_request
<1>3. /\ \/ req' = a /\ out' = [out EXCEPT !.used = TRUE, !.sent = 1]
         \/ req' = d /\ out' = [out EXCEPT !.used = TRUE]
         \/ req' = e /\ out' = [out EXCEPT !.used = TRUE]
      /\ pc' = pc /\ told' = told
  BY DEF sip_request
<1>4. n \in Nat
  BY TransportFacts
<1>5. o \in Record
  BY NothingFacts DEF Record
<1>6. r \in Record
  <2>1. r = [o EXCEPT !.tp_selected = (tp # 0), !.tp = n]
    BY DEF Nothing
  <2> HIDE DEF r, o, n
  <2> QED
    BY <1>4, <1>5, <2>1 DEF Record
<1>7. /\ r.alive /\ ~r.ct /\ r.stateful = stateful /\ r.resph
      /\ r.reqp = stateful /\ ~r.canceled /\ r.dnsq = {} /\ r.addrl = <<>>
  BY DEF Nothing
<1> HIDE DEF r, n, o
<1>8. ASSUME NEW q \in Queries, q # {}, req' = [r EXCEPT !.dnsq = q],
             out' = [out EXCEPT !.used = TRUE]
      PROVE  Inv'
  <2> DEFINE w == [r EXCEPT !.dnsq = q]
  <2>1. w \in Record
    BY <1>6 DEF Record
  <2>2. /\ w.alive /\ ~w.ct /\ w.stateful = stateful /\ w.resph
        /\ w.reqp = stateful /\ ~w.canceled /\ w.dnsq = q /\ w.addrl = <<>>
    BY <1>6, <1>7 DEF Record
  <2>3. req' = w
    BY <1>8
  <2> HIDE DEF w
  <2>4. /\ out' \in History /\ out'.used /\ ~out'.dropped /\ out'.sent = 0
    BY <1>1, <1>2, <1>8 DEF History
  <2>5. Living'
    BY <1>2, <1>3, <1>8, <2>2, <2>3, <2>4 DEF Living, UnderWay
  <2>6. Right(req)' /\ RightPort' /\ ~Ended'
    BY <2>2, <2>3 DEF Right, RightPort, Ended
  <2>7. OneOutcome'
    <3>1. Len(told') = 0
      BY <1>2, <1>3
    <3> QED
      BY <2>5, <2>6, <3>1, <2>2, <2>3 DEF OneOutcome, Living, UnderWay
  <2> QED
    BY <2>1, <2>2, <2>3, <2>4, <2>5, <2>6, <2>7 DEF Inv, AllTried
<1>9. CASE req' = a /\ out' = [out EXCEPT !.used = TRUE, !.sent = 1]
  <2>1. a \in Record
    BY <1>6 DEF Record
  <2>2. /\ a.alive = stateful /\ a.ct = stateful /\ a.stateful = stateful
        /\ a.resph /\ a.reqp = stateful /\ ~a.canceled /\ a.dnsq = {}
        /\ a.addrl = <<>>
    BY <1>6, <1>7 DEF Record
  <2> HIDE DEF a
  <2>3. out' \in History /\ out'.used /\ ~out'.dropped /\ out'.sent = 1
    BY <1>1, <1>2, <1>9 DEF History
  <2>4. req'.alive => Living'
    BY <1>2, <1>3, <1>9, <2>2, <2>3 DEF Living, UnderWay
  <2>5. Right(req)' /\ RightPort' /\ (Ended' => ~stateful)
    BY <1>9, <2>2 DEF Right, RightPort, Ended
  <2>6. OneOutcome'
    <3>1. Len(told') = 0 /\ told' = <<>>
      BY <1>2, <1>3
    <3> QED
      BY <1>9, <2>2, <2>3, <2>5, <3>1 DEF OneOutcome
  <2>7. AllTried'
    <3>1. told' \notin {<<"error">>, <<"503">>}
      BY <1>2, <1>3
    <3> QED
      BY <2>5, <3>1 DEF AllTried
  <2> QED
    BY <1>2, <1>3, <1>9, <2>1, <2>2, <2>3, <2>4, <2>5, <2>6, <2>7 DEF Inv
<1>10. CASE req' = d /\ out' = [out EXCEPT !.used = TRUE]
  BY <1>8, <1>10, FamilyFacts
<1>11. CASE req' = e /\ out' = [out EXCEPT !.used = TRUE]
  BY <1>8, <1>11, FamilyFacts
<1> QED
  BY <1>3, <1>9, <1>10, <1>11
-----------------------------------------------------------------------------
LEMMA InvInit == Init => Inv
<1> SUFFICES ASSUME Init PROVE Inv
  OBVIOUS
<1>1. /\ req = Nothing /\ pc = "ready" /\ told = <<>> /\ out \in History
      /\ ~out.used /\ out.sent = 0 /\ ~out.dropped
  BY DEF Init, History
<1>2. ~Ended /\ RightPort
  BY <1>1, NothingFacts DEF Ended, RightPort
<1>3. OneOutcome
  <2>1. Len(told) = 0
    BY <1>1
  <2> QED
    BY <1>1, <1>2, <2>1, NothingFacts DEF OneOutcome
<1> QED
  BY <1>1, <1>2, <1>3, NothingFacts DEF Inv, AllTried

LEMMA InvNext == Inv /\ [Next]_vars => Inv'
<1> SUFFICES ASSUME Inv, [Next]_vars PROVE Inv'
  OBVIOUS
<1>1. CASE UNCHANGED vars
  BY <1>1 DEF vars, Inv, Living, UnderWay, More, Right, OneOutcome, AllTried,
              Ended, RightPort
<1>2. CASE \E stateful \in BOOLEAN, tp \in Supported \cup {0} :
              sip_request(stateful, tp)
  BY <1>2, Request
<1>3. CASE Resolve
  BY <1>3, NextAddr, NextSrv, NaptrHandler, SrvHandler, AddrHandler DEF Resolve
<1>4. CASE Respond
  BY <1>4, ResponseHandler DEF Respond
<1> QED
  BY <1>1, <1>2, <1>3, <1>4, ProvisionalStep, Cancel, Destructor, CloseHandler
     DEF Next

(* request.c: whatever the DNS and the transactions answer, and whenever   *)
(* its user cancels or drops it or the stack closes, a request has one     *)
(* thing under way until it ends, and its user is told one outcome.        *)
THEOREM OutcomeToldOnce == Spec => []OneOutcome
<1>1. Inv => OneOutcome
  BY DEF Inv
<1> QED
  BY <1>1, InvInit, InvNext, PTL DEF Spec

(* request_next: a request that fails has tried every server and every     *)
(* address of each, at its own port, unless it was cancelled or a query    *)
(* could not be made.                                                      *)
THEOREM EveryServerTried == Spec => []AllTried
<1>1. Inv => AllTried
  BY DEF Inv
<1> QED
  BY <1>1, InvInit, InvNext, PTL DEF Spec
=============================================================================
