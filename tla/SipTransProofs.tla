--------------------------- MODULE SipTransProofs ---------------------------
(***************************************************************************)
(* Proofs about SipTrans, for all timer values that stand to each other as *)
(* those of the code do.                                                   *)
(***************************************************************************)
EXTENDS SipTrans, TLAPS

Lifetime == Life * T1

Ctrans == [state : {"none", "CALLING", "TRYING", "PROCEEDING", "COMPLETED",
                    "gone"},
           tmr : -1..Lifetime, tmre : Nat \cup {-1}, txc : 0..Life,
           mb : {"none"}]

Strans == [state : {"none", "TRYING", "PROCEEDING", "ACCEPTED", "COMPLETED",
                    "CONFIRMED", "gone"},
           tmr : -1..Lifetime, tmre : Nat \cup {-1}, txc : 0..Life,
           mb : Code \cup {"none"}]

(* Retransmissions fall on odd multiples of T1 before the end of the       *)
(* lifetime, n of them so far: a timer tmre that is due leaves at least T1 *)
(* of the lifetime tmr.                                                    *)
Phase(tmr, tmre, n) ==
    \E q \in Int : tmr - tmre = (2 * q + 1) * T1 /\ 2 * q + 1 <= Life - n - 1

Retransmits(x) == x.tmr # Off /\ Phase(x.tmr, x.tmre, x.txc)

(* A client transaction c, of an INVITE if i.                              *)
ClientOK(c, i) ==
    /\ c.state \in {"none", "gone"} => c.tmr = Off
    /\ c.state = "COMPLETED" => c.tmr # Off
    /\ c.tmre # Off => /\ ~reliable /\ Retransmits(c)
                       /\ \/ c.state \in {"TRYING", "PROCEEDING"} /\ ~i
                          \/ c.state = "CALLING" /\ i
    /\ c.state = "CALLING" => i
    /\ c.state = "TRYING" => ~i

ClientsOK == \A k \in Tid : ClientOK(ct[k], IsInvite(k))

Answered == {"ACCEPTED", "COMPLETED", "CONFIRMED"}

(* The server transaction of the request.                                  *)
ServerOK ==
    LET s == st["main"] IN
    /\ s.tmr # Off <=> s.state \in Answered
    /\ s.tmre # Off => /\ s.state = "COMPLETED" /\ invite /\ ~reliable
                       /\ final = "err" /\ Retransmits(s)
    /\ s.state = "PROCEEDING" => s.mb = "1xx"
    /\ s.state \in Answered => s.mb = final /\ final # "none"
    /\ final # "none" => s.state \in Answered \cup {"gone"}
    /\ final # "1xx"
    /\ s.state = "none" <=> seen = 0
    /\ s.state = "gone" => final # "none" \/ failed

(* That of the CANCEL.                                                     *)
CancelOK ==
    LET s == st["cancel"] IN
    /\ s.state \in {"none", "COMPLETED", "gone"}
    /\ s.tmre = Off
    /\ s.state = "COMPLETED" => s.mb \in Code
    /\ s.state # "COMPLETED" => s.tmr = Off

Told == {"COMPLETED", "gone"}

(* What the user has been told, and what the net says of it.               *)
Outcome ==
    /\ finals = IF ct["main"].state \in Told THEN 1 ELSE 0
    /\ told # "none" <=> ct["main"].state \in Told
    /\ told # "1xx" /\ (told \in Code => told = final)
    /\ \A c \in Code : Resp("main", c) \in DOMAIN net => c = "1xx" \/ c = final
    /\ Ack \in DOMAIN net => ct["main"].state \in Told

(* The request has not been sent.                                          *)
Unsent ==
    queued \/ ct["main"].state = "none"
       => /\ DOMAIN net = {} /\ st["main"].state = "none"
          /\ ct["cancel"].state = "none"
          /\ queued => reliable /\ ct["main"].state \in {"CALLING", "TRYING"}

(* The server transaction outlives the copies of the request.              *)
Outlives ==
    LET c == ct["main"]
        s == st["main"]
    IN  /\ reliable /\ seen > 0 => Req("main") \notin DOMAIN net
        /\ ~reliable /\ s.state \in Answered =>
              /\ Req("main") \in DOMAIN net => net[Req("main")] < s.tmr
              /\ c.tmre # Off => c.tmr <= s.tmr
        /\ ~reliable /\ final # "none" /\ s.state = "gone" =>
              /\ Req("main") \notin DOMAIN net
              /\ c.tmre # Off => c.tmr = 0

(* A COMPLETED client transaction outlives the copies of the answer.       *)
Acks ==
    LET c == ct["main"]
        s == st["main"]
        e == Resp("main", "err")
    IN  invite /\ ~reliable /\ told = "err" =>
           /\ c.state = "COMPLETED" =>
                 /\ Req("main") \in DOMAIN net =>
                       net[Req("main")] + MaxDelay < c.tmr
                 /\ e \in DOMAIN net => net[e] < c.tmr
                 /\ s.tmre # Off => s.tmr <= c.tmr
           /\ c.state = "gone" =>
                 /\ Req("main") \notin DOMAIN net /\ e \notin DOMAIN net
                 /\ s.tmre # Off => s.tmr = 0

Types ==
    /\ invite \in BOOLEAN /\ reliable \in BOOLEAN
    /\ ct \in [Tid -> Ctrans] /\ st \in [Tid -> Strans]
    /\ queued \in BOOLEAN /\ canceled \in BOOLEAN /\ failed \in BOOLEAN
    /\ told \in Code \cup {"none", "error"}
    /\ finals \in Nat /\ seen \in Nat
    /\ final \in Code \cup {"none"}
    /\ DOMAIN net \subseteq Msg /\ \A m \in DOMAIN net : net[m] \in 0..MaxDelay

Inv ==
    /\ Types
    /\ ClientsOK /\ ServerOK /\ CancelOK
    /\ Outcome
    /\ Unsent
    /\ Outlives
    /\ Acks
    /\ seen > 1 => failed
-----------------------------------------------------------------------------
(* Time.                                                                   *)

LEMMA TimeFacts ==
    /\ T1 \in Nat /\ T1 >= 1 /\ T4 \in Nat /\ T4 <= Lifetime
    /\ MaxDelay \in Nat /\ MaxDelay < T1 /\ MaxDelay < T4
    /\ Lifetime \in Nat /\ T1 <= Lifetime /\ 2 * MaxDelay < Lifetime
<1>1. /\ T1 \in Nat /\ T1 >= 1 /\ Life \in Nat /\ Life >= 2 /\ T4 \in Nat
      /\ MaxDelay \in Nat /\ MaxDelay < T1 /\ MaxDelay < T4
  BY TimersAssumption, DelayAssumption, RatioAssumption
<1>2. Life * T1 \in Nat /\ Life * T1 >= 2 * T1
  BY <1>1
<1> QED
  BY <1>1, <1>2, RatioAssumption DEF Lifetime

(* The timeouts after the first: even multiples of T1.                     *)
Even(e) == \E j \in Nat \ {0} : e = (2 * j) * T1

LEMMA EvenFacts ==
    /\ Even(T2)
    /\ \A n \in 1..Life : Even(Shift(n)) /\ Even(Min2(Shift(n), T2))
    /\ \A e : Even(e) => e \in Nat
<1>1. T1 \in Nat
  BY TimeFacts
<1>2. Even(T2)
  BY RatioAssumption, TimersAssumption DEF Even
<1>3. ASSUME NEW n \in 1..Life PROVE Even(Shift(n))
  <2>1. 2^n \in Nat \ {0} /\ 2^n % 2 = 0
    BY PowerAssumption
  <2> DEFINE p == 2^n
             j == p \div 2
  <2>2. p \in Nat \ {0} /\ p % 2 = 0 /\ Shift(n) = T1 * p
    BY <2>1 DEF Shift
  <2> HIDE DEF p
  <2>3. j \in Nat \ {0} /\ p = 2 * j
    BY <2>2
  <2> HIDE DEF j
  <2>4. T1 * p = (2 * j) * T1
    BY <1>1, <2>3
  <2> QED
    BY <2>2, <2>3, <2>4 DEF Even
<1>4. \A e : Even(e) => e \in Nat
  BY <1>1 DEF Even
<1> QED
  BY <1>2, <1>3, <1>4 DEF Min2

LEMMA PhaseStart == Phase(Lifetime, T1, 0)
<1>1. Life \in Nat /\ T1 \in Nat /\ Life % 2 = 0
  BY TimersAssumption, RatioAssumption
<1> DEFINE q == (Life \div 2) - 1
<1>2. q \in Int /\ Life = 2 * q + 2
  BY <1>1
<1> HIDE DEF q
<1>3. Life * T1 - T1 = (2 * q + 1) * T1
  BY <1>1, <1>2
<1>4. 2 * q + 1 <= Life - 0 - 1
  BY <1>1, <1>2
<1> QED
  BY <1>2, <1>3, <1>4 DEF Phase, Lifetime

LEMMA PhaseTick ==
    ASSUME NEW a \in Int, NEW b \in Int, NEW n \in Int, Phase(a, b, n)
    PROVE  Phase(a - 1, b - 1, n)
<1>1. (a - 1) - (b - 1) = a - b
  OBVIOUS
<1> QED
  BY <1>1 DEF Phase

(* A retransmission leaves T1 of the lifetime, and is not the last one     *)
(* that txc can count.                                                     *)
LEMMA PhaseDue ==
    ASSUME NEW a \in Nat, NEW n \in Nat, Phase(a, 0, n)
    PROVE  a >= T1 /\ n + 1 \in 1..Life
<1>1. PICK q \in Int : a - 0 = (2 * q + 1) * T1 /\ 2 * q + 1 <= Life - n - 1
  BY DEF Phase
<1>2. T1 \in Nat /\ T1 >= 1 /\ Life \in Nat
  BY TimeFacts, TimersAssumption
<1> DEFINE x == 2 * q + 1
<1>3. x \in Int /\ a = x * T1 /\ x # 0
  BY <1>1
<1>4. x <= Life - n - 1
  BY <1>1
<1> HIDE DEF x
<1>5. x >= 1
  <2> SUFFICES ASSUME x <= -1 PROVE FALSE
    BY <1>3
  <2>1. x * T1 <= -T1
    BY <1>2, <1>3
  <2> QED
    BY <1>2, <1>3, <2>1
<1>6. x * T1 >= T1
  BY <1>2, <1>3, <1>5
<1>7. n + 1 <= Life
  BY <1>2, <1>3, <1>4, <1>5
<1> QED
  BY <1>2, <1>3, <1>6, <1>7

LEMMA PhaseNext ==
    ASSUME NEW a \in Nat, NEW n \in Nat, Phase(a, 0, n), NEW e, Even(e)
    PROVE  Phase(a, e, n + 1)
<1>1. PICK q \in Int : a - 0 = (2 * q + 1) * T1 /\ 2 * q + 1 <= Life - n - 1
  BY DEF Phase
<1>2. PICK j \in Nat \ {0} : e = (2 * j) * T1
  BY DEF Even
<1>3. T1 \in Nat /\ Life \in Nat
  BY TimeFacts, TimersAssumption
<1> DEFINE r == q - j
<1>4. r \in Int /\ 2 * r + 1 <= Life - (n + 1) - 1
  BY <1>1, <1>2, <1>3
<1>5. a - e = (2 * r + 1) * T1
  BY <1>1, <1>2, <1>3
<1> QED
  BY <1>4, <1>5 DEF Phase
-----------------------------------------------------------------------------
(* Messages and the network.                                               *)

LEMMA MsgFacts ==
    /\ \A k \in Tid : Req(k) \in Msg
    /\ Ack \in Msg
    /\ \A k \in Tid, c \in Code : Resp(k, c) \in Msg
    /\ \A k, l, c : Req(k) # Resp(l, c) /\ Ack # Resp(l, c) /\ Req(k) # Ack
    /\ Req("main") # Req("cancel")
    /\ \A k, l, c, d : Resp(k, c) = Resp(l, d) => k = l /\ c = d
<1>1. \A k : Req(k).kind = "req" /\ Req(k).tid = k
  BY DEF Req
<1>2. Ack.kind = "ack"
  BY DEF Ack
<1>3. \A l, c : Resp(l, c).kind = "resp" /\ Resp(l, c).tid = l
                /\ Resp(l, c).code = c
  BY DEF Resp
<1>4. \A k, l, c : Req(k) # Resp(l, c) /\ Ack # Resp(l, c) /\ Req(k) # Ack
  BY <1>1, <1>2, <1>3
<1>5. Req("main") # Req("cancel")
  <2>1. "main" # "cancel"
    OBVIOUS
  <2> QED
    BY <1>1, <2>1
<1>6. \A k, l, c, d : Resp(k, c) = Resp(l, d) => k = l /\ c = d
  BY <1>3
<1>7. /\ \A k \in Tid : Req(k) \in Msg
      /\ Ack \in Msg
  BY DEF Req, Ack, Msg, Tid
<1>8. \A k \in Tid, c \in Code : Resp(k, c) \in Msg
  BY DEF Resp, Msg
<1> QED
  BY <1>4, <1>5, <1>6, <1>7, <1>8

(* Besides the messages in A, h has only those of g.                       *)
Carries(h, g, A) ==
    /\ DOMAIN h \subseteq Msg
    /\ \A m \in DOMAIN h :
          /\ h[m] \in 0..MaxDelay
          /\ m \in A \/ (m \in DOMAIN g /\ h[m] = g[m])

LEMMA CarrySent ==
    ASSUME NEW h, NEW g, NEW A, NEW m \in Msg, Carries(h, g, A)
    PROVE  Carries(Sent(h, m), g, A \cup {m})
<1>1. DOMAIN Sent(h, m) = DOMAIN h \cup {m}
  BY DEF Sent
<1>2. MaxDelay \in 0..MaxDelay
  BY TimeFacts
<1>3. \A x \in DOMAIN h \cup {m} :
         Sent(h, m)[x] = IF x = m THEN MaxDelay ELSE h[x]
  BY DEF Sent
<1> QED
  BY <1>1, <1>2, <1>3 DEF Carries

LEMMA CarrySame ==
    ASSUME Types
    PROVE  Carries(net, net, {})
  BY DEF Types, Carries

LEMMA CarryReceived ==
    ASSUME Types, NEW m, NEW n \in Received(m)
    PROVE  Carries(n, net, {})
<1>1. CASE n = net
  BY <1>1, CarrySame
<1>2. CASE n = [x \in DOMAIN net \ {m} |-> net[x]]
  BY <1>2 DEF Types, Carries
<1> QED
  BY <1>1, <1>2 DEF Received
-----------------------------------------------------------------------------
(* Transactions.                                                           *)

LEMMA Members ==
    /\ \A c \in Ctrans : /\ c.tmr \in -1..Lifetime /\ c.tmre \in Nat \cup {-1}
                         /\ c.txc \in 0..Life
    /\ \A s \in Strans : /\ s.tmr \in -1..Lifetime /\ s.tmre \in Nat \cup {-1}
                         /\ s.txc \in 0..Life
  BY DEF Ctrans, Strans

LEMMA Numbers ==
    ASSUME Types
    PROVE  \A k \in Tid :
              /\ ct[k] \in Ctrans /\ st[k] \in Strans
              /\ ct[k].tmr \in Int /\ ct[k].tmr >= -1 /\ ct[k].tmr <= Lifetime
              /\ st[k].tmr \in Int /\ st[k].tmr >= -1 /\ st[k].tmr <= Lifetime
              /\ ct[k].tmre \in Int /\ ct[k].tmre >= -1 /\ ct[k].txc \in Nat
              /\ st[k].tmre \in Int /\ st[k].tmre >= -1 /\ st[k].txc \in Nat
<1> TAKE k \in Tid
<1>1. ct[k] \in Ctrans /\ st[k] \in Strans
  BY DEF Types
<1>2. /\ ct[k].tmr \in -1..Lifetime /\ ct[k].tmre \in Nat \cup {-1}
      /\ ct[k].txc \in 0..Life
      /\ st[k].tmr \in -1..Lifetime /\ st[k].tmre \in Nat \cup {-1}
      /\ st[k].txc \in 0..Life
  BY <1>1, Members
<1>3. \A x \in -1..Lifetime : x \in Int /\ x >= -1 /\ x <= Lifetime
  BY TimeFacts
<1>4. \A x \in Nat \cup {-1} : x \in Int /\ x >= -1
  OBVIOUS
<1>5. \A x \in 0..Life : x \in Nat
  BY TimersAssumption
<1> QED
  BY <1>1, <1>2, <1>3, <1>4, <1>5

LEMMA GoneFacts ==
    /\ Gone \in Ctrans /\ Gone \in Strans /\ Idle \in Ctrans /\ Idle \in Strans
    /\ Gone.state = "gone" /\ Gone.tmr = Off /\ Gone.tmre = Off
    /\ Idle.state = "none" /\ Idle.tmr = Off /\ Idle.tmre = Off
<1>1. -1 \in -1..Lifetime /\ -1 \in Nat \cup {-1} /\ 0 \in 0..Life
  BY TimeFacts, TimersAssumption
<1>2. Idle \in Ctrans /\ Idle \in Strans
  BY <1>1 DEF Idle, Ctrans, Strans, Off
<1>3. Gone = [state |-> "gone", tmr |-> Off, tmre |-> Off, txc |-> 0,
              mb |-> "none"]
  BY DEF Gone, Idle
<1>4. Gone \in Ctrans /\ Gone \in Strans
  BY <1>1, <1>3 DEF Ctrans, Strans, Off
<1> QED
  BY <1>2, <1>3, <1>4 DEF Idle

LEMMA GoneClient == \A i : ClientOK(Gone, i) /\ ClientOK(Idle, i)
  BY GoneFacts DEF ClientOK

LEMMA NewClient ==
    ASSUME Types, NEW k \in Tid
    PROVE  LET c == NewCtrans(k) IN
           /\ c \in Ctrans /\ ClientOK(c, IsInvite(k))
           /\ c.state = IF IsInvite(k) THEN "CALLING" ELSE "TRYING"
           /\ c.tmr = Lifetime
<1> DEFINE c == NewCtrans(k)
           e == IF reliable THEN Off ELSE T1
<1>1. /\ Lifetime \in -1..Lifetime /\ e \in Nat \cup {-1} /\ 0 \in 0..Life
      /\ Lifetime # Off
  BY TimeFacts, TimersAssumption DEF Off
<1>2. /\ c.state = IF IsInvite(k) THEN "CALLING" ELSE "TRYING"
      /\ c.tmr = Lifetime /\ c.tmre = e /\ c.txc = 0
  BY DEF NewCtrans, Lifetime
<1>3. c \in Ctrans
  BY <1>1 DEF NewCtrans, Ctrans, Lifetime
<1>4. c.tmre # Off => ~reliable /\ Retransmits(c)
  BY <1>1, <1>2, PhaseStart DEF Retransmits
<1> HIDE DEF c, e
<1>5. ClientOK(c, IsInvite(k))
  BY <1>1, <1>2, <1>4 DEF ClientOK
<1> QED
  BY <1>2, <1>3, <1>5 DEF c

(* What sip_strans_reply leaves of a server transaction.                   *)
LEMMA RepliedFacts ==
    ASSUME Types, NEW k \in Tid, NEW s \in Strans, NEW c \in Code
    PROVE  LET r == Replied(k, s, c) IN
           /\ r \in Strans
           /\ c = "1xx" => /\ r.state = "PROCEEDING" /\ r.mb = "1xx"
                           /\ r.tmr = s.tmr /\ r.tmre = s.tmre
           /\ c # "1xx" =>
                 \/ reliable /\ ~IsInvite(k) /\ r = Gone
                 \/ /\ r.state \in {"ACCEPTED", "COMPLETED"} /\ r.mb = c
                    /\ r.tmr = Lifetime
                    /\ ~IsInvite(k) => r.state = "COMPLETED" /\ r.tmre = Off
                    /\ r.tmre # Off => /\ r.state = "COMPLETED" /\ IsInvite(k)
                                       /\ c = "err" /\ ~reliable
                                       /\ Phase(r.tmr, r.tmre, r.txc)
<1> DEFINE r == Replied(k, s, c)
           e == IF c = "err" /\ ~reliable THEN T1 ELSE Off
           x == [state |-> IF c = "2xx" THEN "ACCEPTED" ELSE "COMPLETED",
                 tmr |-> Lifetime, tmre |-> e, txc |-> 0, mb |-> c]
           y == [state |-> "COMPLETED", tmr |-> Lifetime, tmre |-> Off,
                 txc |-> 0, mb |-> c]
<1>1. /\ Lifetime \in -1..Lifetime /\ e \in Nat \cup {-1} /\ 0 \in 0..Life
      /\ Off \in Nat \cup {-1} /\ c \in Code \cup {"none"}
      /\ (c = "err" => c # "2xx")
  BY TimeFacts, TimersAssumption DEF Off
<1>2. CASE c = "1xx"
  <2>1. r = [s EXCEPT !.state = "PROCEEDING", !.mb = c]
    BY <1>2 DEF Replied
  <2>2. r \in Strans
    BY <1>1, <2>1 DEF Strans
  <2> QED
    BY <1>2, <2>1, <2>2 DEF Strans
<1>3. CASE c # "1xx" /\ IsInvite(k)
  <2>1. r = x
    BY <1>3 DEF Replied, Lifetime
  <2>2. x \in Strans
    BY <1>1 DEF Strans
  <2>3. x.tmre # Off => x.state = "COMPLETED" /\ c = "err" /\ ~reliable
                        /\ Phase(x.tmr, x.tmre, x.txc)
    BY <1>1, PhaseStart
  <2>4. /\ x.state \in {"ACCEPTED", "COMPLETED"} /\ x.mb = c
        /\ x.tmr = Lifetime
    OBVIOUS
  <2> HIDE DEF x
  <2> QED
    BY <1>3, <2>1, <2>2, <2>3, <2>4
<1>4. CASE c # "1xx" /\ ~IsInvite(k) /\ reliable
  <2>1. r = Gone
    BY <1>4 DEF Replied
  <2> QED
    BY <1>4, <2>1, GoneFacts
<1>5. CASE c # "1xx" /\ ~IsInvite(k) /\ ~reliable
  <2>1. r = y
    BY <1>5 DEF Replied, Lifetime
  <2>2. y \in Strans
    BY <1>1 DEF Strans
  <2> QED
    BY <1>5, <2>1, <2>2
<1> QED
  BY <1>2, <1>3, <1>4, <1>5
-----------------------------------------------------------------------------
(* What a step leaves alone.                                               *)

LEMMA TidFacts ==
    /\ "main" \in Tid /\ "cancel" \in Tid /\ Tid = {"main", "cancel"}
    /\ "main" # "cancel"
  BY DEF Tid

LEMMA ClientsSame ==
    ASSUME Inv, UNCHANGED <<config, ct>>
    PROVE  ClientsOK'
  BY DEF Inv, ClientsOK, ClientOK, IsInvite, config

LEMMA ClientsFrame ==
    ASSUME Inv, UNCHANGED config, NEW k \in Tid, NEW c \in Ctrans,
           ClientOK(c, IsInvite(k)), ct' = [ct EXCEPT ![k] = c]
    PROVE  /\ ct' \in [Tid -> Ctrans] /\ ClientsOK' /\ ct'[k] = c
           /\ \A l \in Tid : l # k => ct'[l] = ct[l]
<1>1. ct \in [Tid -> Ctrans] /\ ClientsOK
  BY DEF Inv, Types
<1>2. /\ ct' \in [Tid -> Ctrans] /\ ct'[k] = c
      /\ \A l \in Tid : l # k => ct'[l] = ct[l]
  BY <1>1
<1>3. reliable' = reliable /\ invite' = invite
  BY DEF config
<1>4. \A l \in Tid : IsInvite(l)' = IsInvite(l)
  BY <1>3 DEF IsInvite
<1>5. \A l \in Tid : ClientOK(ct'[l], IsInvite(l))
  BY <1>1, <1>2 DEF ClientsOK
<1>6. ClientsOK'
  BY <1>3, <1>4, <1>5 DEF ClientsOK, ClientOK
<1> QED
  BY <1>2, <1>6

LEMMA ServerSame ==
    ASSUME Inv, UNCHANGED <<config, server>>
    PROVE  ServerOK' /\ CancelOK' /\ (seen' > 1 => failed')
  BY DEF Inv, ServerOK, CancelOK, config, server

(* The request is not sent, nor does the server transaction change.        *)
LEMMA OutlivesFrame ==
    ASSUME Inv, NEW A, Carries(net', net, A), Req("main") \notin A,
           reliable' = reliable, seen' = seen, final' = final,
           st'["main"] = st["main"],
           ct'["main"].tmre # Off => /\ ct["main"].tmre # Off
                                     /\ ct'["main"].tmr = ct["main"].tmr
    PROVE  Outlives'
<1>1. Req("main") \in DOMAIN net' => /\ Req("main") \in DOMAIN net
                                     /\ net'[Req("main")] = net[Req("main")]
  BY DEF Carries
<1>2. Req("main")' = Req("main")
  BY DEF Req
<1> QED
  BY <1>1, <1>2 DEF Inv, Outlives

(* The request is not sent, and an answer only while the client transaction *)
(* is there for longer than the answer takes.                              *)
LEMMA AcksAgain ==
    ASSUME Inv, NEW A, Carries(net', net, A), Req("main") \notin A,
           Resp("main", "err") \in A /\ invite /\ ~reliable /\ told = "err" =>
              ct["main"].state = "COMPLETED" /\ MaxDelay < ct["main"].tmr,
           UNCHANGED config, told' = told,
           st'["main"].tmre # Off => /\ st["main"].tmre # Off
                                     /\ st'["main"].tmr = st["main"].tmr,
           ct'["main"].state = ct["main"].state,
           ct["main"].state = "COMPLETED" => ct'["main"].tmr = ct["main"].tmr
    PROVE  Acks'
<1> DEFINE r == Req("main")
           e == Resp("main", "err")
           c == ct["main"]
<1>1. Types /\ c.tmr \in Int /\ MaxDelay \in Nat
  BY Numbers, TidFacts, TimeFacts DEF Inv
<1>2. r' = r /\ e' = e
  BY DEF Req, Resp
<1>3. r \in DOMAIN net' => r \in DOMAIN net /\ net'[r] = net[r]
  BY DEF Carries
<1>4. e \in DOMAIN net' => /\ e \in A \/ (e \in DOMAIN net /\ net'[e] = net[e])
                           /\ net'[e] \in 0..MaxDelay
  BY DEF Carries
<1>5. \A x \in 0..MaxDelay : MaxDelay < c.tmr => x < c.tmr
  BY <1>1
<1> HIDE DEF r, e, c
<1>6. invite' = invite /\ reliable' = reliable
  BY DEF config
<1> SUFFICES ASSUME invite, ~reliable, told = "err"
             PROVE  /\ c.state = "COMPLETED" =>
                          /\ r \in DOMAIN net' => net'[r] + MaxDelay < c.tmr
                          /\ e \in DOMAIN net' => net'[e] < c.tmr
                          /\ st'["main"].tmre # Off => st'["main"].tmr <= c.tmr
                    /\ c.state = "gone" =>
                          /\ r \notin DOMAIN net' /\ e \notin DOMAIN net'
                          /\ st'["main"].tmre # Off => st'["main"].tmr = 0
  BY <1>2, <1>6 DEF Acks, c, r, e
<1>7. /\ c.state = "COMPLETED" =>
             /\ r \in DOMAIN net => net[r] + MaxDelay < c.tmr
             /\ e \in DOMAIN net => net[e] < c.tmr
             /\ st["main"].tmre # Off => st["main"].tmr <= c.tmr
      /\ c.state = "gone" =>
             /\ r \notin DOMAIN net /\ e \notin DOMAIN net
             /\ st["main"].tmre # Off => st["main"].tmr = 0
  BY DEF Inv, Acks, c, r, e
<1>8. e \in A => c.state = "COMPLETED" /\ MaxDelay < c.tmr
  BY DEF e, c
<1> QED
  BY <1>3, <1>4, <1>5, <1>7, <1>8

LEMMA AcksFrame ==
    ASSUME Inv, NEW A, Carries(net', net, A), Req("main") \notin A,
           Resp("main", "err") \notin A,
           UNCHANGED config, told' = told,
           st'["main"].tmre # Off => /\ st["main"].tmre # Off
                                     /\ st'["main"].tmr = st["main"].tmr,
           ct'["main"].state = ct["main"].state,
           ct["main"].state = "COMPLETED" => ct'["main"].tmr = ct["main"].tmr
    PROVE  Acks'
  BY AcksAgain

(* An answer is not told.                                                  *)
LEMMA AcksNot ==
    ASSUME told' # "err" \/ ~invite' \/ reliable'
    PROVE  Acks'
  BY DEF Acks

LEMMA OutcomeFrame ==
    ASSUME Inv, NEW A, Carries(net', net, A), told' = told, finals' = finals,
           ct'["main"].state \in Told <=> ct["main"].state \in Told,
           final' = final,
           \A c \in Code : Resp("main", c) \in A => c = "1xx" \/ c = final,
           Ack \in A => ct["main"].state \in Told
    PROVE  Outcome'
<1>1. \A c \in Code : Resp("main", c)' = Resp("main", c)
  BY DEF Resp
<1>2. Ack' = Ack
  BY DEF Ack
<1>3. \A c \in Code : Resp("main", c) \in DOMAIN net' => c = "1xx" \/ c = final
  BY DEF Inv, Outcome, Carries
<1>4. Ack \in DOMAIN net' => ct["main"].state \in Told
  BY DEF Inv, Outcome, Carries
<1> QED
  BY <1>1, <1>2, <1>3, <1>4 DEF Inv, Outcome

(* Once there is a message, an answering or a cancelling transaction, the  *)
(* request has been sent.                                                  *)
LEMMA Sent_already ==
    ASSUME Inv,
           \/ DOMAIN net # {} \/ st["main"].state # "none"
           \/ ct["cancel"].state # "none"
           \/ ct["main"].state \notin {"none", "CALLING", "TRYING"}
           \/ ~queued /\ ct["main"].state # "none"
           \/ ~reliable /\ ct["main"].state # "none"
    PROVE  ~queued /\ ct["main"].state # "none"
  BY DEF Inv, Unsent

LEMMA UnsentFrame ==
    ASSUME ~queued', ct'["main"].state # "none"
    PROVE  Unsent'
  BY DEF Unsent

LEMMA NetTypes ==
    ASSUME NEW A, Carries(net', net, A)
    PROVE  /\ DOMAIN net' \subseteq Msg
           /\ \A m \in DOMAIN net' : net'[m] \in 0..MaxDelay
  BY DEF Carries

(* The numbers of a transaction that retransmits now.                      *)
LEMMA DueFacts ==
    ASSUME Inv, NEW k \in Tid
    PROVE  /\ ct[k].tmre = 0 =>
                 /\ ct[k].tmr \in Nat /\ ct[k].tmr >= T1 /\ ~reliable
                 /\ ct[k].txc + 1 \in 1..Life /\ ct[k].txc \in Nat
                 /\ Phase(ct[k].tmr, 0, ct[k].txc)
           /\ st["main"].tmre = 0 =>
                 /\ st["main"].tmr \in Nat /\ st["main"].tmr >= T1
                 /\ st["main"].txc + 1 \in 1..Life /\ st["main"].txc \in Nat
                 /\ Phase(st["main"].tmr, 0, st["main"].txc)
<1>1. Types /\ ClientOK(ct[k], IsInvite(k)) /\ ServerOK
  BY DEF Inv, ClientsOK
<1>2. 0 # Off /\ \A x \in Int : x >= -1 /\ x # Off => x \in Nat
  BY DEF Off
<1>3. ASSUME ct[k].tmre = 0
      PROVE  /\ ct[k].tmr \in Nat /\ ct[k].tmr >= T1 /\ ~reliable
             /\ ct[k].txc + 1 \in 1..Life /\ ct[k].txc \in Nat
             /\ Phase(ct[k].tmr, 0, ct[k].txc)
  <2>1. /\ ~reliable /\ ct[k].tmr # Off
        /\ Phase(ct[k].tmr, 0, ct[k].txc)
    BY <1>1, <1>2, <1>3 DEF ClientOK, Retransmits
  <2>2. ct[k].tmr \in Int /\ ct[k].tmr >= -1 /\ ct[k].txc \in Nat
    BY <1>1, Numbers
  <2>3. ct[k].tmr \in Nat
    BY <1>2, <2>1, <2>2
  <2> QED
    BY <2>1, <2>2, <2>3, PhaseDue
<1>4. ASSUME st["main"].tmre = 0
      PROVE  /\ st["main"].tmr \in Nat /\ st["main"].tmr >= T1
             /\ st["main"].txc + 1 \in 1..Life /\ st["main"].txc \in Nat
             /\ Phase(st["main"].tmr, 0, st["main"].txc)
  <2>1. /\ st["main"].tmr # Off
        /\ Phase(st["main"].tmr, 0, st["main"].txc)
    BY <1>1, <1>2, <1>4 DEF ServerOK, Retransmits
  <2>2. st["main"].tmr \in Int /\ st["main"].tmr >= -1 /\ st["main"].txc \in Nat
    BY <1>1, Numbers, TidFacts
  <2>3. st["main"].tmr \in Nat
    BY <1>2, <2>1, <2>2
  <2> QED
    BY <2>1, <2>2, <2>3, PhaseDue
<1> QED
  BY <1>3, <1>4
-----------------------------------------------------------------------------
(* The client.                                                             *)

LEMMA ClientTypes ==
    ASSUME Inv, UNCHANGED <<config, server>>, ct' \in [Tid -> Ctrans],
           queued' \in BOOLEAN, canceled' \in BOOLEAN,
           told' \in Code \cup {"none", "error"}, finals' \in Nat,
           NEW A, Carries(net', net, A)
    PROVE  Types'
<1>1. /\ DOMAIN net' \subseteq Msg
      /\ \A m \in DOMAIN net' : net'[m] \in 0..MaxDelay
  BY NetTypes
<1> QED
  BY <1>1 DEF Inv, Types, config, server

LEMMA RequestStep ==
    ASSUME Inv, sip_ctrans_request
    PROVE  Inv'
<1> DEFINE c == NewCtrans("main")
           A == {Req("main")}
<1>1. Types /\ ClientsOK /\ "main" \in Tid /\ "cancel" \in Tid
  BY TidFacts DEF Inv
<1>2. ct["main"].state = "none"
  BY GoneFacts DEF sip_ctrans_request
<1>3. /\ DOMAIN net = {} /\ st["main"].state = "none"
      /\ ct["cancel"].state = "none" /\ ~queued
  BY <1>2 DEF Inv, Unsent
<1>4. /\ UNCHANGED <<config, canceled, told, finals, server>>
      /\ ct' = [ct EXCEPT !["main"] = c]
      /\ \/ net' = Sent(net, Req("main")) /\ queued' = queued
         \/ reliable /\ queued' = TRUE /\ net' = net
  BY DEF sip_ctrans_request
<1>5. /\ c \in Ctrans /\ ClientOK(c, IsInvite("main"))
      /\ c.state \in {"CALLING", "TRYING"}
  BY <1>1, NewClient
<1> HIDE DEF c
<1>6. /\ ct' \in [Tid -> Ctrans] /\ ClientsOK' /\ ct'["main"] = c
      /\ ct'["cancel"] = ct["cancel"]
  BY <1>1, <1>4, <1>5, ClientsFrame, TidFacts
<1>7. Carries(net', net, A)
  <2>1. Carries(net, net, {}) /\ Req("main") \in Msg
    BY <1>1, CarrySame, MsgFacts
  <2>2. Carries(Sent(net, Req("main")), net, {} \cup {Req("main")})
    BY <2>1, CarrySent
  <2> QED
    BY <1>4, <2>1, <2>2 DEF Carries
<1>8. /\ told = "none" /\ finals = 0 /\ final = "none" /\ seen = 0
  BY <1>2, <1>3 DEF Inv, Outcome, Told, ServerOK, Answered
<1>9. Types'
  BY <1>1, <1>4, <1>6, <1>7, ClientTypes DEF Types
<1>10. ServerOK' /\ CancelOK' /\ (seen' > 1 => failed')
  BY <1>4, ServerSame
<1>11. Outcome'
  <2>1. /\ told' = told /\ finals' = finals /\ final' = final
        /\ ct'["main"].state \notin Told /\ ct["main"].state \notin Told
    BY <1>2, <1>4, <1>5, <1>6 DEF Told, server
  <2>2. Ack \notin A /\ \A x \in Code : Resp("main", x) \notin A
    BY MsgFacts
  <2> QED
    BY <1>7, <2>1, <2>2, OutcomeFrame
<1>12. Unsent'
  <2>1. st'["main"].state = "none"
    BY <1>3, <1>4 DEF server
  <2>2. queued' => reliable' /\ DOMAIN net' = {}
    BY <1>3, <1>4 DEF config
  <2> QED
    BY <1>3, <1>5, <1>6, <2>1, <2>2 DEF Unsent
<1>13. Outlives'
  BY <1>3, <1>4, <1>8 DEF Outlives, Answered, server
<1>14. Acks'
  BY <1>4, <1>8, AcksNot
<1> QED
  BY <1>6, <1>9, <1>10, <1>11, <1>12, <1>13, <1>14 DEF Inv

LEMMA Established ==
    ASSUME Inv, ConnEstablished
    PROVE  Inv'
<1> DEFINE A == {Req("main")}
<1>1. /\ Types /\ queued /\ ~queued' /\ net' = Sent(net, Req("main"))
      /\ UNCHANGED <<config, ct, canceled, told, finals, server>>
  BY DEF Inv, ConnEstablished
<1>2. /\ DOMAIN net = {} /\ st["main"].state = "none" /\ reliable
      /\ ct["main"].state \in {"CALLING", "TRYING"}
  BY <1>1 DEF Inv, Unsent
<1>3. Carries(net', net, A)
  <2>1. Carries(net, net, {}) /\ Req("main") \in Msg
    BY <1>1, CarrySame, MsgFacts, TidFacts
  <2>2. Carries(Sent(net, Req("main")), net, {} \cup {Req("main")})
    BY <2>1, CarrySent
  <2> QED
    BY <1>1, <2>2
<1>4. /\ told = "none" /\ final = "none" /\ seen = 0
  BY <1>2 DEF Inv, Outcome, Told, ServerOK, Answered
<1>5. Types'
  BY <1>1, <1>3, ClientTypes DEF Types, ConnEstablished
<1>6. ClientsOK' /\ ServerOK' /\ CancelOK' /\ (seen' > 1 => failed')
  BY <1>1, ServerSame, ClientsSame
<1>7. Outcome'
  <2>1. Ack \notin A /\ \A x \in Code : Resp("main", x) \notin A
    BY MsgFacts
  <2> QED
    BY <1>1, <1>3, <2>1, OutcomeFrame DEF server
<1>8. Unsent'
  BY <1>1, <1>2, UnsentFrame
<1>9. Outlives'
  BY <1>1, <1>2, <1>4 DEF Outlives, Answered, server
<1>10. Acks'
  BY <1>1, <1>4, AcksNot
<1> QED
  BY <1>5, <1>6, <1>7, <1>8, <1>9, <1>10 DEF Inv

(* A client transaction is freed.  For the request itself: its user has    *)
(* been told, or is told now.                                              *)
LEMMA Terminated ==
    ASSUME Inv, NEW k \in Tid, terminate(k),
           UNCHANGED <<config, canceled, server, net>>,
           queued' \in BOOLEAN, queued' => queued /\ k # "main",
           ct[k].state \notin {"none", "gone"},
           k = "main" /\ ct["main"].state = "COMPLETED" => ct["main"].tmr = 0
    PROVE  Inv'
<1>1. Types /\ Gone \in Ctrans /\ ClientOK(Gone, IsInvite(k)) /\ "main" \in Tid
  BY GoneFacts, GoneClient, TidFacts DEF Inv
<1>2. /\ ct' = [ct EXCEPT ![k] = Gone]
      /\ IF k = "main" /\ ct[k].state # "COMPLETED"
         THEN told' = "error" /\ finals' = finals + 1
         ELSE UNCHANGED <<told, finals>>
  BY DEF terminate
<1>3. /\ ct' \in [Tid -> Ctrans] /\ ClientsOK' /\ ct'[k] = Gone
      /\ \A l \in Tid : l # k => ct'[l] = ct[l]
  BY <1>1, <1>2, ClientsFrame
<1>4. Carries(net', net, {})
  BY <1>1, CarrySame
<1>5. Types'
  BY <1>1, <1>2, <1>3, <1>4, ClientTypes DEF Types
<1>6. ServerOK' /\ CancelOK' /\ (seen' > 1 => failed')
  BY ServerSame
<1>7. CASE k # "main"
  <2>1. /\ ct'["main"] = ct["main"] /\ told' = told /\ finals' = finals
        /\ k = "cancel"
    BY <1>1, <1>2, <1>3, <1>7, TidFacts
  <2>2. ~queued /\ ct["main"].state # "none"
    BY <2>1, Sent_already
  <2>3. Outcome'
    BY <1>4, <2>1, OutcomeFrame DEF server
  <2>4. Unsent'
    BY <2>1, <2>2, UnsentFrame
  <2>5. Outlives'
    BY <1>4, <2>1, OutlivesFrame DEF server, config
  <2>6. Acks'
    BY <1>4, <2>1, AcksFrame DEF server
  <2> QED
    BY <1>3, <1>5, <1>6, <2>3, <2>4, <2>5, <2>6 DEF Inv
<1>8. CASE k = "main"
  <2>1. ct'["main"] = Gone /\ ct'["main"].state = "gone" /\ ct'["main"].tmre = Off
    BY <1>3, <1>8, GoneFacts
  <2>2. Unsent'
    BY <1>8, <2>1, UnsentFrame
  <2>3. Outlives'
    BY <1>4, <2>1, OutlivesFrame DEF server, config
  <2>4. CASE ct["main"].state # "COMPLETED"
    <3>1. told' = "error" /\ finals' = finals + 1 /\ finals = 0
      BY <1>2, <1>8, <2>4 DEF Inv, Outcome, Told
    <3>2. Outcome'
      <4>1. net' = net /\ final' = final /\ "error" \notin Code
        BY DEF server, Code
      <4>2. \A c \in Code : Resp("main", c)' = Resp("main", c)
        BY DEF Resp
      <4>3. Ack' = Ack
        BY DEF Ack
      <4> QED
        BY <2>1, <3>1, <4>1, <4>2, <4>3 DEF Inv, Outcome, Told
    <3>3. Acks'
      BY <3>1, AcksNot
    <3> QED
      BY <1>3, <1>5, <1>6, <2>2, <2>3, <3>2, <3>3 DEF Inv
  <2>5. CASE ct["main"].state = "COMPLETED"
    <3>1. told' = told /\ finals' = finals /\ ct["main"].tmr = 0
      BY <1>2, <1>8, <2>5
    <3>2. Outcome'
      BY <1>4, <2>1, <2>5, <3>1, OutcomeFrame DEF server, Told
    <3>3. Acks'
      <4> SUFFICES ASSUME invite, ~reliable, told = "err"
                   PROVE  /\ Req("main") \notin DOMAIN net
                          /\ Resp("main", "err") \notin DOMAIN net
                          /\ st["main"].tmre # Off => st["main"].tmr = 0
        <5>1. /\ Req("main")' = Req("main")
              /\ Resp("main", "err")' = Resp("main", "err")
              /\ net' = net /\ st' = st /\ invite' = invite
              /\ reliable' = reliable
          BY DEF Req, Resp, server, config
        <5> QED
          BY <2>1, <3>1, <5>1 DEF Acks
      <4>1. /\ Req("main") \in DOMAIN net => net[Req("main")] + MaxDelay < 0
            /\ Resp("main", "err") \in DOMAIN net =>
                  net[Resp("main", "err")] < 0
            /\ st["main"].tmre # Off => st["main"].tmr <= 0
        BY <2>5, <3>1 DEF Inv, Acks
      <4>2. \A m \in DOMAIN net : ~(net[m] < 0) /\ ~(net[m] + MaxDelay < 0)
        BY <1>1, TimeFacts DEF Types
      <4>3. /\ st["main"].tmr \in Int /\ st["main"].tmr >= -1
            /\ st["main"].tmre # Off => st["main"].tmr # Off
        BY <1>1, Numbers, TidFacts DEF Inv, ServerOK, Retransmits
      <4>4. st["main"].tmre # Off => st["main"].tmr = 0
        BY <4>1, <4>3 DEF Off
      <4> QED
        BY <4>1, <4>2, <4>4
    <3> QED
      BY <1>3, <1>5, <1>6, <2>2, <2>3, <3>2, <3>3 DEF Inv
  <2> QED
    BY <2>4, <2>5
<1> QED
  BY <1>7, <1>8

LEMMA TransportHandler ==
    ASSUME Inv, transport_handler
    PROVE  Inv'
<1>1. /\ queued /\ queued' = FALSE /\ terminate("main")
      /\ UNCHANGED <<config, canceled, server, net>>
  BY DEF transport_handler
<1>2. ct["main"].state \in {"CALLING", "TRYING"}
  BY <1>1 DEF Inv, Unsent
<1> QED
  BY <1>1, <1>2, TidFacts, Terminated

LEMMA TmrHandler ==
    ASSUME Inv, NEW k \in Tid, tmr_handler(k)
    PROVE  Inv'
<1>1. /\ ct[k].tmr = 0 /\ terminate(k) /\ queued' = (queued /\ k # "main")
      /\ UNCHANGED <<config, canceled, server, net>>
  BY DEF tmr_handler
<1>2. ct[k].state \notin {"none", "gone"}
  BY <1>1 DEF Inv, ClientsOK, ClientOK, Off
<1>3. queued' \in BOOLEAN /\ (queued' => queued /\ k # "main")
  BY <1>1 DEF Inv, Types
<1>4. k = "main" /\ ct["main"].state = "COMPLETED" => ct["main"].tmr = 0
  BY <1>1
<1> QED
  BY <1>1, <1>2, <1>3, <1>4, Terminated

LEMMA Retransmit ==
    ASSUME Inv, NEW k \in Tid, NEW f \in BOOLEAN, retransmit_handler(k, f)
    PROVE  Inv'
<1>1. ct[k].tmre = 0 /\ UNCHANGED <<config, queued, canceled, server>>
  BY DEF retransmit_handler
<1>2. /\ ct[k].tmr \in Nat /\ ct[k].tmr >= T1 /\ ~reliable
      /\ ct[k].txc + 1 \in 1..Life /\ ct[k].txc \in Nat
      /\ Phase(ct[k].tmr, 0, ct[k].txc)
  BY <1>1, DueFacts
<1>3. /\ \/ ct[k].state \in {"TRYING", "PROCEEDING"} /\ ~IsInvite(k)
         \/ ct[k].state = "CALLING" /\ IsInvite(k)
  BY <1>1 DEF Inv, ClientsOK, ClientOK, Off
<1>4. Types /\ ct[k] \in Ctrans /\ "main" \in Tid
  BY TidFacts DEF Inv, Types
<1>5. CASE terminate(k) /\ net' = net
  <2>1. ct[k].state \notin {"none", "gone"}
        /\ (k = "main" /\ ct["main"].state = "COMPLETED" => ct["main"].tmr = 0)
    BY <1>3
  <2>2. k = "main" => ~queued
    BY <1>2, <2>1, Sent_already
  <2>3. queued' \in BOOLEAN /\ (queued' => queued /\ k # "main")
    BY <1>1, <1>4, <2>2 DEF Types
  <2> QED
    BY <1>1, <1>5, <2>1, <2>3, Terminated
<1>6. CASE /\ ct' = [ct EXCEPT ![k].tmre = timeout(k, ct[k].txc + 1),
                              ![k].txc = @ + 1]
           /\ net' = Sent(net, Req(k))
           /\ told' = told /\ finals' = finals
  <2> DEFINE e == timeout(k, ct[k].txc + 1)
             c == [ct[k] EXCEPT !.tmre = e, !.txc = @ + 1]
             A == {Req(k)}
  <2>1. Even(e)
    <3>1. CASE ct[k].state = "TRYING"
      <4>1. e = Min2(Shift(ct[k].txc + 1), T2)
        BY <3>1 DEF timeout
      <4> QED
        BY <1>2, <4>1, EvenFacts
    <3>2. CASE ct[k].state = "CALLING"
      <4>1. e = Shift(ct[k].txc + 1)
        BY <3>2 DEF timeout
      <4> QED
        BY <1>2, <4>1, EvenFacts
    <3>3. CASE ct[k].state = "PROCEEDING"
      <4>1. e = T2
        BY <3>3 DEF timeout
      <4> QED
        BY <4>1, EvenFacts
    <3> QED
      BY <1>3, <3>1, <3>2, <3>3
  <2> HIDE DEF e
  <2>2. e \in Nat /\ Phase(ct[k].tmr, e, ct[k].txc + 1)
    BY <1>2, <2>1, EvenFacts, PhaseNext
  <2>3. ct[k].txc + 1 \in 0..Life /\ e \in Nat \cup {-1}
    BY <1>2, <2>2
  <2>4. c \in Ctrans
    BY <1>4, <2>3 DEF Ctrans
  <2>5. /\ c.state = ct[k].state /\ c.tmr = ct[k].tmr /\ c.tmre = e
        /\ c.txc = ct[k].txc + 1
    BY <1>4 DEF Ctrans
  <2>6. ct' = [ct EXCEPT ![k] = c]
    BY <1>4, <1>6 DEF e, Types
  <2> HIDE DEF c
  <2>7. ClientOK(c, IsInvite(k))
    BY <1>2, <1>3, <2>2, <2>5 DEF ClientOK, Retransmits, Off
  <2>8. /\ ct' \in [Tid -> Ctrans] /\ ClientsOK' /\ ct'[k] = c
        /\ \A l \in Tid : l # k => ct'[l] = ct[l]
    BY <1>1, <2>4, <2>6, <2>7, ClientsFrame
  <2>9. Carries(net', net, A)
    <3>1. Carries(net, net, {}) /\ Req(k) \in Msg
      BY <1>4, CarrySame, MsgFacts
    <3>2. Carries(Sent(net, Req(k)), net, {} \cup {Req(k)})
      BY <3>1, CarrySent
    <3> QED
      BY <1>6, <3>2
  <2>10. Types'
    BY <1>1, <1>4, <1>6, <2>8, <2>9, ClientTypes DEF Types
  <2>11. ServerOK' /\ CancelOK' /\ (seen' > 1 => failed')
    BY <1>1, ServerSame
  <2>12. /\ ct'["main"].state = ct["main"].state
         /\ ct'["main"].tmr = ct["main"].tmr
    BY <1>4, <2>5, <2>8
  <2>13. Outcome'
    <3>1. Ack \notin A /\ \A x \in Code : Resp("main", x) \notin A
      BY MsgFacts
    <3> QED
      BY <1>1, <1>6, <2>9, <2>12, <3>1, OutcomeFrame DEF server
  <2>14. ~queued /\ ct["main"].state # "none"
    <3>1. k = "cancel" => ct["cancel"].state # "none"
      BY <1>3
    <3>2. k = "main" => ~reliable /\ ct["main"].state # "none"
      BY <1>2, <1>3
    <3> QED
      BY <3>1, <3>2, Sent_already, TidFacts
  <2>15. Unsent'
    BY <1>1, <2>12, <2>14, UnsentFrame
  <2>16. CASE k = "cancel"
    <3>1. ct'["main"] = ct["main"] /\ Req("main") \notin A
          /\ Resp("main", "err") \notin A
      BY <1>4, <2>8, <2>16, MsgFacts, TidFacts
    <3>2. Outlives'
      BY <1>1, <2>9, <3>1, OutlivesFrame DEF server, config
    <3>3. Acks'
      BY <1>1, <1>6, <2>9, <3>1, AcksFrame DEF server
    <3> QED
      BY <2>8, <2>10, <2>11, <2>13, <2>15, <3>2, <3>3 DEF Inv
  <2>17. CASE k = "main"
    <3>1. Outlives'
      <4>1. /\ ~reliable' /\ st' = st /\ final' = final
        BY <1>1, <1>2 DEF config, server
      <4>2. Req("main")' = Req("main")
        BY DEF Req
      <4>3. ASSUME st["main"].state \in Answered
            PROVE  /\ Req("main") \in DOMAIN net' =>
                         net'[Req("main")] < st["main"].tmr
                   /\ ct'["main"].tmr <= st["main"].tmr
        <5>1. ct["main"].tmr <= st["main"].tmr
          BY <1>1, <1>2, <2>17, <4>3 DEF Inv, Outlives, Off
        <5>2. st["main"].tmr \in Int /\ T1 \in Int /\ MaxDelay \in Int
              /\ MaxDelay < T1
          BY <1>4, Numbers, TimeFacts
        <5>3. MaxDelay < st["main"].tmr
          BY <1>2, <2>17, <5>1, <5>2
        <5>4. Req("main") \in DOMAIN net' => net'[Req("main")] \in 0..MaxDelay
          BY <2>9 DEF Carries
        <5>5. \A x \in 0..MaxDelay : x < st["main"].tmr
          BY <5>2, <5>3
        <5> QED
          BY <2>12, <5>1, <5>4, <5>5
      <4>4. ~(final # "none" /\ st["main"].state = "gone")
        <5> SUFFICES ASSUME final # "none" /\ st["main"].state = "gone"
                     PROVE  FALSE
          OBVIOUS
        <5>1. ct["main"].tmr = 0
          BY <1>1, <1>2, <2>17 DEF Inv, Outlives, Off
        <5> QED
          BY <1>2, <2>17, <5>1, TimeFacts
      <4> QED
        BY <4>1, <4>2, <4>3, <4>4 DEF Outlives
    <3>2. told' # "err"
      BY <1>3, <1>6, <2>17 DEF Inv, Outcome, Told
    <3>3. Acks'
      BY <3>2, AcksNot
    <3> QED
      BY <2>8, <2>10, <2>11, <2>13, <2>15, <3>1, <3>3 DEF Inv
  <2> QED
    BY <2>16, <2>17, TidFacts
<1> QED
  BY <1>5, <1>6 DEF retransmit_handler

(* The transaction gets a new lifetime; it retransmits no more.            *)
LEMMA CancelStep ==
    ASSUME Inv, sip_ctrans_cancel
    PROVE  Inv'
<1> DEFINE n == NewCtrans("cancel")
           c == [ct["main"] EXCEPT !.tmr = Lifetime]
           A == {Req("cancel")}
<1>1. /\ invite /\ ct["main"].state = "PROCEEDING" /\ canceled' = TRUE
      /\ net' = Sent(net, Req("cancel"))
      /\ UNCHANGED <<config, queued, told, finals, server>>
  BY DEF sip_ctrans_cancel
<1>2. Types /\ ct \in [Tid -> Ctrans] /\ ct["main"] \in Ctrans
      /\ "main" \in Tid /\ "cancel" \in Tid
  BY TidFacts DEF Inv, Types
<1>3. ct' = [ct EXCEPT !["main"] = c, !["cancel"] = n]
  BY <1>2 DEF sip_ctrans_cancel, Lifetime
<1>4. n \in Ctrans /\ ClientOK(n, IsInvite("cancel"))
  BY <1>2, NewClient
<1>5. c \in Ctrans
  BY <1>2, TimeFacts DEF Ctrans
<1>6. /\ c.state = "PROCEEDING" /\ c.tmr = Lifetime /\ c.tmre = ct["main"].tmre
  BY <1>1, <1>2 DEF Ctrans
<1> HIDE DEF n, c
<1>7. IsInvite("main") /\ ct["main"].tmre = Off
  BY <1>1, TidFacts DEF Inv, ClientsOK, ClientOK, IsInvite
<1>8. ClientOK(c, IsInvite("main"))
  BY <1>6, <1>7 DEF ClientOK
<1>9. /\ ct' \in [Tid -> Ctrans] /\ ct'["main"] = c /\ ct'["cancel"] = n
  BY <1>2, <1>3, <1>4, <1>5, TidFacts
<1>10. ClientsOK'
  <2>1. reliable' = reliable /\ invite' = invite
    BY <1>1 DEF config
  <2>2. \A l \in Tid : IsInvite(l)' = IsInvite(l)
    BY <2>1 DEF IsInvite
  <2>3. \A l \in Tid : ClientOK(ct'[l], IsInvite(l))
    BY <1>4, <1>8, <1>9, TidFacts
  <2> QED
    BY <2>1, <2>2, <2>3 DEF ClientsOK, ClientOK
<1>11. Carries(net', net, A)
  <2>1. Carries(net, net, {}) /\ Req("cancel") \in Msg
    BY <1>2, CarrySame, MsgFacts
  <2>2. Carries(Sent(net, Req("cancel")), net, {} \cup {Req("cancel")})
    BY <2>1, CarrySent
  <2> QED
    BY <1>1, <2>2
<1>12. Types'
  BY <1>1, <1>2, <1>9, <1>11, ClientTypes DEF Types
<1>13. ServerOK' /\ CancelOK' /\ (seen' > 1 => failed')
  BY <1>1, ServerSame
<1>14. /\ Ack \notin A /\ Req("main") \notin A
       /\ \A x \in Code : Resp("main", x) \notin A
  BY MsgFacts
<1>15. Outcome'
  BY <1>1, <1>6, <1>9, <1>11, <1>14, OutcomeFrame DEF server
<1>16. Unsent'
  <2>1. ~queued
    BY <1>1, Sent_already
  <2> QED
    BY <1>1, <1>6, <1>9, <2>1, UnsentFrame
<1>17. Outlives'
  BY <1>1, <1>6, <1>7, <1>9, <1>11, <1>14, OutlivesFrame DEF server, config
<1>18. Acks'
  <2>1. told' # "err"
    BY <1>1 DEF Inv, Outcome, Told
  <2> QED
    BY <2>1, AcksNot
<1> QED
  BY <1>10, <1>12, <1>13, <1>15, <1>16, <1>17, <1>18 DEF Inv

(* A message comes, or goes, that changes no transaction.                  *)
LEMMA Quiet ==
    ASSUME Inv, UNCHANGED <<config, client, server>>, DOMAIN net # {},
           NEW A, Carries(net', net, A), Req("main") \notin A,
           Resp("main", "err") \notin A,
           \A c \in Code : Resp("main", c) \in A => c = "1xx" \/ c = final,
           Ack \in A => ct["main"].state \in Told
    PROVE  Inv'
<1>1. Types /\ ct \in [Tid -> Ctrans]
  BY DEF Inv, Types
<1>2. /\ ct' = ct /\ queued' = queued /\ canceled' = canceled /\ told' = told
      /\ finals' = finals
      /\ st' = st /\ seen' = seen /\ final' = final /\ reliable' = reliable
  BY DEF client, server, config
<1>3. Types'
  BY <1>1, <1>2, ClientTypes DEF Types
<1>4. ClientsOK' /\ ServerOK' /\ CancelOK' /\ (seen' > 1 => failed')
  BY <1>2, ServerSame, ClientsSame
<1>5. Outcome'
  BY <1>2, OutcomeFrame
<1>6. Unsent'
  BY <1>2, Sent_already, UnsentFrame
<1>7. Outlives'
  BY <1>2, OutlivesFrame
<1>8. Acks'
  BY <1>2, AcksFrame
<1> QED
  BY <1>3, <1>4, <1>5, <1>6, <1>7, <1>8 DEF Inv

(* A provisional answer.                                                   *)
LEMMA Provisional ==
    ASSUME Inv, NEW k \in Tid, NEW c \in Ctrans, ct' = [ct EXCEPT ![k] = c],
           ClientOK(c, IsInvite(k)), c.state = "PROCEEDING",
           ct[k].state \in {"CALLING", "TRYING", "PROCEEDING"},
           c.tmre # Off => ct[k].tmre # Off /\ c.tmr = ct[k].tmr,
           UNCHANGED <<config, queued, canceled, told, finals, server>>,
           DOMAIN net # {}, Carries(net', net, {})
    PROVE  Inv'
<1>1. Types /\ "main" \in Tid
  BY TidFacts DEF Inv
<1>2. /\ ct' \in [Tid -> Ctrans] /\ ClientsOK' /\ ct'[k] = c
      /\ \A l \in Tid : l # k => ct'[l] = ct[l]
  BY ClientsFrame
<1>3. Types'
  BY <1>1, <1>2, ClientTypes DEF Types
<1>4. ServerOK' /\ CancelOK' /\ (seen' > 1 => failed')
  BY ServerSame
<1>5. ~queued /\ ct["main"].state # "none"
  BY Sent_already
<1>6. ct'["main"].state # "none" /\ (ct'["main"].state \in Told <=>
                                        ct["main"].state \in Told)
  BY <1>1, <1>2, <1>5 DEF Told
<1>7. Outcome'
  BY <1>6, OutcomeFrame DEF server
<1>8. Unsent'
  BY <1>5, <1>6, UnsentFrame
<1>9. Outlives'
  <2>1. ct'["main"].tmre # Off => /\ ct["main"].tmre # Off
                                  /\ ct'["main"].tmr = ct["main"].tmr
    BY <1>1, <1>2
  <2> QED
    BY <2>1, OutlivesFrame DEF server, config
<1>10. Acks'
  <2>1. CASE k = "main"
    <3>1. told' # "err"
      BY <2>1 DEF Inv, Outcome, Told
    <3> QED
      BY <3>1, AcksNot
  <2>2. CASE k # "main"
    <3>1. ct'["main"] = ct["main"]
      BY <1>1, <1>2, <2>2
    <3> QED
      BY <3>1, AcksFrame DEF server
  <2> QED
    BY <2>1, <2>2
<1> QED
  BY <1>2, <1>3, <1>4, <1>7, <1>8, <1>9, <1>10 DEF Inv

(* A final answer c, which leaves d of the transaction.  The wait of an    *)
(* INVITE transaction is longer than any answer takes to come again.       *)
LEMMA Final ==
    ASSUME Inv, NEW k \in Tid, NEW d \in Ctrans, ct' = [ct EXCEPT ![k] = d],
           ClientOK(d, IsInvite(k)), d.state \in Told, d.tmre = Off,
           ct[k].state \in {"CALLING", "TRYING", "PROCEEDING"},
           NEW c \in Code, c # "1xx", Tell(k, c), Resp(k, c) \in DOMAIN net,
           invite /\ ~reliable /\ c = "err" /\ k = "main" =>
              d.state = "COMPLETED" /\ d.tmr = Lifetime,
           UNCHANGED <<config, queued, canceled, server>>,
           NEW A, Carries(net', net, A), A \subseteq {Ack}, k # "main" => A = {}
    PROVE  Inv'
<1>1. Types /\ "main" \in Tid /\ DOMAIN net # {}
  BY TidFacts DEF Inv
<1>2. /\ ct' \in [Tid -> Ctrans] /\ ClientsOK' /\ ct'[k] = d
      /\ \A l \in Tid : l # k => ct'[l] = ct[l]
  BY ClientsFrame
<1>3. Types'
  BY <1>1, <1>2, ClientTypes DEF Types, Tell
<1>4. ServerOK' /\ CancelOK' /\ (seen' > 1 => failed')
  BY ServerSame
<1>5. ~queued /\ ct["main"].state # "none"
  BY <1>1, Sent_already
<1>6. Unsent'
  BY <1>1, <1>2, <1>5, UnsentFrame DEF Told
<1>7. /\ Req("main") \notin A /\ \A x \in Code : Resp("main", x) \notin A
  BY MsgFacts
<1>8. Outlives'
  <2>1. ct'["main"].tmre # Off => /\ ct["main"].tmre # Off
                                  /\ ct'["main"].tmr = ct["main"].tmr
    BY <1>1, <1>2
  <2> QED
    BY <1>7, <2>1, OutlivesFrame DEF server, config
<1>9. CASE k # "main"
  <2>1. ct'["main"] = ct["main"] /\ told' = told /\ finals' = finals
    BY <1>1, <1>2, <1>9 DEF Tell
  <2>2. Outcome'
    BY <1>7, <1>9, <2>1, OutcomeFrame DEF server
  <2>3. Acks'
    BY <1>7, <2>1, AcksFrame DEF server, Code
  <2> QED
    BY <1>2, <1>3, <1>4, <1>6, <1>8, <2>2, <2>3 DEF Inv
<1>10. CASE k = "main"
  <2>1. told' = c /\ finals' = finals + 1 /\ finals = 0 /\ c = final
        /\ ct'["main"] = d
    BY <1>2, <1>10 DEF Inv, Outcome, Told, Tell
  <2>2. Outcome'
    <3>1. final' = final /\ "1xx" # c /\ c # "none" /\ ct'["main"].state \in Told
      BY <2>1 DEF server, Code
    <3>2. \A x \in Code : Resp("main", x)' = Resp("main", x)
      BY DEF Resp
    <3>3. \A x \in Code : Resp("main", x) \in DOMAIN net' => x = "1xx" \/ x = final
      BY <1>7 DEF Inv, Outcome, Carries
    <3> QED
      BY <2>1, <3>1, <3>2, <3>3 DEF Outcome
  <2>3. ASSUME invite, ~reliable, c = "err" PROVE Acks'
    <3> DEFINE r == Req("main")
               e == Resp("main", "err")
    <3>1. d.state = "COMPLETED" /\ d.tmr = Lifetime
      BY <1>10, <2>3
    <3>2. r' = r /\ e' = e
      BY DEF Req, Resp
    <3>3. \A m \in DOMAIN net' : net'[m] \in 0..MaxDelay
      BY DEF Carries
    <3>4. \A x \in 0..MaxDelay : x < Lifetime /\ x + MaxDelay < Lifetime
      BY TimeFacts
    <3>5. st'["main"].tmr <= Lifetime
      BY <1>1, Numbers DEF server
    <3>6. ct'["main"].state = "COMPLETED" /\ ct'["main"].tmr = Lifetime
      BY <2>1, <3>1
    <3>7. /\ r \in DOMAIN net' => net'[r] + MaxDelay < Lifetime
          /\ e \in DOMAIN net' => net'[e] < Lifetime
      BY <3>3, <3>4
    <3> HIDE DEF r, e
    <3>8. "gone" # "COMPLETED"
      OBVIOUS
    <3> SUFFICES /\ r' \in DOMAIN net' => net'[r'] + MaxDelay < Lifetime
                 /\ e' \in DOMAIN net' => net'[e'] < Lifetime
                 /\ st'["main"].tmre # Off => st'["main"].tmr <= Lifetime
      BY <3>6, <3>8 DEF Acks, r, e
    <3> QED
      BY <3>2, <3>5, <3>7
  <2>4. Acks'
    <3>1. CASE ~(invite /\ ~reliable /\ c = "err")
      <4>1. told' # "err" \/ ~invite' \/ reliable'
        BY <2>1, <3>1 DEF config
      <4> QED
        BY <4>1, AcksNot
    <3> QED
      BY <2>3, <3>1
  <2> QED
    BY <1>2, <1>3, <1>4, <1>6, <1>8, <2>2, <2>4 DEF Inv
<1> QED
  BY <1>9, <1>10

(* What Complete leaves of a transaction.                                  *)
Left(w) == IF reliable THEN Gone
           ELSE [Idle EXCEPT !.state = "COMPLETED", !.tmr = w]

LEMMA LeftFacts ==
    ASSUME NEW w \in Nat, w <= Lifetime, NEW i
    PROVE  /\ Left(w) \in Ctrans /\ ClientOK(Left(w), i)
           /\ Left(w).state \in Told /\ Left(w).tmre = Off
           /\ ~reliable => Left(w).state = "COMPLETED" /\ Left(w).tmr = w
<1>1. CASE reliable
  <2>1. Left(w) = Gone
    BY <1>1 DEF Left
  <2> QED
    BY <1>1, <2>1, GoneFacts, GoneClient DEF Told
<1>2. CASE ~reliable
  <2> DEFINE d == [state |-> "COMPLETED", tmr |-> w, tmre |-> Off, txc |-> 0,
                   mb |-> "none"]
  <2>1. Left(w) = d
    BY <1>2 DEF Left, Idle
  <2>2. /\ w \in -1..Lifetime /\ Off \in Nat \cup {-1} /\ 0 \in 0..Life
        /\ w # Off
    BY TimeFacts, TimersAssumption DEF Off
  <2>3. d \in Ctrans
    BY <2>2 DEF Ctrans
  <2>4. d.state = "COMPLETED" /\ d.tmr = w /\ d.tmre = Off
    OBVIOUS
  <2> HIDE DEF d
  <2>5. ClientOK(d, i)
    BY <2>2, <2>4 DEF ClientOK
  <2> QED
    BY <2>1, <2>3, <2>4, <2>5 DEF Told
<1> QED
  BY <1>1, <1>2

LEMMA InviteResponse ==
    ASSUME Inv, NEW c \in Code, Resp("main", c) \in DOMAIN net,
           NEW n, Carries(n, net, {}), invite, invite_response(c, n),
           UNCHANGED <<config, queued, canceled, server>>
    PROVE  Inv'
<1>1. /\ Types /\ ct \in [Tid -> Ctrans] /\ ct["main"] \in Ctrans
      /\ "main" \in Tid /\ IsInvite("main") /\ DOMAIN net # {}
  BY TidFacts DEF Inv, Types, IsInvite
<1>2. Carries(Sent(n, Ack), net, {Ack})
  <2>1. Carries(Sent(n, Ack), net, {} \cup {Ack})
    BY CarrySent, MsgFacts
  <2> QED
    BY <2>1
<1>3. /\ Req("main") \notin {Ack}
      /\ \A x \in Code : Resp("main", x) \notin {Ack}
      /\ "err" \in Code
  BY MsgFacts DEF Code
<1>4. CASE /\ ct["main"].state = "CALLING"
           /\ ct' = [ct EXCEPT !["main"].state = "PROCEEDING",
                               !["main"].tmr = Off, !["main"].tmre = Off]
           /\ net' = n /\ UNCHANGED <<told, finals>>
  <2> DEFINE d == [ct["main"] EXCEPT !.state = "PROCEEDING", !.tmr = Off,
                                     !.tmre = Off]
  <2>1. -1 \in -1..Lifetime /\ -1 \in Nat \cup {-1}
    BY TimeFacts
  <2>2. d \in Ctrans
    BY <1>1, <2>1 DEF Ctrans, Off
  <2>3. d.state = "PROCEEDING" /\ d.tmr = Off /\ d.tmre = Off
    BY <1>1 DEF Ctrans
  <2>4. ct' = [ct EXCEPT !["main"] = d]
    BY <1>1, <1>4
  <2> HIDE DEF d
  <2>5. ClientOK(d, IsInvite("main"))
    BY <2>3 DEF ClientOK
  <2> QED
    BY <1>1, <1>4, <2>2, <2>3, <2>4, <2>5, Provisional
<1>5. CASE /\ ct["main"].state \in {"CALLING", "PROCEEDING"} /\ c = "2xx"
           /\ Tell("main", c) /\ ct' = [ct EXCEPT !["main"] = Gone]
           /\ net' = n
  <2>1. /\ Gone \in Ctrans /\ ClientOK(Gone, IsInvite("main"))
        /\ Gone.state \in Told /\ Gone.tmre = Off
    BY GoneFacts, GoneClient DEF Told
  <2> DEFINE A == {}
  <2>2. /\ c # "1xx" /\ c # "err" /\ Carries(net', net, A)
        /\ ct["main"].state \in {"CALLING", "TRYING", "PROCEEDING"}
        /\ A \subseteq {Ack}
    BY <1>5
  <2> HIDE DEF A
  <2> QED
    BY <1>1, <1>5, <2>1, <2>2, Final
<1>6. CASE /\ ct["main"].state \in {"CALLING", "PROCEEDING"} /\ c = "err"
           /\ Complete("main", c, COMPLETE_WAIT)
           /\ net' = Sent(n, Ack)
  <2> DEFINE d == Left(Lifetime)
  <2>1. ct' = [ct EXCEPT !["main"] = d] /\ Tell("main", c)
    BY <1>6 DEF Complete, COMPLETE_WAIT, Lifetime, Left
  <2>2. Lifetime \in Nat /\ Lifetime <= Lifetime
    BY TimeFacts
  <2>3. /\ d \in Ctrans /\ ClientOK(d, IsInvite("main")) /\ d.state \in Told
        /\ d.tmre = Off
        /\ ~reliable => d.state = "COMPLETED" /\ d.tmr = Lifetime
    BY <2>2, LeftFacts
  <2>4. c # "1xx"
    BY <1>6
  <2> HIDE DEF d
  <2>5. Carries(net', net, {Ack}) /\ ct["main"].state \in {"CALLING", "TRYING", "PROCEEDING"}
    BY <1>2, <1>6
  <2> QED
    BY <1>1, <2>1, <2>3, <2>4, <2>5, Final
<1>7. CASE /\ ct["main"].state = "COMPLETED" /\ net' = Sent(n, Ack)
           /\ UNCHANGED <<ct, told, finals>>
  <2>1. UNCHANGED <<config, client, server>>
    BY <1>7 DEF client
  <2>2. Ack \in {Ack} => ct["main"].state \in Told
    BY <1>7 DEF Told
  <2> QED
    BY <1>1, <1>2, <1>3, <1>7, <2>1, <2>2, Quiet
<1>8. CASE net' = n /\ UNCHANGED <<ct, told, finals>>
  <2>1. UNCHANGED <<config, client, server>>
    BY <1>8 DEF client
  <2> QED
    BY <1>1, <1>8, <2>1, Quiet
<1> QED
  BY <1>4, <1>5, <1>6, <1>7, <1>8 DEF invite_response

LEMMA ResponseHandler ==
    ASSUME Inv, NEW k \in Tid, NEW c \in Code, response_handler(k, c)
    PROVE  Inv'
<1>1. PICK n \in Received(Resp(k, c)) :
       \/ /\ Alive(ct[k]) /\ IsInvite(k)
          /\ invite_response(c, n)
       \/ /\ ~IsInvite(k) /\ ct[k].state \in {"TRYING", "PROCEEDING"}
          /\ \/ /\ c = "1xx"
                /\ ct' = [ct EXCEPT ![k].state = "PROCEEDING"]
                /\ UNCHANGED <<told, finals>>
             \/ c # "1xx" /\ Complete(k, c, T4)
          /\ net' = n
       \/ /\ ~Alive(ct[k]) \/ (~IsInvite(k) /\ ct[k].state = "COMPLETED")
          /\ net' = n
          /\ UNCHANGED <<ct, told, finals>>
  BY DEF response_handler
<1>2. /\ Resp(k, c) \in DOMAIN net /\ DOMAIN net # {}
      /\ UNCHANGED <<config, queued, canceled, server>>
  BY DEF response_handler
<1>3. Types /\ ct \in [Tid -> Ctrans] /\ ct[k] \in Ctrans
      /\ ClientOK(ct[k], IsInvite(k))
  BY DEF Inv, Types, ClientsOK
<1>4. Carries(n, net, {})
  BY <1>3, CarryReceived
<1>5. CASE IsInvite(k) /\ invite_response(c, n)
  <2>1. invite /\ k = "main"
    BY <1>5 DEF IsInvite
  <2>2. Resp("main", c) \in DOMAIN net
    BY <1>2, <2>1
  <2> QED
    BY <1>2, <1>4, <1>5, <2>1, <2>2, InviteResponse
<1>6. CASE /\ ~IsInvite(k) /\ ct[k].state \in {"TRYING", "PROCEEDING"}
           /\ ct' = [ct EXCEPT ![k].state = "PROCEEDING"]
           /\ UNCHANGED <<told, finals>> /\ net' = n
  <2> DEFINE d == [ct[k] EXCEPT !.state = "PROCEEDING"]
  <2>1. d \in Ctrans
    BY <1>3 DEF Ctrans
  <2>2. /\ d.state = "PROCEEDING" /\ d.tmr = ct[k].tmr /\ d.tmre = ct[k].tmre
        /\ d.txc = ct[k].txc
    BY <1>3 DEF Ctrans
  <2>3. ct' = [ct EXCEPT ![k] = d]
    BY <1>3, <1>6
  <2> HIDE DEF d
  <2>4. ClientOK(d, IsInvite(k))
    BY <1>3, <1>6, <2>2 DEF ClientOK, Retransmits
  <2> QED
    BY <1>2, <1>4, <1>6, <2>1, <2>2, <2>3, <2>4, Provisional
<1>7. CASE /\ ~IsInvite(k) /\ ct[k].state \in {"TRYING", "PROCEEDING"}
           /\ c # "1xx" /\ Complete(k, c, T4) /\ net' = n
  <2> DEFINE d == Left(T4)
  <2>1. ct' = [ct EXCEPT ![k] = d] /\ Tell(k, c)
    BY <1>7 DEF Complete, Left
  <2>2. /\ d \in Ctrans /\ ClientOK(d, IsInvite(k)) /\ d.state \in Told
        /\ d.tmre = Off
    BY TimeFacts, LeftFacts
  <2> HIDE DEF d
  <2>3. ~(invite /\ k = "main")
    BY <1>7 DEF IsInvite
  <2> DEFINE A == {}
  <2>4. /\ ct[k].state \in {"CALLING", "TRYING", "PROCEEDING"}
        /\ A \subseteq {Ack} /\ Carries(net', net, A) /\ c # "1xx" /\ A = {}
    BY <1>4, <1>7
  <2> HIDE DEF A
  <2> QED
    BY <1>2, <2>1, <2>2, <2>3, <2>4, Final
<1>8. CASE net' = n /\ UNCHANGED <<ct, told, finals>>
  <2>1. UNCHANGED <<config, client, server>>
    BY <1>2, <1>8 DEF client
  <2> QED
    BY <1>2, <1>4, <1>8, <2>1, Quiet
<1> QED
  BY <1>1, <1>5, <1>6, <1>7, <1>8
-----------------------------------------------------------------------------
(* The server.                                                             *)

LEMMA ServerTypes ==
    ASSUME Inv, UNCHANGED <<config, client>>, st' \in [Tid -> Strans],
           seen' \in Nat, final' \in Code \cup {"none"}, failed' \in BOOLEAN,
           NEW A, Carries(net', net, A)
    PROVE  Types'
<1>1. /\ DOMAIN net' \subseteq Msg
      /\ \A m \in DOMAIN net' : net'[m] \in 0..MaxDelay
  BY NetTypes
<1> QED
  BY <1>1 DEF Inv, Types, config, client

LEMMA StransFrame ==
    ASSUME Inv, NEW k \in Tid, NEW s \in Strans, st' = [st EXCEPT ![k] = s]
    PROVE  /\ st' \in [Tid -> Strans] /\ st'[k] = s
           /\ \A l \in Tid : l # k => st'[l] = st[l]
  BY DEF Inv, Types

(* What the request's client transaction and its user see of a step of the *)
(* server that leaves the final answer as it is.                           *)
LEMMA ServerFrame ==
    ASSUME Inv, UNCHANGED <<config, client>>, final' = final,
           NEW A, Carries(net', net, A), Ack \notin A,
           \A c \in Code : Resp("main", c) \in A => c = "1xx" \/ c = final
    PROVE  ClientsOK' /\ Outcome'
<1>1. ct' = ct /\ told' = told /\ finals' = finals
  BY DEF client
<1>2. ClientsOK'
  BY <1>1, ClientsSame
<1>3. Outcome'
  BY <1>1, OutcomeFrame
<1> QED
  BY <1>2, <1>3

(* The transaction of the CANCEL becomes s.                                *)
LEMMA CancelFrame ==
    ASSUME Inv, UNCHANGED <<config, client, seen, final, failed>>, Unsent',
           NEW s \in Strans, st' = [st EXCEPT !["cancel"] = s],
           s.state \in {"COMPLETED", "gone"}, s.tmre = Off,
           s.state = "COMPLETED" => s.mb \in Code,
           s.state # "COMPLETED" => s.tmr = Off,
           NEW A, Carries(net', net, A), Ack \notin A, Req("main") \notin A,
           \A c \in Code : Resp("main", c) \notin A
    PROVE  Inv'
<1>1. Types /\ ServerOK /\ (seen > 1 => failed) /\ "main" \in Tid /\ "err" \in Code
  BY TidFacts DEF Inv, Code
<1>2. st' \in [Tid -> Strans] /\ st'["cancel"] = s /\ st'["main"] = st["main"]
  BY StransFrame, TidFacts
<1>3. Types'
  BY <1>1, <1>2, ServerTypes DEF Types
<1>4. ClientsOK' /\ Outcome'
  BY ServerFrame
<1>5. ServerOK'
  BY <1>1, <1>2 DEF ServerOK, config, Retransmits
<1>6. CancelOK'
  BY <1>2 DEF CancelOK
<1>7. Outlives'
  BY <1>2, OutlivesFrame DEF client, config
<1>8. Acks'
  BY <1>1, <1>2, AcksFrame DEF client
<1> QED
  BY <1>1, <1>3, <1>4, <1>5, <1>6, <1>7, <1>8 DEF Inv

(* The TU has answered c, finally: the server transaction is to be there   *)
(* for a lifetime, the client's not longer.                                *)
LEMMA FinalReply ==
    ASSUME Inv, UNCHANGED <<config, client, seen, failed>>,
           st["main"].state \in {"TRYING", "PROCEEDING"},
           NEW c \in Code, c # "1xx", st' \in [Tid -> Strans], CancelOK',
           st'["main"] = Replied("main", st["main"], c), final' = c,
           NEW A, Carries(net', net, A), Ack \notin A, Req("main") \notin A,
           \A x \in Code : Resp("main", x) \in A => x = c
    PROVE  Inv'
<1> DEFINE r == Replied("main", st["main"], c)
<1>1. /\ Types /\ "main" \in Tid /\ st["main"] \in Strans /\ "none" \notin Code
      /\ final = "none" /\ (seen > 1 => failed)
  BY TidFacts DEF Inv, Types, ServerOK, Answered, Code
<1>2. /\ r \in Strans
      /\ \/ reliable /\ ~IsInvite("main") /\ r = Gone
         \/ /\ r.state \in {"ACCEPTED", "COMPLETED"} /\ r.mb = c
            /\ r.tmr = Lifetime
            /\ r.tmre # Off => /\ r.state = "COMPLETED" /\ IsInvite("main")
                               /\ c = "err" /\ ~reliable
                               /\ Phase(r.tmr, r.tmre, r.txc)
  BY <1>1, RepliedFacts
<1> HIDE DEF r
<1>3. st'["main"] = r
  BY DEF r
<1>4. Types'
  BY <1>1, ServerTypes DEF Types
<1>5. ct' = ct /\ told' = told /\ finals' = finals /\ queued' = queued
      /\ reliable' = reliable /\ invite' = invite
  BY DEF client, config
<1>6. ClientsOK'
  BY <1>5, ClientsSame
<1>7. told \notin Code
  BY <1>1 DEF Inv, Outcome
<1>8. ServerOK'
  <2>1. /\ seen # 0 /\ (IsInvite("main") => invite) /\ Lifetime # Off /\ c # "none"
    BY <1>1, TimeFacts DEF Inv, ServerOK, IsInvite, Off
  <2>2. CASE r = Gone
    BY <1>3, <2>1, <2>2, GoneFacts DEF ServerOK, Answered
  <2>3. CASE /\ r.state \in {"ACCEPTED", "COMPLETED"} /\ r.mb = c
             /\ r.tmr = Lifetime
             /\ r.tmre # Off => /\ r.state = "COMPLETED" /\ IsInvite("main")
                                /\ c = "err" /\ ~reliable
                                /\ Phase(r.tmr, r.tmre, r.txc)
    BY <1>3, <1>5, <2>1, <2>3 DEF ServerOK, Answered, Retransmits
  <2> QED
    BY <1>2, <2>2, <2>3
<1>9. Outcome'
  <2>1. \A x \in Code : Resp("main", x)' = Resp("main", x)
    BY DEF Resp
  <2>2. Ack' = Ack
    BY DEF Ack
  <2>3. \A x \in Code : Resp("main", x) \in DOMAIN net' => x = "1xx" \/ x = c
    BY <1>1 DEF Inv, Outcome, Carries
  <2>4. Ack \in DOMAIN net' => ct["main"].state \in Told
    BY DEF Inv, Outcome, Carries
  <2>5. /\ finals = IF ct["main"].state \in Told THEN 1 ELSE 0
        /\ told # "none" <=> ct["main"].state \in Told
        /\ told # "1xx"
    BY DEF Inv, Outcome
  <2> QED
    BY <1>5, <1>7, <2>1, <2>2, <2>3, <2>4, <2>5 DEF Outcome
<1>10. Unsent'
  <2>1. ~queued /\ ct["main"].state # "none"
    BY Sent_already
  <2> QED
    BY <1>5, <2>1, UnsentFrame
<1>11. Outlives'
  <2>1. Req("main")' = Req("main")
    BY DEF Req
  <2>2. Req("main") \in DOMAIN net' => Req("main") \in DOMAIN net
    BY DEF Carries
  <2>3. \A m \in DOMAIN net' : net'[m] < Lifetime
    <3>1. \A x \in 0..MaxDelay : x < Lifetime
      BY TimeFacts
    <3> QED
      BY <3>1 DEF Carries
  <2>4. ct["main"].tmr <= Lifetime
    BY <1>1, Numbers
  <2>5. ~reliable => r.state \in {"ACCEPTED", "COMPLETED"} /\ r.tmr = Lifetime
    BY <1>2
  <2>6. reliable /\ seen > 0 => Req("main") \notin DOMAIN net
    BY DEF Inv, Outlives
  <2> QED
    BY <1>3, <1>5, <2>1, <2>2, <2>3, <2>4, <2>5, <2>6 DEF Outlives
<1>12. Acks'
  <2>1. told' # "err"
    BY <1>5, <1>7 DEF Code
  <2> QED
    BY <2>1, AcksNot
<1> QED
  BY <1>1, <1>4, <1>6, <1>8, <1>9, <1>10, <1>11, <1>12 DEF Inv

LEMMA StransReply ==
    ASSUME Inv, NEW c \in Code, NEW f \in BOOLEAN, sip_strans_reply(c, f)
    PROVE  Inv'
<1>1. /\ st["main"].state \in {"TRYING", "PROCEEDING"}
      /\ UNCHANGED <<config, client, seen>>
  BY DEF sip_strans_reply
<1>2. /\ Types /\ ServerOK /\ CancelOK /\ "main" \in Tid /\ st["main"] \in Strans
      /\ final = "none" /\ seen # 0 /\ st["main"].tmr = Off
      /\ st["main"].tmre = Off
  BY <1>1, TidFacts DEF Inv, Types, ServerOK, Answered
<1>3. ct' = ct /\ told' = told /\ queued' = queued /\ reliable' = reliable
      /\ invite' = invite /\ seen' = seen
  BY <1>1 DEF client, config
<1>4. ~queued /\ ct["main"].state # "none"
  BY <1>1, Sent_already
<1>5. Unsent'
  BY <1>3, <1>4, UnsentFrame
<1>6. Carries(net, net, {})
  BY <1>2, CarrySame
<1>7. CASE /\ st' = [st EXCEPT !["main"] = Gone] /\ failed' = TRUE
           /\ UNCHANGED <<net, final>>
  <2>1. /\ st' \in [Tid -> Strans] /\ st'["main"] = Gone
        /\ st'["cancel"] = st["cancel"]
    BY <1>2, <1>7, StransFrame, GoneFacts, TidFacts
  <2>2. Types'
    BY <1>1, <1>2, <1>6, <1>7, <2>1, ServerTypes DEF Types
  <2>3. ClientsOK' /\ Outcome'
    BY <1>1, <1>6, <1>7, ServerFrame
  <2>4. ServerOK' /\ (seen' > 1 => failed')
    BY <1>2, <1>3, <1>7, <2>1, GoneFacts DEF ServerOK, Answered
  <2>5. CancelOK'
    BY <1>2, <2>1 DEF CancelOK
  <2>6. Outlives'
    <3>1. Req("main")' = Req("main")
      BY DEF Req
    <3>2. reliable /\ seen > 0 => Req("main") \notin DOMAIN net
      BY DEF Inv, Outlives
    <3> QED
      BY <1>2, <1>3, <1>7, <2>1, <3>1, <3>2, GoneFacts DEF Outlives, Answered
  <2>7. Acks'
    BY <1>1, <1>3, <1>6, <1>7, <2>1, GoneFacts, AcksFrame
  <2> QED
    BY <1>5, <2>2, <2>3, <2>4, <2>5, <2>6, <2>7 DEF Inv
<1> DEFINE r == Replied("main", st["main"], c)
           A == {Resp("main", c)}
<1>8. r \in Strans
  BY <1>2, RepliedFacts
<1>9. CASE /\ st' = [st EXCEPT !["main"] = r]
           /\ net' = Sent(net, Resp("main", c))
           /\ final' = IF c = "1xx" THEN final ELSE c
           /\ UNCHANGED failed
  <2>1. Carries(net', net, A)
    <3>1. Carries(Sent(net, Resp("main", c)), net, {} \cup {Resp("main", c)})
      BY <1>2, <1>6, CarrySent, MsgFacts
    <3> QED
      BY <1>9, <3>1
  <2>2. /\ Ack \notin A /\ Req("main") \notin A
        /\ \A x \in Code : Resp("main", x) \in A => x = c
    BY MsgFacts
  <2>3. /\ st' \in [Tid -> Strans] /\ st'["main"] = r
        /\ st'["cancel"] = st["cancel"]
    BY <1>2, <1>8, <1>9, StransFrame, TidFacts
  <2>4. CancelOK'
    BY <1>2, <2>3 DEF CancelOK
  <2>5. CASE c # "1xx"
    BY <1>1, <1>9, <2>1, <2>2, <2>3, <2>4, <2>5, FinalReply
  <2>6. CASE c = "1xx"
    <3>1. /\ r.state = "PROCEEDING" /\ r.mb = "1xx" /\ r.tmr = Off
          /\ r.tmre = Off
      BY <1>2, <2>6, RepliedFacts
    <3> HIDE DEF r
    <3>2. final' = final /\ failed' = failed /\ (seen > 1 => failed)
      BY <1>9, <2>6 DEF Inv
    <3>3. Types'
      BY <1>1, <1>2, <2>1, <2>3, <3>2, ServerTypes DEF Types
    <3>4. ClientsOK' /\ Outcome'
      BY <1>1, <2>1, <2>2, <2>6, <3>2, ServerFrame
    <3>5. ServerOK' /\ (seen' > 1 => failed')
      BY <1>2, <1>3, <2>3, <3>1, <3>2 DEF ServerOK, Answered
    <3>6. Outlives'
      <4>1. Req("main")' = Req("main")
        BY DEF Req
      <4>2. reliable /\ seen > 0 => Req("main") \notin DOMAIN net'
        BY <2>1, <2>2 DEF Inv, Outlives, Carries
      <4> QED
        BY <1>2, <1>3, <2>3, <3>1, <3>2, <4>1, <4>2 DEF Outlives, Answered
    <3>7. Acks'
      <4>1. Resp("main", "err") \notin A
        BY <2>2, <2>6 DEF Code
      <4> QED
        BY <1>1, <1>3, <2>1, <2>2, <2>3, <3>1, <4>1, AcksFrame
    <3> QED
      BY <1>5, <2>4, <3>3, <3>4, <3>5, <3>6, <3>7 DEF Inv
  <2> QED
    BY <2>5, <2>6
<1> QED
  BY <1>7, <1>9 DEF sip_strans_reply

LEMMA NewStransFacts ==
    /\ NewStrans \in Strans /\ NewStrans.state = "TRYING"
    /\ NewStrans.tmr = Off /\ NewStrans.tmre = Off
<1>1. NewStrans = [state |-> "TRYING", tmr |-> Off, tmre |-> Off, txc |-> 0,
                   mb |-> "none"]
  BY DEF NewStrans, Idle
<1>2. Off \in -1..Lifetime /\ Off \in Nat \cup {-1} /\ 0 \in 0..Life
  BY TimeFacts, TimersAssumption DEF Off
<1>3. NewStrans \in Strans
  BY <1>1, <1>2 DEF Strans
<1> QED
  BY <1>1, <1>3

(* The answer to a CANCEL.                                                 *)
LEMMA CancelReplied ==
    ASSUME Types, NEW c \in Code, c # "1xx"
    PROVE  LET s == Replied("cancel", NewStrans, c) IN
           /\ s \in Strans /\ s.state \in {"COMPLETED", "gone"} /\ s.tmre = Off
           /\ s.state = "COMPLETED" => s.mb \in Code
           /\ s.state # "COMPLETED" => s.tmr = Off
<1> DEFINE s == Replied("cancel", NewStrans, c)
<1>1. ~IsInvite("cancel") /\ "cancel" \in Tid
  BY TidFacts DEF IsInvite
<1>2. /\ s \in Strans
      /\ s = Gone \/ (s.state = "COMPLETED" /\ s.mb = c /\ s.tmre = Off)
  BY <1>1, NewStransFacts, RepliedFacts
<1> HIDE DEF s
<1>3. CASE s = Gone
  BY <1>2, <1>3, GoneFacts DEF s
<1>4. CASE s.state = "COMPLETED" /\ s.mb = c /\ s.tmre = Off
  BY <1>2, <1>4 DEF s
<1> QED
  BY <1>2, <1>3, <1>4

LEMMA CancelHandler ==
    ASSUME Inv, NEW n, Carries(n, net, {}), cancel_handler(n),
           DOMAIN net # {}, UNCHANGED <<config, client, seen, failed>>
    PROVE  Inv'
<1>1. /\ Types /\ st \in [Tid -> Strans] /\ st["main"] \in Strans
      /\ "main" \in Tid /\ "cancel" \in Tid /\ "2xx" \in Code /\ "err" \in Code
      /\ "2xx" # "1xx" /\ "err" # "1xx"
  BY TidFacts DEF Inv, Types, Code
<1>2. ~queued /\ ct["main"].state # "none" /\ ct' = ct /\ queued' = queued
  BY Sent_already DEF client
<1>3. Unsent'
  BY <1>2, UnsentFrame
<1>4. ASSUME NEW c \in Code, c # "1xx",
             st' = [st EXCEPT !["cancel"] = Replied("cancel", NewStrans, c)],
             net' = Sent(n, Resp("cancel", c)), final' = final
      PROVE  Inv'
  <2> DEFINE s == Replied("cancel", NewStrans, c)
             A == {Resp("cancel", c)}
  <2>1. /\ s \in Strans /\ s.state \in {"COMPLETED", "gone"} /\ s.tmre = Off
        /\ s.state = "COMPLETED" => s.mb \in Code
        /\ s.state # "COMPLETED" => s.tmr = Off
    BY <1>1, <1>4, CancelReplied
  <2>2. Carries(net', net, A)
    <3>1. Carries(Sent(n, Resp("cancel", c)), net, {} \cup {Resp("cancel", c)})
      BY <1>1, CarrySent, MsgFacts
    <3> QED
      BY <1>4, <3>1
  <2>3. /\ Ack \notin A /\ Req("main") \notin A
        /\ \A x \in Code : Resp("main", x) \notin A
    BY MsgFacts, TidFacts
  <2>4. st' = [st EXCEPT !["cancel"] = s]
    BY <1>4
  <2> HIDE DEF s, A
  <2> QED
    BY <1>3, <1>4, <2>1, <2>2, <2>3, <2>4, CancelFrame
<1>5. CASE /\ st["main"].state \in {"TRYING", "PROCEEDING"}
           /\ st' = [main |-> Replied("main", st["main"], "err"),
                     cancel |-> Replied("cancel", NewStrans, "2xx")]
           /\ net' = Sent(Sent(n, Resp("cancel", "2xx")), Resp("main", "err"))
           /\ final' = "err"
  <2> DEFINE r == Replied("main", st["main"], "err")
             s == Replied("cancel", NewStrans, "2xx")
             A == {Resp("cancel", "2xx"), Resp("main", "err")}
  <2>1. /\ s \in Strans /\ s.state \in {"COMPLETED", "gone"} /\ s.tmre = Off
        /\ s.state = "COMPLETED" => s.mb \in Code
        /\ s.state # "COMPLETED" => s.tmr = Off
    BY <1>1, CancelReplied
  <2>2. r \in Strans
    BY <1>1, RepliedFacts
  <2>3. st' = [main |-> r, cancel |-> s]
    BY <1>5
  <2> HIDE DEF r, s
  <2>4. st' \in [Tid -> Strans] /\ st'["main"] = r /\ st'["cancel"] = s
    BY <2>1, <2>2, <2>3 DEF Tid
  <2>5. CancelOK'
    BY <2>1, <2>4 DEF CancelOK
  <2>6. Carries(net', net, A)
    <3> DEFINE h == Sent(n, Resp("cancel", "2xx"))
    <3>1. Carries(h, net, {} \cup {Resp("cancel", "2xx")})
      BY <1>1, CarrySent, MsgFacts
    <3> HIDE DEF h
    <3>2. Carries(Sent(h, Resp("main", "err")), net,
                  ({} \cup {Resp("cancel", "2xx")}) \cup {Resp("main", "err")})
      BY <1>1, <3>1, CarrySent, MsgFacts
    <3>3. ({} \cup {Resp("cancel", "2xx")}) \cup {Resp("main", "err")} = A
      OBVIOUS
    <3> QED
      BY <1>5, <3>2, <3>3 DEF h
  <2>7. /\ Ack \notin A /\ Req("main") \notin A
        /\ \A x \in Code : Resp("main", x) \in A => x = "err"
    BY MsgFacts, TidFacts
  <2> HIDE DEF A
  <2>8. st'["main"] = Replied("main", st["main"], "err")
    BY <2>4 DEF r
  <2> QED
    BY <1>1, <1>5, <2>4, <2>5, <2>6, <2>7, <2>8, FinalReply
<1> QED
  BY <1>1, <1>4, <1>5 DEF cancel_handler

(* The server transaction repeats its answer x.                            *)
LEMMA Repeat ==
    ASSUME Inv, UNCHANGED <<config, client, seen, final, failed>>,
           NEW x \in Code, x = "1xx" \/ x = final,
           Carries(net', net, {Resp("main", x)}), DOMAIN net # {},
           x = "err" /\ invite /\ ~reliable /\ told = "err" =>
              ct["main"].state = "COMPLETED" /\ MaxDelay < ct["main"].tmr,
           st' = st
    PROVE  Inv'
<1> DEFINE A == {Resp("main", x)}
<1>1. /\ Types /\ st \in [Tid -> Strans] /\ (seen > 1 => failed)
      /\ "err" \in Code
  BY DEF Inv, Types, Code
<1>2. ct' = ct /\ told' = told /\ queued' = queued /\ reliable' = reliable
  BY DEF client, config
<1>3. /\ Ack \notin A /\ Req("main") \notin A
      /\ \A c \in Code : Resp("main", c) \in A => c = x
  BY MsgFacts
<1>4. Carries(net', net, A)
  OBVIOUS
<1> HIDE DEF A
<1>5. Types'
  BY <1>1, <1>4, ServerTypes DEF Types
<1>6. ClientsOK' /\ Outcome'
  BY <1>3, <1>4, ServerFrame
<1>7. ServerOK' /\ CancelOK'
  BY ServerSame DEF server
<1>8. Unsent'
  <2>1. ~queued /\ ct["main"].state # "none"
    BY Sent_already
  <2> QED
    BY <1>2, <2>1, UnsentFrame
<1>9. Outlives'
  BY <1>2, <1>3, <1>4, OutlivesFrame
<1>10. Acks'
  <2>1. Resp("main", "err") \in A /\ invite /\ ~reliable /\ told = "err" =>
           ct["main"].state = "COMPLETED" /\ MaxDelay < ct["main"].tmr
    BY <1>1, <1>3
  <2> QED
    BY <1>2, <1>3, <1>4, <2>1, AcksAgain
<1> QED
  BY <1>1, <1>5, <1>6, <1>7, <1>8, <1>9, <1>10 DEF Inv

LEMMA RequestHandler ==
    ASSUME Inv, NEW k \in Tid, request_handler(k)
    PROVE  Inv'
<1>1. PICK n \in Received(Req(k)) :
       \/ /\ Alive(st[k])
          /\ net' = IF st[k].state \in {"PROCEEDING", "COMPLETED"}
                    THEN Sent(n, Resp(k, st[k].mb)) ELSE n
          /\ UNCHANGED <<st, seen, final>>
       \/ /\ ~Alive(st[k]) /\ k = "main"
          /\ st' = [st EXCEPT !["main"] = NewStrans]
          /\ seen' = seen + 1
          /\ net' = n
          /\ UNCHANGED final
       \/ /\ ~Alive(st[k]) /\ k = "cancel"
          /\ cancel_handler(n)
          /\ UNCHANGED seen
  BY DEF request_handler
<1>2. /\ Req(k) \in DOMAIN net /\ DOMAIN net # {}
      /\ UNCHANGED <<config, client, failed>>
  BY DEF request_handler
<1>3. /\ Types /\ ServerOK /\ CancelOK /\ "main" \in Tid /\ "cancel" \in Tid
      /\ "err" \in Code /\ "1xx" \in Code
  BY TidFacts DEF Inv, Code
<1>4. Carries(n, net, {})
  BY <1>3, CarryReceived
<1>5. CASE net' = n /\ UNCHANGED <<st, seen, final>>
  <2>1. UNCHANGED <<config, client, server>>
    BY <1>2, <1>5 DEF server
  <2> QED
    BY <1>2, <1>4, <1>5, <2>1, Quiet
<1>6. CASE /\ st[k].state \in {"PROCEEDING", "COMPLETED"}
           /\ net' = Sent(n, Resp(k, st[k].mb))
           /\ UNCHANGED <<st, seen, final>>
  <2> DEFINE x == st[k].mb
             A == {Resp(k, x)}
  <2>1. x \in Code /\ (k = "main" => x = "1xx" \/ (x = final /\ final # "none"))
    <3>1. final \in Code \cup {"none"}
      BY <1>3 DEF Types
    <3>2. CASE k = "main"
      BY <1>3, <1>6, <3>1, <3>2 DEF ServerOK, Answered
    <3>3. CASE k = "cancel"
      BY <1>3, <1>6, <3>3 DEF CancelOK
    <3> QED
      BY <3>2, <3>3, TidFacts
  <2> HIDE DEF x
  <2>2. Carries(net', net, A)
    <3>1. Carries(Sent(n, Resp(k, x)), net, {} \cup {Resp(k, x)})
      BY <1>4, <2>1, CarrySent, MsgFacts
    <3> QED
      BY <1>6, <3>1 DEF x
  <2>3. CASE k = "cancel"
    <3>1. UNCHANGED <<config, client, server>>
      BY <1>2, <1>6 DEF server
    <3>2. /\ Ack \notin A /\ Req("main") \notin A
          /\ \A c \in Code : Resp("main", c) \notin A
      BY <2>3, MsgFacts, TidFacts
    <3> HIDE DEF A
    <3> QED
      BY <1>2, <1>3, <2>2, <3>1, <3>2, Quiet
  <2>4. CASE k = "main"
    <3>1. invite /\ ~reliable /\ told = "err" =>
             ct["main"].state = "COMPLETED" /\ MaxDelay < ct["main"].tmr
      <4> SUFFICES ASSUME invite, ~reliable, told = "err"
                   PROVE  ct["main"].state = "COMPLETED" /\ MaxDelay < ct["main"].tmr
        OBVIOUS
      <4>1. ct["main"].state \in Told /\ Req("main") \in DOMAIN net
        BY <1>2, <2>4 DEF Inv, Outcome
      <4>2. /\ ct["main"].state = "COMPLETED"
            /\ net[Req("main")] + MaxDelay < ct["main"].tmr
        BY <4>1 DEF Inv, Acks, Told
      <4>3. net[Req("main")] \in 0..MaxDelay /\ ct["main"].tmr \in Int
        BY <1>3, <4>1, Numbers DEF Types
      <4>4. \A y \in 0..MaxDelay : \A z \in Int :
               y + MaxDelay < z => MaxDelay < z
        BY TimeFacts
      <4> QED
        BY <4>2, <4>3, <4>4
    <3>2. Carries(net', net, {Resp("main", x)})
      BY <2>2, <2>4
    <3>3. UNCHANGED <<config, client, seen, final, failed>> /\ st' = st
      BY <1>2, <1>6
    <3> QED
      BY <1>2, <2>1, <2>4, <3>1, <3>2, <3>3, Repeat
  <2> QED
    BY <2>3, <2>4, TidFacts
<1>7. CASE /\ ~Alive(st[k]) /\ k = "main"
           /\ st' = [st EXCEPT !["main"] = NewStrans]
           /\ seen' = seen + 1
           /\ net' = n
           /\ UNCHANGED final
  <2>1. Req("main") \in DOMAIN net /\ seen \in Nat
    BY <1>2, <1>3, <1>7 DEF Types
  <2>2. st["main"].state \in {"none", "gone"}
    BY <1>7 DEF Alive
  <2>3. reliable => seen = 0
    BY <2>1 DEF Inv, Outlives
  <2>4. final = "none"
    <3> SUFFICES ASSUME final # "none" PROVE FALSE
      OBVIOUS
    <3>1. st["main"].state = "gone" /\ seen # 0
      BY <1>3, <2>2 DEF ServerOK, Answered
    <3>2. ~reliable
      BY <2>3, <3>1
    <3> QED
      BY <2>1, <3>1, <3>2 DEF Inv, Outlives
  <2>5. seen # 0 => failed
    BY <1>3, <2>2, <2>4 DEF ServerOK
  <2>6. /\ st' \in [Tid -> Strans] /\ st'["main"] = NewStrans
        /\ st'["cancel"] = st["cancel"]
    BY <1>3, <1>7, NewStransFacts, StransFrame, TidFacts
  <2>7. Carries(net', net, {}) /\ final' = final /\ failed' = failed
        /\ UNCHANGED <<config, client>> /\ seen' = seen + 1
    BY <1>2, <1>4, <1>7
  <2>8. Types'
    BY <1>3, <2>1, <2>6, <2>7, ServerTypes DEF Types
  <2>9. ClientsOK' /\ Outcome'
    BY <2>7, ServerFrame
  <2>10. ServerOK'
    BY <2>1, <2>4, <2>6, <2>7, NewStransFacts DEF ServerOK, Answered
  <2>11. CancelOK'
    BY <1>3, <2>6 DEF CancelOK
  <2>12. seen' > 1 => failed'
    BY <2>1, <2>5, <2>7
  <2>13. ct' = ct /\ told' = told /\ queued' = queued /\ reliable' = reliable
    BY <2>7 DEF client, config
  <2>14. Unsent'
    <3>1. ~queued /\ ct["main"].state # "none"
      BY <1>2, Sent_already
    <3> QED
      BY <2>13, <3>1, UnsentFrame
  <2>15. Outlives'
    <3>1. Req("main")' = Req("main")
      BY DEF Req
    <3>2. reliable => Req("main") \notin DOMAIN net'
      <4>1. reliable => n = [m \in DOMAIN net \ {Req("main")} |-> net[m]]
        BY <1>7 DEF Received
      <4> QED
        BY <1>7, <4>1
    <3> QED
      BY <2>4, <2>6, <2>7, <2>13, <3>1, <3>2, NewStransFacts DEF Outlives, Answered
  <2>16. Acks'
    <3>1. told' # "err"
      BY <2>4, <2>13 DEF Inv, Outcome, Code
    <3> QED
      BY <3>1, AcksNot
  <2> QED
    BY <2>8, <2>9, <2>10, <2>11, <2>12, <2>14, <2>15, <2>16 DEF Inv
<1>8. CASE cancel_handler(n) /\ UNCHANGED seen
  <2>1. UNCHANGED <<config, client, seen, failed>>
    BY <1>2, <1>8
  <2> QED
    BY <1>2, <1>4, <1>8, <2>1, CancelHandler
<1> QED
  BY <1>1, <1>5, <1>6, <1>7, <1>8

(* The request's server transaction becomes s: it stays answered, or is    *)
(* freed, and repeats no answer.                                           *)
LEMMA StepsDown ==
    ASSUME Inv, UNCHANGED <<config, client, seen, final, failed>>,
           st["main"].state \in Answered, Carries(net', net, {}),
           NEW s \in Strans, st' = [st EXCEPT !["main"] = s], s.tmre = Off,
           \/ s = Gone
           \/ s.state = "CONFIRMED" /\ s.tmr # Off /\ s.mb = st["main"].mb,
           Outlives'
    PROVE  Inv'
<1>1. /\ Types /\ ServerOK /\ CancelOK /\ "main" \in Tid
      /\ (seen > 1 => failed)
  BY TidFacts DEF Inv
<1>2. st' \in [Tid -> Strans] /\ st'["main"] = s /\ st'["cancel"] = st["cancel"]
  BY <1>1, StransFrame, TidFacts
<1>3. Types'
  BY <1>1, <1>2, ServerTypes DEF Types
<1>4. ClientsOK' /\ Outcome'
  BY ServerFrame
<1>5. ServerOK'
  <2>1. /\ st["main"].mb = final /\ final # "none" /\ final # "1xx" /\ seen # 0
    BY <1>1 DEF ServerOK, Answered
  <2>2. CASE s = Gone
    BY <1>2, <2>1, <2>2, GoneFacts DEF ServerOK, Answered
  <2>3. CASE s.state = "CONFIRMED" /\ s.tmr # Off /\ s.mb = st["main"].mb
    BY <1>2, <2>1, <2>3 DEF ServerOK, Answered
  <2> QED
    BY <2>2, <2>3
<1>6. CancelOK'
  BY <1>1, <1>2 DEF CancelOK
<1>7. Unsent'
  <2>1. ~queued /\ ct["main"].state # "none"
    BY Sent_already DEF Answered
  <2> QED
    BY <2>1, UnsentFrame DEF client
<1>8. Acks'
  BY <1>2, AcksFrame DEF client
<1> QED
  BY <1>1, <1>3, <1>4, <1>5, <1>6, <1>7, <1>8 DEF Inv

LEMMA AckHandler ==
    ASSUME Inv, ack_handler
    PROVE  Inv'
<1>1. /\ Ack \in DOMAIN net /\ DOMAIN net # {} /\ net' \in Received(Ack)
      /\ UNCHANGED <<config, client, seen, final, failed>>
  BY DEF ack_handler
<1>2. Types /\ "main" \in Tid /\ st["main"] \in Strans
  BY TidFacts DEF Inv, Types
<1>3. Carries(net', net, {})
  BY <1>1, <1>2, CarryReceived
<1>4. CASE st' = st
  <2>1. UNCHANGED <<config, client, server>>
    BY <1>1, <1>4 DEF server
  <2> QED
    BY <1>1, <1>3, <2>1, Quiet
<1>5. CASE /\ st["main"].state = "COMPLETED"
           /\ st' = [st EXCEPT !["main"] =
                       IF reliable THEN Gone
                       ELSE [@ EXCEPT !.state = "CONFIRMED", !.tmr = T4,
                                      !.tmre = Off]]
  <2>1. st["main"].state \in Answered
    BY <1>5 DEF Answered
  <2>2. /\ ct["main"].state \in Told /\ ct["main"].tmre = Off
    <3>1. ct["main"].state \in Told
      BY <1>1 DEF Inv, Outcome
    <3> QED
      BY <1>2, <3>1 DEF Inv, ClientsOK, ClientOK, Told
  <2>3. /\ ct' = ct /\ reliable' = reliable /\ seen' = seen /\ final' = final
        /\ Req("main")' = Req("main")
        /\ (Req("main") \in DOMAIN net' => Req("main") \in DOMAIN net)
        /\ (reliable /\ seen > 0 => Req("main") \notin DOMAIN net)
    BY <1>1, <1>3 DEF client, config, Req, Carries, Inv, Outlives
  <2>4. CASE reliable
    <3>1. st' = [st EXCEPT !["main"] = Gone]
      BY <1>5, <2>4
    <3>2. Outlives'
      BY <2>3, <2>4 DEF Outlives
    <3> QED
      BY <1>1, <1>3, <2>1, <3>1, <3>2, GoneFacts, StepsDown
  <2>5. CASE ~reliable
    <3> DEFINE s == [st["main"] EXCEPT !.state = "CONFIRMED", !.tmr = T4,
                                       !.tmre = Off]
    <3>1. T4 \in -1..Lifetime /\ Off \in Nat \cup {-1} /\ T4 # Off
      BY TimeFacts DEF Off
    <3>2. s \in Strans
      BY <1>2, <3>1 DEF Strans
    <3>3. /\ s.state = "CONFIRMED" /\ s.tmr = T4 /\ s.tmre = Off
          /\ s.mb = st["main"].mb
      BY <1>2 DEF Strans
    <3>4. st' = [st EXCEPT !["main"] = s]
      BY <1>5, <2>5
    <3> HIDE DEF s
    <3>5. st'["main"] = s
      BY <1>2, <3>2, <3>4, StransFrame
    <3>6. Outlives'
      <4>1. \A m \in DOMAIN net' : net'[m] < T4
        <5>1. \A x \in 0..MaxDelay : x < T4
          BY TimeFacts
        <5> QED
          BY <1>3, <5>1 DEF Carries
      <4> QED
        BY <2>2, <2>3, <2>5, <3>3, <3>5, <4>1 DEF Outlives
    <3> QED
      BY <1>1, <1>3, <2>1, <3>1, <3>2, <3>3, <3>4, <3>6, StepsDown
  <2> QED
    BY <2>4, <2>5
<1> QED
  BY <1>4, <1>5 DEF ack_handler

LEMMA StransTmr ==
    ASSUME Inv, NEW k \in Tid, strans_tmr_handler(k)
    PROVE  Inv'
<1>1. /\ st[k].tmr = 0 /\ st' = [st EXCEPT ![k] = Gone] /\ net' = net
      /\ UNCHANGED <<config, client, seen, final, failed>>
  BY DEF strans_tmr_handler
<1>2. Types /\ "main" \in Tid /\ st \in [Tid -> Strans]
  BY TidFacts DEF Inv, Types
<1>3. Carries(net', net, {})
  BY <1>1, <1>2, CarrySame
<1>4. CASE k = "cancel"
  <2>1. st'["main"] = st["main"]
    BY <1>1, <1>2, <1>4, TidFacts
  <2>2. Unsent'
    BY <1>1, <2>1 DEF Inv, Unsent, client, config
  <2>3. /\ st' = [st EXCEPT !["cancel"] = Gone]
        /\ Gone.state \in {"COMPLETED", "gone"} /\ Gone.state # "COMPLETED"
    BY <1>1, <1>4, GoneFacts
  <2> DEFINE A == {}
  <2>4. /\ Carries(net', net, A) /\ Ack \notin A /\ Req("main") \notin A
        /\ \A c \in Code : Resp("main", c) \notin A
    BY <1>3
  <2> HIDE DEF A
  <2> QED
    BY <1>1, <2>2, <2>3, <2>4, GoneFacts, CancelFrame
<1>5. CASE k = "main"
  <2>1. st["main"].tmr = 0 /\ st["main"].state \in Answered
    BY <1>1, <1>5 DEF Inv, ServerOK, Off
  <2>2. st' = [st EXCEPT !["main"] = Gone] /\ st'["main"] = Gone
    BY <1>1, <1>2, <1>5
  <2>3. /\ ct' = ct /\ reliable' = reliable /\ seen' = seen /\ final' = final
        /\ Req("main")' = Req("main")
    BY <1>1 DEF client, config, Req
  <2>4. ~reliable => Req("main") \notin DOMAIN net
    <3>1. ~reliable /\ Req("main") \in DOMAIN net => net[Req("main")] < 0
      BY <2>1 DEF Inv, Outlives
    <3>2. \A m \in DOMAIN net : ~(net[m] < 0)
      BY <1>2, TimeFacts DEF Types
    <3> QED
      BY <3>1, <3>2
  <2>5. ~reliable /\ ct["main"].tmre # Off => ct["main"].tmr = 0
    <3>1. ~reliable /\ ct["main"].tmre # Off => ct["main"].tmr <= 0
      BY <2>1 DEF Inv, Outlives
    <3>2. ct["main"].tmre # Off => ct["main"].tmr # Off
      BY <1>2 DEF Inv, ClientsOK, ClientOK, Retransmits
    <3>3. ct["main"].tmr \in Int /\ ct["main"].tmr >= -1
      BY <1>2, Numbers
    <3> QED
      BY <3>1, <3>2, <3>3 DEF Off
  <2>6. Outlives'
    <3>1. reliable /\ seen > 0 => Req("main") \notin DOMAIN net
      BY DEF Inv, Outlives
    <3> QED
      BY <1>1, <2>2, <2>3, <2>4, <2>5, <3>1, GoneFacts DEF Outlives, Answered
  <2> QED
    BY <1>1, <1>3, <2>1, <2>2, <2>6, GoneFacts, StepsDown
<1> QED
  BY <1>4, <1>5, TidFacts

LEMMA StransRetransmit ==
    ASSUME Inv, strans_retransmit
    PROVE  Inv'
<1> DEFINE e == Min2(Shift(st["main"].txc + 1), T2)
           s == [st["main"] EXCEPT !.txc = @ + 1, !.tmre = e]
           A == {Resp("main", "err")}
<1>1. /\ st["main"].tmre = 0
      /\ net' = Sent(net, Resp("main", st["main"].mb))
      /\ UNCHANGED <<config, client, seen, final, failed>>
  BY DEF strans_retransmit
<1>2. /\ Types /\ ServerOK /\ CancelOK /\ "main" \in Tid /\ st \in [Tid -> Strans]
      /\ st["main"] \in Strans /\ "err" \in Code /\ (seen > 1 => failed)
  BY TidFacts DEF Inv, Types, Code
<1>3. /\ st["main"].tmr \in Nat /\ st["main"].tmr >= T1
      /\ st["main"].txc + 1 \in 1..Life /\ st["main"].txc \in Nat
      /\ Phase(st["main"].tmr, 0, st["main"].txc)
  BY <1>1, <1>2, DueFacts
<1>4. /\ st["main"].state = "COMPLETED" /\ invite /\ ~reliable /\ final = "err"
      /\ st["main"].mb = "err"
  BY <1>1, <1>2 DEF ServerOK, Answered, Off
<1>5. st' = [st EXCEPT !["main"] = s]
  BY <1>2 DEF strans_retransmit
<1>6. Even(e) /\ e \in Nat
  BY <1>3, EvenFacts
<1> HIDE DEF e
<1>7. Phase(st["main"].tmr, e, st["main"].txc + 1)
  BY <1>3, <1>6, PhaseNext
<1>8. st["main"].txc + 1 \in 0..Life /\ e \in Nat \cup {-1}
  BY <1>3, <1>6
<1>9. s \in Strans
  BY <1>2, <1>8 DEF Strans
<1>10. /\ s.state = "COMPLETED" /\ s.tmr = st["main"].tmr /\ s.tmre = e
       /\ s.txc = st["main"].txc + 1 /\ s.mb = "err"
  BY <1>2, <1>4 DEF Strans
<1> HIDE DEF s
<1>11. st' \in [Tid -> Strans] /\ st'["main"] = s /\ st'["cancel"] = st["cancel"]
  BY <1>2, <1>5, <1>9, StransFrame, TidFacts
<1>12. Carries(net', net, A)
  <2>1. Carries(net, net, {}) /\ Resp("main", "err") \in Msg
    BY <1>2, CarrySame, MsgFacts
  <2>2. Carries(Sent(net, Resp("main", "err")), net, {} \cup {Resp("main", "err")})
    BY <2>1, CarrySent
  <2> QED
    BY <1>1, <1>4, <2>2
<1>13. /\ Ack \notin A /\ Req("main") \notin A
       /\ \A x \in Code : Resp("main", x) \in A => x = "err"
  BY MsgFacts
<1> HIDE DEF A
<1>14. ct' = ct /\ told' = told /\ queued' = queued /\ reliable' = reliable
       /\ invite' = invite /\ seen' = seen /\ final' = final
  BY <1>1 DEF client, config
<1>15. Types'
  BY <1>1, <1>2, <1>11, <1>12, ServerTypes DEF Types
<1>16. ClientsOK' /\ Outcome'
  BY <1>1, <1>4, <1>12, <1>13, ServerFrame
<1>17. ServerOK'
  <2>1. s.tmr # Off /\ Retransmits(s) /\ seen # 0
    BY <1>2, <1>3, <1>4, <1>7, <1>10 DEF Retransmits, Off, ServerOK
  <2> QED
    BY <1>4, <1>10, <1>11, <1>14, <2>1 DEF ServerOK, Answered
<1>18. CancelOK'
  BY <1>2, <1>11 DEF CancelOK
<1>19. Unsent'
  <2>1. ~queued /\ ct["main"].state # "none"
    BY <1>4, Sent_already
  <2> QED
    BY <1>14, <2>1, UnsentFrame
<1>20. Outlives'
  <2>1. /\ Req("main")' = Req("main")
        /\ Req("main") \in DOMAIN net' => /\ Req("main") \in DOMAIN net
                                          /\ net'[Req("main")] = net[Req("main")]
    BY <1>12, <1>13 DEF Req, Carries
  <2>2. /\ Req("main") \in DOMAIN net => net[Req("main")] < st["main"].tmr
        /\ ct["main"].tmre # Off => ct["main"].tmr <= st["main"].tmr
    BY <1>4 DEF Inv, Outlives, Answered
  <2> QED
    BY <1>4, <1>10, <1>11, <1>14, <2>1, <2>2 DEF Outlives
<1>21. Acks'
  <2>1. st["main"].tmre # Off
    BY <1>1 DEF Off
  <2>2. told = "err" => ct["main"].state = "COMPLETED" /\ MaxDelay < ct["main"].tmr
    <3> SUFFICES ASSUME told = "err"
                 PROVE  ct["main"].state = "COMPLETED" /\ MaxDelay < ct["main"].tmr
      OBVIOUS
    <3>1. ct["main"].state \in Told /\ st["main"].tmr # 0
      BY <1>3, TimeFacts DEF Inv, Outcome
    <3>2. ct["main"].state = "COMPLETED" /\ st["main"].tmr <= ct["main"].tmr
      BY <1>4, <2>1, <3>1 DEF Inv, Acks, Told
    <3>3. ct["main"].tmr \in Int
      BY <1>2, Numbers
    <3>4. MaxDelay < ct["main"].tmr
      BY <1>3, <3>2, <3>3, TimeFacts
    <3> QED
      BY <3>2, <3>4
  <2>3. st'["main"].tmre # Off => /\ st["main"].tmre # Off
                                  /\ st'["main"].tmr = st["main"].tmr
    BY <1>10, <1>11, <2>1
  <2> QED
    BY <1>1, <1>12, <1>13, <1>14, <2>2, <2>3, AcksAgain
<1> QED
  BY <1>1, <1>2, <1>14, <1>15, <1>16, <1>17, <1>18, <1>19, <1>20, <1>21 DEF Inv

LEMMA Breaks ==
    ASSUME Inv, ConnBreaks
    PROVE  Inv'
<1>1. /\ DOMAIN net # {} /\ net' = [m \in {} |-> 0]
      /\ UNCHANGED <<config, client, server>>
  BY DEF ConnBreaks
<1>2. Carries(net', net, {})
  BY <1>1 DEF Carries
<1> QED
  BY <1>1, <1>2, Quiet
-----------------------------------------------------------------------------
(* Time passes.                                                            *)

(* Nothing is due, so the numbers stay natural.                            *)
Less(t) == IF t = Off THEN Off ELSE t - 1

LEMMA LessFacts ==
    \A t \in Int : t >= -1 /\ t # 0 =>
       /\ Less(t) \in Int /\ Less(t) >= -1
       /\ Less(t) = Off <=> t = Off
       /\ t # Off => Less(t) = t - 1
       /\ Less(t) <= t
  BY DEF Less, Off

LEMMA DownFields ==
    ASSUME NEW x, x \in Ctrans \/ x \in Strans
    PROVE  /\ Down(x).state = x.state /\ Down(x).txc = x.txc
           /\ Down(x).mb = x.mb
           /\ Down(x).tmr = Less(x.tmr) /\ Down(x).tmre = Less(x.tmre)
  BY DEF Down, Less, Ctrans, Strans

LEMMA DownTypes ==
    ASSUME NEW x, ~Due(x)
    PROVE  /\ x \in Ctrans => Down(x) \in Ctrans
           /\ x \in Strans => Down(x) \in Strans
<1> DEFINE a == Less(x.tmr)
           b == Less(x.tmre)
<1>1. Down(x) = [x EXCEPT !.tmr = a, !.tmre = b]
  BY DEF Down, Less
<1>2. x \in Ctrans \/ x \in Strans =>
         x.tmr \in -1..Lifetime /\ x.tmre \in Nat \cup {-1}
  BY Members
<1>3. \A t \in -1..Lifetime : t # 0 => Less(t) \in -1..Lifetime
  BY TimeFacts DEF Less, Off
<1>4. \A t \in Nat \cup {-1} : t # 0 => Less(t) \in Nat \cup {-1}
  BY DEF Less, Off
<1>5. x.tmr # 0 /\ x.tmre # 0
  BY DEF Due
<1>6. x \in Ctrans \/ x \in Strans =>
         a \in -1..Lifetime /\ b \in Nat \cup {-1}
  BY <1>2, <1>3, <1>4, <1>5
<1> HIDE DEF a, b
<1>7. x \in Ctrans => [x EXCEPT !.tmr = a, !.tmre = b] \in Ctrans
  BY <1>6 DEF Ctrans
<1>8. x \in Strans => [x EXCEPT !.tmr = a, !.tmre = b] \in Strans
  BY <1>6 DEF Strans
<1> QED
  BY <1>1, <1>7, <1>8

LEMMA DownRetransmits ==
    ASSUME NEW x, x \in Ctrans \/ x \in Strans, ~Due(x), x.tmre # Off,
           Retransmits(x)
    PROVE  Retransmits(Down(x))
<1>1. x.tmr \in -1..Lifetime /\ x.tmre \in Nat \cup {-1} /\ x.txc \in 0..Life
  BY Members
<1>2. x.tmr \in Int /\ x.tmr >= -1
  BY <1>1, TimeFacts
<1>3. x.tmre \in Int /\ x.tmre >= -1
  BY <1>1
<1>4. x.txc \in Int
  BY <1>1, TimersAssumption
<1>5. x.tmr # 0 /\ x.tmre # 0 /\ x.tmr # Off /\ Phase(x.tmr, x.tmre, x.txc)
  BY DEF Due, Retransmits
<1>6. /\ Down(x).tmr = x.tmr - 1 /\ Down(x).tmre = x.tmre - 1
      /\ Down(x).txc = x.txc /\ Down(x).tmr # Off
  BY <1>2, <1>3, <1>5, DownFields, LessFacts
<1>7. Phase(x.tmr - 1, x.tmre - 1, x.txc)
  BY <1>2, <1>3, <1>4, <1>5, PhaseTick
<1> QED
  BY <1>6, <1>7 DEF Retransmits

LEMMA Ticks ==
    ASSUME Inv, Tick
    PROVE  Inv'
<1> DEFINE r == Req("main")
           e == Resp("main", "err")
           c == ct["main"]
           s == st["main"]
<1>1. /\ \A k \in Tid : ~Due(ct[k]) /\ ~Due(st[k])
      /\ ct' = [k \in Tid |-> Down(ct[k])]
      /\ st' = [k \in Tid |-> Down(st[k])]
      /\ net' = [m \in {x \in DOMAIN net : net[x] > 0} |-> net[m] - 1]
      /\ UNCHANGED <<config, queued, canceled, told, finals, seen, final,
                     failed>>
  BY DEF Tick
<1>2. /\ Types /\ ct \in [Tid -> Ctrans] /\ st \in [Tid -> Strans]
      /\ DOMAIN net \subseteq Msg /\ \A m \in DOMAIN net : net[m] \in 0..MaxDelay
      /\ "main" \in Tid /\ "cancel" \in Tid
  BY TidFacts DEF Inv, Types
<1>3. /\ reliable' = reliable /\ invite' = invite /\ told' = told
      /\ finals' = finals /\ seen' = seen /\ final' = final /\ failed' = failed
      /\ queued' = queued
  BY <1>1 DEF config
<1>4. /\ DOMAIN net' \subseteq DOMAIN net
      /\ \A m \in DOMAIN net' : /\ net[m] \in Nat /\ net[m] > 0
                                /\ net'[m] = net[m] - 1
                                /\ net'[m] \in 0..MaxDelay
  <2>1. \A x \in 0..MaxDelay : x > 0 => x \in Nat /\ x - 1 \in 0..MaxDelay
    BY TimeFacts
  <2> QED
    BY <1>1, <1>2, <2>1
<1>5. ASSUME NEW k \in Tid
      PROVE  /\ ct'[k] = Down(ct[k]) /\ st'[k] = Down(st[k])
             /\ ct'[k] \in Ctrans /\ st'[k] \in Strans
             /\ ct'[k].state = ct[k].state /\ st'[k].state = st[k].state
             /\ st'[k].mb = st[k].mb
             /\ ct'[k].tmr = Less(ct[k].tmr) /\ ct'[k].tmre = Less(ct[k].tmre)
             /\ st'[k].tmr = Less(st[k].tmr) /\ st'[k].tmre = Less(st[k].tmre)
             /\ ct'[k].tmr = Off <=> ct[k].tmr = Off
             /\ st'[k].tmr = Off <=> st[k].tmr = Off
             /\ ct'[k].tmre = Off <=> ct[k].tmre = Off
             /\ st'[k].tmre = Off <=> st[k].tmre = Off
  <2>1. ct'[k] = Down(ct[k]) /\ st'[k] = Down(st[k])
    BY <1>1
  <2>2. ct[k] \in Ctrans /\ st[k] \in Strans /\ ~Due(ct[k]) /\ ~Due(st[k])
    BY <1>1, <1>2
  <2>3. ct'[k] \in Ctrans /\ st'[k] \in Strans
    BY <2>1, <2>2, DownTypes
  <2>4. /\ ct'[k].state = ct[k].state /\ st'[k].state = st[k].state
        /\ st'[k].mb = st[k].mb
        /\ ct'[k].tmr = Less(ct[k].tmr) /\ ct'[k].tmre = Less(ct[k].tmre)
        /\ st'[k].tmr = Less(st[k].tmr) /\ st'[k].tmre = Less(st[k].tmre)
    BY <2>1, <2>2, DownFields
  <2>5. /\ ct[k].tmr # 0 /\ ct[k].tmre # 0 /\ st[k].tmr # 0 /\ st[k].tmre # 0
    BY <2>2 DEF Due
  <2> QED
    BY <1>2, <2>1, <2>3, <2>4, <2>5, LessFacts, Numbers
<1>6. Types'
  <2>1. ct' \in [Tid -> Ctrans] /\ st' \in [Tid -> Strans]
    BY <1>1, <1>5
  <2> QED
    BY <1>1, <1>2, <1>4, <2>1 DEF Types, config
<1>7. ClientsOK'
  <2> SUFFICES ASSUME NEW k \in Tid
               PROVE  ClientOK(ct[k], IsInvite(k))'
    BY DEF ClientsOK
  <2>1. ClientOK(ct[k], IsInvite(k))
    BY DEF Inv, ClientsOK
  <2>2. IsInvite(k)' = IsInvite(k)
    BY <1>3 DEF IsInvite
  <2>3. ct[k].tmre # Off => Retransmits(ct'[k])
    <3> SUFFICES ASSUME ct[k].tmre # Off PROVE Retransmits(Down(ct[k]))
      BY <1>5
    <3>1. ct[k] \in Ctrans /\ ~Due(ct[k]) /\ Retransmits(ct[k])
      BY <1>1, <1>2, <2>1 DEF ClientOK
    <3> QED
      BY <3>1, DownRetransmits
  <2>4. /\ ct'[k].state = ct[k].state
        /\ ct'[k].tmr = Off <=> ct[k].tmr = Off
        /\ ct'[k].tmre = Off <=> ct[k].tmre = Off
    BY <1>5
  <2> QED
    BY <1>3, <2>1, <2>2, <2>3, <2>4 DEF ClientOK
<1>8. ServerOK'
  <2>1. s.tmre # Off => Retransmits(st'["main"])
    <3> SUFFICES ASSUME s.tmre # Off PROVE Retransmits(Down(s))
      BY <1>2, <1>5
    <3>1. s \in Strans /\ ~Due(s) /\ Retransmits(s)
      BY <1>1, <1>2 DEF Inv, ServerOK
    <3> QED
      BY <3>1, DownRetransmits
  <2>2. /\ st'["main"].state = s.state /\ st'["main"].mb = s.mb
        /\ st'["main"].tmr = Off <=> s.tmr = Off
        /\ st'["main"].tmre = Off <=> s.tmre = Off
    BY <1>2, <1>5
  <2> QED
    BY <1>3, <2>1, <2>2 DEF Inv, ServerOK
<1>9. CancelOK'
  <2>1. LET t == st["cancel"] IN
        /\ st'["cancel"].state = t.state /\ st'["cancel"].mb = t.mb
        /\ st'["cancel"].tmr = Off <=> t.tmr = Off
        /\ st'["cancel"].tmre = Off <=> t.tmre = Off
    BY <1>2, <1>5
  <2> QED
    BY <2>1 DEF Inv, CancelOK
<1>10. ct'["main"].state = c.state /\ st'["main"].state = s.state
       /\ ct'["cancel"].state = ct["cancel"].state
  BY <1>2, <1>5
<1>11. Outcome'
  <2>1. /\ \A x \in Code : Resp("main", x)' = Resp("main", x)
        /\ Ack' = Ack
    BY DEF Resp, Ack
  <2> QED
    BY <1>3, <1>4, <1>10, <2>1 DEF Inv, Outcome
<1>12. Unsent'
  BY <1>3, <1>4, <1>10 DEF Inv, Unsent
<1>13. r' = r /\ e' = e
  BY DEF Req, Resp
<1>14. /\ c.tmr \in Int /\ c.tmr >= -1 /\ c.tmr # 0
       /\ s.tmr \in Int /\ s.tmr >= -1 /\ s.tmr # 0
       /\ MaxDelay \in Nat
  BY <1>1, <1>2, Numbers, TimeFacts DEF Due
<1>15. /\ ct'["main"].tmr = Less(c.tmr) /\ st'["main"].tmr = Less(s.tmr)
       /\ (ct'["main"].tmre # Off <=> c.tmre # Off)
       /\ (st'["main"].tmre # Off <=> s.tmre # Off)
       /\ (c.tmre # Off => c.tmr # Off) /\ (s.tmre # Off => s.tmr # Off)
  BY <1>2, <1>5 DEF Inv, ClientsOK, ClientOK, ServerOK, Retransmits
<1>16. /\ c.tmr # Off => Less(c.tmr) = c.tmr - 1
       /\ s.tmr # Off => Less(s.tmr) = s.tmr - 1
  BY <1>14, LessFacts
<1>17. Outlives'
  <2>1. ASSUME ~reliable, s.state \in Answered
        PROVE  /\ r \in DOMAIN net' => net'[r] < st'["main"].tmr
               /\ ct'["main"].tmre # Off => ct'["main"].tmr <= st'["main"].tmr
    <3>1. /\ r \in DOMAIN net => net[r] < s.tmr
          /\ c.tmre # Off => c.tmr <= s.tmr
          /\ s.tmr # Off
      BY <2>1 DEF Inv, Outlives, ServerOK
    <3>2. st'["main"].tmr = s.tmr - 1
      BY <1>15, <1>16, <3>1
    <3>3. r \in DOMAIN net' => net'[r] < st'["main"].tmr
      BY <1>4, <1>14, <3>1, <3>2
    <3>4. ct'["main"].tmre # Off => ct'["main"].tmr <= st'["main"].tmr
      BY <1>14, <1>15, <1>16, <3>1, <3>2
    <3> QED
      BY <3>3, <3>4
  <2>2. ASSUME ~reliable, final # "none", s.state = "gone"
        PROVE  r \notin DOMAIN net' /\ ct'["main"].tmre = Off
    <3>1. r \notin DOMAIN net /\ (c.tmre # Off => c.tmr = 0)
      BY <2>2 DEF Inv, Outlives
    <3> QED
      BY <1>4, <1>14, <1>15, <3>1
  <2>3. reliable /\ seen > 0 => r \notin DOMAIN net'
    BY <1>4 DEF Inv, Outlives
  <2> HIDE DEF r
  <2> QED
    BY <1>3, <1>10, <1>13, <2>1, <2>2, <2>3 DEF Outlives, r
<1>18. Acks'
  <2>1. ASSUME invite, ~reliable, told = "err", c.state = "COMPLETED"
        PROVE  /\ r \in DOMAIN net' => net'[r] + MaxDelay < ct'["main"].tmr
               /\ e \in DOMAIN net' => net'[e] < ct'["main"].tmr
               /\ st'["main"].tmre # Off => st'["main"].tmr <= ct'["main"].tmr
    <3>1. /\ r \in DOMAIN net => net[r] + MaxDelay < c.tmr
          /\ e \in DOMAIN net => net[e] < c.tmr
          /\ s.tmre # Off => s.tmr <= c.tmr
          /\ c.tmr # Off
      BY <1>2, <2>1 DEF Inv, Acks, ClientsOK, ClientOK
    <3>2. ct'["main"].tmr = c.tmr - 1
      BY <1>15, <1>16, <3>1
    <3>3. r \in DOMAIN net' => net'[r] + MaxDelay < ct'["main"].tmr
      BY <1>4, <1>14, <3>1, <3>2
    <3>4. e \in DOMAIN net' => net'[e] < ct'["main"].tmr
      BY <1>4, <1>14, <3>1, <3>2
    <3>5. st'["main"].tmre # Off => st'["main"].tmr <= ct'["main"].tmr
      BY <1>14, <1>15, <1>16, <3>1, <3>2
    <3> QED
      BY <3>3, <3>4, <3>5
  <2>2. ASSUME invite, ~reliable, told = "err", c.state = "gone"
        PROVE  /\ r \notin DOMAIN net' /\ e \notin DOMAIN net'
               /\ st'["main"].tmre = Off
    <3>1. /\ r \notin DOMAIN net /\ e \notin DOMAIN net
          /\ s.tmre # Off => s.tmr = 0
      BY <2>2 DEF Inv, Acks
    <3> QED
      BY <1>4, <1>14, <1>15, <3>1
  <2> HIDE DEF r, e
  <2> QED
    BY <1>3, <1>10, <1>13, <2>1, <2>2 DEF Acks, r, e
<1> QED
  BY <1>3, <1>6, <1>7, <1>8, <1>9, <1>11, <1>12, <1>17, <1>18 DEF Inv
-----------------------------------------------------------------------------
LEMMA InvInit == Init => Inv
<1> SUFFICES ASSUME Init PROVE Inv
  OBVIOUS
<1>1. /\ ct["main"] = Idle /\ ct["cancel"] = Idle
      /\ st["main"] = Idle /\ st["cancel"] = Idle
      /\ \A k \in Tid : ct[k] = Idle
  BY TidFacts DEF Init
<1>2. Types
  <2>1. ct \in [Tid -> Ctrans] /\ st \in [Tid -> Strans]
    BY GoneFacts DEF Init
  <2>2. DOMAIN net = {}
    BY DEF Init
  <2> QED
    BY <2>1, <2>2 DEF Init, Types
<1>3. ClientsOK
  BY <1>1, GoneClient DEF ClientsOK
<1>4. final = "none" /\ seen = 0 /\ told = "none" /\ finals = 0 /\ ~queued
      /\ DOMAIN net = {}
  BY DEF Init
<1>5. ServerOK
  BY <1>1, <1>4, GoneFacts DEF ServerOK, Answered
<1>6. CancelOK
  BY <1>1, GoneFacts DEF CancelOK
<1>7. Outcome
  BY <1>1, <1>4, GoneFacts DEF Outcome, Told, Code
<1>8. Unsent
  BY <1>1, <1>4, GoneFacts DEF Unsent
<1>9. Outlives
  BY <1>1, <1>4, GoneFacts DEF Outlives, Answered
<1>10. Acks
  BY <1>4 DEF Acks
<1> QED
  BY <1>2, <1>3, <1>4, <1>5, <1>6, <1>7, <1>8, <1>9, <1>10 DEF Inv

LEMMA InvNext == Inv /\ [Next]_vars => Inv'
<1> SUFFICES ASSUME Inv, [Next]_vars PROVE Inv'
  OBVIOUS
<1>1. CASE sip_ctrans_request
  BY <1>1, RequestStep
<1>2. CASE ConnEstablished
  BY <1>2, Established
<1>3. CASE transport_handler
  BY <1>3, TransportHandler
<1>4. CASE sip_ctrans_cancel
  BY <1>4, CancelStep
<1>5. CASE Deliver
  BY <1>5, RequestHandler, ResponseHandler, AckHandler DEF Deliver
<1>6. CASE \E c \in Code : \E f \in BOOLEAN : sip_strans_reply(c, f)
  BY <1>6, StransReply
<1>7. CASE Timers
  BY <1>7, TmrHandler, Retransmit, StransTmr, StransRetransmit DEF Timers
<1>8. CASE ConnBreaks
  BY <1>8, Breaks
<1>9. CASE Tick
  BY <1>9, Ticks
<1>10. CASE UNCHANGED vars
  <2>1. /\ ct' = ct /\ st' = st /\ net' = net /\ queued' = queued
        /\ canceled' = canceled /\ told' = told /\ finals' = finals
        /\ seen' = seen /\ final' = final /\ failed' = failed
        /\ UNCHANGED <<config, server>>
    BY <1>10 DEF vars, client, server
  <2>2. Carries(net', net, {})
    BY <2>1, CarrySame DEF Inv
  <2>3. Types'
    BY <2>1, <2>2, ClientTypes DEF Inv, Types
  <2>4. ClientsOK' /\ ServerOK' /\ CancelOK' /\ (seen' > 1 => failed')
    BY <2>1, ClientsSame, ServerSame
  <2>5. Outcome'
    BY <2>1, <2>2, OutcomeFrame
  <2>6. Unsent'
    BY <2>1 DEF Inv, Unsent, config
  <2>7. Outlives'
    BY <2>1, <2>2, OutlivesFrame DEF config
  <2>8. Acks'
    BY <2>1, <2>2, AcksFrame
  <2> QED
    BY <2>3, <2>4, <2>5, <2>6, <2>7, <2>8 DEF Inv
<1> QED
  BY <1>1, <1>2, <1>3, <1>4, <1>5, <1>6, <1>7, <1>8, <1>9, <1>10 DEF Next

LEMMA Invariant == Spec => []Inv
  BY InvInit, InvNext, PTL DEF Spec

(* The user of ctrans.c hears of his request exactly once, however answer, *)
(* timeout, failed retransmission and broken connection race, for timers   *)
(* of any length.                                                          *)
THEOREM ToldExactlyOnce == Spec => []OneOutcome
<1>1. Inv => OneOutcome
  BY DEF Inv, Types, Outcome, Told, OneOutcome, TypeOK, Ctrans, Strans, Lifetime
<1> QED
  BY <1>1, Invariant, PTL

(* What he hears is what the TU at the other end answered, also when a     *)
(* CANCEL crosses the answer.                                              *)
THEOREM AnswersAgree == Spec => []Agreement
<1>1. Inv => Agreement
  BY DEF Inv, Outcome, Agreement
<1> QED
  BY <1>1, Invariant, PTL

(* The TU gets a request once, whatever is repeated and duplicated, unless *)
(* its own answer could not be sent: the server transaction outlives every *)
(* copy, because the last one is sent T1 before the client's ends.         *)
THEOREM RequestSeenOnce == Spec => []AtMostOnce
<1>1. Inv => AtMostOnce
  BY DEF Inv, AtMostOnce
<1> QED
  BY <1>1, Invariant, PTL

(* An answer to an INVITE that comes again finds the client transaction    *)
(* still waiting to acknowledge it: COMPLETE_WAIT is long enough.          *)
THEOREM AnswersAcknowledged == Spec => []AckedAgain
<1>1. Inv => AckedAgain
  BY DEF Inv, AckedAgain, Acks, Outcome, Told
<1> QED
  BY <1>1, Invariant, PTL
=============================================================================
