---------------------------- MODULE SipConnProofs ----------------------------
(***************************************************************************)
(* Proofs about SipConn, for every number of peers, connections and        *)
(* messages, any size of messages and queues, all timeouts and whatever    *)
(* the peers send.                                                         *)
(***************************************************************************)
EXTENDS SipConn, SequenceTheorems, FiniteSetTheorems, WellFoundedInduction,
        TLAPS

Letter == {"h", "e", "b", "r", "n", "x"}
Status == {"queued", "sent", "refused", "told", "withdrawn"}
Address == (UNION {p.addrs : p \in Plans}) \cup {None}

ConnRec ==
    [st : {"none", "opening", "open", "closing", "freed"}, addr : Address,
     hashed : BOOLEAN, established : BOOLEAN, ql : Seq(Nat \ {0}),
     sendq : Seq(Nat), out : Seq(Nat), failed : BOOLEAN,
     tmr : Off..Idle, tmr_ka : Off..LongestInterval,
     ka_interval : 0..LongestInterval, kal : BOOLEAN, got : Nat, pos : Nat,
     seen : Nat, sock : BOOLEAN, quiet : Nat]

RunRec(n) ==
    [h : {"none", "estab", "close", "recv"}, c : 1..n \cup {None},
     le : BOOLEAN, cb : BOOLEAN]

Typed ==
    /\ plan \in Plans
    /\ conn \in [1..plan.conns -> ConnRec]
    /\ msg \in Seq(Status)
    /\ qent \in Seq(1..plan.conns \cup {None})
    /\ Len(qent) = Len(msg)
    /\ run \in RunRec(plan.conns)

(* One connection.                                                         *)

(* Only a connection with a socket is found and has timers; it is          *)
(* established once it is open, and only then it has had messages.         *)
Life(k) ==
    /\ k.hashed => HasTc(k)
    /\ HasTc(k) => (k.established <=> k.st = "open")
    /\ k.tmr # Off <=> HasTc(k)
    /\ k.tmr_ka # Off => k.st = "open"
    /\ k.sock => k.st \in {"open", "closing", "freed"}

(* The idle timer bounds the silence, and so does the keepalive timer      *)
(* until it has sent a ping: then the pong is due before the next ping,    *)
(* unless the wait for that has wrapped.                                   *)
Time(k) ==
    HasTc(k) =>
      /\ \/ /\ k.quiet + k.tmr <= Idle
            /\ k.tmr_ka # Off => k.quiet + k.tmr_ka <= k.ka_interval
         \/ /\ k.tmr_ka # Off
            /\ k.tmr < k.tmr_ka
            /\ k.quiet + k.tmr <= Idle + Pong
            /\ k.quiet + k.tmr <= k.ka_interval + Pong
         \/ /\ k.tmr_ka # Off
            /\ Wrap <= k.ka_interval
      /\ k.tmr_ka # Off => /\ 2 * Pong <= k.ka_interval
                           /\ k.tmr_ka <= k.ka_interval

(* The units of each message in s stay together.                           *)
Block(s, i, j) ==
    /\ i < j + Size /\ Len(s) >= j + Size - 1
    /\ \A l \in 1..Len(s) : (s[l] = s[i]) <=> (l \in j..(j + Size - 1))

Whole(s) ==
    \A i \in 1..Len(s) : s[i] = Crlf \/ \E j \in 1..i : Block(s, i, j)

Sorted(s) == \A i, j \in 1..Len(s) : i < j /\ s[j] # Crlf => s[i] <= s[j]

(* What has gone out in s comes before what waits in q.                    *)
Before(s, q) == \A i \in 1..Len(s), j \in 1..Len(q) : s[i] < q[j]

Sending(k) ==
    HasTc(k) =>
      /\ Len(k.sendq) <= TxMax
      /\ Whole(Stream(k))
      /\ k.failed \/ (Sorted(Stream(k)) /\ Before(Stream(k), k.ql))

(* Only messages that count as sent are in a stream.                       *)
Recorded(k, ms) ==
    HasTc(k) =>
      \A i \in 1..Len(Stream(k)) :
          Stream(k)[i] # Crlf =>
              Stream(k)[i] \in 1..Len(ms) /\ ms[Stream(k)[i]] = "sent"

(* The queue of connection c has the messages that point to it, in the     *)
(* order they came.                                                        *)
Queue(q, c, qs) ==
    /\ \A i, j \in 1..Len(q) : i < j => q[i] < q[j]
    /\ \A i \in 1..Len(q) : q[i] \in 1..Len(qs)
    /\ \A m \in 1..Len(qs) : In(m, q) <=> qs[m] = c

(* What has been consumed of script s ends where something begins.         *)
Parsed(k, s) ==
    HasTc(k) =>
      /\ k.got <= Len(s)
      /\ k.pos < Len(s) => s[k.pos + 1] \in {"h", "r", "x"}
      /\ k.seen = Cardinality({i \in 1..k.pos : s[i] = "b"})

NoneWaits(k, s) == HasTc(k) => \A i \in (k.pos + 1)..k.got : s[i] # "b"

Sound(k, s) ==
    /\ k \in ConnRec
    /\ Life(k) /\ Time(k) /\ Sending(k)
    /\ k.pos <= k.got
    /\ Parsed(k, s)

Connections ==
    \A c \in 1..plan.conns :
        /\ Sound(conn[c], plan.script)
        /\ Recorded(conn[c], msg)
        /\ Queue(conn[c].ql, c, qent)
        /\ (run.h = "recv" /\ run.c = c) \/ NoneWaits(conn[c], plan.script)

(* Loop r and its connection k.                                            *)
Busy(r, k) ==
    /\ r.h = "estab" => /\ k.st = "open"
                        /\ r.le <=> k.ql # <<>>
                        /\ r.cb => k.failed
    /\ r.h = "close" => /\ k.st = "closing"
                        /\ r.le <=> k.ql # <<>>
    /\ r.h = "recv" => /\ k.st = "open"
                       /\ r.cb => k.quiet = 0 /\ k.tmr = Idle
                       /\ ~r.le => k.pos = k.got

(* Only the loop of connection c leaves it closing or with messages.       *)
Owned(r, c, k) ==
    /\ k.st = "closing" => r.h = "close" /\ r.c = c
    /\ k.ql # <<>> =>
          k.st = "opening" \/ (r.h \in {"estab", "close"} /\ r.c = c)

Running ==
    /\ run.h # "none" => run.c \in 1..plan.conns /\ Busy(run, conn[run.c])
    /\ \A c \in 1..plan.conns : Owned(run, c, conn[c])

Pointers == \A m \in 1..Len(msg) : msg[m] = "queued" <=> qent[m] # None

Inv == Typed /\ Connections /\ Running /\ Pointers
-----------------------------------------------------------------------------
(* Numbers.                                                                *)

(* Every non-empty set of numbers has a least one.                         *)
LEMMA MinFacts ==
    ASSUME NEW S \in SUBSET Nat, S # {}
    PROVE  Min(S) \in S /\ \A i \in S : Min(S) <= i
<1>1. PICK m \in S : \A i \in S : ~(<<i, m>> \in OpToRel(<, Nat))
  BY NatLessThanWellFounded, WFMin
<1>2. \A i \in S : ~(i < m)
  BY <1>1 DEF OpToRel
<1>3. \A i \in S : m <= i
  BY <1>2
<1> QED
  BY <1>3 DEF Min

(* Every non-empty set of numbers with a bound has a greatest one.         *)
LEMMA MaxFacts ==
    ASSUME NEW b \in Nat, NEW S \in SUBSET (0..b), S # {}
    PROVE  Max(S) \in S /\ \A i \in S : i <= Max(S)
<1> DEFINE B == {n \in Nat : \A i \in S : i <= n}
<1>1. b \in B
  OBVIOUS
<1>2. B \in SUBSET Nat /\ B # {}
  BY <1>1
<1> DEFINE m == Min(B)
<1>3. m \in B /\ \A n \in B : m <= n
  BY <1>2, MinFacts
<1> HIDE DEF m
<1>4. m \in Nat /\ \A i \in S : i <= m
  BY <1>3
<1>5. m \in S
  <2> SUFFICES ASSUME m \notin S PROVE FALSE
    OBVIOUS
  <2>1. \A i \in S : i < m
    BY <1>4
  <2>a. PICK i \in S : TRUE
    OBVIOUS
  <2>b. i \in Nat /\ i < m
    BY <2>1
  <2>2. m - 1 \in Nat
    BY <1>4, <2>b
  <2>3. \A x \in S : x <= m - 1
    BY <1>4, <2>1
  <2>4. m - 1 \in B
    BY <2>2, <2>3
  <2> QED
    BY <1>3, <1>4, <2>4
<1> QED
  BY <1>4, <1>5 DEF Max

LEMMA MinOfTwo ==
    ASSUME NEW a \in Nat, NEW b \in Nat
    PROVE  Min({a, b}) \in Nat /\ Min({a, b}) = IF a <= b THEN a ELSE b
<1>1. Min({a, b}) \in {a, b} /\ \A i \in {a, b} : Min({a, b}) <= i
  BY MinFacts
<1> QED
  BY <1>1

LEMMA MaxOfTwo ==
    ASSUME NEW a \in Nat, NEW b \in Nat
    PROVE  Max({a, b}) \in {a, b} /\ a <= Max({a, b}) /\ b <= Max({a, b})
<1>1. {a, b} \in SUBSET (0..(a + b))
  OBVIOUS
<1> QED
  BY <1>1, MaxFacts

(* The longest interval is one.                                            *)
LEMMA Intervals ==
    /\ LongestInterval \in Nat
    /\ \A i \in Flow : i \in Nat /\ i <= LongestInterval
    /\ Intval <= LongestInterval
    /\ 2 * Pong <= LongestInterval
<1> DEFINE S == Flow \cup {Intval, 2 * Pong}
<1>1. PICK i \in Nat : Flow \subseteq 0..i
  BY TimeAssumption
<1>2. Intval \in Nat /\ Pong \in Nat
  BY TimeAssumption
<1>3. S \in SUBSET (0..(i + Intval + 2 * Pong)) /\ S # {}
  BY <1>1, <1>2
<1>4. i + Intval + 2 * Pong \in Nat
  BY <1>1, <1>2
<1>5. Max(S) \in S /\ \A x \in S : x <= Max(S)
  BY <1>3, <1>4, MaxFacts
<1>6. S \in SUBSET Nat
  BY <1>3, <1>4
<1>7. LongestInterval = Max(S)
  BY DEF LongestInterval
<1> HIDE DEF S
<1>8. LongestInterval \in Nat /\ \A x \in S : x \in Nat /\ x <= LongestInterval
  BY <1>5, <1>6, <1>7
<1> QED
  BY <1>8 DEF S

LEMMA Timeouts ==
    /\ Idle \in Nat /\ Accept \in Nat /\ Accept <= Idle
    /\ Pong \in Nat /\ 1 <= Pong /\ Pong <= Idle
    /\ LongestInterval \in Nat /\ 2 * Pong <= LongestInterval
  BY TimeAssumption, Intervals

(* An interval that is asked for, and the wait for the next ping: a pong   *)
(* is due before, unless the interval is too long for 32 bits.             *)
LEMMA Waits ==
    /\ \A i \in Flow :
          /\ Interval(i) \in Nat /\ Interval(i) <= LongestInterval
          /\ 2 * Pong <= Interval(i)
    /\ \A n \in Nat : 2 * Pong <= n =>
          \A w \in sip_keepalive_wait(n) :
              w \in Nat /\ w <= n /\ (n < Wrap => Pong < w)
<1>1. ASSUME NEW i \in Flow
      PROVE  /\ Interval(i) \in Nat /\ Interval(i) <= LongestInterval
             /\ 2 * Pong <= Interval(i)
  <2> DEFINE x == IF i = 0 THEN Intval ELSE i
             y == 2 * Pong
  <2>1. x \in Nat /\ x <= LongestInterval /\ y \in Nat /\ y <= LongestInterval
    BY Intervals, TimeAssumption
  <2> HIDE DEF x, y
  <2>2. Max({x, y}) \in {x, y} /\ y <= Max({x, y})
    BY <2>1, MaxOfTwo
  <2>3. Interval(i) = Max({x, y})
    BY DEF Interval, x, y
  <2> QED
    BY <2>1, <2>2, <2>3 DEF y
<1>2. ASSUME NEW n \in Nat, 2 * Pong <= n, NEW w \in sip_keepalive_wait(n)
      PROVE  w \in Nat /\ w <= n /\ (n < Wrap => Pong < w)
  <2>1. PICK v \in 1..n : 10 * v >= 8 * n /\ w = v % Wrap
    BY <1>2 DEF sip_keepalive_wait
  <2>2. v \in Nat /\ v <= n /\ Pong < v /\ Wrap \in Nat \ {0}
    BY <1>2, <2>1, Timeouts, TimeAssumption
  <2>3. w \in Nat /\ w <= v /\ (v < Wrap => w = v)
    BY <2>1, <2>2
  <2> QED
    BY <2>2, <2>3
<1> QED
  BY <1>1, <1>2

-----------------------------------------------------------------------------
(* Sequences.                                                              *)

LEMMA Appended ==
    ASSUME NEW q \in Seq(Nat), NEW m \in Nat, NEW n \in Nat
    PROVE  /\ Append_n(q, m, n) \in Seq(Nat)
           /\ Len(Append_n(q, m, n)) = Len(q) + n
           /\ \A i \in 1..(Len(q) + n) :
                 Append_n(q, m, n)[i] = IF i <= Len(q) THEN q[i] ELSE m
<1> DEFINE t == [i \in 1..n |-> m]
<1>1. t \in Seq(Nat) /\ Len(t) = n /\ \A i \in 1..n : t[i] = m
  OBVIOUS
<1> HIDE DEF t
<1>2. /\ q \o t \in Seq(Nat)
      /\ Len(q \o t) = Len(q) + Len(t)
      /\ \A i \in 1..(Len(q) + Len(t)) :
            (q \o t)[i] = IF i <= Len(q) THEN q[i] ELSE t[i - Len(q)]
  BY <1>1, ConcatProperties
<1>3. Len(q) \in Nat
  BY LenProperties
<1>4. Append_n(q, m, n) = q \o t
  BY DEF Append_n, t
<1> QED
  BY <1>1, <1>2, <1>3, <1>4

(* Stream s2 is s and n times m.                                           *)
Grown(s, s2, m, n) ==
    /\ Len(s2) = Len(s) + n
    /\ \A i \in 1..Len(s2) : s2[i] = IF i <= Len(s) THEN s[i] ELSE m

LEMMA UnitsFacts ==
    ASSUME NEW m \in Nat
    PROVE  /\ Units(m) \in Nat \ {0} /\ Units(m) <= TxMax
           /\ m # Crlf => Units(m) = Size
  BY SizeAssumption DEF Units

LEMMA GrownWhole ==
    ASSUME NEW s \in Seq(Nat), NEW s2 \in Seq(Nat), NEW m \in Nat,
           Grown(s, s2, m, Units(m)), Whole(s),
           m = Crlf \/ \A i \in 1..Len(s) : s[i] # m
    PROVE  Whole(s2)
<1> DEFINE u == Units(m)
<1>1. u \in Nat \ {0} /\ (m # Crlf => u = Size) /\ Size \in Nat \ {0}
  BY UnitsFacts, SizeAssumption
<1>2. /\ Len(s) \in Nat /\ Len(s2) = Len(s) + u
      /\ \A i \in 1..Len(s2) : s2[i] = IF i <= Len(s) THEN s[i] ELSE m
  BY LenProperties DEF Grown
<1> HIDE DEF u
<1> SUFFICES ASSUME NEW i \in 1..Len(s2), s2[i] # Crlf
             PROVE  \E j \in 1..i : Block(s2, i, j)
  BY DEF Whole
<1>3. CASE i <= Len(s)
  <2>1. i \in 1..Len(s) /\ s2[i] = s[i]
    BY <1>2, <1>3
  <2>2. PICK j \in 1..i : Block(s, i, j)
    BY <2>1 DEF Whole
  <2>3. s[i] # m
    BY <2>1
  <2>4. \A l \in 1..Len(s2) : (s2[l] = s2[i]) <=> (l \in j..(j + Size - 1))
    <3> TAKE l \in 1..Len(s2)
    <3>1. CASE l <= Len(s)
      <4>1. l \in 1..Len(s) /\ s2[l] = s[l]
        BY <1>2, <3>1
      <4> QED
        BY <2>1, <2>2, <4>1 DEF Block
    <3>2. CASE l > Len(s)
      <4>1. s2[l] = m
        BY <1>2, <3>2
      <4>2. Len(s) >= j + Size - 1
        BY <2>2 DEF Block
      <4>3. l \notin j..(j + Size - 1)
        BY <1>1, <1>2, <3>2, <4>2
      <4> QED
        BY <2>1, <2>3, <4>1, <4>3
    <3> QED
      BY <1>2, <3>1, <3>2
  <2>5. i < j + Size /\ Len(s2) >= j + Size - 1
    BY <1>1, <1>2, <2>2 DEF Block
  <2>6. Block(s2, i, j)
    BY <2>4, <2>5 DEF Block
  <2> QED
    BY <2>6
<1>4. CASE i > Len(s)
  <2>1. s2[i] = m /\ m # Crlf /\ u = Size
    BY <1>1, <1>2, <1>4
  <2>2. Len(s) + 1 \in 1..i
    BY <1>2, <1>4
  <2>3. \A l \in 1..Len(s2) :
           (s2[l] = m) <=> (l \in (Len(s) + 1)..(Len(s) + 1 + Size - 1))
    <3> TAKE l \in 1..Len(s2)
    <3>1. CASE l <= Len(s)
      <4>1. s2[l] = s[l] /\ s[l] # m
        BY <1>2, <2>1, <3>1
      <4> QED
        BY <1>1, <1>2, <3>1, <4>1
    <3>2. CASE l > Len(s)
      BY <1>1, <1>2, <2>1, <3>2
    <3> QED
      BY <1>2, <3>1, <3>2
  <2>4. Block(s2, i, Len(s) + 1)
    BY <1>1, <1>2, <2>1, <2>3 DEF Block
  <2> QED
    BY <2>2, <2>4
<1> QED
  BY <1>2, <1>3, <1>4

LEMMA GrownSorted ==
    ASSUME NEW s \in Seq(Nat), NEW s2 \in Seq(Nat), NEW m \in Nat,
           NEW n \in Nat, Grown(s, s2, m, n), Sorted(s),
           m = Crlf \/ \A i \in 1..Len(s) : s[i] <= m
    PROVE  Sorted(s2)
<1>1. /\ Len(s) \in Nat /\ Len(s2) = Len(s) + n
      /\ \A i \in 1..Len(s2) : s2[i] = IF i <= Len(s) THEN s[i] ELSE m
      /\ \A i \in 1..Len(s) : s[i] \in Nat
  BY LenProperties, ElementOfSeq DEF Grown
<1> SUFFICES ASSUME NEW i \in 1..Len(s2), NEW j \in 1..Len(s2), i < j,
                    s2[j] # Crlf
             PROVE  s2[i] <= s2[j]
  BY DEF Sorted
<1>2. CASE j <= Len(s)
  <2>1. i \in 1..Len(s) /\ j \in 1..Len(s)
    BY <1>1, <1>2
  <2>2. s2[i] = s[i] /\ s2[j] = s[j]
    BY <1>1, <2>1
  <2> QED
    BY <2>1, <2>2 DEF Sorted
<1>3. CASE j > Len(s)
  <2>1. s2[j] = m /\ \A l \in 1..Len(s) : s[l] <= m
    BY <1>1, <1>3
  <2>2. CASE i <= Len(s)
    <3>1. i \in 1..Len(s) /\ s2[i] = s[i]
      BY <1>1, <2>2
    <3> QED
      BY <2>1, <3>1
  <2>3. CASE i > Len(s)
    BY <1>1, <2>1, <2>3
  <2> QED
    BY <1>1, <2>2, <2>3
<1> QED
  BY <1>1, <1>2, <1>3

-----------------------------------------------------------------------------
(* Records.                                                                *)

LEMMA Members ==
    \A k \in ConnRec :
        /\ k.st \in {"none", "opening", "open", "closing", "freed"}
        /\ k.addr \in Address
        /\ k.hashed \in BOOLEAN /\ k.established \in BOOLEAN
        /\ k.failed \in BOOLEAN /\ k.kal \in BOOLEAN /\ k.sock \in BOOLEAN
        /\ k.ql \in Seq(Nat \ {0}) /\ k.sendq \in Seq(Nat)
        /\ k.out \in Seq(Nat)
        /\ k.tmr \in Off..Idle /\ k.tmr_ka \in Off..LongestInterval
        /\ k.ka_interval \in 0..LongestInterval
        /\ k.got \in Nat /\ k.pos \in Nat /\ k.seen \in Nat /\ k.quiet \in Nat
  BY DEF ConnRec

LEMMA Clocks ==
    ASSUME NEW k \in ConnRec
    PROVE  /\ k.tmr \in Int /\ -1 <= k.tmr /\ k.tmr <= Idle
           /\ k.tmr_ka \in Int /\ -1 <= k.tmr_ka
           /\ k.tmr_ka <= LongestInterval
           /\ k.ka_interval \in Nat /\ k.ka_interval <= LongestInterval
           /\ k.quiet \in Nat
<1>1. /\ k.tmr \in Off..Idle /\ k.tmr_ka \in Off..LongestInterval
      /\ k.ka_interval \in 0..LongestInterval /\ k.quiet \in Nat
  BY Members
<1> QED
  BY <1>1, Timeouts DEF Off

(* The fields two records of a connection have in common.                  *)
SameState(k, l) ==
    /\ l.st = k.st /\ l.addr = k.addr /\ l.hashed = k.hashed
    /\ l.established = k.established /\ l.kal = k.kal /\ l.sock = k.sock

SameTime(k, l) ==
    /\ l.tmr = k.tmr /\ l.tmr_ka = k.tmr_ka
    /\ l.ka_interval = k.ka_interval /\ l.quiet = k.quiet

SameInput(k, l) == l.got = k.got /\ l.pos = k.pos /\ l.seen = k.seen

SameOutput(k, l) ==
    l.sendq = k.sendq /\ l.out = k.out /\ l.failed = k.failed

(* What becomes of the fields in the updates the actions make.             *)
Failed(k) == [k EXCEPT !.failed = TRUE]
Output(k, o, q) == [k EXCEPT !.out = o, !.sendq = q]
Queued(k, q) == [k EXCEPT !.ql = q]
Opened(k) == [k EXCEPT !.st = "open", !.established = TRUE]
Ticked(k) == [k EXCEPT !.tmr = Down(@), !.tmr_ka = Down(@), !.quiet = @ + 1]
Pinged(k, w) == [k EXCEPT !.tmr = Pong, !.tmr_ka = w]
Pinging(k, w, i) == [k EXCEPT !.kal = TRUE, !.tmr_ka = w, !.ka_interval = i]
Signal(k, b) == [k EXCEPT !.kal = b]
Got(k, n) == [k EXCEPT !.got = n]
Seen(k) == [k EXCEPT !.seen = @ + 1, !.sock = TRUE]
New(a, t, q) == [NewConn(a, t) EXCEPT !.ql = q]
Freed(a, b) == [Unused EXCEPT !.st = "freed", !.addr = a, !.sock = b]

LEMMA FailedFields ==
    ASSUME NEW k \in ConnRec
    PROVE  /\ Failed(k) \in ConnRec /\ SameState(k, Failed(k))
           /\ SameTime(k, Failed(k)) /\ SameInput(k, Failed(k))
           /\ Failed(k).ql = k.ql /\ Failed(k).out = k.out
           /\ Failed(k).sendq = k.sendq /\ Failed(k).failed = TRUE
  BY DEF Failed, ConnRec, SameState, SameTime, SameInput

LEMMA OutputFields ==
    ASSUME NEW k \in ConnRec, NEW o \in Seq(Nat), NEW q \in Seq(Nat)
    PROVE  /\ Output(k, o, q) \in ConnRec /\ SameState(k, Output(k, o, q))
           /\ SameTime(k, Output(k, o, q)) /\ SameInput(k, Output(k, o, q))
           /\ Output(k, o, q).ql = k.ql /\ Output(k, o, q).out = o
           /\ Output(k, o, q).sendq = q
           /\ Output(k, o, q).failed = k.failed
  BY DEF Output, ConnRec, SameState, SameTime, SameInput

LEMMA QueuedFields ==
    ASSUME NEW k \in ConnRec, NEW q \in Seq(Nat \ {0})
    PROVE  /\ Queued(k, q) \in ConnRec /\ SameState(k, Queued(k, q))
           /\ SameTime(k, Queued(k, q)) /\ SameInput(k, Queued(k, q))
           /\ SameOutput(k, Queued(k, q)) /\ Queued(k, q).ql = q
  BY DEF Queued, ConnRec, SameState, SameTime, SameInput, SameOutput

LEMMA OpenedFields ==
    ASSUME NEW k \in ConnRec
    PROVE  LET l == Opened(k) IN
           /\ l \in ConnRec /\ SameTime(k, l) /\ SameInput(k, l)
           /\ SameOutput(k, l) /\ l.ql = k.ql
           /\ l.st = "open" /\ l.established = TRUE /\ l.hashed = k.hashed
           /\ l.sock = k.sock
  BY DEF Opened, ConnRec, SameTime, SameInput, SameOutput

LEMMA TickedFields ==
    ASSUME NEW k \in ConnRec, k.tmr # 0, k.tmr_ka # 0
    PROVE  LET l == Ticked(k) IN
           /\ l \in ConnRec /\ SameState(k, l) /\ SameInput(k, l)
           /\ SameOutput(k, l) /\ l.ql = k.ql
           /\ l.tmr = Down(k.tmr) /\ l.tmr_ka = Down(k.tmr_ka)
           /\ l.quiet = k.quiet + 1 /\ l.ka_interval = k.ka_interval
<1>1. /\ Down(k.tmr) \in Off..Idle /\ Down(k.tmr_ka) \in Off..LongestInterval
      /\ k.quiet + 1 \in Nat
  BY Clocks, Timeouts DEF Down, Off
<1> QED
  BY <1>1 DEF Ticked, ConnRec, SameState, SameInput, SameOutput

LEMMA PingedFields ==
    ASSUME NEW k \in ConnRec, NEW w \in 0..LongestInterval
    PROVE  LET l == Pinged(k, w) IN
           /\ l \in ConnRec /\ SameState(k, l) /\ SameInput(k, l)
           /\ SameOutput(k, l) /\ l.ql = k.ql
           /\ l.tmr = Pong /\ l.tmr_ka = w /\ l.quiet = k.quiet
           /\ l.ka_interval = k.ka_interval
<1>1. Pong \in Off..Idle /\ w \in Off..LongestInterval
  BY Timeouts DEF Off
<1> QED
  BY <1>1 DEF Pinged, ConnRec, SameState, SameInput, SameOutput

LEMMA PingingFields ==
    ASSUME NEW k \in ConnRec, NEW w \in 0..LongestInterval,
           NEW i \in 0..LongestInterval
    PROVE  LET l == Pinging(k, w, i) IN
           /\ l \in ConnRec /\ SameInput(k, l) /\ SameOutput(k, l)
           /\ l.st = k.st /\ l.hashed = k.hashed /\ l.sock = k.sock
           /\ l.established = k.established /\ l.ql = k.ql
           /\ l.tmr = k.tmr /\ l.quiet = k.quiet
           /\ l.tmr_ka = w /\ l.ka_interval = i
<1>1. w \in Off..LongestInterval
  BY Timeouts DEF Off
<1> QED
  BY <1>1 DEF Pinging, ConnRec, SameInput, SameOutput

LEMMA SignalFields ==
    ASSUME NEW k \in ConnRec, NEW b \in BOOLEAN
    PROVE  LET l == Signal(k, b) IN
           /\ l \in ConnRec /\ SameTime(k, l) /\ SameInput(k, l)
           /\ SameOutput(k, l)
           /\ l.st = k.st /\ l.hashed = k.hashed /\ l.sock = k.sock
           /\ l.established = k.established /\ l.ql = k.ql
  BY DEF Signal, ConnRec, SameTime, SameInput, SameOutput

LEMMA GotFields ==
    ASSUME NEW k \in ConnRec, NEW n \in Nat
    PROVE  LET l == Got(k, n) IN
           /\ l \in ConnRec /\ SameState(k, l) /\ SameTime(k, l)
           /\ SameOutput(k, l) /\ l.ql = k.ql
           /\ l.got = n /\ l.pos = k.pos /\ l.seen = k.seen
  BY DEF Got, ConnRec, SameState, SameTime, SameOutput

LEMMA ConsumedFields ==
    ASSUME NEW k \in ConnRec, NEW n \in Nat
    PROVE  LET l == Consumed(k, n) IN
           /\ l \in ConnRec /\ SameState(k, l)
           /\ SameOutput(k, l) /\ l.ql = k.ql
           /\ l.tmr = Idle /\ l.tmr_ka = k.tmr_ka /\ l.quiet = 0
           /\ l.ka_interval = k.ka_interval
           /\ l.got = k.got /\ l.pos = k.pos + n /\ l.seen = k.seen
<1>1. Idle \in Off..Idle /\ k.pos + n \in Nat
  BY Timeouts, Members DEF Off
<1> QED
  BY <1>1 DEF Consumed, ConnRec, SameState, SameOutput

LEMMA SeenFields ==
    ASSUME NEW k \in ConnRec
    PROVE  LET l == Seen(k) IN
           /\ l \in ConnRec /\ SameTime(k, l) /\ SameOutput(k, l)
           /\ l.st = k.st /\ l.hashed = k.hashed /\ l.sock = TRUE
           /\ l.established = k.established /\ l.ql = k.ql
           /\ l.got = k.got /\ l.pos = k.pos /\ l.seen = k.seen + 1
<1>1. k.seen + 1 \in Nat
  BY Members
<1> QED
  BY <1>1 DEF Seen, ConnRec, SameTime, SameOutput

LEMMA ClosedFields ==
    ASSUME NEW k \in ConnRec
    PROVE  LET l == Closed(k) IN
           /\ l \in ConnRec /\ SameInput(k, l) /\ l.ql = k.ql
           /\ l.st = "closing" /\ l.hashed = FALSE /\ l.sock = k.sock
           /\ l.tmr = Off /\ l.tmr_ka = Off
<1>1. Off \in Off..Idle /\ Off \in Off..LongestInterval /\ <<>> \in Seq(Nat)
  BY Timeouts DEF Off
<1> QED
  BY <1>1 DEF Closed, ConnRec, SameInput

LEMMA UnusedFacts ==
    /\ Unused \in ConnRec
    /\ Off \in Off..Idle /\ Off \in Off..LongestInterval
    /\ <<>> \in Seq(Nat) /\ <<>> \in Seq(Nat \ {0}) /\ None \in Address
    /\ 0 \in 0..LongestInterval
<1>1. None \in Address
  BY Zenon DEF Address
<1>2. /\ Off \in Off..Idle /\ Off \in Off..LongestInterval
      /\ <<>> \in Seq(Nat) /\ <<>> \in Seq(Nat \ {0})
      /\ 0 \in 0..LongestInterval
  BY Timeouts DEF Off
<1>3. Unused \in ConnRec
  BY <1>1, <1>2 DEF Unused, ConnRec
<1> QED
  BY <1>1, <1>2, <1>3

IsNew(l, t, q) ==
    /\ l.st = "opening" /\ l.hashed = TRUE /\ l.established = FALSE
    /\ l.ql = q /\ l.sendq = <<>> /\ l.out = <<>> /\ l.failed = FALSE
    /\ l.tmr = t /\ l.tmr_ka = Off /\ l.quiet = 0 /\ l.sock = FALSE
    /\ l.got = 0 /\ l.pos = 0 /\ l.seen = 0

LEMMA NewFields ==
    ASSUME NEW a \in Address, NEW t \in 0..Idle, NEW q \in Seq(Nat \ {0})
    PROVE  New(a, t, q) \in ConnRec /\ IsNew(New(a, t, q), t, q)
<1>1. t \in Off..Idle
  BY Timeouts DEF Off
<1> QED
  BY <1>1, UnusedFacts DEF New, Unused, NewConn, ConnRec, IsNew

LEMMA FreedFields ==
    ASSUME NEW a \in Address, NEW b \in BOOLEAN
    PROVE  LET l == Freed(a, b) IN
           /\ l \in ConnRec
           /\ l.st = "freed" /\ l.hashed = FALSE /\ l.ql = <<>>
           /\ l.tmr = Off /\ l.tmr_ka = Off /\ l.got = 0 /\ l.pos = 0
  BY UnusedFacts DEF Freed, Unused, ConnRec
-----------------------------------------------------------------------------
(* What a change of some fields leaves true.                               *)

LEMMA KeepLife ==
    ASSUME NEW k, NEW l, SameState(k, l), l.tmr # Off <=> k.tmr # Off,
           l.tmr_ka # Off => k.tmr_ka # Off, Life(k)
    PROVE  Life(l)
  BY DEF SameState, Life, HasTc

LEMMA KeepTime ==
    ASSUME NEW k, NEW l, HasTc(l) => HasTc(k), SameTime(k, l), Time(k)
    PROVE  Time(l)
  BY DEF SameTime, Time

LEMMA KeepSending ==
    ASSUME NEW k, NEW l, HasTc(l) => HasTc(k), l.ql = k.ql,
           SameOutput(k, l), Sending(k)
    PROVE  Sending(l)
  BY DEF SameOutput, Sending, Stream

LEMMA KeepRecorded ==
    ASSUME NEW k, NEW l, NEW ms, HasTc(l) => HasTc(k), l.out = k.out,
           l.sendq = k.sendq, Recorded(k, ms)
    PROVE  Recorded(l, ms)
  BY DEF Recorded, Stream

LEMMA KeepParsed ==
    ASSUME NEW k, NEW l, NEW s, HasTc(l) => HasTc(k), SameInput(k, l),
           Parsed(k, s)
    PROVE  Parsed(l, s)
  BY DEF Parsed, SameInput

LEMMA KeepNoneWaits ==
    ASSUME NEW k, NEW l, NEW s, HasTc(l) => HasTc(k), SameInput(k, l),
           NoneWaits(k, s)
    PROVE  NoneWaits(l, s)
  BY DEF NoneWaits, SameInput

(* Nothing is asked of a connection without a socket.                      *)
LEMMA SoundGone ==
    ASSUME NEW k \in ConnRec, NEW s, NEW ms, ~HasTc(k), Life(k),
           k.pos <= k.got
    PROVE  Sound(k, s) /\ Recorded(k, ms) /\ NoneWaits(k, s)
  BY DEF Sound, Time, Sending, Parsed, Recorded, NoneWaits

LEMMA SoundClosed ==
    ASSUME NEW k, NEW s, NEW ms, Sound(k, s)
    PROVE  /\ Sound(Closed(k), s) /\ Recorded(Closed(k), ms)
           /\ NoneWaits(Closed(k), s)
           /\ Closed(k).ql = k.ql /\ Closed(k).st = "closing"
<1> DEFINE l == Closed(k)
<1>1. k \in ConnRec /\ k.pos <= k.got
  BY DEF Sound
<1>2. /\ l \in ConnRec /\ SameInput(k, l) /\ l.ql = k.ql
      /\ l.st = "closing" /\ l.hashed = FALSE
      /\ l.tmr = Off /\ l.tmr_ka = Off
  BY <1>1, ClosedFields
<1> HIDE DEF l
<1>3. ~HasTc(l)
  BY <1>2 DEF HasTc
<1>4. Life(l)
  BY <1>2, <1>3 DEF Life
<1>5. l.pos <= l.got
  BY <1>1, <1>2 DEF SameInput
<1>6. Sound(l, s) /\ Recorded(l, ms) /\ NoneWaits(l, s)
  BY <1>2, <1>3, <1>4, <1>5, SoundGone
<1> QED
  BY <1>2, <1>6 DEF l

LEMMA SoundOpened ==
    ASSUME NEW k, NEW s, NEW ms, Sound(k, s), Recorded(k, ms),
           NoneWaits(k, s), k.st = "opening"
    PROVE  /\ Sound(Opened(k), s) /\ Recorded(Opened(k), ms)
           /\ NoneWaits(Opened(k), s)
           /\ Opened(k).ql = k.ql /\ Opened(k).st = "open"
<1> DEFINE l == Opened(k)
<1>1. /\ k \in ConnRec /\ Life(k) /\ Time(k) /\ Sending(k)
      /\ k.pos <= k.got /\ Parsed(k, s)
  BY DEF Sound
<1>2. /\ l \in ConnRec /\ SameTime(k, l) /\ SameInput(k, l)
      /\ SameOutput(k, l) /\ l.ql = k.ql
      /\ l.st = "open" /\ l.established = TRUE /\ l.hashed = k.hashed
      /\ l.sock = k.sock
  BY <1>1, OpenedFields
<1> HIDE DEF l
<1>3. HasTc(k) /\ HasTc(l)
  BY <1>2 DEF HasTc
<1>4. Life(l)
  BY <1>1, <1>2, <1>3 DEF Life, SameTime
<1>5. Time(l) /\ Sending(l) /\ Parsed(l, s) /\ l.pos <= l.got
  BY <1>1, <1>2, <1>3, KeepTime, KeepSending, KeepParsed DEF SameInput
<1>6. Recorded(l, ms) /\ NoneWaits(l, s)
  BY <1>2, <1>3, KeepRecorded, KeepNoneWaits DEF SameOutput
<1> QED
  BY <1>2, <1>4, <1>5, <1>6 DEF Sound, l

LEMMA StreamFacts ==
    ASSUME NEW k \in ConnRec
    PROVE  /\ Stream(k) \in Seq(Nat)
           /\ Len(k.out) \in Nat /\ Len(k.sendq) \in Nat
           /\ Len(Stream(k)) = Len(k.out) + Len(k.sendq)
           /\ \A i \in 1..Len(Stream(k)) :
                 /\ Stream(k)[i] \in Nat
                 /\ Stream(k)[i] = IF i <= Len(k.out) THEN k.out[i]
                                   ELSE k.sendq[i - Len(k.out)]
<1>1. k.out \in Seq(Nat) /\ k.sendq \in Seq(Nat)
  BY Members
<1>2. /\ k.out \o k.sendq \in Seq(Nat)
      /\ Len(k.out \o k.sendq) = Len(k.out) + Len(k.sendq)
      /\ \A i \in 1..(Len(k.out) + Len(k.sendq)) :
            (k.out \o k.sendq)[i] = IF i <= Len(k.out) THEN k.out[i]
                                    ELSE k.sendq[i - Len(k.out)]
  BY <1>1, ConcatProperties
<1>3. Len(k.out) \in Nat /\ Len(k.sendq) \in Nat
  BY <1>1, LenProperties
<1>4. \A i \in 1..Len(k.out \o k.sendq) : (k.out \o k.sendq)[i] \in Nat
  BY <1>2, ElementOfSeq
<1> QED
  BY <1>2, <1>3, <1>4 DEF Stream

(* A stream grows at its end, whether the kernel takes the units or they   *)
(* wait in the send queue.                                                 *)
LEMMA ConcatGrows ==
    ASSUME NEW o \in Seq(Nat), NEW q \in Seq(Nat), NEW m \in Nat,
           NEW a \in Nat, NEW b \in Nat, q = <<>> \/ a = 0
    PROVE  Grown(o \o q, Append_n(o, m, a) \o Append_n(q, m, b), m, a + b)
<1> DEFINE o2 == Append_n(o, m, a)
           q2 == Append_n(q, m, b)
           s == o \o q
           s2 == o2 \o q2
           x == Len(o)
           y == Len(q)
<1>1. x \in Nat /\ y \in Nat /\ (a = 0 \/ y = 0)
  BY LenProperties, EmptySeq
<1>2. /\ o2 \in Seq(Nat) /\ Len(o2) = x + a
      /\ \A i \in 1..(x + a) : o2[i] = IF i <= x THEN o[i] ELSE m
  BY Appended
<1>3. /\ q2 \in Seq(Nat) /\ Len(q2) = y + b
      /\ \A i \in 1..(y + b) : q2[i] = IF i <= y THEN q[i] ELSE m
  BY Appended
<1>4. /\ Len(s) = x + y
      /\ \A i \in 1..(x + y) : s[i] = IF i <= x THEN o[i] ELSE q[i - x]
  BY ConcatProperties
<1> HIDE DEF o2, q2
<1>5. /\ Len(s2) = Len(o2) + Len(q2)
      /\ \A i \in 1..(Len(o2) + Len(q2)) :
            s2[i] = IF i <= Len(o2) THEN o2[i] ELSE q2[i - Len(o2)]
  BY <1>2, <1>3, ConcatProperties
<1> HIDE DEF s, s2, x, y
<1>6. /\ Len(s2) = x + a + (y + b)
      /\ \A i \in 1..(x + a + (y + b)) :
            s2[i] = IF i <= x + a THEN o2[i] ELSE q2[i - (x + a)]
  BY <1>2, <1>3, <1>5
<1>7. ASSUME NEW i \in 1..(x + a + (y + b))
      PROVE  s2[i] = IF i <= x + y THEN s[i] ELSE m
  <2>1. CASE i <= x
    <3>1. o2[i] = o[i] /\ s2[i] = o2[i] /\ s[i] = o[i]
      BY <1>1, <1>2, <1>4, <1>6, <2>1
    <3> QED
      BY <1>1, <2>1, <3>1
  <2>2. CASE i > x /\ i <= x + a
    <3>1. o2[i] = m /\ s2[i] = o2[i] /\ y = 0
      BY <1>1, <1>2, <1>6, <2>2
    <3> QED
      BY <1>1, <2>2, <3>1
  <2>3. CASE i > x + a
    <3> DEFINE j == i - (x + a)
    <3>1. j \in 1..(y + b) /\ s2[i] = q2[j]
      BY <1>1, <1>6, <2>3
    <3>2. j <= y => a = 0
      BY <1>1, <3>1
    <3>3. CASE j <= y
      <4>1. q2[j] = q[j] /\ s[i] = q[j]
        BY <1>1, <1>3, <1>4, <2>3, <3>1, <3>2, <3>3
      <4> QED
        BY <1>1, <3>1, <3>2, <3>3, <4>1
    <3>4. CASE j > y
      <4>1. q2[j] = m
        BY <1>1, <1>3, <3>1, <3>4
      <4>2. ~(i <= x + y)
        BY <1>1, <3>4
      <4> QED
        BY <3>1, <4>1, <4>2
    <3> QED
      BY <1>1, <3>3, <3>4
  <2> QED
    BY <1>1, <2>1, <2>2, <2>3
<1>8. Len(s2) = Len(s) + (a + b)
  BY <1>1, <1>4, <1>6
<1>9. Grown(s, s2, m, a + b)
  BY <1>1, <1>4, <1>6, <1>7, <1>8 DEF Grown
<1> QED
  BY <1>9 DEF s, s2, o2, q2

LEMMA StreamGrows ==
    ASSUME NEW k \in ConnRec, NEW l \in ConnRec, NEW m \in Nat,
           NEW a \in Nat, NEW b \in Nat,
           l.out = Append_n(k.out, m, a), l.sendq = Append_n(k.sendq, m, b),
           k.sendq = <<>> \/ a = 0
    PROVE  /\ Grown(Stream(k), Stream(l), m, a + b)
           /\ Len(l.sendq) = Len(k.sendq) + b
<1>1. k.out \in Seq(Nat) /\ k.sendq \in Seq(Nat)
  BY Members
<1>2. Grown(k.out \o k.sendq,
            Append_n(k.out, m, a) \o Append_n(k.sendq, m, b), m, a + b)
  BY <1>1, ConcatGrows
<1>3. Len(Append_n(k.sendq, m, b)) = Len(k.sendq) + b
  BY <1>1, Appended
<1> QED
  BY <1>2, <1>3, Zenon DEF Stream

(* tcp_send leaves all but the stream alone, which gets all of the message *)
(* or nothing.                                                             *)
LEMMA Sends ==
    ASSUME NEW k \in ConnRec, NEW m \in Nat, NEW r \in tcp_send(k, m)
    PROVE  /\ r.k \in ConnRec /\ SameState(k, r.k) /\ SameTime(k, r.k)
           /\ SameInput(k, r.k) /\ r.k.ql = k.ql
           /\ r.ok \in BOOLEAN
           /\ r.ok => /\ HasTc(k) /\ r.k.failed = k.failed
                      /\ Grown(Stream(k), Stream(r.k), m, Units(m))
                      /\ Len(k.sendq) <= TxMax => Len(r.k.sendq) <= TxMax
           /\ ~r.ok => /\ r.k.failed = TRUE /\ r.k.out = k.out
                       /\ r.k.sendq = k.sendq
<1>0. /\ k.out \in Seq(Nat) /\ k.sendq \in Seq(Nat)
      /\ Len(k.sendq) \in Nat /\ (k.sendq = <<>> => Len(k.sendq) = 0)
  BY Members, LenProperties
<1>u. Units(m) \in Nat /\ Units(m) <= TxMax /\ TxMax \in Nat
  BY UnitsFacts, SizeAssumption
<1>1. \/ r = [ok |-> FALSE, k |-> Failed(k)]
      \/ /\ HasTc(k) /\ k.sendq # <<>>
         /\ Units(m) \in 0..(TxMax - Len(k.sendq))
         /\ r = [ok |-> TRUE,
                 k |-> [k EXCEPT !.sendq = Append_n(k.sendq, m, Units(m))]]
      \/ /\ HasTc(k) /\ k.sendq = <<>>
         /\ \E n \in 0..Units(m) :
               r = [ok |-> TRUE,
                    k |-> Output(k, Append_n(k.out, m, n),
                                 Append_n(k.sendq, m, Units(m) - n))]
  BY Zenon DEF tcp_send, Failed, Output
<1>2. CASE r = [ok |-> FALSE, k |-> Failed(k)]
  <2>1. r.ok = FALSE /\ r.k = Failed(k)
    BY <1>2
  <2> QED
    BY <2>1, FailedFields
<1>3. ASSUME HasTc(k), NEW a \in Nat, NEW b \in Nat, a + b = Units(m),
             k.sendq = <<>> \/ a = 0, Len(k.sendq) + b <= TxMax,
             r.ok = TRUE,
             r.k = Output(k, Append_n(k.out, m, a), Append_n(k.sendq, m, b))
      PROVE  /\ r.k \in ConnRec /\ SameState(k, r.k) /\ SameTime(k, r.k)
             /\ SameInput(k, r.k) /\ r.k.ql = k.ql
             /\ r.k.failed = k.failed
             /\ Grown(Stream(k), Stream(r.k), m, Units(m))
             /\ Len(r.k.sendq) <= TxMax
  <2> DEFINE o == Append_n(k.out, m, a)
             q == Append_n(k.sendq, m, b)
  <2>1. o \in Seq(Nat) /\ q \in Seq(Nat)
    BY <1>0, Appended
  <2>2. /\ r.k \in ConnRec /\ SameState(k, r.k) /\ SameTime(k, r.k)
        /\ SameInput(k, r.k) /\ r.k.ql = k.ql
        /\ r.k.out = o /\ r.k.sendq = q /\ r.k.failed = k.failed
    BY <1>3, <2>1, OutputFields
  <2>3. k.sendq = <<>> \/ a = 0
    BY <1>3
  <2>4. /\ Grown(Stream(k), Stream(r.k), m, a + b)
        /\ Len(r.k.sendq) = Len(k.sendq) + b
    BY <2>2, <2>3, StreamGrows
  <2> QED
    BY <1>3, <2>2, <2>4
<1>4. ASSUME HasTc(k), k.sendq # <<>>, Units(m) \in 0..(TxMax - Len(k.sendq)),
             r = [ok |-> TRUE,
                  k |-> [k EXCEPT !.sendq = Append_n(k.sendq, m, Units(m))]]
      PROVE  /\ r.ok = TRUE
             /\ r.k = Output(k, Append_n(k.out, m, 0),
                             Append_n(k.sendq, m, Units(m)))
             /\ 0 + Units(m) = Units(m)
             /\ Len(k.sendq) + Units(m) <= TxMax
  <2> DEFINE q == Append_n(k.sendq, m, Units(m))
  <2>1. Append_n(k.out, m, 0) = k.out
    <3>1. [i \in 1..0 |-> m] = <<>>
      OBVIOUS
    <3>2. k.out \o <<>> = k.out
      BY <1>0, ConcatEmptySeq
    <3> QED
      BY <3>1, <3>2 DEF Append_n
  <2>2. r.ok = TRUE /\ r.k = [k EXCEPT !.sendq = q]
    BY <1>4
  <2> HIDE DEF q
  <2>3. [k EXCEPT !.sendq = q] = Output(k, k.out, q)
    BY DEF Output, ConnRec
  <2>4. 0 + Units(m) = Units(m) /\ Len(k.sendq) + Units(m) <= TxMax
    BY <1>0, <1>4, <1>u
  <2> QED
    BY <2>1, <2>2, <2>3, <2>4 DEF q
<1>5. ASSUME HasTc(k), k.sendq = <<>>, NEW n \in 0..Units(m),
             r = [ok |-> TRUE,
                  k |-> Output(k, Append_n(k.out, m, n),
                               Append_n(k.sendq, m, Units(m) - n))]
      PROVE  /\ n \in Nat /\ Units(m) - n \in Nat
             /\ n + (Units(m) - n) = Units(m)
             /\ Len(k.sendq) + (Units(m) - n) <= TxMax
             /\ r.ok = TRUE
             /\ r.k = Output(k, Append_n(k.out, m, n),
                             Append_n(k.sendq, m, Units(m) - n))
  <2>1. /\ n \in Nat /\ Units(m) - n \in Nat
        /\ n + (Units(m) - n) = Units(m)
        /\ Len(k.sendq) + (Units(m) - n) <= TxMax
    BY <1>0, <1>5, <1>u
  <2> QED
    BY <1>5, <2>1
<1>6. CASE /\ HasTc(k) /\ k.sendq # <<>>
           /\ Units(m) \in 0..(TxMax - Len(k.sendq))
           /\ r = [ok |-> TRUE,
                   k |-> [k EXCEPT !.sendq = Append_n(k.sendq, m, Units(m))]]
  <2>1. 0 \in Nat /\ Units(m) \in Nat /\ HasTc(k)
    BY <1>6, <1>u
  <2>2. /\ r.ok = TRUE
        /\ r.k = Output(k, Append_n(k.out, m, 0),
                        Append_n(k.sendq, m, Units(m)))
        /\ 0 + Units(m) = Units(m)
        /\ Len(k.sendq) + Units(m) <= TxMax
    BY <1>4, <1>6
  <2> QED
    BY <1>3, <2>1, <2>2
<1>7. CASE /\ HasTc(k) /\ k.sendq = <<>>
           /\ \E n \in 0..Units(m) :
                 r = [ok |-> TRUE,
                      k |-> Output(k, Append_n(k.out, m, n),
                                   Append_n(k.sendq, m, Units(m) - n))]
  <2>1. PICK n \in 0..Units(m) :
           r = [ok |-> TRUE,
                k |-> Output(k, Append_n(k.out, m, n),
                             Append_n(k.sendq, m, Units(m) - n))]
    BY <1>7
  <2>2. /\ n \in Nat /\ Units(m) - n \in Nat
        /\ n + (Units(m) - n) = Units(m)
        /\ Len(k.sendq) + (Units(m) - n) <= TxMax
        /\ r.ok = TRUE
        /\ r.k = Output(k, Append_n(k.out, m, n),
                        Append_n(k.sendq, m, Units(m) - n))
    BY <1>5, <1>7, <2>1
  <2>3. HasTc(k) /\ k.sendq = <<>>
    BY <1>7
  <2> QED
    BY <1>3, <2>2, <2>3
<1> QED
  BY <1>1, <1>2, <1>6, <1>7
-----------------------------------------------------------------------------
(* What the operations do to a connection.                                 *)

(* What begins, goes on: what follows each letter in a script.             *)
LEMMA ScriptFacts ==
    ASSUME NEW p \in Plans
    PROVE  /\ p.conns \in Nat /\ p.msgs \in Nat
           /\ p.script \in Seq(Letter) /\ Len(p.script) \in Nat
           /\ \A i \in 1..Len(p.script) :
                 /\ p.script[i] \in Letter
                 /\ p.script[i] = "e" <=> (i > 1 /\ p.script[i - 1] = "h")
                 /\ p.script[i] = "b" <=> (i > 1 /\ p.script[i - 1] = "e")
                 /\ p.script[i] = "n" <=> (i > 1 /\ p.script[i - 1] = "r")
<1> DEFINE s == p.script
<1>1. p.conns \in Nat /\ p.msgs \in Nat /\ s \in Seq(Letter)
  BY PlansAssumption DEF Letter
<1>2. \A i \in 1..Len(s) :
         /\ s[i] = "e" <=> (i > 1 /\ s[i - 1] = "h")
         /\ s[i] = "b" <=> (i > 1 /\ s[i - 1] = "e")
         /\ s[i] = "n" <=> (i > 1 /\ s[i - 1] = "r")
  BY PlansAssumption
<1> HIDE DEF s
<1>3. Len(s) \in Nat /\ \A i \in 1..Len(s) : s[i] \in Letter
  BY <1>1, LenProperties, ElementOfSeq
<1> QED
  BY <1>1, <1>2, <1>3 DEF s

(* A new connection.                                                       *)
LEMMA SoundNew ==
    ASSUME NEW p \in Plans, NEW ms, NEW a \in Address,
           NEW t \in 0..Idle, NEW q \in Seq(Nat \ {0})
    PROVE  /\ Sound(New(a, t, q), p.script) /\ Recorded(New(a, t, q), ms)
           /\ NoneWaits(New(a, t, q), p.script)
           /\ New(a, t, q).st = "opening" /\ New(a, t, q).ql = q
<1> DEFINE l == New(a, t, q)
<1>1. t \in Int /\ 0 <= t /\ t <= Idle /\ t # Off
  BY Timeouts DEF Off
<1>n. l \in ConnRec /\ IsNew(l, t, q)
  BY NewFields
<1> HIDE DEF l
<1>2. /\ l \in ConnRec
      /\ l.st = "opening" /\ l.hashed = TRUE /\ l.established = FALSE
      /\ l.ql = q /\ l.sendq = <<>> /\ l.out = <<>> /\ l.failed = FALSE
      /\ l.tmr = t /\ l.tmr_ka = Off /\ l.quiet = 0 /\ l.sock = FALSE
      /\ l.got = 0 /\ l.pos = 0 /\ l.seen = 0
  BY <1>n DEF IsNew
<1>3. HasTc(l)
  BY <1>2 DEF HasTc
<1>4. Life(l)
  BY <1>1, <1>2, <1>3 DEF Life
<1>5. Time(l)
  BY <1>1, <1>2, Timeouts DEF Time
<1>6. Len(l.sendq) = 0 /\ Len(Stream(l)) = 0
  <2>1. Len(l.out) = 0 /\ Len(l.sendq) = 0
    BY <1>2
  <2>2. Len(Stream(l)) = Len(l.out) + Len(l.sendq)
    BY <1>2, StreamFacts
  <2> QED
    BY <2>1, <2>2
<1>7. Sending(l) /\ Recorded(l, ms)
  <2>1. 0 <= TxMax
    BY SizeAssumption
  <2>2. \A i \in 1..Len(Stream(l)) : FALSE
    BY <1>6
  <2>3. Whole(Stream(l)) /\ Sorted(Stream(l)) /\ Before(Stream(l), l.ql)
    BY <2>2 DEF Whole, Sorted, Before
  <2>4. Recorded(l, ms)
    BY <2>2 DEF Recorded
  <2> QED
    BY <1>6, <2>1, <2>3, <2>4 DEF Sending
<1>8. Parsed(l, p.script)
  <2> DEFINE s == p.script
  <2>1. /\ Len(s) \in Nat
        /\ Len(s) > 0 => s[1] \in Letter /\ s[1] \notin {"e", "b", "n"}
    BY ScriptFacts
  <2>2. Len(s) > 0 => s[1] \in {"h", "r", "x"}
    BY <2>1 DEF Letter
  <2>3. {i \in 1..l.pos : s[i] = "b"} = {}
    BY <1>2
  <2>4. l.seen = Cardinality({i \in 1..l.pos : s[i] = "b"})
    BY <1>2, <2>3, FS_EmptySet
  <2> QED
    BY <1>2, <2>1, <2>2, <2>4 DEF Parsed
<1>9. NoneWaits(l, p.script)
  BY <1>2 DEF NoneWaits
<1> QED
  BY <1>2, <1>4, <1>5, <1>7, <1>8, <1>9 DEF Sound, l

(* A message is sent, and the queue becomes q.                             *)
LEMMA SendingSent ==
    ASSUME NEW k \in ConnRec, NEW l \in ConnRec, NEW m \in Nat,
           HasTc(k), Sending(k),
           Grown(Stream(k), Stream(l), m, Units(m)),
           Len(l.sendq) <= TxMax, l.failed = k.failed,
           m = Crlf \/ \A i \in 1..Len(Stream(k)) : Stream(k)[i] # m,
           k.failed \/ /\ m = Crlf \/ \A i \in 1..Len(Stream(k)) :
                                         Stream(k)[i] <= m
                       /\ Before(Stream(k), l.ql)
                       /\ \A j \in 1..Len(l.ql) : m < l.ql[j]
    PROVE  Sending(l)
<1> DEFINE s == Stream(k)
           s2 == Stream(l)
<1>1. s \in Seq(Nat) /\ s2 \in Seq(Nat)
  BY StreamFacts
<1>2. /\ Whole(s) /\ Grown(s, s2, m, Units(m))
      /\ m = Crlf \/ \A i \in 1..Len(s) : s[i] # m
      /\ k.failed \/ (Sorted(s) /\ Before(s, k.ql))
      /\ k.failed \/ /\ m = Crlf \/ \A i \in 1..Len(s) : s[i] <= m
                     /\ Before(s, l.ql)
                     /\ \A j \in 1..Len(l.ql) : m < l.ql[j]
  BY DEF Sending
<1> HIDE DEF s, s2
<1>3. Whole(s2)
  BY <1>1, <1>2, GrownWhole
<1>4. Units(m) \in Nat
  BY UnitsFacts
<1>5. ASSUME ~k.failed PROVE Sorted(s2) /\ Before(s2, l.ql)
  <2>1. Sorted(s2)
    BY <1>1, <1>2, <1>4, <1>5, GrownSorted
  <2>2. Before(s2, l.ql)
    <3> SUFFICES ASSUME NEW i \in 1..Len(s2), NEW j \in 1..Len(l.ql)
                 PROVE  s2[i] < l.ql[j]
      BY DEF Before
    <3>1. CASE i <= Len(s)
      <4>1. i \in 1..Len(s) /\ s2[i] = s[i]
        BY <1>1, <1>2, <3>1 DEF Grown
      <4> QED
        BY <1>2, <1>5, <4>1 DEF Before
    <3>2. CASE ~(i <= Len(s))
      <4>1. s2[i] = m
        BY <1>2, <3>2 DEF Grown
      <4> QED
        BY <1>2, <1>5, <4>1
    <3> QED
      BY <3>1, <3>2
  <2> QED
    BY <2>1, <2>2
<1>6. l.failed \/ (Sorted(s2) /\ Before(s2, l.ql))
  BY <1>5
<1> QED
  BY <1>3, <1>6 DEF Sending, s2

(* Records of sent messages are kept.                                      *)
Extends(ms, ms2) ==
    \A x \in 1..Len(ms) :
        x \in 1..Len(ms2) /\ (ms[x] = "sent" => ms2[x] = "sent")

LEMMA RecordedLater ==
    ASSUME NEW k, NEW ms, NEW ms2, Recorded(k, ms), Extends(ms, ms2)
    PROVE  Recorded(k, ms2)
  BY DEF Recorded, Extends

LEMMA RecordedSent ==
    ASSUME NEW k \in ConnRec, NEW l \in ConnRec, NEW m \in Nat, NEW ms,
           NEW ms2, HasTc(k), Recorded(k, ms), Extends(ms, ms2),
           Grown(Stream(k), Stream(l), m, Units(m)),
           m = Crlf \/ (m \in 1..Len(ms2) /\ ms2[m] = "sent")
    PROVE  Recorded(l, ms2)
<1> DEFINE s == Stream(k)
           s2 == Stream(l)
<1>1. s \in Seq(Nat) /\ Len(s) \in Nat
  BY StreamFacts, LenProperties
<1>2. \A i \in 1..Len(s) : s[i] # Crlf =>
         s[i] \in 1..Len(ms2) /\ ms2[s[i]] = "sent"
  BY DEF Recorded, Extends
<1>3. Grown(s, s2, m, Units(m))
  OBVIOUS
<1> HIDE DEF s, s2
<1>4. \A i \in 1..Len(s2) : s2[i] # Crlf =>
         s2[i] \in 1..Len(ms2) /\ ms2[s2[i]] = "sent"
  <2> TAKE i \in 1..Len(s2)
  <2>1. CASE i <= Len(s)
    <3>1. i \in 1..Len(s) /\ s2[i] = s[i]
      BY <1>1, <1>3, <2>1 DEF Grown
    <3> QED
      BY <1>2, <3>1
  <2>2. CASE ~(i <= Len(s))
    BY <1>3, <2>2 DEF Grown
  <2> QED
    BY <2>1, <2>2
<1> QED
  BY <1>4 DEF Recorded, s2

LEMMA QueuedSame ==
    ASSUME NEW k \in ConnRec
    PROVE  Queued(k, k.ql) = k
  BY DEF Queued, ConnRec

LEMMA SoundSend ==
    ASSUME NEW k, NEW s, Sound(k, s), NEW m \in Nat, NEW r \in tcp_send(k, m),
           NEW q \in Seq(Nat \ {0}),
           k.failed \/ Before(Stream(k), q),
           m = Crlf \/ \A i \in 1..Len(Stream(k)) : Stream(k)[i] # m,
           k.failed \/ /\ m = Crlf \/ \A i \in 1..Len(Stream(k)) :
                                         Stream(k)[i] <= m
                       /\ \A j \in 1..Len(q) : m < q[j]
    PROVE  LET l == Queued(r.k, q) IN
           /\ Sound(l, s) /\ l.ql = q /\ SameState(k, l) /\ SameTime(k, l)
           /\ SameInput(k, l)
           /\ l.failed <=> (k.failed \/ ~r.ok)
           /\ r.ok => HasTc(k) /\ Grown(Stream(k), Stream(l), m, Units(m))
           /\ ~r.ok => Stream(l) = Stream(k)
<1> DEFINE j == r.k
           l == Queued(j, q)
<1>1. /\ k \in ConnRec /\ Life(k) /\ Time(k) /\ Sending(k)
      /\ k.pos <= k.got /\ Parsed(k, s)
  BY DEF Sound
<1>2. /\ j \in ConnRec /\ SameState(k, j) /\ SameTime(k, j)
      /\ SameInput(k, j)
      /\ r.ok \in BOOLEAN
      /\ r.ok => /\ HasTc(k) /\ j.failed = k.failed
                 /\ Grown(Stream(k), Stream(j), m, Units(m))
                 /\ Len(k.sendq) <= TxMax => Len(j.sendq) <= TxMax
      /\ ~r.ok => j.failed = TRUE /\ j.out = k.out /\ j.sendq = k.sendq
  BY <1>1, Sends
<1> HIDE DEF j
<1>3. /\ l \in ConnRec /\ SameState(j, l) /\ SameTime(j, l)
      /\ SameInput(j, l) /\ SameOutput(j, l) /\ l.ql = q
  BY <1>2, QueuedFields
<1> HIDE DEF l
<1>4. SameState(k, l) /\ SameTime(k, l) /\ SameInput(k, l)
  BY <1>2, <1>3 DEF SameState, SameTime, SameInput
<1>5. HasTc(l) <=> HasTc(k)
  BY <1>4 DEF SameState, HasTc
<1>6. Life(l) /\ Time(l) /\ Parsed(l, s) /\ l.pos <= l.got
  <2>1. l.tmr # Off <=> k.tmr # Off
    BY <1>4 DEF SameTime
  <2>2. l.tmr_ka # Off => k.tmr_ka # Off
    BY <1>4 DEF SameTime
  <2>3. Life(l)
    BY <1>1, <1>4, <2>1, <2>2, KeepLife
  <2> QED
    BY <1>1, <1>4, <1>5, <2>3, KeepTime, KeepParsed DEF SameInput
<1>7. CASE r.ok
  <2>1. Stream(l) = Stream(j) /\ l.failed = j.failed /\ l.sendq = j.sendq
    BY <1>3 DEF SameOutput, Stream
  <2>2. /\ HasTc(k) /\ l.failed = k.failed
        /\ Grown(Stream(k), Stream(l), m, Units(m))
    BY <1>2, <1>7, <2>1
  <2>3. Len(l.sendq) <= TxMax
    BY <1>1, <1>2, <1>7, <2>1 DEF Sending
  <2>4. k.failed \/ /\ m = Crlf \/ \A i \in 1..Len(Stream(k)) :
                                      Stream(k)[i] <= m
                    /\ Before(Stream(k), l.ql)
                    /\ \A i \in 1..Len(l.ql) : m < l.ql[i]
    BY <1>3
  <2>5. Sending(l)
    BY <1>1, <1>3, <2>2, <2>3, <2>4, SendingSent
  <2> QED
    BY <1>3, <1>4, <1>6, <1>7, <2>2, <2>5 DEF Sound, l, j
<1>8. CASE ~r.ok
  <2>1. l.failed = TRUE /\ l.sendq = k.sendq /\ Stream(l) = Stream(k)
    BY <1>2, <1>3, <1>8 DEF SameOutput, Stream
  <2>2. Sending(l)
    BY <1>1, <1>5, <2>1 DEF Sending
  <2> QED
    BY <1>3, <1>4, <1>6, <1>8, <2>1, <2>2 DEF Sound, l, j
<1> QED
  BY <1>7, <1>8

LEMMA SoundQueued ==
    ASSUME NEW k, NEW s, Sound(k, s), NEW q \in Seq(Nat \ {0}),
           k.failed \/ ~HasTc(k) \/ Before(Stream(k), q)
    PROVE  LET l == Queued(k, q) IN
           /\ Sound(l, s) /\ l.ql = q /\ SameState(k, l) /\ SameTime(k, l)
           /\ SameInput(k, l) /\ SameOutput(k, l)
<1> DEFINE l == Queued(k, q)
<1>1. /\ k \in ConnRec /\ Life(k) /\ Time(k) /\ Sending(k)
      /\ k.pos <= k.got /\ Parsed(k, s)
  BY DEF Sound
<1>2. /\ l \in ConnRec /\ SameState(k, l) /\ SameTime(k, l)
      /\ SameInput(k, l) /\ SameOutput(k, l) /\ l.ql = q
  BY <1>1, QueuedFields
<1> HIDE DEF l
<1>3. HasTc(l) <=> HasTc(k)
  BY <1>2 DEF SameState, HasTc
<1>4. Life(l)
  BY <1>1, <1>2, KeepLife DEF SameTime
<1>5. Time(l) /\ Parsed(l, s) /\ l.pos <= l.got
  BY <1>1, <1>2, <1>3, KeepTime, KeepParsed DEF SameInput
<1>6. Sending(l)
  BY <1>1, <1>2, <1>3 DEF Sending, SameOutput, Stream
<1> QED
  BY <1>2, <1>4, <1>5, <1>6 DEF Sound, l

LEMMA Associative ==
    ASSUME NEW o \in Seq(Nat), NEW a \in Seq(Nat), NEW b \in Seq(Nat)
    PROVE  (o \o a) \o b = o \o (a \o b)
<1> DEFINE l == o \o a
           r == a \o b
           x == Len(o)
           y == Len(a)
           z == Len(b)
<1>1. x \in Nat /\ y \in Nat /\ z \in Nat
  BY LenProperties
<1>2. /\ l \in Seq(Nat) /\ Len(l) = x + y
      /\ \A i \in 1..(x + y) : l[i] = IF i <= x THEN o[i] ELSE a[i - x]
  BY ConcatProperties
<1>3. /\ r \in Seq(Nat) /\ Len(r) = y + z
      /\ \A i \in 1..(y + z) : r[i] = IF i <= y THEN a[i] ELSE b[i - y]
  BY ConcatProperties
<1>a. l \in Seq(Nat) /\ r \in Seq(Nat)
  BY <1>2, <1>3
<1> HIDE DEF l, r
<1> DEFINE lb == l \o b
           or == o \o r
<1>4. /\ lb \in Seq(Nat) /\ Len(lb) = Len(l) + z
      /\ \A i \in 1..(Len(l) + z) :
            lb[i] = IF i <= Len(l) THEN l[i] ELSE b[i - Len(l)]
  BY <1>a, ConcatProperties
<1>5. /\ or \in Seq(Nat) /\ Len(or) = x + Len(r)
      /\ \A i \in 1..(x + Len(r)) :
            or[i] = IF i <= x THEN o[i] ELSE r[i - x]
  BY <1>a, ConcatProperties
<1> HIDE DEF lb, or, x, y, z
<1>6. Len(lb) = x + y + z /\ Len(or) = x + y + z
  BY <1>1, <1>2, <1>3, <1>4, <1>5
<1>7. ASSUME NEW i \in 1..(x + y + z) PROVE lb[i] = or[i]
  <2>1. CASE i <= x
    <3>1. lb[i] = l[i] /\ l[i] = o[i]
      BY <1>1, <1>2, <1>4, <2>1
    <3>2. or[i] = o[i]
      BY <1>1, <1>3, <1>5, <2>1
    <3> QED
      BY <3>1, <3>2
  <2>2. CASE i > x /\ i <= x + y
    <3>1. lb[i] = l[i] /\ l[i] = a[i - x]
      BY <1>1, <1>2, <1>4, <2>2
    <3>2. or[i] = r[i - x]
      BY <1>1, <1>3, <1>5, <2>2
    <3>3. r[i - x] = a[i - x]
      BY <1>1, <1>3, <2>2
    <3> QED
      BY <3>1, <3>2, <3>3
  <2>3. CASE i > x + y
    <3>1. lb[i] = b[i - (x + y)]
      BY <1>1, <1>2, <1>4, <2>3
    <3>a. /\ i - x \in 1..(y + z) /\ ~(i - x <= y) /\ ~(i <= x)
          /\ i \in 1..(x + Len(r))
      BY <1>1, <1>3, <2>3
    <3>b. or[i] = r[i - x]
      BY <1>5, <3>a
    <3>c. r[i - x] = b[(i - x) - y]
      BY <1>3, <3>a
    <3>2. or[i] = r[i - x] /\ r[i - x] = b[(i - x) - y]
      BY <3>b, <3>c
    <3>3. (i - x) - y = i - (x + y)
      BY <1>1
    <3> QED
      BY <3>1, <3>2, <3>3
  <2> QED
    BY <1>1, <2>1, <2>2, <2>3
<1>8. lb = or
  BY <1>4, <1>5, <1>6, <1>7, SeqEqual
<1> QED
  BY <1>8 DEF lb, or, l, r

(* What the kernel takes from the send queue stays in the stream.          *)
LEMMA ConcatMoves ==
    ASSUME NEW o \in Seq(Nat), NEW q \in Seq(Nat), NEW n \in 1..Len(q)
    PROVE  /\ o \o SubSeq(q, 1, n) \in Seq(Nat)
           /\ SubSeq(q, n + 1, Len(q)) \in Seq(Nat)
           /\ Len(SubSeq(q, n + 1, Len(q))) <= Len(q)
           /\ (o \o SubSeq(q, 1, n)) \o SubSeq(q, n + 1, Len(q)) = o \o q
<1> DEFINE a == SubSeq(q, 1, n)
           b == SubSeq(q, n + 1, Len(q))
<1>1. Len(q) \in Nat /\ \A i \in 1..Len(q) : q[i] \in Nat
  BY LenProperties, ElementOfSeq
<1>2. a \in Seq(Nat)
  <2>1. \A i \in 1..n : q[i] \in Nat
    BY <1>1
  <2> QED
    BY <2>1, SubSeqProperties
<1>3. b \in Seq(Nat) /\ Len(b) = IF n + 1 <= Len(q) THEN Len(q) - (n + 1) + 1
                                 ELSE 0
  <2>1. \A i \in (n + 1)..Len(q) : q[i] \in Nat
    BY <1>1
  <2>2. n + 1 \in Int /\ Len(q) \in Int
    BY <1>1
  <2> QED
    BY <2>1, <2>2, SubSeqProperties
<1>4. a \o b = q
  <2>1. 1 \in 1..(Len(q) + 1) /\ n \in (1 - 1)..Len(q) /\ Len(q) \in n..Len(q)
    BY <1>1
  <2>2. SubSeq(q, 1, n) \o SubSeq(q, n + 1, Len(q)) = SubSeq(q, 1, Len(q))
    BY <2>1, ConcatAdjacentSubSeq
  <2>3. SubSeq(q, 1, Len(q)) = q
    BY SubSeqFull
  <2> QED
    BY <2>2, <2>3
<1> HIDE DEF a, b
<1>5. (o \o a) \o b = o \o (a \o b)
  BY <1>2, <1>3, Associative
<1>6. o \o a \in Seq(Nat)
  BY <1>2, ConcatProperties
<1>7. Len(b) <= Len(q)
  BY <1>1, <1>3
<1> QED
  BY <1>3, <1>4, <1>5, <1>6, <1>7 DEF a, b

LEMMA SoundDequeued ==
    ASSUME NEW k, NEW s, NEW ms, Sound(k, s), Recorded(k, ms),
           NEW n \in 1..Len(k.sendq)
    PROVE  LET l == Output(k, k.out \o SubSeq(k.sendq, 1, n),
                           SubSeq(k.sendq, n + 1, Len(k.sendq))) IN
           /\ Sound(l, s) /\ Recorded(l, ms) /\ l.ql = k.ql
           /\ SameState(k, l) /\ SameTime(k, l) /\ SameInput(k, l)
           /\ l.failed = k.failed
<1> DEFINE o == k.out \o SubSeq(k.sendq, 1, n)
           q == SubSeq(k.sendq, n + 1, Len(k.sendq))
           l == Output(k, o, q)
<1>1. /\ k \in ConnRec /\ Life(k) /\ Time(k) /\ Sending(k)
      /\ k.pos <= k.got /\ Parsed(k, s)
  BY DEF Sound
<1>2. k.out \in Seq(Nat) /\ k.sendq \in Seq(Nat)
  BY <1>1, Members
<1>3. /\ o \in Seq(Nat) /\ q \in Seq(Nat) /\ Len(q) <= Len(k.sendq)
      /\ o \o q = k.out \o k.sendq
  BY <1>2, ConcatMoves
<1>4. Len(q) \in Nat /\ Len(k.sendq) \in Nat
  BY <1>2, <1>3, LenProperties
<1> HIDE DEF o, q
<1>5. /\ l \in ConnRec /\ SameState(k, l) /\ SameTime(k, l)
      /\ SameInput(k, l) /\ l.ql = k.ql /\ l.failed = k.failed
      /\ l.out = o /\ l.sendq = q
  BY <1>1, <1>3, OutputFields
<1> HIDE DEF l
<1>6. Stream(l) = Stream(k)
  BY <1>3, <1>5 DEF Stream
<1>7. HasTc(l) <=> HasTc(k)
  BY <1>5 DEF SameState, HasTc
<1>8. Life(l)
  BY <1>1, <1>5, KeepLife DEF SameTime
<1>9. Time(l) /\ Parsed(l, s) /\ l.pos <= l.got
  BY <1>1, <1>5, <1>7, KeepTime, KeepParsed DEF SameInput
<1>10. Sending(l) /\ Recorded(l, ms)
  <2>1. Len(k.sendq) <= TxMax => Len(l.sendq) <= TxMax
    BY <1>3, <1>4, <1>5, SizeAssumption
  <2> QED
    BY <1>1, <1>5, <1>6, <1>7, <2>1 DEF Sending, Recorded
<1> QED
  BY <1>5, <1>8, <1>9, <1>10 DEF Sound, l, o, q

(* A ping is due only after the last one has been answered, unless its     *)
(* wait has wrapped.                                                       *)
LEMMA SoundPinged ==
    ASSUME NEW k, NEW s, Sound(k, s), k.tmr_ka = 0,
           NEW w \in sip_keepalive_wait(k.ka_interval)
    PROVE  LET l == Pinged(k, w) IN
           /\ Sound(l, s) /\ l.ql = k.ql /\ SameState(k, l)
           /\ SameInput(k, l) /\ SameOutput(k, l)
<1> DEFINE l == Pinged(k, w)
<1>1. /\ k \in ConnRec /\ Life(k) /\ Time(k) /\ Sending(k)
      /\ k.pos <= k.got /\ Parsed(k, s)
  BY DEF Sound
<1>2. /\ k.st = "open" /\ HasTc(k) /\ k.tmr # Off
  BY <1>1 DEF Life, HasTc, Off
<1>3. /\ k.tmr \in Int /\ -1 <= k.tmr /\ k.quiet \in Nat
      /\ k.ka_interval \in Nat /\ k.ka_interval <= LongestInterval
  BY <1>1, Clocks
<1>4. /\ 2 * Pong <= k.ka_interval
      /\ \/ k.quiet + k.tmr <= Idle /\ k.quiet <= k.ka_interval
         \/ Wrap <= k.ka_interval
  BY <1>1, <1>2, <1>3 DEF Time, Off
<1>5. w \in Nat /\ w <= k.ka_interval /\ (k.ka_interval < Wrap => Pong < w)
  BY <1>3, <1>4, Waits
<1>6. w \in 0..LongestInterval
  BY <1>3, <1>5, Timeouts
<1>7. /\ l \in ConnRec /\ SameState(k, l) /\ SameInput(k, l)
      /\ SameOutput(k, l) /\ l.ql = k.ql
      /\ l.tmr = Pong /\ l.tmr_ka = w /\ l.quiet = k.quiet
      /\ l.ka_interval = k.ka_interval
  BY <1>1, <1>6, PingedFields
<1> HIDE DEF l
<1>8. HasTc(l) <=> HasTc(k)
  BY <1>7 DEF SameState, HasTc
<1>9. Life(l)
  <2>1. Pong # Off /\ w # Off
    BY <1>5, Timeouts DEF Off
  <2> QED
    BY <1>1, <1>2, <1>7, <2>1, KeepLife DEF Off
<1>10. Time(l)
  <2>1. w # Off /\ l.tmr_ka # Off
    BY <1>5, <1>7 DEF Off
  <2>2. CASE Wrap <= k.ka_interval
    BY <1>4, <1>5, <1>7, <2>1, <2>2 DEF Time
  <2>3. CASE ~(Wrap <= k.ka_interval)
    <3>1. k.ka_interval < Wrap
      BY <1>3, <2>3, TimeAssumption
    <3>2. /\ k.quiet + Pong <= Idle + Pong
          /\ k.quiet + Pong <= k.ka_interval + Pong
      BY <1>2, <1>3, <1>4, <2>3, Timeouts DEF Off
    <3> QED
      BY <1>4, <1>5, <1>7, <2>1, <3>1, <3>2 DEF Time
  <2> QED
    BY <2>2, <2>3
<1>11. Sending(l) /\ Parsed(l, s) /\ l.pos <= l.got
  BY <1>1, <1>7, <1>8, KeepSending, KeepParsed DEF SameInput
<1> QED
  BY <1>7, <1>9, <1>10, <1>11 DEF Sound, l

(* Keepalives begin on a connection that has just been heard.              *)
LEMMA SoundPinging ==
    ASSUME NEW k, NEW s, Sound(k, s), k.st = "open", k.quiet = 0,
           k.tmr = Idle, NEW i \in Flow,
           NEW w \in sip_keepalive_wait(Interval(i))
    PROVE  LET l == Pinging(k, w, Interval(i)) IN
           /\ Sound(l, s) /\ l.ql = k.ql /\ l.st = k.st /\ l.quiet = 0
           /\ l.tmr = Idle /\ SameInput(k, l) /\ SameOutput(k, l)
<1> DEFINE n == Interval(i)
           l == Pinging(k, w, n)
<1>1. /\ k \in ConnRec /\ Life(k) /\ Time(k) /\ Sending(k)
      /\ k.pos <= k.got /\ Parsed(k, s)
  BY DEF Sound
<1>2. n \in Nat /\ n <= LongestInterval /\ 2 * Pong <= n
  BY Waits
<1>3. w \in Nat /\ w <= n
  BY <1>2, Waits
<1> HIDE DEF n
<1>4. w \in 0..LongestInterval /\ n \in 0..LongestInterval
  BY <1>2, <1>3, Timeouts
<1>5. /\ l \in ConnRec /\ SameInput(k, l) /\ SameOutput(k, l)
      /\ l.st = k.st /\ l.hashed = k.hashed /\ l.sock = k.sock
      /\ l.established = k.established /\ l.ql = k.ql
      /\ l.tmr = k.tmr /\ l.quiet = k.quiet
      /\ l.tmr_ka = w /\ l.ka_interval = n
  BY <1>1, <1>4, PingingFields
<1> HIDE DEF l
<1>6. HasTc(l) /\ HasTc(k)
  BY <1>5 DEF HasTc
<1>7. Life(l)
  BY <1>1, <1>5, <1>6 DEF Life
<1>8. Time(l)
  <2>1. 0 + Idle <= Idle /\ 0 + w <= n
    BY <1>2, <1>3, Timeouts
  <2> QED
    BY <1>2, <1>3, <1>5, <2>1 DEF Time
<1>9. Sending(l) /\ Parsed(l, s) /\ l.pos <= l.got
  BY <1>1, <1>5, <1>6, KeepSending, KeepParsed DEF SameInput
<1> QED
  BY <1>5, <1>7, <1>8, <1>9 DEF Sound, l, n

LEMMA SoundSignal ==
    ASSUME NEW k, NEW s, Sound(k, s), NEW b \in BOOLEAN
    PROVE  LET l == Signal(k, b) IN
           /\ Sound(l, s) /\ l.ql = k.ql /\ l.st = k.st /\ SameTime(k, l)
           /\ SameInput(k, l) /\ SameOutput(k, l)
<1> DEFINE l == Signal(k, b)
<1>1. /\ k \in ConnRec /\ Life(k) /\ Time(k) /\ Sending(k)
      /\ k.pos <= k.got /\ Parsed(k, s)
  BY DEF Sound
<1>2. /\ l \in ConnRec /\ SameTime(k, l) /\ SameInput(k, l)
      /\ SameOutput(k, l)
      /\ l.st = k.st /\ l.hashed = k.hashed /\ l.sock = k.sock
      /\ l.established = k.established /\ l.ql = k.ql
  BY <1>1, SignalFields
<1> HIDE DEF l
<1>3. HasTc(l) <=> HasTc(k)
  BY <1>2 DEF HasTc
<1>4. Life(l)
  BY <1>1, <1>2, <1>3 DEF Life, SameTime
<1>5. Time(l) /\ Sending(l) /\ Parsed(l, s) /\ l.pos <= l.got
  BY <1>1, <1>2, <1>3, KeepTime, KeepSending, KeepParsed DEF SameInput
<1> QED
  BY <1>2, <1>4, <1>5 DEF Sound, l

LEMMA SoundTicked ==
    ASSUME NEW k, NEW s, NEW ms, Sound(k, s), Recorded(k, ms),
           HasTc(k), k.tmr # 0, k.tmr_ka # 0
    PROVE  LET l == Ticked(k) IN
           /\ Sound(l, s) /\ Recorded(l, ms) /\ l.ql = k.ql
           /\ SameState(k, l) /\ SameInput(k, l)
<1> DEFINE l == Ticked(k)
<1>1. /\ k \in ConnRec /\ Life(k) /\ Time(k) /\ Sending(k)
      /\ k.pos <= k.got /\ Parsed(k, s)
  BY DEF Sound
<1>2. /\ l \in ConnRec /\ SameState(k, l) /\ SameInput(k, l)
      /\ SameOutput(k, l) /\ l.ql = k.ql
      /\ l.tmr = Down(k.tmr) /\ l.tmr_ka = Down(k.tmr_ka)
      /\ l.quiet = k.quiet + 1 /\ l.ka_interval = k.ka_interval
  BY <1>1, TickedFields
<1> HIDE DEF l
<1>3. HasTc(l) <=> HasTc(k)
  BY <1>2 DEF SameState, HasTc
<1>4. k.tmr \in Int /\ -1 <= k.tmr /\ k.tmr_ka \in Int /\ -1 <= k.tmr_ka
  BY <1>1, Clocks
<1>5. k.quiet \in Nat /\ k.ka_interval \in Nat
  BY <1>1, Clocks
<1>6. /\ k.tmr # Off /\ l.tmr = k.tmr - 1 /\ l.tmr # Off
      /\ k.tmr_ka = Off => l.tmr_ka = Off
      /\ k.tmr_ka # Off => l.tmr_ka # Off /\ l.tmr_ka = k.tmr_ka - 1
  BY <1>1, <1>2, <1>4 DEF Life, Down, Off
<1>7. Life(l)
  BY <1>1, <1>2, <1>6, KeepLife
<1>8. Time(l)
  <2>1. k.tmr_ka # Off => /\ 2 * Pong <= l.ka_interval
                          /\ l.tmr_ka <= l.ka_interval
    BY <1>1, <1>2, <1>4, <1>5, <1>6 DEF Time
  <2>2. CASE /\ k.quiet + k.tmr <= Idle
             /\ k.tmr_ka # Off => k.quiet + k.tmr_ka <= k.ka_interval
    <3>1. l.quiet + l.tmr <= Idle
      BY <1>2, <1>4, <1>5, <1>6, <2>2
    <3>2. l.tmr_ka # Off => l.quiet + l.tmr_ka <= l.ka_interval
      BY <1>2, <1>4, <1>5, <1>6, <2>2
    <3> QED
      BY <1>6, <2>1, <3>1, <3>2 DEF Time
  <2>3. CASE /\ k.tmr_ka # Off
             /\ k.tmr < k.tmr_ka
             /\ k.quiet + k.tmr <= Idle + Pong
             /\ k.quiet + k.tmr <= k.ka_interval + Pong
    <3>1. /\ l.tmr_ka # Off
          /\ l.tmr < l.tmr_ka
          /\ l.quiet + l.tmr <= Idle + Pong
          /\ l.quiet + l.tmr <= l.ka_interval + Pong
      BY <1>2, <1>4, <1>5, <1>6, <2>3, Timeouts
    <3> QED
      BY <2>1, <2>3, <3>1 DEF Time
  <2>4. CASE k.tmr_ka # Off /\ Wrap <= k.ka_interval
    BY <1>2, <1>6, <2>1, <2>4 DEF Time
  <2> QED
    BY <1>1, <2>2, <2>3, <2>4 DEF Time
<1>9. Sending(l) /\ Parsed(l, s) /\ l.pos <= l.got
  BY <1>1, <1>2, <1>3, KeepSending, KeepParsed DEF SameInput
<1>10. Recorded(l, ms)
  BY <1>2, <1>3, KeepRecorded DEF SameOutput
<1> QED
  BY <1>2, <1>7, <1>8, <1>9, <1>10 DEF Sound, l

-----------------------------------------------------------------------------
(* What is received.                                                       *)

Bodies(s, n) == {i \in 1..n : s[i] = "b"}

LEMMA BodiesFacts ==
    ASSUME NEW s, NEW n \in Nat
    PROVE  /\ IsFiniteSet(Bodies(s, n)) /\ Cardinality(Bodies(s, n)) \in Nat
           /\ s[n + 1] = "b" => Cardinality(Bodies(s, n + 1))
                                    = Cardinality(Bodies(s, n)) + 1
<1>1. IsFiniteSet(1..n)
  BY FS_Interval
<1>2. Bodies(s, n) \in SUBSET (1..n)
  BY DEF Bodies
<1>3. IsFiniteSet(Bodies(s, n))
  BY <1>1, <1>2, FS_Subset
<1>4. Cardinality(Bodies(s, n)) \in Nat
  BY <1>3, FS_CardinalityType
<1>5. ASSUME s[n + 1] = "b"
      PROVE  Cardinality(Bodies(s, n + 1)) = Cardinality(Bodies(s, n)) + 1
  <2>1. Bodies(s, n + 1) = Bodies(s, n) \cup {n + 1}
    BY <1>5 DEF Bodies
  <2>2. n + 1 \notin Bodies(s, n)
    BY DEF Bodies
  <2> QED
    BY <1>3, <2>1, <2>2, FS_AddElement
<1> QED
  BY <1>3, <1>4, <1>5

LEMMA BodiesSame ==
    ASSUME NEW s, NEW n \in Nat, NEW m \in Nat, n <= m,
           \A i \in (n + 1)..m : s[i] # "b"
    PROVE  Bodies(s, m) = Bodies(s, n)
  BY DEF Bodies

(* What follows each letter in a script.                                   *)
LEMMA Follows ==
    ASSUME NEW p \in Plans, NEW i \in Nat, 1 <= i, i < Len(p.script)
    PROVE  /\ p.script[i] = "h" => p.script[i + 1] = "e"
           /\ p.script[i] = "e" => p.script[i + 1] = "b"
           /\ p.script[i] = "r" => p.script[i + 1] = "n"
           /\ p.script[i] \in {"b", "n"} => p.script[i + 1] \in {"h", "r", "x"}
<1> DEFINE s == p.script
<1>1. i + 1 \in 1..Len(s) /\ (i + 1) - 1 = i /\ i + 1 > 1
  BY ScriptFacts
<1>2. /\ s[i + 1] \in Letter
      /\ s[i + 1] = "e" <=> (i + 1 > 1 /\ s[(i + 1) - 1] = "h")
      /\ s[i + 1] = "b" <=> (i + 1 > 1 /\ s[(i + 1) - 1] = "e")
      /\ s[i + 1] = "n" <=> (i + 1 > 1 /\ s[(i + 1) - 1] = "r")
  BY <1>1, ScriptFacts
<1> HIDE DEF s
<1>3. /\ s[i + 1] \in Letter
      /\ s[i + 1] = "e" <=> s[i] = "h"
      /\ s[i + 1] = "b" <=> s[i] = "e"
      /\ s[i + 1] = "n" <=> s[i] = "r"
  BY <1>1, <1>2
<1>4. s[i] \in {"b", "n"} => s[i + 1] \in {"h", "r", "x"}
  BY <1>3 DEF Letter
<1> QED
  BY <1>3, <1>4 DEF s

LEMMA Buffer ==
    ASSUME plan \in Plans, NEW k, Sound(k, plan.script), HasTc(k)
    PROVE  /\ k.pos \in Nat /\ k.got \in Nat /\ k.pos <= k.got
           /\ Len(plan.script) \in Nat /\ k.got <= Len(plan.script)
           /\ Len(mb(k)) = k.got - k.pos
           /\ \A i \in 1..(k.got - k.pos) : mb(k)[i] = plan.script[k.pos + i]
<1> DEFINE s == plan.script
           p == k.pos
           g == k.got
<1>1. k \in ConnRec /\ p <= g /\ g <= Len(s)
  BY DEF Sound, Parsed
<1>2. p \in Nat /\ g \in Nat /\ Len(s) \in Nat
  BY <1>1, Members, ScriptFacts
<1>3. \A i \in 1..Len(s) : s[i] \in Letter
  BY ScriptFacts
<1>m. mb(k) = SubSeq(s, p + 1, g)
  BY DEF mb
<1> HIDE DEF s, p, g
<1>4. \A i \in (p + 1)..g : s[i] \in Letter
  BY <1>1, <1>2, <1>3
<1>5. p + 1 \in Int /\ g \in Int
  BY <1>2
<1>6. /\ Len(SubSeq(s, p + 1, g)) = IF p + 1 <= g THEN g - (p + 1) + 1 ELSE 0
      /\ \A i \in 1..(g - (p + 1) + 1) :
            SubSeq(s, p + 1, g)[i] = s[p + 1 + i - 1]
  BY <1>4, <1>5, SubSeqProperties
<1>7. Len(mb(k)) = g - p
  BY <1>1, <1>2, <1>6, <1>m
<1>8. ASSUME NEW i \in 1..(g - p) PROVE mb(k)[i] = s[p + i]
  <2>1. i \in 1..(g - (p + 1) + 1) /\ p + 1 + i - 1 = p + i
    BY <1>2
  <2> QED
    BY <1>6, <1>m, <2>1
<1> QED
  BY <1>1, <1>2, <1>7, <1>8 DEF s, p, g

LEMMA SoundGot ==
    ASSUME NEW k, NEW s, NEW ms, Sound(k, s), Recorded(k, ms),
           NEW n \in Nat, k.got <= n, n <= Len(s)
    PROVE  LET l == Got(k, n) IN
           /\ Sound(l, s) /\ Recorded(l, ms) /\ l.ql = k.ql
           /\ SameState(k, l)
<1> DEFINE l == Got(k, n)
<1>1. /\ k \in ConnRec /\ Life(k) /\ Time(k) /\ Sending(k)
      /\ k.pos <= k.got /\ Parsed(k, s)
  BY DEF Sound
<1>2. /\ l \in ConnRec /\ SameState(k, l) /\ SameTime(k, l)
      /\ SameOutput(k, l) /\ l.ql = k.ql
      /\ l.got = n /\ l.pos = k.pos /\ l.seen = k.seen
  BY <1>1, GotFields
<1> HIDE DEF l
<1>3. HasTc(l) <=> HasTc(k)
  BY <1>2 DEF SameState, HasTc
<1>4. Life(l)
  BY <1>1, <1>2, KeepLife DEF SameTime
<1>5. Time(l) /\ Sending(l)
  BY <1>1, <1>2, <1>3, KeepTime, KeepSending
<1>6. Parsed(l, s)
  BY <1>1, <1>2, <1>3 DEF Parsed
<1>7. l.pos <= l.got
  BY <1>1, <1>2, Members
<1>8. Recorded(l, ms)
  BY <1>2, <1>3, KeepRecorded DEF SameOutput
<1> QED
  BY <1>2, <1>4, <1>5, <1>6, <1>7, <1>8 DEF Sound, l

(* Something has been consumed up to position l.pos.                       *)
LEMMA SoundRead ==
    ASSUME NEW k, NEW s, Sound(k, s), k.st = "open", NEW l \in ConnRec,
           SameOutput(k, l), l.ql = k.ql, l.st = k.st, l.hashed = k.hashed,
           l.established = k.established,
           l.tmr = Idle, l.tmr_ka = k.tmr_ka, l.quiet = 0,
           l.ka_interval = k.ka_interval,
           l.got = k.got, l.pos <= k.got,
           l.pos < Len(s) => s[l.pos + 1] \in {"h", "r", "x"},
           l.seen = Cardinality(Bodies(s, l.pos))
    PROVE  Sound(l, s)
<1>1. /\ k \in ConnRec /\ Life(k) /\ Time(k) /\ Sending(k)
      /\ k.pos <= k.got /\ Parsed(k, s)
  BY DEF Sound
<1>2. HasTc(k) /\ HasTc(l)
  BY DEF HasTc
<1>3. Idle # Off
  BY Timeouts DEF Off
<1>4. Life(l)
  BY <1>1, <1>2, <1>3 DEF Life
<1>5. Time(l)
  <2>1. /\ 0 + Idle <= Idle /\ 0 + l.tmr_ka = l.tmr_ka
    BY Clocks, Timeouts
  <2> QED
    BY <1>1, <1>2, <2>1 DEF Time
<1>6. Sending(l)
  BY <1>1, <1>2, KeepSending
<1>7. Parsed(l, s)
  BY <1>1, <1>2 DEF Parsed, Bodies
<1> QED
  BY <1>4, <1>5, <1>6, <1>7 DEF Sound

(* Line ends are consumed.                                                 *)
LEMMA SoundLine ==
    ASSUME plan \in Plans, NEW k, Sound(k, plan.script), k.st = "open",
           NEW n \in Nat, 1 <= n, k.pos + n <= k.got,
           \A i \in (k.pos + 1)..(k.pos + n) : plan.script[i] # "b",
           plan.script[k.pos + n] = "n"
    PROVE  LET l == Consumed(k, n) IN
           /\ Sound(l, plan.script) /\ l.ql = k.ql /\ SameState(k, l)
           /\ SameOutput(k, l) /\ l.got = k.got /\ l.pos = k.pos + n
<1> DEFINE s == plan.script
           l == Consumed(k, n)
<1>1. k \in ConnRec /\ HasTc(k) /\ Parsed(k, s)
  BY DEF Sound, HasTc
<1>2. /\ k.pos \in Nat /\ k.got \in Nat /\ Len(s) \in Nat
      /\ k.got <= Len(s)
  BY <1>1, Buffer
<1>3. k.seen = Cardinality(Bodies(s, k.pos))
  BY <1>1 DEF Parsed, Bodies
<1>4. k.pos + n < Len(s) => s[k.pos + n + 1] \in {"h", "r", "x"}
  <2> HAVE k.pos + n < Len(s)
  <2>1. k.pos + n \in Nat /\ 1 <= k.pos + n
    BY <1>2
  <2> QED
    BY <2>1, Follows
<1>5. Bodies(s, k.pos + n) = Bodies(s, k.pos)
  <2>1. k.pos + n \in Nat /\ k.pos <= k.pos + n
    BY <1>2
  <2> QED
    BY <1>2, <2>1, BodiesSame
<1>6. /\ l \in ConnRec /\ SameState(k, l)
      /\ SameOutput(k, l) /\ l.ql = k.ql
      /\ l.tmr = Idle /\ l.tmr_ka = k.tmr_ka /\ l.quiet = 0
      /\ l.ka_interval = k.ka_interval
      /\ l.got = k.got /\ l.pos = k.pos + n /\ l.seen = k.seen
  BY <1>1, ConsumedFields
<1> HIDE DEF l, s
<1>7. /\ l.st = k.st /\ l.hashed = k.hashed /\ l.established = k.established
  BY <1>6 DEF SameState
<1>8. Sound(k, s) /\ k.st = "open"
  BY DEF s
<1>9. /\ l.pos <= k.got
      /\ l.pos < Len(s) => s[l.pos + 1] \in {"h", "r", "x"}
      /\ l.seen = Cardinality(Bodies(s, l.pos))
  BY <1>3, <1>4, <1>5, <1>6
<1>10. Sound(l, s)
  BY <1>6, <1>7, <1>8, <1>9, SoundRead
<1> QED
  BY <1>6, <1>10 DEF l, s

(* A message is consumed.                                                  *)
LEMMA SoundMessage ==
    ASSUME plan \in Plans, NEW k, Sound(k, plan.script), k.st = "open",
           k.pos + 3 <= k.got, plan.script[k.pos + 1] = "h"
    PROVE  LET l == Seen(Consumed(k, 3)) IN
           /\ Sound(l, plan.script) /\ l.ql = k.ql /\ l.st = k.st
           /\ SameOutput(k, l) /\ l.quiet = 0 /\ l.tmr = Idle
           /\ l.got = k.got /\ l.pos = k.pos + 3
<1> DEFINE s == plan.script
           p == k.pos
           j == Consumed(k, 3)
           l == Seen(j)
<1>1. k \in ConnRec /\ HasTc(k) /\ Parsed(k, s)
  BY DEF Sound, HasTc
<1>2. p \in Nat /\ k.got \in Nat /\ Len(s) \in Nat /\ k.got <= Len(s)
  BY <1>1, Buffer
<1>3. k.seen = Cardinality(Bodies(s, p))
  BY <1>1 DEF Parsed, Bodies
<1>4. s[p + 2] = "e"
  <2>1. p + 1 \in Nat /\ 1 <= p + 1 /\ p + 1 < Len(s) /\ (p + 1) + 1 = p + 2
    BY <1>2
  <2> QED
    BY <2>1, Follows
<1>5. s[p + 3] = "b"
  <2>1. p + 2 \in Nat /\ 1 <= p + 2 /\ p + 2 < Len(s) /\ (p + 2) + 1 = p + 3
    BY <1>2
  <2> QED
    BY <1>4, <2>1, Follows
<1>6. p + 3 < Len(s) => s[p + 3 + 1] \in {"h", "r", "x"}
  <2> HAVE p + 3 < Len(s)
  <2>1. p + 3 \in Nat /\ 1 <= p + 3
    BY <1>2
  <2> QED
    BY <1>5, <2>1, Follows
<1>7. Cardinality(Bodies(s, p + 3)) = Cardinality(Bodies(s, p)) + 1
  <2>1. p + 2 \in Nat /\ p <= p + 2 /\ (p + 2) + 1 = p + 3
    BY <1>2
  <2>2. \A i \in (p + 1)..(p + 2) : s[i] # "b"
    <3> TAKE i \in (p + 1)..(p + 2)
    <3>1. i = p + 1 \/ i = p + 2
      BY <1>2
    <3> QED
      BY <1>4, <3>1
  <2>3. Bodies(s, p + 2) = Bodies(s, p)
    BY <1>2, <2>1, <2>2, BodiesSame
  <2>4. Cardinality(Bodies(s, (p + 2) + 1)) = Cardinality(Bodies(s, p + 2)) + 1
    BY <1>5, <2>1, BodiesFacts
  <2> QED
    BY <2>1, <2>3, <2>4
<1>8. /\ j \in ConnRec /\ SameState(k, j)
      /\ SameOutput(k, j) /\ j.ql = k.ql
      /\ j.tmr = Idle /\ j.tmr_ka = k.tmr_ka /\ j.quiet = 0
      /\ j.ka_interval = k.ka_interval
      /\ j.got = k.got /\ j.pos = p + 3 /\ j.seen = k.seen
  BY <1>1, ConsumedFields
<1> HIDE DEF j
<1>9. /\ l \in ConnRec /\ SameTime(j, l) /\ SameOutput(j, l)
      /\ l.st = j.st /\ l.hashed = j.hashed
      /\ l.established = j.established /\ l.ql = j.ql
      /\ l.got = j.got /\ l.pos = j.pos /\ l.seen = j.seen + 1
  BY <1>8, SeenFields
<1> HIDE DEF l, s
<1>10. /\ SameOutput(k, l) /\ l.ql = k.ql /\ l.st = k.st
       /\ l.hashed = k.hashed /\ l.established = k.established
       /\ l.tmr = Idle /\ l.tmr_ka = k.tmr_ka /\ l.quiet = 0
       /\ l.ka_interval = k.ka_interval
       /\ l.got = k.got /\ l.pos = p + 3 /\ l.seen = k.seen + 1
  BY <1>8, <1>9 DEF SameState, SameTime, SameOutput
<1>11. Sound(k, s) /\ k.st = "open"
  BY DEF s
<1>12. /\ l.pos <= k.got
       /\ l.pos < Len(s) => s[l.pos + 1] \in {"h", "r", "x"}
       /\ l.seen = Cardinality(Bodies(s, l.pos))
  BY <1>3, <1>6, <1>7, <1>10
<1>13. Sound(l, s)
  BY <1>9, <1>10, <1>11, <1>12, SoundRead
<1> QED
  BY <1>10, <1>13 DEF l, j, s
-----------------------------------------------------------------------------
(* Steps that change one connection.                                       *)

LEMMA OwnedByAll ==
    ASSUME NEW c, NEW k, Owned(run, c, k), run.h = "none" \/ run.c # c, NEW r
    PROVE  Owned(r, c, k)
  BY DEF Owned

LEMMA Step ==
    ASSUME Inv, NEW c \in 1..plan.conns, NEW l, plan' = plan,
           conn' = [conn EXCEPT ![c] = l],
           msg' \in Seq(Status), qent' \in Seq(1..plan.conns \cup {None}),
           Len(qent') = Len(msg'), run' \in RunRec(plan.conns),
           Sound(l, plan.script), Recorded(l, msg'), Extends(msg, msg'),
           Queue(l.ql, c, qent'),
           \A d \in 1..plan.conns : d # c => Queue(conn[d].ql, d, qent'),
           (run'.h = "recv" /\ run'.c = c) \/ NoneWaits(l, plan.script),
           Owned(run', c, l),
           run' = run \/ run.h = "none" \/ run.c = c,
           \/ run'.h = "none" \/ (run' = run /\ run.c # c)
           \/ run'.c = c /\ Busy(run', l)
    PROVE  Typed' /\ Connections' /\ Running'
<1> DEFINE n == plan.conns
<1>1. Typed /\ Connections /\ Running
  BY DEF Inv
<1>2. plan \in Plans /\ conn \in [1..n -> ConnRec]
  BY <1>1 DEF Typed
<1>3. l \in ConnRec
  BY DEF Sound
<1>4. conn' \in [1..n -> ConnRec]
  BY <1>2, <1>3
<1>5. conn'[c] = l /\ \A d \in 1..n : d # c => conn'[d] = conn[d]
  BY <1>2
<1> HIDE DEF n
<1>6. Typed'
  BY <1>2, <1>4 DEF Typed, n
<1>7. Connections'
  <2> SUFFICES ASSUME NEW d \in 1..n
               PROVE  /\ Sound(conn'[d], plan.script)
                      /\ Recorded(conn'[d], msg')
                      /\ Queue(conn'[d].ql, d, qent')
                      /\ \/ run'.h = "recv" /\ run'.c = d
                         \/ NoneWaits(conn'[d], plan.script)
    BY DEF Connections, n
  <2>1. CASE d = c
    BY <1>5, <2>1
  <2>2. CASE d # c
    <3>1. conn'[d] = conn[d] /\ Queue(conn[d].ql, d, qent')
      BY <1>5, <2>2 DEF n
    <3>2. /\ Sound(conn[d], plan.script) /\ Recorded(conn[d], msg)
          /\ (run.h = "recv" /\ run.c = d) \/ NoneWaits(conn[d], plan.script)
      BY <1>1 DEF Connections, n
    <3>3. Recorded(conn[d], msg')
      BY <3>2, RecordedLater
    <3>4. (run'.h = "recv" /\ run'.c = d) \/ NoneWaits(conn[d], plan.script)
      BY <2>2, <3>2
    <3> QED
      BY <3>1, <3>2, <3>3, <3>4
  <2> QED
    BY <2>1, <2>2
<1>8. Running'
  <2>1. \A d \in 1..n : Owned(run', d, conn'[d])
    <3> TAKE d \in 1..n
    <3>1. CASE d = c
      BY <1>5, <3>1
    <3>2. CASE d # c
      <4>1. conn'[d] = conn[d] /\ Owned(run, d, conn[d])
        BY <1>1, <1>5, <3>2 DEF Running, n
      <4> QED
        BY <3>2, <4>1, OwnedByAll
    <3> QED
      BY <3>1, <3>2
  <2>2. ASSUME run'.h # "none"
        PROVE  run'.c \in 1..n /\ Busy(run', conn'[run'.c])
    <3>1. CASE run' = run /\ run.c # c
      <4>1. run.c \in 1..n /\ Busy(run, conn[run.c])
        BY <1>1, <2>2, <3>1 DEF Running, n
      <4>2. conn'[run.c] = conn[run.c]
        BY <1>5, <3>1, <4>1
      <4> QED
        BY <3>1, <4>1, <4>2
    <3>2. CASE run'.c = c /\ Busy(run', l)
      BY <1>5, <3>2 DEF n
    <3> QED
      BY <2>2, <3>1, <3>2
  <2> QED
    BY <2>1, <2>2 DEF Running, n
<1> QED
  BY <1>6, <1>7, <1>8

(* One that leaves the messages where they are.                            *)
LEMMA QuietStep ==
    ASSUME Inv, NEW c \in 1..plan.conns, NEW l,
           UNCHANGED <<plan, msg, qent>>,
           conn' = [conn EXCEPT ![c] = l], run' \in RunRec(plan.conns),
           Sound(l, plan.script), Recorded(l, msg), l.ql = conn[c].ql,
           (run'.h = "recv" /\ run'.c = c) \/ NoneWaits(l, plan.script),
           Owned(run', c, l),
           run' = run \/ run.h = "none" \/ run.c = c,
           \/ run'.h = "none" \/ (run' = run /\ run.c # c)
           \/ run'.c = c /\ Busy(run', l)
    PROVE  Inv'
<1>1. Typed /\ Connections /\ Pointers
  BY DEF Inv
<1>2. /\ msg' \in Seq(Status) /\ qent' \in Seq(1..plan.conns \cup {None})
      /\ Len(qent') = Len(msg')
  BY <1>1 DEF Typed
<1>3. Extends(msg, msg')
  BY DEF Extends
<1>4. \A d \in 1..plan.conns : Queue(conn[d].ql, d, qent')
  BY <1>1 DEF Connections
<1>5. plan' = plan /\ Recorded(l, msg') /\ Queue(l.ql, c, qent')
  BY <1>4
<1>6. Typed' /\ Connections' /\ Running'
  BY <1>2, <1>3, <1>4, <1>5, Step
<1>7. Pointers'
  BY <1>1 DEF Pointers
<1> QED
  BY <1>6, <1>7 DEF Inv

LEMMA At ==
    ASSUME Inv, NEW c \in 1..plan.conns
    PROVE  /\ plan \in Plans /\ conn \in [1..plan.conns -> ConnRec]
           /\ conn[c] \in ConnRec
           /\ run \in RunRec(plan.conns) /\ Conn = 1..plan.conns
           /\ Sound(conn[c], plan.script) /\ Recorded(conn[c], msg)
           /\ Queue(conn[c].ql, c, qent)
           /\ \/ run.h = "recv" /\ run.c = c
              \/ NoneWaits(conn[c], plan.script)
           /\ Owned(run, c, conn[c])
  BY DEF Inv, Typed, Connections, Running, Conn

LEMMA Loops ==
    ASSUME NEW n, NEW c \in 1..n, NEW b \in BOOLEAN, NEW d \in BOOLEAN,
           NEW h \in {"none", "estab", "close", "recv"}
    PROVE  /\ [h |-> h, c |-> c, le |-> b, cb |-> d] \in RunRec(n)
           /\ Resting \in RunRec(n)
  BY DEF RunRec, Resting

LEMMA CloseStep ==
    ASSUME Inv, NEW c \in 1..plan.conns, NEW k, Sound(k, plan.script),
           k.ql = conn[c].ql, run.h = "none" \/ run.c = c,
           conn_close(c, k), UNCHANGED <<plan, msg, qent>>
    PROVE  Inv'
<1> DEFINE l == Closed(k)
           b == k.ql # <<>>
<1>1. /\ Sound(l, plan.script) /\ Recorded(l, msg)
      /\ NoneWaits(l, plan.script) /\ l.ql = k.ql /\ l.st = "closing"
  BY SoundClosed
<1>2. /\ conn' = [conn EXCEPT ![c] = l]
      /\ run' = [h |-> "close", c |-> c, le |-> b, cb |-> FALSE]
  BY DEF conn_close, Loop
<1> HIDE DEF l
<1>3. b \in BOOLEAN /\ FALSE \in BOOLEAN
  OBVIOUS
<1> HIDE DEF b
<1>4. run' \in RunRec(plan.conns)
  BY <1>2, <1>3, Loops
<1>5. run'.h = "close" /\ run'.c = c /\ (run'.le <=> l.ql # <<>>)
  BY <1>1, <1>2 DEF b
<1>6. Owned(run', c, l) /\ Busy(run', l)
  BY <1>1, <1>5 DEF Owned, Busy
<1>7. l.ql = conn[c].ql
  BY <1>1
<1> QED
  BY <1>1, <1>2, <1>4, <1>5, <1>6, <1>7, QuietStep

LEMMA InvTcpClose ==
    ASSUME Inv, NEW c \in Conn, tcp_close_handler(c)
    PROVE  Inv'
<1>1. c \in 1..plan.conns
  BY DEF Inv, Typed, Conn
<1>2. Sound(conn[c], plan.script)
  BY <1>1, At
<1> QED
  BY <1>1, <1>2, CloseStep DEF tcp_close_handler

LEMMA InvTmr ==
    ASSUME Inv, NEW c \in Conn, conn_tmr_handler(c)
    PROVE  Inv'
<1>1. c \in 1..plan.conns
  BY DEF Inv, Typed, Conn
<1>2. Sound(conn[c], plan.script)
  BY <1>1, At
<1> QED
  BY <1>1, <1>2, CloseStep DEF conn_tmr_handler

LEMMA InvEstab ==
    ASSUME Inv, NEW c \in Conn, tcp_estab_handler(c)
    PROVE  Inv'
<1> DEFINE k == conn[c]
           l == Opened(k)
           b == k.ql # <<>>
<1>1. c \in 1..plan.conns
  BY DEF Inv, Typed, Conn
<1>2. /\ conn \in [1..plan.conns -> ConnRec] /\ k \in ConnRec
      /\ Sound(k, plan.script) /\ Recorded(k, msg) /\ Owned(run, c, k)
      /\ (run.h = "recv" /\ run.c = c) \/ NoneWaits(k, plan.script)
  BY <1>1, At
<1>3. /\ run.h = "none" /\ k.st = "opening"
      /\ run' = [h |-> "estab", c |-> c, le |-> b, cb |-> FALSE]
      /\ UNCHANGED <<plan, msg, qent>>
  BY DEF tcp_estab_handler, Loop
<1>4. conn' = [conn EXCEPT ![c] = l]
  BY <1>1, <1>2 DEF tcp_estab_handler, Opened, ConnRec
<1>5. NoneWaits(k, plan.script)
  BY <1>2, <1>3
<1>6. /\ Sound(l, plan.script) /\ Recorded(l, msg)
      /\ NoneWaits(l, plan.script) /\ l.ql = k.ql /\ l.st = "open"
  BY <1>2, <1>3, <1>5, SoundOpened
<1> HIDE DEF l
<1>7. b \in BOOLEAN /\ FALSE \in BOOLEAN
  OBVIOUS
<1> HIDE DEF b
<1>8. run' \in RunRec(plan.conns)
  BY <1>1, <1>3, <1>7, Loops
<1>9. run'.h = "estab" /\ run'.c = c /\ (run'.le <=> l.ql # <<>>) /\ ~run'.cb
  BY <1>3, <1>6 DEF b
<1>10. Owned(run', c, l) /\ Busy(run', l)
  BY <1>6, <1>9 DEF Owned, Busy
<1>11. l.ql = conn[c].ql
  BY <1>6
<1> QED
  BY <1>1, <1>3, <1>4, <1>6, <1>8, <1>9, <1>10, <1>11, QuietStep

LEMMA InvRecv ==
    ASSUME Inv, NEW c \in Conn, NEW n, tcp_recv_handler(c, n)
    PROVE  Inv'
<1> DEFINE k == conn[c]
           g == k.got + n
           l == Got(k, g)
<1>1. c \in 1..plan.conns
  BY DEF Inv, Typed, Conn
<1>2. /\ plan \in Plans
      /\ conn \in [1..plan.conns -> ConnRec] /\ k \in ConnRec
      /\ Sound(k, plan.script) /\ Recorded(k, msg) /\ Owned(run, c, k)
  BY <1>1, At
<1>3. /\ run.h = "none" /\ k.st = "open"
      /\ run' = [h |-> "recv", c |-> c, le |-> TRUE, cb |-> FALSE]
      /\ UNCHANGED <<plan, msg, qent>>
      /\ n \in 1..(Len(plan.script) - k.got)
  BY DEF tcp_recv_handler
<1>4. conn' = [conn EXCEPT ![c] = l]
  BY <1>1, <1>2 DEF tcp_recv_handler, Got, ConnRec
<1>5. k.got \in Nat /\ Len(plan.script) \in Nat
  BY <1>2, Members, ScriptFacts
<1>6. g \in Nat /\ k.got <= g /\ g <= Len(plan.script)
  BY <1>3, <1>5
<1> HIDE DEF g
<1>7. /\ Sound(l, plan.script) /\ Recorded(l, msg) /\ l.ql = k.ql
      /\ SameState(k, l)
  BY <1>2, <1>6, SoundGot
<1> HIDE DEF l
<1>8. run' \in RunRec(plan.conns)
  BY <1>1, <1>3, Loops
<1>9. run'.h = "recv" /\ run'.c = c /\ run'.le /\ ~run'.cb
  BY <1>3
<1>10. l.st = "open" /\ Busy(run', l)
  BY <1>3, <1>7, <1>9 DEF SameState, Busy
<1>11. Owned(run', c, l)
  BY <1>2, <1>3, <1>7, <1>10 DEF Owned
<1>12. l.ql = conn[c].ql
  BY <1>7
<1> QED
  BY <1>1, <1>3, <1>4, <1>7, <1>8, <1>9, <1>10, <1>11, <1>12, QuietStep

LEMMA InvDequeue ==
    ASSUME Inv, NEW c \in Conn, dequeue(c)
    PROVE  Inv'
<1> DEFINE k == conn[c]
<1>1. c \in 1..plan.conns
  BY DEF Inv, Typed, Conn
<1>2. /\ conn \in [1..plan.conns -> ConnRec] /\ k \in ConnRec
      /\ Sound(k, plan.script) /\ Recorded(k, msg) /\ Owned(run, c, k)
      /\ (run.h = "recv" /\ run.c = c) \/ NoneWaits(k, plan.script)
      /\ run \in RunRec(plan.conns)
  BY <1>1, At
<1>3. run.h = "none" /\ k.st = "open" /\ UNCHANGED <<plan, msg, qent, run>>
  BY DEF dequeue
<1>4. PICK n \in 1..Len(k.sendq) :
         conn' = [conn EXCEPT ![c].out = @ \o SubSeq(k.sendq, 1, n),
                              ![c].sendq = SubSeq(@, n + 1, Len(@))]
  BY DEF dequeue
<1> DEFINE o == k.out \o SubSeq(k.sendq, 1, n)
           q == SubSeq(k.sendq, n + 1, Len(k.sendq))
           l == Output(k, o, q)
<1>5. conn' = [conn EXCEPT ![c] = l]
  BY <1>1, <1>2, <1>4 DEF Output, ConnRec
<1>6. /\ Sound(l, plan.script) /\ Recorded(l, msg) /\ l.ql = k.ql
      /\ SameState(k, l) /\ SameInput(k, l)
  BY <1>2, SoundDequeued
<1> HIDE DEF l
<1>7. NoneWaits(l, plan.script) /\ Owned(run', c, l)
  <2>1. NoneWaits(k, plan.script)
    BY <1>2, <1>3
  <2> QED
    BY <1>2, <1>3, <1>6, <2>1, KeepNoneWaits DEF SameState, HasTc, Owned
<1>8. l.ql = conn[c].ql /\ run'.h = "none" /\ run' = run
      /\ run' \in RunRec(plan.conns)
  BY <1>2, <1>3, <1>6
<1> QED
  BY <1>1, <1>3, <1>5, <1>6, <1>7, <1>8, QuietStep

-----------------------------------------------------------------------------
(* Keepalives.                                                             *)

LEMMA SoundCrlf ==
    ASSUME NEW k, NEW s, NEW ms, Sound(k, s), Recorded(k, ms), HasTc(k),
           NEW r \in tcp_send(k, Crlf)
    PROVE  /\ Sound(r.k, s) /\ Recorded(r.k, ms) /\ r.k.ql = k.ql
           /\ SameState(k, r.k) /\ SameTime(k, r.k) /\ SameInput(k, r.k)
           /\ r.ok \in BOOLEAN
<1> DEFINE q == k.ql
           l == Queued(r.k, q)
<1>1. k \in ConnRec /\ Sending(k)
  BY DEF Sound
<1>2. Crlf \in Nat /\ q \in Seq(Nat \ {0})
  BY <1>1, Members DEF Crlf
<1>3. k.failed \/ Before(Stream(k), q)
  BY <1>1 DEF Sending
<1>4. \A j \in 1..Len(q) : Crlf < q[j]
  <2> TAKE j \in 1..Len(q)
  <2>1. q[j] \in Nat \ {0}
    BY <1>2, ElementOfSeq
  <2> QED
    BY <2>1 DEF Crlf
<1>5. r.k \in ConnRec /\ r.k.ql = q /\ r.ok \in BOOLEAN
  BY <1>1, <1>2, Sends
<1>6. l = r.k
  BY <1>5, QueuedSame
<1>7. /\ Sound(l, s) /\ SameState(k, l) /\ SameTime(k, l) /\ SameInput(k, l)
      /\ r.ok => Grown(Stream(k), Stream(l), Crlf, Units(Crlf))
      /\ ~r.ok => Stream(l) = Stream(k)
  BY <1>2, <1>3, <1>4, SoundSend
<1> HIDE DEF l
<1>8. Extends(ms, ms)
  BY DEF Extends
<1>9. l \in ConnRec
  BY <1>7 DEF Sound
<1>10. Recorded(l, ms)
  <2>1. CASE r.ok
    BY <1>1, <1>2, <1>7, <1>8, <1>9, <2>1, RecordedSent
  <2>2. CASE ~r.ok
    BY <1>7, <2>2 DEF Recorded
  <2> QED
    BY <2>1, <2>2
<1> QED
  BY <1>5, <1>6, <1>7, <1>10

LEMMA InvKeepalive ==
    ASSUME Inv, NEW c \in Conn, conn_keepalive_handler(c)
    PROVE  Inv'
<1> DEFINE k == conn[c]
<1>1. c \in 1..plan.conns
  BY DEF Inv, Typed, Conn
<1>2. /\ conn \in [1..plan.conns -> ConnRec] /\ k \in ConnRec
      /\ Sound(k, plan.script) /\ Recorded(k, msg) /\ Owned(run, c, k)
      /\ (run.h = "recv" /\ run.c = c) \/ NoneWaits(k, plan.script)
      /\ run \in RunRec(plan.conns)
  BY <1>1, At
<1>3. run.h = "none" /\ k.tmr_ka = 0 /\ UNCHANGED <<plan, msg, qent>>
  BY DEF conn_keepalive_handler
<1>4. PICK r \in tcp_send(k, Crlf), w \in sip_keepalive_wait(k.ka_interval) :
         /\ r.ok => /\ conn' = [conn EXCEPT ![c] = Pinged(r.k, w)]
                    /\ UNCHANGED run
         /\ ~r.ok => conn_close(c, r.k)
  BY DEF conn_keepalive_handler, Pinged
<1>5. HasTc(k) /\ NoneWaits(k, plan.script)
  BY <1>2, <1>3 DEF Sound, Life, HasTc, Off
<1> DEFINE j == r.k
<1>6. /\ Sound(j, plan.script) /\ Recorded(j, msg) /\ j.ql = k.ql
      /\ SameState(k, j) /\ SameTime(k, j) /\ SameInput(k, j)
      /\ r.ok \in BOOLEAN
  BY <1>2, <1>5, SoundCrlf
<1>7. CASE r.ok
  <2> DEFINE l == Pinged(j, w)
  <2>1. conn' = [conn EXCEPT ![c] = l] /\ run' = run
    BY <1>4, <1>7
  <2> HIDE DEF j
  <2>2. j.tmr_ka = 0 /\ w \in sip_keepalive_wait(j.ka_interval)
    BY <1>3, <1>6 DEF SameTime
  <2>3. /\ Sound(l, plan.script) /\ l.ql = j.ql /\ SameState(j, l)
        /\ SameInput(j, l) /\ SameOutput(j, l)
    BY <1>6, <2>2, SoundPinged
  <2> HIDE DEF l
  <2>4. (HasTc(j) <=> HasTc(k)) /\ (HasTc(l) <=> HasTc(j))
    BY <1>6, <2>3 DEF SameState, HasTc
  <2>5. NoneWaits(l, plan.script) /\ Recorded(l, msg)
    BY <1>5, <1>6, <2>3, <2>4, KeepNoneWaits, KeepRecorded DEF SameOutput
  <2>6. Owned(run', c, l)
    BY <1>2, <1>6, <2>1, <2>3 DEF Owned, SameState
  <2>7. /\ l.ql = conn[c].ql /\ run'.h = "none"
        /\ run' \in RunRec(plan.conns)
    BY <1>2, <1>3, <1>6, <2>1, <2>3
  <2> QED
    BY <1>1, <1>3, <2>1, <2>3, <2>5, <2>6, <2>7, QuietStep
<1>8. CASE ~r.ok
  <2>1. conn_close(c, j)
    BY <1>4, <1>8
  <2> HIDE DEF j
  <2> QED
    BY <1>1, <1>3, <1>6, <2>1, CloseStep
<1> QED
  BY <1>6, <1>7, <1>8

LEMMA InvStartKeepalive ==
    ASSUME Inv, NEW c \in Conn, NEW i \in Flow, sip_keepalive_tcp(c, i)
    PROVE  Inv'
<1> DEFINE k == conn[c]
           s == plan.script
<1>1. c \in 1..plan.conns
  BY DEF Inv, Typed, Conn
<1>2. /\ conn \in [1..plan.conns -> ConnRec] /\ k \in ConnRec
      /\ Sound(k, s) /\ Recorded(k, msg) /\ Owned(run, c, k)
      /\ run \in RunRec(plan.conns)
  BY <1>1, At
<1>3. /\ run.h = "recv" /\ run.cb /\ run.c = c
      /\ UNCHANGED <<plan, msg, qent, run>>
  BY DEF sip_keepalive_tcp
<1>4. k.st = "open" /\ k.quiet = 0 /\ k.tmr = Idle /\ (~run.le => k.pos = k.got)
  BY <1>3 DEF Inv, Running, Busy
<1>5. ASSUME NEW l, conn' = [conn EXCEPT ![c] = l], Sound(l, s),
             l.ql = k.ql, l.st = k.st, l.quiet = 0, l.tmr = Idle,
             SameInput(k, l), SameOutput(k, l)
      PROVE  Inv'
  <2>1. Recorded(l, msg)
    BY <1>2, <1>5, KeepRecorded DEF SameOutput, HasTc
  <2>2. Busy(run', l)
    BY <1>3, <1>4, <1>5 DEF Busy, SameInput
  <2>3. Owned(run', c, l)
    BY <1>2, <1>3, <1>5 DEF Owned
  <2>4. l.ql = conn[c].ql /\ run' \in RunRec(plan.conns) /\ run' = run
        /\ run'.h = "recv" /\ run'.c = c
    BY <1>2, <1>3, <1>5
  <2> QED
    BY <1>1, <1>3, <1>5, <2>1, <2>2, <2>3, <2>4, QuietStep
<1>6. CASE \E w \in sip_keepalive_wait(Interval(i)) :
              conn' = [conn EXCEPT ![c].kal = TRUE, ![c].tmr_ka = w,
                                   ![c].ka_interval = Interval(i)]
  <2>1. PICK w \in sip_keepalive_wait(Interval(i)) :
           conn' = [conn EXCEPT ![c].kal = TRUE, ![c].tmr_ka = w,
                                ![c].ka_interval = Interval(i)]
    BY <1>6
  <2> DEFINE l == Pinging(k, w, Interval(i))
  <2>2. conn' = [conn EXCEPT ![c] = l]
    BY <1>1, <1>2, <2>1 DEF Pinging, ConnRec
  <2>3. /\ Sound(l, s) /\ l.ql = k.ql /\ l.st = k.st /\ l.quiet = 0
        /\ l.tmr = Idle /\ SameInput(k, l) /\ SameOutput(k, l)
    BY <1>2, <1>4, SoundPinging
  <2> HIDE DEF l
  <2> QED
    BY <1>5, <2>2, <2>3
<1>7. CASE conn' = [conn EXCEPT ![c].kal = TRUE]
  <2> DEFINE l == Signal(k, TRUE)
  <2>1. conn' = [conn EXCEPT ![c] = l]
    BY <1>1, <1>2, <1>7 DEF Signal, ConnRec
  <2>2. /\ Sound(l, s) /\ l.ql = k.ql /\ l.st = k.st /\ SameTime(k, l)
        /\ SameInput(k, l) /\ SameOutput(k, l)
    BY <1>2, SoundSignal
  <2> HIDE DEF l
  <2>3. l.quiet = 0 /\ l.tmr = Idle
    BY <1>4, <2>2 DEF SameTime
  <2> QED
    BY <1>5, <2>1, <2>2, <2>3
<1> QED
  BY <1>6, <1>7 DEF sip_keepalive_tcp

LEMMA InvTick ==
    ASSUME Inv, Tick
    PROVE  Inv'
<1> DEFINE n == plan.conns
           s == plan.script
<1>1. Typed /\ Connections /\ Running /\ Pointers /\ Conn = 1..n
  BY DEF Inv, Typed, Conn
<1>2. /\ run.h = "none" /\ UNCHANGED <<plan, msg, qent, run>>
      /\ \A c \in 1..n : conn[c].tmr # 0 /\ conn[c].tmr_ka # 0
  BY <1>1 DEF Tick
<1>3. conn' = [c \in 1..n |-> IF ~HasTc(conn[c]) THEN conn[c]
                              ELSE Ticked(conn[c])]
  BY <1>1 DEF Tick, Ticked
<1>4. ASSUME NEW c \in 1..n
      PROVE  /\ Sound(conn'[c], s) /\ Recorded(conn'[c], msg)
             /\ NoneWaits(conn'[c], s) /\ Queue(conn'[c].ql, c, qent)
             /\ Owned(run, c, conn'[c])
  <2> DEFINE k == conn[c]
             l == Ticked(k)
  <2>1. /\ Sound(k, s) /\ Recorded(k, msg) /\ Owned(run, c, k)
        /\ (run.h = "recv" /\ run.c = c) \/ NoneWaits(k, s)
        /\ Queue(k.ql, c, qent)
    BY At
  <2>2. NoneWaits(k, s)
    BY <1>2, <2>1
  <2>3. CASE ~HasTc(k)
    <3>1. conn'[c] = k
      BY <1>3, <2>3
    <3> QED
      BY <2>1, <2>2, <3>1
  <2>4. CASE HasTc(k)
    <3>1. conn'[c] = l
      BY <1>3, <2>4
    <3>2. k.tmr # 0 /\ k.tmr_ka # 0
      BY <1>2
    <3>3. /\ Sound(l, s) /\ Recorded(l, msg) /\ l.ql = k.ql
          /\ SameState(k, l) /\ SameInput(k, l)
      BY <2>1, <2>4, <3>2, SoundTicked
    <3> HIDE DEF l
    <3>4. NoneWaits(l, s)
      BY <2>2, <2>4, <3>3, KeepNoneWaits
    <3>5. Owned(run, c, l)
      BY <2>1, <3>3 DEF Owned, SameState
    <3> QED
      BY <2>1, <3>1, <3>3, <3>4, <3>5
  <2> QED
    BY <2>3, <2>4
<1>5. conn' \in [1..n -> ConnRec]
  <2>1. \A c \in 1..n : conn'[c] \in ConnRec
    BY <1>4 DEF Sound
  <2> QED
    BY <1>3, <2>1
<1>6. Typed'
  BY <1>1, <1>2, <1>5 DEF Typed
<1>7. Connections'
  BY <1>2, <1>4 DEF Connections
<1>8. Running'
  BY <1>2, <1>4 DEF Running
<1>9. Pointers'
  BY <1>1, <1>2 DEF Pointers
<1> QED
  BY <1>6, <1>7, <1>8, <1>9 DEF Inv

-----------------------------------------------------------------------------
(* The loop that reads.                                                    *)

LEMMA AtRead ==
    ASSUME Inv, run.h = "recv"
    PROVE  /\ run.c \in 1..plan.conns /\ plan \in Plans
           /\ conn \in [1..plan.conns -> ConnRec]
           /\ run \in RunRec(plan.conns)
           /\ conn[run.c] \in ConnRec
           /\ Sound(conn[run.c], plan.script) /\ Recorded(conn[run.c], msg)
           /\ conn[run.c].st = "open" /\ HasTc(conn[run.c])
           /\ ~run.le => conn[run.c].pos = conn[run.c].got
           /\ \A r : Owned(r, run.c, conn[run.c])
<1>1. /\ run.c \in 1..plan.conns /\ conn[run.c].st = "open"
      /\ ~run.le => conn[run.c].pos = conn[run.c].got
  BY DEF Inv, Running, Busy
<1>2. /\ plan \in Plans /\ conn \in [1..plan.conns -> ConnRec]
      /\ run \in RunRec(plan.conns)
      /\ conn[run.c] \in ConnRec /\ Owned(run, run.c, conn[run.c])
      /\ Sound(conn[run.c], plan.script) /\ Recorded(conn[run.c], msg)
  BY <1>1, At
<1>3. \A r : Owned(r, run.c, conn[run.c])
  BY <1>1, <1>2 DEF Owned
<1> QED
  BY <1>1, <1>2, <1>3 DEF HasTc

LEMMA ReadStep ==
    ASSUME Inv, run.h = "recv", NEW l, conn' = [conn EXCEPT ![run.c] = l],
           UNCHANGED <<plan, msg, qent>>,
           NEW b \in BOOLEAN, NEW d \in BOOLEAN,
           run' = [run EXCEPT !.le = b, !.cb = d],
           Sound(l, plan.script), Recorded(l, msg),
           l.ql = conn[run.c].ql, l.st = "open",
           ~b => l.pos = l.got, d => l.quiet = 0 /\ l.tmr = Idle
    PROVE  Inv'
<1> DEFINE c == run.c
<1>1. c \in 1..plan.conns /\ run \in RunRec(plan.conns)
  BY AtRead
<1>2. Owned(run', c, conn[c]) /\ conn[c].st = "open"
  BY AtRead
<1>3. /\ run' \in RunRec(plan.conns) /\ run'.h = "recv" /\ run'.c = c
      /\ run'.le = b /\ run'.cb = d
  BY <1>1 DEF RunRec
<1>4. Busy(run', l)
  BY <1>3 DEF Busy
<1>5. Owned(run', c, l)
  BY <1>2 DEF Owned
<1> QED
  BY <1>1, <1>3, <1>4, <1>5, QuietStep

LEMMA StopReading ==
    ASSUME Inv, run.h = "recv", run' = Resting,
           UNCHANGED <<plan, conn, msg, qent>>,
           NoneWaits(conn[run.c], plan.script)
    PROVE  Inv'
<1> DEFINE c == run.c
           l == conn[c]
<1>1. /\ c \in 1..plan.conns /\ conn \in [1..plan.conns -> ConnRec]
      /\ Sound(l, plan.script) /\ Recorded(l, msg)
  BY AtRead
<1>2. Owned(run', c, l)
  BY AtRead
<1>3. conn' = [conn EXCEPT ![c] = l]
  BY <1>1
<1>4. run' \in RunRec(plan.conns) /\ run'.h = "none"
  BY DEF Resting, RunRec
<1> QED
  BY <1>1, <1>2, <1>3, <1>4, QuietStep

LEMMA InvRecvEnd ==
    ASSUME Inv, run.h = "recv", recv_end(run.c)
    PROVE  Inv'
<1> DEFINE k == conn[run.c]
           s == plan.script
           b == mb(k)
<1>1. plan \in Plans /\ Sound(k, s) /\ HasTc(k)
  BY AtRead
<1>2. /\ k.pos \in Nat /\ k.got \in Nat /\ k.pos <= k.got
      /\ Len(s) \in Nat /\ k.got <= Len(s)
      /\ Len(b) = k.got - k.pos
      /\ \A i \in 1..(k.got - k.pos) : b[i] = s[k.pos + i]
  BY <1>1, Buffer
<1>3. k.pos < Len(s) => s[k.pos + 1] \in {"h", "r", "x"}
  BY <1>1 DEF Sound, Parsed
<1>4. /\ Len(b) < 2 \/ (b[1] = "h" /\ Len(b) < 3)
      /\ run' = Resting /\ UNCHANGED <<plan, conn, msg, qent>>
  BY DEF recv_end
<1> DEFINE p == k.pos
           g == k.got
<1> HIDE DEF b, s, p, g
<1>5. \A i \in (p + 1)..g : s[i] # "b"
  <2> SUFFICES ASSUME NEW i \in (p + 1)..g PROVE s[i] # "b"
    OBVIOUS
  <2>1. p \in Nat /\ g \in Nat /\ g <= Len(s) /\ p < Len(s) /\ i <= Len(s)
    BY <1>2 DEF p, g
  <2>2. s[p + 1] # "b"
    BY <1>3, <2>1 DEF p
  <2>3. CASE i = p + 1
    BY <2>2, <2>3
  <2>4. CASE i > p + 1
    <3>1. g - p > 1 /\ Len(b) = g - p
      BY <1>2, <2>1, <2>4 DEF p, g
    <3>2. b[1] = "h" /\ Len(b) < 3
      BY <1>4, <2>1, <3>1
    <3>3. i = (p + 1) + 1
      BY <2>1, <2>4, <3>1, <3>2
    <3>4. b[1] = s[p + 1]
      BY <1>2, <2>1, <3>1 DEF p, g
    <3>5. p + 1 \in Nat /\ 1 <= p + 1 /\ p + 1 < Len(s)
      BY <2>1, <2>4
    <3>6. s[(p + 1) + 1] = "e"
      BY <1>1, <3>2, <3>4, <3>5, Follows DEF s
    <3> QED
      BY <3>3, <3>6
  <2> QED
    BY <2>1, <2>3, <2>4
<1>6. NoneWaits(k, s)
  BY <1>5 DEF NoneWaits, p, g
<1> QED
  BY <1>4, <1>6, StopReading DEF s

LEMMA InvRecvBad ==
    ASSUME Inv, run.h = "recv", recv_bad(run.c)
    PROVE  Inv'
<1>1. run.c \in 1..plan.conns /\ Sound(conn[run.c], plan.script)
  BY AtRead
<1> QED
  BY <1>1, CloseStep DEF recv_bad

LEMMA InvRecvMsg ==
    ASSUME Inv, run.h = "recv", recv_msg(run.c)
    PROVE  Inv'
<1> DEFINE c == run.c
           k == conn[c]
           s == plan.script
           b == mb(k)
           more == Len(b) > 3
           l == Seen(Consumed(k, 3))
<1>1. /\ plan \in Plans /\ Sound(k, s) /\ HasTc(k) /\ k.st = "open"
      /\ Recorded(k, msg)
  BY AtRead
<1>2. /\ k.pos \in Nat /\ k.got \in Nat /\ k.pos <= k.got
      /\ Len(b) = k.got - k.pos
      /\ \A i \in 1..(k.got - k.pos) : b[i] = s[k.pos + i]
  BY <1>1, Buffer
<1>3. /\ Len(b) >= 3 /\ b[1] = "h"
      /\ conn' = [conn EXCEPT ![c] = l]
      /\ run' = [run EXCEPT !.le = more, !.cb = TRUE]
      /\ UNCHANGED <<plan, msg, qent>>
  BY DEF recv_msg, Seen
<1> HIDE DEF b
<1>4. k.pos + 3 <= k.got /\ s[k.pos + 1] = "h"
  BY <1>2, <1>3
<1>5. /\ Sound(l, s) /\ l.ql = k.ql /\ l.st = k.st
      /\ SameOutput(k, l) /\ l.quiet = 0 /\ l.tmr = Idle
      /\ l.got = k.got /\ l.pos = k.pos + 3
  BY <1>1, <1>4, SoundMessage
<1>6. ~more => l.pos = l.got
  BY <1>2, <1>4, <1>5
<1>7. more \in BOOLEAN
  OBVIOUS
<1> HIDE DEF l, more
<1>8. Recorded(l, msg)
  BY <1>1, <1>5, KeepRecorded DEF SameOutput
<1> QED
  BY <1>1, <1>3, <1>5, <1>6, <1>7, <1>8, ReadStep

LEMMA InvRecvCrlf ==
    ASSUME Inv, run.h = "recv", recv_crlf(run.c)
    PROVE  Inv'
<1> DEFINE c == run.c
           k == conn[c]
           s == plan.script
           b == mb(k)
           p == k.pos
<1>1. /\ plan \in Plans /\ Sound(k, s) /\ HasTc(k) /\ k.st = "open"
      /\ Recorded(k, msg) /\ c \in 1..plan.conns
  BY AtRead
<1>2. /\ p \in Nat /\ k.got \in Nat /\ p <= k.got
      /\ Len(s) \in Nat /\ k.got <= Len(s)
      /\ Len(b) = k.got - p
      /\ \A i \in 1..(k.got - p) : b[i] = s[p + i]
  BY <1>1, Buffer
<1>3. Len(b) >= 2 /\ b[1] = "r" /\ UNCHANGED <<plan, msg, qent>>
  BY DEF recv_crlf
<1>n. p \in Nat
  BY <1>2
<1>i. \A i : /\ i \in (p + 1)..(p + 2) => i = p + 1 \/ i = p + 2
             /\ i \in (p + 1)..(p + 4) => \/ i = p + 1 \/ i = p + 2
                                          \/ i = p + 3 \/ i = p + 4
  <2> HIDE DEF p
  <2> QED
    BY <1>n
<1>4. s[p + 1] = "r" /\ s[p + 2] = "n"
  <2>1. s[p + 1] = "r"
    BY <1>2, <1>3
  <2>2. /\ p + 1 \in Nat /\ 1 <= p + 1 /\ p + 1 < Len(s)
        /\ (p + 1) + 1 = p + 2
    <3> HIDE DEF p, k, s, b
    <3> QED
      BY <1>2, <1>3
  <2> QED
    BY <1>1, <2>1, <2>2, Follows
<1>5. ASSUME ~IsPing(b), conn' = [conn EXCEPT ![c] = Consumed(k, 2)],
             run' = [run EXCEPT !.le = Len(b) > 2, !.cb = FALSE]
      PROVE  Inv'
  <2> DEFINE more == Len(b) > 2
             l == Consumed(k, 2)
  <2>1. 2 \in Nat /\ 1 <= 2 /\ p + 2 <= k.got
    BY <1>2, <1>3
  <2>2. \A i \in (p + 1)..(p + 2) : s[i] # "b"
    <3> TAKE i \in (p + 1)..(p + 2)
    <3>1. i = p + 1 \/ i = p + 2
      BY <1>i
    <3> QED
      BY <1>4, <3>1
  <2>3. /\ Sound(l, s) /\ l.ql = k.ql /\ SameState(k, l)
        /\ SameOutput(k, l) /\ l.got = k.got /\ l.pos = p + 2
    BY <1>1, <1>4, <2>1, <2>2, SoundLine
  <2>4. ~more => l.pos = l.got
    BY <1>2, <2>1, <2>3
  <2>5. more \in BOOLEAN /\ FALSE \in BOOLEAN
    OBVIOUS
  <2>6. /\ conn' = [conn EXCEPT ![c] = l]
        /\ run' = [run EXCEPT !.le = more, !.cb = FALSE]
    BY <1>5
  <2> HIDE DEF l, more
  <2>7. Recorded(l, msg) /\ l.st = "open"
    BY <1>1, <2>3, KeepRecorded DEF SameOutput, SameState
  <2> QED
    BY <1>3, <2>3, <2>4, <2>5, <2>6, <2>7, ReadStep
<1>6. ASSUME IsPing(b), NEW r \in tcp_send(Consumed(k, 4), Crlf),
             r.ok => /\ conn' = [conn EXCEPT ![c] = r.k]
                     /\ run' = [run EXCEPT !.le = Len(b) > 4, !.cb = FALSE],
             ~r.ok => conn_close(c, r.k)
      PROVE  Inv'
  <2> DEFINE more == Len(b) > 4
             j == Consumed(k, 4)
             l == r.k
  <2>1. Len(b) >= 4 /\ b[3] = "r"
    BY <1>6 DEF IsPing
  <2>2. 4 \in Nat /\ 1 <= 4 /\ p + 4 <= k.got /\ s[p + 3] = "r"
    <3> HIDE DEF p, k, s, b
    <3>1. p + 4 <= k.got /\ 3 \in 1..(k.got - p)
      BY <1>2, <2>1
    <3> QED
      BY <1>2, <2>1, <3>1
  <2>3. s[p + 4] = "n"
    <3>1. /\ p + 3 \in Nat /\ 1 <= p + 3 /\ p + 3 < Len(s)
          /\ (p + 3) + 1 = p + 4
      <4> HIDE DEF p, k, s, b
      <4> QED
        BY <1>2, <2>2
    <3> QED
      BY <1>1, <2>2, <3>1, Follows
  <2>4. \A i \in (p + 1)..(p + 4) : s[i] # "b"
    <3> TAKE i \in (p + 1)..(p + 4)
    <3>1. i = p + 1 \/ i = p + 2 \/ i = p + 3 \/ i = p + 4
      BY <1>i
    <3> QED
      BY <1>4, <2>2, <2>3, <3>1
  <2>5. /\ Sound(j, s) /\ j.ql = k.ql /\ SameState(k, j)
        /\ SameOutput(k, j) /\ j.got = k.got /\ j.pos = p + 4
    BY <1>1, <2>2, <2>3, <2>4, SoundLine
  <2>6. more \in BOOLEAN /\ FALSE \in BOOLEAN
    OBVIOUS
  <2>a. r \in tcp_send(j, Crlf)
    OBVIOUS
  <2> HIDE DEF j
  <2>7. Recorded(j, msg) /\ j.st = "open" /\ HasTc(j)
    BY <1>1, <2>5, KeepRecorded DEF SameOutput, SameState, HasTc
  <2>8. /\ Sound(l, s) /\ Recorded(l, msg) /\ l.ql = j.ql
        /\ SameState(j, l) /\ SameInput(j, l)
        /\ r.ok \in BOOLEAN
    BY <2>5, <2>7, <2>a, SoundCrlf
  <2>9. l.st = "open" /\ l.ql = k.ql /\ l.pos = p + 4 /\ l.got = k.got
    BY <2>5, <2>7, <2>8 DEF SameState, SameInput
  <2>10. ~more => l.pos = l.got
    BY <1>2, <2>2, <2>9
  <2>11. CASE r.ok
    <3>1. /\ conn' = [conn EXCEPT ![c] = l]
          /\ run' = [run EXCEPT !.le = more, !.cb = FALSE]
      BY <1>6, <2>11
    <3> HIDE DEF l, more
    <3> QED
      BY <1>3, <2>6, <2>8, <2>9, <2>10, <3>1, ReadStep
  <2>12. CASE ~r.ok
    <3>1. conn_close(c, l)
      BY <1>6, <2>12
    <3> HIDE DEF l
    <3> QED
      BY <1>1, <1>3, <2>8, <2>9, <3>1, CloseStep
  <2> QED
    BY <2>8, <2>11, <2>12
<1>7. CASE IsPing(b)
  <2>1. PICK r \in tcp_send(Consumed(k, 4), Crlf) :
           IF r.ok
           THEN /\ conn' = [conn EXCEPT ![c] = r.k]
                /\ run' = [run EXCEPT !.le = Len(b) > 4, !.cb = FALSE]
           ELSE conn_close(c, r.k)
    BY <1>7 DEF recv_crlf
  <2> QED
    BY <1>6, <1>7, <2>1
<1>8. CASE ~IsPing(b)
  BY <1>5, <1>8 DEF recv_crlf
<1> QED
  BY <1>7, <1>8

LEMMA InvReadLoop ==
    ASSUME Inv, recv_loop
    PROVE  Inv'
<1>1. run.h = "recv"
  BY DEF recv_loop
<1>2. ASSUME ~run.le, run' = Resting, UNCHANGED <<plan, conn, msg, qent>>
      PROVE  Inv'
  <2>1. /\ conn[run.c].pos = conn[run.c].got
        /\ conn[run.c] \in ConnRec
    BY <1>1, <1>2, AtRead
  <2>2. conn[run.c].got \in Nat
    BY <2>1, Members
  <2>3. NoneWaits(conn[run.c], plan.script)
    BY <2>1, <2>2 DEF NoneWaits
  <2> QED
    BY <1>1, <1>2, <2>3, StopReading
<1> QED
  BY <1>1, <1>2, InvRecvCrlf, InvRecvMsg, InvRecvBad, InvRecvEnd
  DEF recv_loop

-----------------------------------------------------------------------------
(* Queues of messages.                                                     *)

LEMMA QueueOther ==
    ASSUME NEW X, NEW q, NEW d, NEW qs \in Seq(X), NEW x \in X, x # d,
           Queue(q, d, qs)
    PROVE  Queue(q, d, Append(qs, x))
<1> DEFINE qt == Append(qs, x)
           n == Len(qs)
<1>1. n \in Nat
  BY LenProperties
<1>2. Len(qt) = n + 1 /\ qt[n + 1] = x /\ \A m \in 1..n : qt[m] = qs[m]
  BY AppendProperties
<1>3. /\ \A i \in 1..Len(q) : q[i] \in 1..n
      /\ \A m \in 1..n : In(m, q) <=> qs[m] = d
      /\ \A i, j \in 1..Len(q) : i < j => q[i] < q[j]
  BY DEF Queue
<1> HIDE DEF qt, n
<1>4. ~In(n + 1, q)
  BY <1>1, <1>3 DEF In
<1>5. \A m \in 1..(n + 1) : m \in 1..n \/ m = n + 1
  BY <1>1
<1>6. \A m \in 1..Len(qt) : In(m, q) <=> qt[m] = d
  BY <1>2, <1>3, <1>4, <1>5
<1>7. \A i \in 1..Len(q) : q[i] \in 1..Len(qt)
  BY <1>1, <1>2, <1>3
<1> QED
  BY <1>3, <1>6, <1>7 DEF Queue, qt

LEMMA QueueMine ==
    ASSUME NEW X, NEW q \in Seq(Nat \ {0}), NEW qs \in Seq(X), NEW c \in X,
           Queue(q, c, qs)
    PROVE  Queue(Append(q, Len(qs) + 1), c, Append(qs, c))
<1> DEFINE qt == Append(qs, c)
           n == Len(qs)
           y == Len(q)
           p == Append(q, n + 1)
<1>1. n \in Nat /\ y \in Nat
  BY LenProperties
<1>2. Len(qt) = n + 1 /\ qt[n + 1] = c /\ \A m \in 1..n : qt[m] = qs[m]
  BY AppendProperties
<1>a. n + 1 \in Nat \ {0}
  BY <1>1
<1>3. Len(p) = y + 1 /\ p[y + 1] = n + 1 /\ \A i \in 1..y : p[i] = q[i]
  BY <1>a, AppendProperties
<1>4. /\ \A i \in 1..y : q[i] \in 1..n
      /\ \A m \in 1..n : In(m, q) <=> qs[m] = c
      /\ \A i, j \in 1..y : i < j => q[i] < q[j]
  BY DEF Queue
<1>q. Len(q) = y
  OBVIOUS
<1> HIDE DEF qt, n, y, p
<1>5. \A i \in 1..(y + 1) : i \in 1..y \/ i = y + 1
  BY <1>1
<1>6. \A m \in 1..(n + 1) : m \in 1..n \/ m = n + 1
  BY <1>1
<1>7. \A i, j \in 1..Len(p) : i < j => p[i] < p[j]
  <2> SUFFICES ASSUME NEW i \in 1..(y + 1), NEW j \in 1..(y + 1), i < j
               PROVE  p[i] < p[j]
    BY <1>3
  <2>1. i \in 1..y /\ p[i] = q[i] /\ q[i] \in 1..n
    BY <1>1, <1>3, <1>4
  <2>2. CASE j \in 1..y
    BY <1>3, <1>4, <2>1, <2>2
  <2>3. CASE j = y + 1
    BY <1>1, <1>3, <2>1, <2>3
  <2> QED
    BY <1>5, <2>2, <2>3
<1>8. \A i \in 1..Len(p) : p[i] \in 1..Len(qt)
  <2> SUFFICES ASSUME NEW i \in 1..(y + 1) PROVE p[i] \in 1..(n + 1)
    BY <1>2, <1>3
  <2>1. CASE i \in 1..y
    <3>1. p[i] = q[i] /\ q[i] \in 1..n
      BY <1>3, <1>4, <2>1
    <3> QED
      BY <1>1, <3>1
  <2>2. CASE i = y + 1
    BY <1>1, <1>3, <2>2
  <2> QED
    BY <1>5, <2>1, <2>2
<1>9. \A m \in 1..Len(qt) : In(m, p) <=> qt[m] = c
  <2> SUFFICES ASSUME NEW m \in 1..(n + 1) PROVE In(m, p) <=> qt[m] = c
    BY <1>2
  <2>1. CASE m = n + 1
    <3>1. y + 1 \in 1..Len(p) /\ p[y + 1] = m
      BY <1>1, <1>3, <2>1
    <3> QED
      BY <1>2, <2>1, <3>1 DEF In
  <2>2. CASE m \in 1..n
    <3>1. m # n + 1
      BY <1>1, <2>2
    <3>2. In(m, p) => In(m, q)
      BY <1>3, <1>5, <1>q, <3>1 DEF In
    <3>3. In(m, q) => In(m, p)
      <4> HAVE In(m, q)
      <4>1. PICK i \in 1..y : q[i] = m
        BY <1>q DEF In
      <4>2. i \in 1..Len(p) /\ p[i] = m
        BY <1>1, <1>3, <4>1
      <4> QED
        BY <4>2 DEF In
    <3> QED
      BY <1>2, <1>4, <2>2, <3>2, <3>3
  <2> QED
    BY <1>6, <2>1, <2>2
<1> QED
  BY <1>7, <1>8, <1>9 DEF Queue, qt, p, n

(* p is q without its element i.                                           *)
Without(q, i, p) ==
    /\ Len(p) = Len(q) - 1
    /\ \A j \in 1..Len(p) : p[j] = IF j < i THEN q[j] ELSE q[j + 1]

(* m is the entry i of q.                                                  *)
Entry(q, i, m) == i \in 1..Len(q) /\ q[i] = m

LEMMA TailWithout ==
    ASSUME NEW q \in Seq(Nat \ {0}), q # <<>>
    PROVE  /\ Tail(q) \in Seq(Nat \ {0}) /\ Without(q, 1, Tail(q))
           /\ Entry(q, 1, Head(q))
           /\ Tail(q) # <<>> <=> Len(q) > 1
<1>1. /\ Tail(q) \in Seq(Nat \ {0}) /\ Len(Tail(q)) = Len(q) - 1
      /\ \A j \in 1..Len(Tail(q)) : Tail(q)[j] = q[j + 1]
  BY HeadTailProperties
<1>2. Len(q) \in Nat /\ Len(q) # 0 /\ Head(q) = q[1]
  BY EmptySeq, LenProperties
<1>3. Tail(q) = <<>> <=> Len(Tail(q)) = 0
  BY <1>1, EmptySeq
<1>4. \A j \in 1..Len(Tail(q)) : ~(j < 1)
  BY <1>1, <1>2
<1> QED
  BY <1>1, <1>2, <1>3, <1>4 DEF Without, Entry

LEMMA RemovedWithout ==
    ASSUME NEW q \in Seq(Nat \ {0}), NEW i \in 1..Len(q)
    PROVE  RemoveAt(q, i) \in Seq(Nat \ {0}) /\ Without(q, i, RemoveAt(q, i))
<1> DEFINE n == Len(q)
           a == SubSeq(q, 1, i - 1)
           b == SubSeq(q, i + 1, n)
           p == a \o b
<1>1. n \in Nat /\ \A j \in 1..n : q[j] \in Nat \ {0}
  BY LenProperties, ElementOfSeq
<1>2. /\ a \in Seq(Nat \ {0}) /\ Len(a) = i - 1
      /\ \A j \in 1..(i - 1) : a[j] = q[j]
  <2>1. i - 1 \in Int /\ 1 \in Int /\ \A j \in 1..(i - 1) : q[j] \in Nat \ {0}
    BY <1>1
  <2>2. /\ a \in Seq(Nat \ {0})
        /\ Len(a) = IF 1 <= i - 1 THEN i - 1 - 1 + 1 ELSE 0
        /\ \A j \in 1..(i - 1 - 1 + 1) : a[j] = q[1 + j - 1]
    BY <2>1, SubSeqProperties
  <2> HIDE DEF a
  <2>3. Len(a) = i - 1 /\ i - 1 - 1 + 1 = i - 1
    BY <1>1, <2>2
  <2>4. \A j \in 1..(i - 1) : 1 + j - 1 = j
    OBVIOUS
  <2> QED
    BY <2>2, <2>3, <2>4
<1>3. /\ b \in Seq(Nat \ {0}) /\ Len(b) = n - i
      /\ \A j \in 1..(n - i) : b[j] = q[i + j]
  <2>1. i + 1 \in Int /\ n \in Int /\ \A j \in (i + 1)..n : q[j] \in Nat \ {0}
    BY <1>1
  <2>2. /\ b \in Seq(Nat \ {0})
        /\ Len(b) = IF i + 1 <= n THEN n - (i + 1) + 1 ELSE 0
        /\ \A j \in 1..(n - (i + 1) + 1) : b[j] = q[i + 1 + j - 1]
    BY <2>1, SubSeqProperties
  <2>i. i \in 1..n
    OBVIOUS
  <2> HIDE DEF b, n
  <2>3. Len(b) = n - i /\ n - (i + 1) + 1 = n - i
    BY <1>1, <2>2, <2>i
  <2>4. \A j \in 1..(n - i) : i + 1 + j - 1 = i + j
    OBVIOUS
  <2> QED
    BY <2>2, <2>3, <2>4
<1>r. RemoveAt(q, i) = p
  BY DEF RemoveAt
<1>l. Len(q) = n
  OBVIOUS
<1>ab. a \in Seq(Nat \ {0}) /\ b \in Seq(Nat \ {0})
  BY <1>2, <1>3
<1> HIDE DEF a, b, n
<1>4. /\ p \in Seq(Nat \ {0}) /\ Len(p) = Len(a) + Len(b)
      /\ \A j \in 1..(Len(a) + Len(b)) :
            p[j] = IF j <= Len(a) THEN a[j] ELSE b[j - Len(a)]
  BY <1>ab, ConcatProperties
<1> HIDE DEF p
<1>5. Len(p) = n - 1
  BY <1>1, <1>2, <1>3, <1>4
<1>6. ASSUME NEW j \in 1..(n - 1)
      PROVE  p[j] = IF j < i THEN q[j] ELSE q[j + 1]
  <2>0. p[j] = IF j <= i - 1 THEN a[j] ELSE b[j - (i - 1)]
    BY <1>1, <1>2, <1>3, <1>4
  <2>1. CASE j < i
    <3>1. p[j] = a[j] /\ j \in 1..(i - 1)
      BY <1>1, <2>0, <2>1
    <3> QED
      BY <1>2, <2>1, <3>1
  <2>2. CASE ~(j < i)
    <3>1. p[j] = b[j - (i - 1)]
      BY <1>1, <2>0, <2>2
    <3>2. j - (i - 1) \in 1..(n - i) /\ i + (j - (i - 1)) = j + 1
      BY <1>1, <2>2, <1>l
    <3>3. b[j - (i - 1)] = q[i + (j - (i - 1))]
      BY <1>3, <3>2
    <3> QED
      BY <2>2, <3>1, <3>2, <3>3
  <2> QED
    BY <2>1, <2>2
<1> QED
  BY <1>4, <1>5, <1>6, <1>l, <1>r DEF Without

Among(p, q) == \A j \in 1..Len(p) : \E x \in 1..Len(q) : p[j] = q[x]

(* t is s with v in place m.                                               *)
Marked(s, t, m, v) ==
    /\ Len(t) = Len(s) /\ t[m] = v
    /\ \A x \in 1..Len(s) : x # m => t[x] = s[x]

(* A message leaves its queue.                                             *)
LEMMA QueueWithout ==
    ASSUME NEW q \in Seq(Nat \ {0}), NEW i, NEW m, Entry(q, i, m), NEW p,
           Without(q, i, p), NEW qs, Len(qs) \in Nat, NEW c, c # None,
           Queue(q, c, qs), NEW qt, Marked(qs, qt, m, None)
    PROVE  Queue(p, c, qt) /\ Among(p, q)
<1> DEFINE n == Len(q)
           y == Len(qs)
<1>0. i \in 1..n /\ q[i] = m
  BY DEF Entry
<1>1. n \in Nat /\ y \in Nat /\ i \in 1..n
  BY <1>0, LenProperties
<1>2. /\ \A x \in 1..n : q[x] \in 1..y
      /\ \A x, z \in 1..n : x < z => q[x] < q[z]
      /\ \A x \in 1..y : In(x, q) <=> qs[x] = c
  BY DEF Queue
<1>4. m \in 1..y
  BY <1>0, <1>1, <1>2
<1>3. /\ Len(qt) = y /\ qt[m] = None
      /\ \A x \in 1..y : x # m => qt[x] = qs[x]
  BY DEF Marked
<1>5. /\ Len(p) = n - 1
      /\ \A j \in 1..(n - 1) : p[j] = IF j < i THEN q[j] ELSE q[j + 1]
  BY DEF Without
<1>6. \A x, z \in 1..n : q[x] = q[z] => x = z
  <2> SUFFICES ASSUME NEW x \in 1..n, NEW z \in 1..n, q[x] = q[z], x # z
               PROVE  FALSE
    OBVIOUS
  <2>1. q[x] \in Nat /\ q[z] \in Nat
    BY <1>1, <1>2
  <2>2. x < z \/ z < x
    BY <1>1
  <2>3. q[x] < q[z] \/ q[z] < q[x]
    BY <1>2, <2>2
  <2> QED
    BY <2>1, <2>3
<1>q. Len(q) = n
  OBVIOUS
<1> HIDE DEF n, y
<1> DEFINE At2(j) == IF j < i THEN j ELSE j + 1
<1>7. \A j \in 1..(n - 1) : At2(j) \in 1..n /\ At2(j) # i /\ p[j] = q[At2(j)]
  BY <1>1, <1>5
<1>8. \A j, k \in 1..(n - 1) : j < k => At2(j) < At2(k)
  BY <1>1
<1>9. \A x \in 1..n : x # i => \E j \in 1..(n - 1) : At2(j) = x
  <2> SUFFICES ASSUME NEW x \in 1..n, x # i
               PROVE  \E j \in 1..(n - 1) : At2(j) = x
    OBVIOUS
  <2>1. CASE x < i
    <3>1. x \in 1..(n - 1) /\ At2(x) = x
      BY <1>1, <2>1
    <3> QED
      BY <3>1
  <2>2. CASE x > i
    <3>1. x - 1 \in 1..(n - 1) /\ At2(x - 1) = x
      BY <1>1, <2>2
    <3> QED
      BY <3>1
  <2> QED
    BY <1>1, <2>1, <2>2
<1> HIDE DEF At2
<1>10. \A j, k \in 1..(n - 1) : j < k => p[j] < p[k]
  BY <1>2, <1>7, <1>8
<1>11. \A j \in 1..(n - 1) : p[j] \in 1..y
  BY <1>2, <1>7
<1>12. \A x \in 1..y : In(x, p) <=> qt[x] = c
  <2> SUFFICES ASSUME NEW x \in 1..y PROVE In(x, p) <=> qt[x] = c
    OBVIOUS
  <2>1. CASE x = m
    <3>1. \A j \in 1..(n - 1) : p[j] # m
      BY <1>0, <1>1, <1>6, <1>7
    <3> QED
      BY <1>3, <1>5, <2>1, <3>1 DEF In
  <2>2. CASE x # m
    <3>1. In(x, p) => In(x, q)
      BY <1>5, <1>7, <1>q DEF In
    <3>2. In(x, q) => In(x, p)
      <4> HAVE In(x, q)
      <4>1. PICK z \in 1..n : q[z] = x
        BY <1>q DEF In
      <4>2. z # i
        BY <1>0, <2>2, <4>1
      <4>3. PICK j \in 1..(n - 1) : At2(j) = z
        BY <1>9, <4>2
      <4>4. j \in 1..Len(p) /\ p[j] = x
        BY <1>5, <1>7, <4>1, <4>3
      <4> QED
        BY <4>4 DEF In
    <3> QED
      BY <1>2, <1>3, <2>2, <3>1, <3>2
  <2> QED
    BY <2>1, <2>2
<1>13. \A j \in 1..Len(p) : \E x \in 1..n : p[j] = q[x]
  BY <1>5, <1>7
<1>14. Queue(p, c, qt)
  BY <1>3, <1>5, <1>10, <1>11, <1>12 DEF Queue
<1> QED
  BY <1>13, <1>14 DEF Among, n

LEMMA QueueKept ==
    ASSUME NEW qs, NEW q, NEW d, Queue(q, d, qs), NEW qt,
           Len(qt) = Len(qs), \A x \in 1..Len(qs) : qt[x] = d <=> qs[x] = d
    PROVE  Queue(q, d, qt)
  BY DEF Queue

-----------------------------------------------------------------------------
(* Messages.                                                               *)

LEMMA ConnIsNumber ==
    ASSUME Inv
    PROVE  plan \in Plans /\ plan.conns \in Nat /\ None \notin 1..plan.conns
<1>1. plan \in Plans
  BY DEF Inv, Typed
<1>2. plan.conns \in Nat
  BY <1>1, ScriptFacts
<1> QED
  BY <1>1, <1>2, NoneAssumption

(* A new message, in the queue of connection x if any.                     *)
LEMMA NewMessage ==
    ASSUME Inv, NEW st \in Status, NEW x \in 1..plan.conns \cup {None},
           st = "queued" <=> x # None,
           msg' = Append(msg, st), qent' = Append(qent, x)
    PROVE  /\ msg' \in Seq(Status)
           /\ qent' \in Seq(1..plan.conns \cup {None})
           /\ Len(qent') = Len(msg') /\ Len(qent) = Len(msg)
           /\ Len(msg) \in Nat /\ Len(msg') = Len(msg) + 1
           /\ msg'[Len(msg) + 1] = st
           /\ Extends(msg, msg') /\ Pointers'
           /\ \A d \in 1..plan.conns : d # x => Queue(conn[d].ql, d, qent')
<1> DEFINE n == Len(msg)
           X == 1..plan.conns \cup {None}
<1>1. /\ msg \in Seq(Status) /\ qent \in Seq(X) /\ Len(qent) = n
      /\ \A m \in 1..n : msg[m] = "queued" <=> qent[m] # None
  BY DEF Inv, Typed, Pointers
<1>2. n \in Nat
  BY <1>1, LenProperties
<1>3. /\ msg' \in Seq(Status) /\ Len(msg') = n + 1 /\ msg'[n + 1] = st
      /\ \A m \in 1..n : msg'[m] = msg[m]
  BY <1>1, AppendProperties
<1>4. /\ qent' \in Seq(X) /\ Len(qent') = n + 1 /\ qent'[n + 1] = x
      /\ \A m \in 1..n : qent'[m] = qent[m]
  BY <1>1, AppendProperties
<1>5. Extends(msg, msg')
  BY <1>2, <1>3 DEF Extends
<1>6. \A m \in 1..(n + 1) : m \in 1..n \/ m = n + 1
  BY <1>2
<1>7. Pointers'
  BY <1>1, <1>3, <1>4, <1>6 DEF Pointers
<1>8. ASSUME NEW d \in 1..plan.conns, d # x
      PROVE  Queue(conn[d].ql, d, qent')
  <2>1. Queue(conn[d].ql, d, qent)
    BY At
  <2> QED
    BY <1>1, <1>8, <2>1, QueueOther
<1> QED
  BY <1>1, <1>2, <1>3, <1>4, <1>5, <1>7, <1>8

(* What has gone out on k are earlier messages than m.                     *)
LEMMA Earlier ==
    ASSUME NEW k \in ConnRec, Recorded(k, msg), HasTc(k), Len(msg) \in Nat
    PROVE  \A i \in 1..Len(Stream(k)) :
              Stream(k)[i] \in Nat /\ Stream(k)[i] < Len(msg) + 1
<1> TAKE i \in 1..Len(Stream(k))
<1>1. Stream(k)[i] \in Nat
  BY StreamFacts
<1>2. Stream(k)[i] # Crlf => Stream(k)[i] \in 1..Len(msg)
  BY DEF Recorded
<1> QED
  BY <1>1, <1>2 DEF Crlf

LEMMA InvSendNow ==
    ASSUME Inv, MaySend, NEW c \in 1..plan.conns, conn[c].st = "open",
           SendNow(c), UNCHANGED <<plan, run>>
    PROVE  Inv'
<1> DEFINE k == conn[c]
           s == plan.script
           m == Len(msg) + 1
           q == k.ql
<1>1. /\ conn \in [1..plan.conns -> ConnRec] /\ k \in ConnRec
      /\ Sound(k, s) /\ Recorded(k, msg) /\ Owned(run, c, k)
      /\ (run.h = "recv" /\ run.c = c) \/ NoneWaits(k, s)
      /\ run \in RunRec(plan.conns) /\ Queue(q, c, qent)
  BY At
<1>2. PICK r \in tcp_send(k, m) :
         /\ conn' = [conn EXCEPT ![c] = r.k]
         /\ msg' = Append(msg, IF r.ok THEN "sent" ELSE "refused")
         /\ qent' = Append(qent, None)
  BY DEF SendNow
<1> DEFINE st == IF r.ok THEN "sent" ELSE "refused"
           l == r.k
<1>3. HasTc(k) /\ Sending(k)
  BY <1>1 DEF HasTc, Sound
<1>4. st \in Status /\ st # "queued" /\ None \in 1..plan.conns \cup {None}
  BY DEF Status
<1>5. msg' = Append(msg, st)
  BY <1>2
<1> HIDE DEF st
<1>6. /\ msg' \in Seq(Status)
      /\ qent' \in Seq(1..plan.conns \cup {None})
      /\ Len(qent') = Len(msg')
      /\ Len(msg) \in Nat /\ Len(msg') = Len(msg) + 1
      /\ msg'[m] = st
      /\ Extends(msg, msg') /\ Pointers'
      /\ \A d \in 1..plan.conns : d # None => Queue(conn[d].ql, d, qent')
  BY <1>2, <1>4, <1>5, NewMessage
<1>7. m \in Nat /\ m # Crlf /\ m \in 1..Len(msg')
  BY <1>6 DEF Crlf
<1>8. \A i \in 1..Len(Stream(k)) : Stream(k)[i] \in Nat /\ Stream(k)[i] < m
  BY <1>1, <1>3, <1>6, Earlier
<1>t. r \in tcp_send(k, m)
  OBVIOUS
<1> HIDE DEF m
<1>9. /\ \A i \in 1..Len(Stream(k)) : Stream(k)[i] # m
      /\ \A i \in 1..Len(Stream(k)) : Stream(k)[i] <= m
  BY <1>7, <1>8
<1>10. q \in Seq(Nat \ {0}) /\ (k.failed \/ Before(Stream(k), q))
  BY <1>1, <1>3, Members DEF Sending
<1>11. k.failed \/ q = <<>>
  <2> SUFFICES ASSUME q # <<>> PROVE k.failed
    OBVIOUS
  <2>1. run.h \in {"estab", "close"} /\ run.c = c
    BY <1>1 DEF Owned
  <2>2. Busy(run, k)
    BY <2>1 DEF Inv, Running
  <2>3. run.h = "estab" /\ run.cb
    BY <2>1, <2>2 DEF Busy, MaySend
  <2> QED
    BY <2>2, <2>3 DEF Busy
<1>12. k.failed \/ \A j \in 1..Len(q) : m < q[j]
  BY <1>11
<1>13. l \in ConnRec /\ l.ql = q /\ r.ok \in BOOLEAN
  BY <1>1, <1>t, <1>7, Sends
<1>14. Queued(l, q) = l
  BY <1>13, QueuedSame
<1>15. /\ Sound(Queued(l, q), s) /\ SameState(k, Queued(l, q))
       /\ SameTime(k, Queued(l, q)) /\ SameInput(k, Queued(l, q))
       /\ Queued(l, q).failed <=> (k.failed \/ ~r.ok)
       /\ r.ok => Grown(Stream(k), Stream(Queued(l, q)), m, Units(m))
       /\ ~r.ok => Stream(Queued(l, q)) = Stream(k)
  <2>1. Sound(k, s) /\ m \in Nat
    BY <1>1, <1>7
  <2> HIDE DEF k, s, q
  <2> QED
    BY <1>t, <1>9, <1>10, <1>12, <2>1, SoundSend
<1> HIDE DEF l
<1>16. /\ Sound(l, s) /\ SameState(k, l)
       /\ SameTime(k, l) /\ SameInput(k, l)
       /\ l.failed <=> (k.failed \/ ~r.ok)
       /\ r.ok => Grown(Stream(k), Stream(l), m, Units(m))
       /\ ~r.ok => Stream(l) = Stream(k)
  BY <1>14, <1>15
<1>17. Recorded(l, msg')
  <2>1. CASE r.ok
    <3>1. msg'[m] = "sent"
      BY <1>6, <2>1 DEF st
    <3> QED
      BY <1>1, <1>3, <1>6, <1>7, <1>13, <1>16, <2>1, <3>1, RecordedSent
  <2>2. CASE ~r.ok
    <3>1. Recorded(l, msg)
      BY <1>1, <1>3, <1>16, <2>2 DEF Recorded
    <3> QED
      BY <1>6, <3>1, RecordedLater
  <2> QED
    BY <2>1, <2>2
<1>18. \A d \in 1..plan.conns : Queue(conn[d].ql, d, qent')
  BY <1>6, ConnIsNumber
<1>19. Queue(l.ql, c, qent')
  BY <1>13, <1>18
<1>20. Owned(run', c, l)
  BY <1>1, <1>13, <1>16 DEF Owned, SameState
<1>21. (run'.h = "recv" /\ run'.c = c) \/ NoneWaits(l, s)
  <2>1. NoneWaits(k, s) => NoneWaits(l, s)
    BY <1>3, <1>16, KeepNoneWaits
  <2> QED
    BY <1>1, <2>1
<1>22. \/ run'.h = "none" \/ (run' = run /\ run.c # c)
       \/ run'.c = c /\ Busy(run', l)
  <2>1. run.h # "none" /\ run.c = c => Busy(run, k)
    BY DEF Inv, Running
  <2>2. Busy(run, k) => Busy(run, l)
    BY <1>13, <1>16 DEF Busy, SameState, SameTime, SameInput
  <2> QED
    BY <2>1, <2>2
<1>23. /\ conn' = [conn EXCEPT ![c] = l] /\ run' \in RunRec(plan.conns)
       /\ run' = run /\ plan' = plan
  BY <1>1, <1>2 DEF l
<1>24. Typed' /\ Connections' /\ Running'
  BY <1>6, <1>16, <1>17, <1>18, <1>19, <1>20, <1>21, <1>22, <1>23, Step
<1> QED
  BY <1>6, <1>24 DEF Inv

LEMMA InvQueue ==
    ASSUME Inv, NEW c \in 1..plan.conns, conn[c].st = "opening",
           conn' = [conn EXCEPT ![c].ql = Append(@, Len(msg) + 1)],
           msg' = Append(msg, "queued"), qent' = Append(qent, c),
           UNCHANGED <<plan, run>>
    PROVE  Inv'
<1> DEFINE k == conn[c]
           s == plan.script
           m == Len(msg) + 1
           q == Append(k.ql, m)
           l == Queued(k, q)
<1>1. /\ conn \in [1..plan.conns -> ConnRec] /\ k \in ConnRec
      /\ Sound(k, s) /\ Recorded(k, msg) /\ Owned(run, c, k)
      /\ (run.h = "recv" /\ run.c = c) \/ NoneWaits(k, s)
      /\ run \in RunRec(plan.conns) /\ Queue(k.ql, c, qent)
  BY At
<1>2. "queued" \in Status /\ c # None /\ c \in 1..plan.conns \cup {None}
  BY ConnIsNumber DEF Status
<1>3. /\ msg' \in Seq(Status)
      /\ qent' \in Seq(1..plan.conns \cup {None})
      /\ Len(qent') = Len(msg') /\ Len(qent) = Len(msg)
      /\ Len(msg) \in Nat
      /\ Extends(msg, msg') /\ Pointers'
      /\ \A d \in 1..plan.conns : d # c => Queue(conn[d].ql, d, qent')
  BY <1>2, NewMessage
<1>4. HasTc(k) /\ Sending(k)
  BY <1>1 DEF HasTc, Sound
<1>5. m \in Nat \ {0}
  BY <1>3
<1>6. k.ql \in Seq(Nat \ {0})
  BY <1>1, Members
<1>7. /\ q \in Seq(Nat \ {0}) /\ Len(q) = Len(k.ql) + 1
      /\ q[Len(k.ql) + 1] = m /\ \A i \in 1..Len(k.ql) : q[i] = k.ql[i]
  BY <1>5, <1>6, AppendProperties
<1>8. Queue(q, c, qent')
  <2>1. qent \in Seq(1..plan.conns \cup {None})
    BY DEF Inv, Typed
  <2>2. Queue(Append(k.ql, Len(qent) + 1), c, Append(qent, c))
    BY <1>1, <1>2, <1>6, <2>1, QueueMine
  <2> QED
    BY <1>3, <2>2
<1>9. k.failed \/ Before(Stream(k), q)
  <2> SUFFICES ASSUME ~k.failed PROVE Before(Stream(k), q)
    OBVIOUS
  <2>1. Before(Stream(k), k.ql)
    BY <1>4 DEF Sending
  <2>2. \A i \in 1..Len(Stream(k)) : Stream(k)[i] < m
    BY <1>1, <1>3, <1>4, Earlier
  <2>3. Len(k.ql) \in Nat
    BY <1>6, LenProperties
  <2>4. \A j \in 1..Len(q) : j \in 1..Len(k.ql) \/ j = Len(k.ql) + 1
    BY <1>7, <2>3
  <2> HIDE DEF q, m
  <2> QED
    BY <1>7, <2>1, <2>2, <2>4 DEF Before
<1>10. conn' = [conn EXCEPT ![c] = l]
  BY <1>1 DEF Queued, ConnRec
<1> HIDE DEF q
<1>11. /\ Sound(l, s) /\ l.ql = q /\ SameState(k, l)
       /\ SameInput(k, l) /\ SameOutput(k, l)
  BY <1>1, <1>7, <1>9, SoundQueued
<1> HIDE DEF l
<1>12. HasTc(l) /\ l.st = "opening"
  BY <1>11 DEF SameState, HasTc
<1>13. Recorded(l, msg')
  <2>1. Recorded(l, msg)
    BY <1>1, <1>4, <1>11, KeepRecorded DEF SameOutput
  <2> QED
    BY <1>3, <2>1, RecordedLater
<1>14. (run'.h = "recv" /\ run'.c = c) \/ NoneWaits(l, s)
  <2>1. NoneWaits(k, s) => NoneWaits(l, s)
    BY <1>4, <1>11, KeepNoneWaits
  <2> QED
    BY <1>1, <2>1
<1>15. Owned(run', c, l)
  BY <1>12 DEF Owned
<1>16. run'.h = "none" \/ (run' = run /\ run.c # c)
  <2>1. run.h # "none" /\ run.c = c => Busy(run, k)
    BY DEF Inv, Running
  <2>2. run.h \in {"none", "estab", "close", "recv"}
    BY <1>1 DEF RunRec
  <2>3. ~Busy(run, k) \/ run.h = "none"
    BY <2>2 DEF Busy
  <2> QED
    BY <2>1, <2>3
<1>17. run' \in RunRec(plan.conns) /\ run' = run /\ plan' = plan
       /\ Queue(l.ql, c, qent')
  BY <1>1, <1>8, <1>11
<1>18. Typed' /\ Connections' /\ Running'
  BY <1>3, <1>10, <1>11, <1>13, <1>14, <1>15, <1>16, <1>17, Step
<1> QED
  BY <1>3, <1>18 DEF Inv

LEMMA InvRefused ==
    ASSUME Inv, msg' = Append(msg, "refused"), qent' = Append(qent, None),
           UNCHANGED <<plan, conn, run>>
    PROVE  Inv'
<1>1. "refused" \in Status /\ None \in 1..plan.conns \cup {None}
  BY DEF Status
<1>2. /\ msg' \in Seq(Status)
      /\ qent' \in Seq(1..plan.conns \cup {None})
      /\ Len(qent') = Len(msg')
      /\ Extends(msg, msg') /\ Pointers'
      /\ \A d \in 1..plan.conns : d # None => Queue(conn[d].ql, d, qent')
  BY <1>1, NewMessage
<1>3. Typed'
  BY <1>2 DEF Inv, Typed
<1>4. Connections'
  <2> SUFFICES ASSUME NEW d \in 1..plan.conns
               PROVE  /\ Sound(conn[d], plan.script)
                      /\ Recorded(conn[d], msg')
                      /\ Queue(conn[d].ql, d, qent')
                      /\ \/ run.h = "recv" /\ run.c = d
                         \/ NoneWaits(conn[d], plan.script)
    BY DEF Connections
  <2>1. /\ Sound(conn[d], plan.script) /\ Recorded(conn[d], msg)
        /\ (run.h = "recv" /\ run.c = d) \/ NoneWaits(conn[d], plan.script)
    BY At
  <2>2. Recorded(conn[d], msg')
    BY <1>2, <2>1, RecordedLater
  <2> QED
    BY <1>2, <2>1, <2>2, ConnIsNumber
<1>5. Running'
  BY DEF Inv, Running
<1> QED
  BY <1>2, <1>3, <1>4, <1>5 DEF Inv

LEMMA FreshFacts ==
    ASSUME Inv, NEW c \in Fresh
    PROVE  /\ c \in 1..plan.conns /\ conn[c].st = "none"
           /\ conn[c].ql = <<>> /\ (run.h = "none" \/ run.c # c)
<1>1. c \in 1..plan.conns /\ conn[c].st = "none"
  BY DEF Fresh, Conn, Inv, Typed
<1>2. Owned(run, c, conn[c]) /\ run \in RunRec(plan.conns)
  BY <1>1, At
<1>3. run.h \in {"none", "estab", "close", "recv"}
  BY <1>2 DEF RunRec
<1>4. run.h # "none" /\ run.c = c => Busy(run, conn[c])
  BY DEF Inv, Running
<1>5. run.h = "none" \/ run.c # c
  BY <1>1, <1>3, <1>4 DEF Busy
<1>6. conn[c].ql = <<>>
  BY <1>1, <1>2, <1>5 DEF Owned
<1> QED
  BY <1>1, <1>5, <1>6

LEMMA InvNewConn ==
    ASSUME Inv, NEW a \in Address, NEW c \in Fresh,
           conn' = [conn EXCEPT ![c] =
                       [NewConn(a, Idle) EXCEPT !.ql = <<Len(msg) + 1>>]],
           msg' = Append(msg, "queued"), qent' = Append(qent, c),
           UNCHANGED <<plan, run>>
    PROVE  Inv'
<1> DEFINE s == plan.script
           m == Len(msg) + 1
           q == <<m>>
           l == New(a, Idle, q)
<1>1. /\ c \in 1..plan.conns /\ conn[c].st = "none"
      /\ conn[c].ql = <<>> /\ (run.h = "none" \/ run.c # c)
  BY FreshFacts
<1>2. /\ run \in RunRec(plan.conns) /\ Queue(conn[c].ql, c, qent)
  BY <1>1, At
<1>3. "queued" \in Status /\ c # None /\ c \in 1..plan.conns \cup {None}
  BY <1>1, ConnIsNumber DEF Status
<1>4. /\ msg' \in Seq(Status)
      /\ qent' \in Seq(1..plan.conns \cup {None})
      /\ Len(qent') = Len(msg') /\ Len(qent) = Len(msg)
      /\ Len(msg) \in Nat
      /\ Extends(msg, msg') /\ Pointers'
      /\ \A d \in 1..plan.conns : d # c => Queue(conn[d].ql, d, qent')
  BY <1>3, NewMessage
<1>5. m \in Nat \ {0} /\ Append(<<>>, m) = q /\ q \in Seq(Nat \ {0})
  BY <1>4
<1>6. Queue(q, c, qent')
  <2>1. qent \in Seq(1..plan.conns \cup {None}) /\ <<>> \in Seq(Nat \ {0})
    BY DEF Inv, Typed
  <2>2. Queue(<<>>, c, qent)
    BY <1>1, <1>2
  <2>3. Queue(Append(<<>>, Len(qent) + 1), c, Append(qent, c))
    BY <1>3, <2>1, <2>2, QueueMine
  <2> QED
    BY <1>4, <1>5, <2>3
<1>7. conn' = [conn EXCEPT ![c] = l]
  BY DEF New
<1>8. Idle \in 0..Idle /\ plan \in Plans
  BY Timeouts, ConnIsNumber
<1> HIDE DEF q
<1>9. /\ Sound(l, s) /\ Recorded(l, msg') /\ NoneWaits(l, s)
      /\ l.st = "opening" /\ l.ql = q
  BY <1>5, <1>8, SoundNew
<1> HIDE DEF l
<1>10. Owned(run', c, l) /\ Queue(l.ql, c, qent')
  BY <1>6, <1>9 DEF Owned
<1>11. /\ run'.h = "none" \/ (run' = run /\ run.c # c)
       /\ run' \in RunRec(plan.conns) /\ run' = run /\ plan' = plan
  BY <1>1, <1>2
<1>12. Typed' /\ Connections' /\ Running'
  BY <1>1, <1>4, <1>7, <1>9, <1>10, <1>11, Step
<1> QED
  BY <1>4, <1>12 DEF Inv

LEMMA InvConnect ==
    ASSUME Inv, NEW a \in plan.addrs, tcp_connect_handler(a)
    PROVE  Inv'
<1>1. PICK c \in Fresh : conn' = [conn EXCEPT ![c] = NewConn(a, Accept)]
  BY DEF tcp_connect_handler
<1> DEFINE l == New(a, Accept, <<>>)
<1>2. /\ c \in 1..plan.conns /\ conn[c].ql = <<>>
      /\ run \in RunRec(plan.conns)
  BY FreshFacts, At
<1>3. plan \in Plans /\ a \in Address
  BY ConnIsNumber, Zenon DEF Address
<1>4. Accept \in 0..Idle /\ <<>> \in Seq(Nat \ {0})
  BY Timeouts
<1>5. NewConn(a, Accept) = l
  <2> DEFINE k == NewConn(a, Accept)
  <2>1. Accept \in Off..Idle
    BY Timeouts DEF Off
  <2>2. k \in ConnRec /\ k.ql = <<>>
    BY <1>3, <2>1, UnusedFacts DEF NewConn, Unused, ConnRec
  <2>3. l = Queued(k, <<>>)
    BY DEF New, Queued
  <2> HIDE DEF k, l
  <2>4. l = k
    BY <2>2, <2>3, QueuedSame
  <2> QED
    BY <2>4 DEF k
<1>6. /\ Sound(l, plan.script) /\ Recorded(l, msg)
      /\ NoneWaits(l, plan.script) /\ l.st = "opening" /\ l.ql = <<>>
  BY <1>3, <1>4, SoundNew
<1>7. conn' = [conn EXCEPT ![c] = l]
  BY <1>1, <1>5
<1> HIDE DEF l
<1>8. /\ run.h = "none" /\ UNCHANGED <<plan, msg, qent>> /\ run' = run
      /\ run' \in RunRec(plan.conns) /\ run'.h = "none"
  BY <1>2 DEF tcp_connect_handler
<1>9. Owned(run', c, l) /\ l.ql = conn[c].ql
  BY <1>2, <1>6 DEF Owned
<1> QED
  BY <1>2, <1>6, <1>7, <1>8, <1>9, QuietStep

(* The connection that conn_find returns has a socket.                     *)
LEMMA Found ==
    ASSUME Inv, NEW a, conn_find(a) # None
    PROVE  LET c == conn_find(a) IN
           /\ c \in 1..plan.conns
           /\ conn[c].established => conn[c].st = "open"
           /\ ~conn[c].established => conn[c].st = "opening"
<1> DEFINE found == {c \in Conn : conn[c].hashed /\ conn[c].addr = a}
           c == conn_find(a)
<1>1. found \in SUBSET Nat /\ found # {} /\ c = Min(found)
  BY DEF conn_find, Inv, Typed, Conn
<1> HIDE DEF c
<1>2. c \in found
  BY <1>1, MinFacts
<1>3. c \in 1..plan.conns /\ conn[c].hashed
  BY <1>2 DEF Inv, Typed, Conn
<1>4. Life(conn[c])
  BY <1>3, At DEF Sound
<1> QED
  BY <1>3, <1>4 DEF Life, HasTc, c

LEMMA InvSend ==
    ASSUME Inv, NEW a \in plan.addrs, NEW s \in Conn \cup {None},
           sip_transp_send(a, s)
    PROVE  Inv'
<1>1. MaySend /\ UNCHANGED <<plan, run>>
  BY DEF sip_transp_send
<1>2. plan \in Plans /\ a \in Address /\ Conn = 1..plan.conns
  BY ConnIsNumber, Zenon DEF Address, Inv, Typed, Conn
<1>3. CASE s # None /\ HasTc(conn[s])
  <2>1. s \in 1..plan.conns /\ conn[s].sock /\ SendNow(s)
    BY <1>2, <1>3 DEF sip_transp_send
  <2>2. Life(conn[s])
    BY <2>1, At DEF Sound
  <2>3. conn[s].st = "open"
    BY <1>3, <2>1, <2>2 DEF Life, HasTc
  <2> QED
    BY <1>1, <2>1, <2>3, InvSendNow
<1>4. CASE ~(s # None /\ HasTc(conn[s]))
  <2> DEFINE c == conn_find(a)
  <2>0. conn_send(a)
    BY <1>4 DEF sip_transp_send
  <2>1. CASE /\ c # None /\ ~conn[c].established
             /\ conn' = [conn EXCEPT ![c].ql = Append(@, Len(msg) + 1)]
             /\ msg' = Append(msg, "queued") /\ qent' = Append(qent, c)
    <3>1. c \in 1..plan.conns /\ conn[c].st = "opening"
      BY <2>1, Found
    <3> HIDE DEF c
    <3> QED
      BY <1>1, <2>1, <3>1, InvQueue
  <2>2. CASE c # None /\ conn[c].established /\ SendNow(c)
    <3>1. c \in 1..plan.conns /\ conn[c].st = "open"
      BY <2>2, Found
    <3> HIDE DEF c
    <3> QED
      BY <1>1, <2>2, <3>1, InvSendNow
  <2>3. CASE \E d \in Fresh :
                /\ conn' = [conn EXCEPT ![d] =
                       [NewConn(a, Idle) EXCEPT !.ql = <<Len(msg) + 1>>]]
                /\ msg' = Append(msg, "queued") /\ qent' = Append(qent, d)
    BY <1>1, <1>2, <2>3, InvNewConn
  <2>4. CASE /\ msg' = Append(msg, "refused") /\ qent' = Append(qent, None)
             /\ UNCHANGED conn
    BY <1>1, <2>4, InvRefused
  <2> QED
    BY <2>0, <2>1, <2>2, <2>3, <2>4, Zenon DEF conn_send
<1> QED
  BY <1>3, <1>4

-----------------------------------------------------------------------------
LEMMA Waiting ==
    ASSUME Inv, NEW c \in 1..plan.conns, NEW i, NEW m, Entry(conn[c].ql, i, m)
    PROVE  /\ m \in 1..Len(msg) /\ m \in Nat \ {0} /\ msg[m] = "queued"
           /\ qent[m] = c
<1>1. /\ Len(qent) = Len(msg)
      /\ \A x \in 1..Len(msg) : msg[x] = "queued" <=> qent[x] # None
  BY DEF Inv, Typed, Pointers
<1>2. conn[c].ql \in Seq(Nat \ {0}) /\ Queue(conn[c].ql, c, qent)
  BY At, Members
<1>3. m \in 1..Len(msg) /\ In(m, conn[c].ql)
  BY <1>1, <1>2 DEF Queue, In, Entry
<1>4. qent[m] = c /\ c # None
  BY <1>1, <1>2, <1>3, ConnIsNumber DEF Queue
<1>5. m \in Nat \ {0}
  BY <1>2, ElementOfSeq DEF Entry
<1> QED
  BY <1>1, <1>3, <1>4, <1>5

LEMMA MarkedMessage ==
    ASSUME Inv, NEW m \in 1..Len(msg), NEW st \in Status,
           msg' = [msg EXCEPT ![m] = st], qent' = [qent EXCEPT ![m] = None]
    PROVE  /\ Marked(msg, msg', m, st) /\ Marked(qent, qent', m, None)
           /\ msg' \in Seq(Status)
           /\ qent' \in Seq(1..plan.conns \cup {None})
<1> DEFINE X == 1..plan.conns \cup {None}
<1>1. msg \in Seq(Status) /\ qent \in Seq(X) /\ Len(qent) = Len(msg)
  BY DEF Inv, Typed
<1>2. None \in X
  OBVIOUS
<1> HIDE DEF X
<1>3. Marked(msg, msg', m, st) /\ msg' \in Seq(Status)
  BY <1>1 DEF Marked
<1>4. Marked(qent, qent', m, None) /\ qent' \in Seq(X)
  BY <1>1, <1>2 DEF Marked
<1> QED
  BY <1>3, <1>4 DEF X

(* Message m leaves the queue of connection c, where it is entry i; p is   *)
(* the rest of the queue.                                                  *)
LEMMA Leaves ==
    ASSUME Inv, NEW c \in 1..plan.conns, NEW i, NEW m,
           Entry(conn[c].ql, i, m), NEW p, Without(conn[c].ql, i, p),
           NEW st \in Status, st # "queued",
           Marked(msg, msg', m, st), Marked(qent, qent', m, None)
    PROVE  /\ Len(qent') = Len(msg') /\ Extends(msg, msg') /\ Pointers'
           /\ Queue(p, c, qent')
           /\ \A d \in 1..plan.conns : d # c => Queue(conn[d].ql, d, qent')
           /\ Among(p, conn[c].ql)
<1> DEFINE n == Len(msg)
           X == 1..plan.conns \cup {None}
           q == conn[c].ql
<1>1. /\ msg \in Seq(Status) /\ qent \in Seq(X) /\ Len(qent) = n
      /\ \A x \in 1..n : msg[x] = "queued" <=> qent[x] # None
  BY DEF Inv, Typed, Pointers
<1>2. q \in Seq(Nat \ {0}) /\ Queue(q, c, qent)
  BY At, Members
<1>3. c # None
  BY ConnIsNumber
<1>4. m \in 1..n /\ qent[m] = c /\ msg[m] = "queued"
  BY Waiting
<1>7. /\ Len(msg') = n
      /\ msg'[m] = st /\ \A x \in 1..n : x # m => msg'[x] = msg[x]
  BY DEF Marked
<1>8. /\ Len(qent') = n
      /\ qent'[m] = None /\ \A x \in 1..n : x # m => qent'[x] = qent[x]
  BY <1>1 DEF Marked
<1>10. Extends(msg, msg')
  BY <1>4, <1>7 DEF Extends
<1>11. Pointers'
  BY <1>1, <1>7, <1>8 DEF Pointers
<1>9. Len(msg) \in Nat
  BY <1>1, LenProperties
<1>12. /\ Queue(p, c, qent')
       /\ Among(p, q)
  BY <1>1, <1>2, <1>3, <1>9, QueueWithout
<1>13. ASSUME NEW d \in 1..plan.conns, d # c
       PROVE  Queue(conn[d].ql, d, qent')
  <2>1. Queue(conn[d].ql, d, qent)
    BY At
  <2>2. d # None /\ qent[m] # d
    BY <1>4, <1>13, ConnIsNumber
  <2>3. \A x \in 1..Len(qent) : qent'[x] = d <=> qent[x] = d
    BY <1>1, <1>8, <2>2
  <2>4. Len(qent') = Len(qent)
    BY <1>1, <1>8
  <2> QED
    BY <2>1, <2>3, <2>4, QueueKept
<1> QED
  BY <1>7, <1>8, <1>10, <1>11, <1>12, <1>13

LEMMA BeforeRest ==
    ASSUME NEW s, NEW q, NEW p, Before(s, q),
           Among(p, q)
    PROVE  Before(s, p)
  BY DEF Before, Among

LEMMA InvWithdraw ==
    ASSUME Inv, NEW m \in DOMAIN msg, qent_destructor(m)
    PROVE  Inv'
<1> DEFINE c == qent[m]
           k == conn[c]
           s == plan.script
<1>1. c \in 1..plan.conns
  <2>1. qent \in Seq(1..plan.conns \cup {None}) /\ Len(qent) = Len(msg)
        /\ msg \in Seq(Status)
    BY DEF Inv, Typed
  <2>2. m \in 1..Len(qent)
    BY <2>1
  <2>3. c \in 1..plan.conns \cup {None}
    BY <2>1, <2>2, ElementOfSeq
  <2> QED
    BY <2>3 DEF qent_destructor
<1>2. PICK i \in 1..Len(k.ql) :
         /\ k.ql[i] = m
         /\ conn' = [conn EXCEPT ![c].ql = RemoveAt(@, i)]
  BY DEF qent_destructor
<1>3. /\ msg' = [msg EXCEPT ![m] = "withdrawn"]
      /\ qent' = [qent EXCEPT ![m] = None]
      /\ plan' = plan /\ run' = run /\ run.h = "none"
  BY DEF qent_destructor
<1>4. /\ conn \in [1..plan.conns -> ConnRec] /\ k \in ConnRec
      /\ Sound(k, s) /\ Recorded(k, msg) /\ Owned(run, c, k)
      /\ (run.h = "recv" /\ run.c = c) \/ NoneWaits(k, s)
      /\ run \in RunRec(plan.conns)
  BY <1>1, At
<1> DEFINE p == RemoveAt(k.ql, i)
           l == Queued(k, p)
<1>5. k.ql \in Seq(Nat \ {0})
  BY <1>4, Members
<1>6. p \in Seq(Nat \ {0}) /\ Without(k.ql, i, p)
  BY <1>5, RemovedWithout
<1>7. conn' = [conn EXCEPT ![c] = l]
  BY <1>1, <1>2, <1>4 DEF Queued, ConnRec
<1> DEFINE st == "withdrawn"
<1>8. st \in Status /\ st # "queued"
  BY DEF Status
<1> HIDE DEF p, c
<1>e. Entry(k.ql, i, m)
  BY <1>2 DEF Entry
<1>a. m \in 1..Len(msg)
  BY <1>1, <1>e, Waiting
<1>b. /\ msg' \in Seq(Status)
      /\ qent' \in Seq(1..plan.conns \cup {None})
      /\ Marked(msg, msg', m, st) /\ Marked(qent, qent', m, None)
  BY <1>3, <1>8, <1>a, MarkedMessage
<1> HIDE DEF st
<1>9. /\ Len(qent') = Len(msg')
      /\ Extends(msg, msg') /\ Pointers' /\ Queue(p, c, qent')
      /\ \A d \in 1..plan.conns : d # c => Queue(conn[d].ql, d, qent')
      /\ Among(p, k.ql)
  BY <1>1, <1>6, <1>8, <1>b, <1>e, Leaves
<1>10. k.failed \/ ~HasTc(k) \/ Before(Stream(k), p)
  <2> SUFFICES ASSUME ~k.failed, HasTc(k) PROVE Before(Stream(k), p)
    OBVIOUS
  <2>1. Before(Stream(k), k.ql)
    BY <1>4 DEF Sound, Sending
  <2> QED
    BY <1>9, <2>1, BeforeRest
<1>11. /\ Sound(l, s) /\ l.ql = p /\ SameState(k, l)
       /\ SameInput(k, l) /\ SameOutput(k, l)
  BY <1>4, <1>6, <1>10, SoundQueued
<1> HIDE DEF l
<1>12. HasTc(l) <=> HasTc(k)
  BY <1>11 DEF SameState, HasTc
<1>13. Recorded(l, msg')
  <2>1. Recorded(l, msg)
    BY <1>4, <1>11, <1>12, KeepRecorded DEF SameOutput
  <2> QED
    BY <1>9, <2>1, RecordedLater
<1>14. NoneWaits(l, s)
  BY <1>3, <1>4, <1>11, <1>12, KeepNoneWaits
<1>15. Owned(run', c, l)
  <2>1. k.ql # <<>>
    BY <1>2, <1>5, EmptySeq
  <2>2. k.st = "opening"
    BY <1>3, <1>4, <2>1 DEF Owned
  <2> QED
    BY <1>11, <2>2 DEF Owned, SameState
<1>16. run' \in RunRec(plan.conns) /\ run'.h = "none" /\ Queue(l.ql, c, qent')
  BY <1>3, <1>4, <1>9, <1>11
<1>c. plan' = plan /\ run' = run /\ run.h = "none"
  BY <1>3
<1>17. Typed' /\ Connections' /\ Running'
  BY <1>1, <1>7, <1>9, <1>11, <1>13, <1>14, <1>15, <1>16, <1>b, <1>c, Step
<1> QED
  BY <1>9, <1>17 DEF Inv
-----------------------------------------------------------------------------
(* The loops over a queue.                                                 *)

LEMMA AtLoop ==
    ASSUME Inv, run.h \in {"estab", "close"}
    PROVE  /\ run.c \in 1..plan.conns /\ plan \in Plans
           /\ conn \in [1..plan.conns -> ConnRec]
           /\ run \in RunRec(plan.conns)
           /\ conn[run.c] \in ConnRec
           /\ Sound(conn[run.c], plan.script) /\ Recorded(conn[run.c], msg)
           /\ Queue(conn[run.c].ql, run.c, qent)
           /\ NoneWaits(conn[run.c], plan.script)
           /\ Busy(run, conn[run.c])
           /\ run.le <=> conn[run.c].ql # <<>>
<1>1. /\ run.c \in 1..plan.conns /\ Busy(run, conn[run.c])
  BY DEF Inv, Running
<1>2. /\ plan \in Plans /\ conn \in [1..plan.conns -> ConnRec]
      /\ run \in RunRec(plan.conns)
      /\ conn[run.c] \in ConnRec
      /\ Sound(conn[run.c], plan.script) /\ Recorded(conn[run.c], msg)
      /\ Queue(conn[run.c].ql, run.c, qent)
      /\ \/ run.h = "recv" /\ run.c = run.c
         \/ NoneWaits(conn[run.c], plan.script)
  BY <1>1, At
<1>3. run.le <=> conn[run.c].ql # <<>>
  BY <1>1 DEF Busy
<1> QED
  BY <1>1, <1>2, <1>3

(* The first message of the queue has been dealt with, and the connection  *)
(* has become l.                                                           *)
LEMMA LoopStep ==
    ASSUME Inv, run.h \in {"estab", "close"}, run.le, NEW l, NEW m,
           m = Head(conn[run.c].ql), NEW st \in Status, st # "queued",
           msg' \in Seq(Status), qent' \in Seq(1..plan.conns \cup {None}),
           Marked(msg, msg', m, st), Marked(qent, qent', m, None),
           plan' = plan, conn' = [conn EXCEPT ![run.c] = l],
           NEW d \in BOOLEAN,
           run' = [run EXCEPT !.le = Len(conn[run.c].ql) > 1, !.cb = d],
           Sound(l, plan.script), Recorded(l, msg'),
           SameState(conn[run.c], l), SameInput(conn[run.c], l),
           l.ql = Tail(conn[run.c].ql),
           run.h = "estab" /\ d => l.failed
    PROVE  Inv'
<1> DEFINE c == run.c
           k == conn[c]
           q == k.ql
           b == Len(q) > 1
<1>1. /\ c \in 1..plan.conns /\ run \in RunRec(plan.conns) /\ k \in ConnRec
      /\ NoneWaits(k, plan.script) /\ Busy(run, k) /\ q # <<>>
  BY AtLoop
<1>2. q \in Seq(Nat \ {0})
  BY <1>1, Members
<1>3. /\ Tail(q) \in Seq(Nat \ {0}) /\ Without(q, 1, Tail(q))
      /\ Entry(q, 1, m) /\ (Tail(q) # <<>> <=> b)
  BY <1>1, <1>2, TailWithout
<1>4. /\ Len(qent') = Len(msg')
      /\ Extends(msg, msg') /\ Pointers' /\ Queue(Tail(q), c, qent')
      /\ \A x \in 1..plan.conns : x # c => Queue(conn[x].ql, x, qent')
  BY <1>1, <1>3, Leaves
<1>5. b \in BOOLEAN /\ run' = [run EXCEPT !.le = b, !.cb = d]
  OBVIOUS
<1>b. l.ql # <<>> <=> b
  BY <1>3
<1> HIDE DEF b
<1>6. /\ run' \in RunRec(plan.conns) /\ run'.h = run.h /\ run'.c = c
      /\ run'.le = b /\ run'.cb = d
  BY <1>1, <1>5 DEF RunRec
<1>7. Busy(run', l)
  BY <1>1, <1>6, <1>b DEF Busy, SameState
<1>8. Owned(run', c, l)
  <2>1. l.st = k.st
    BY DEF SameState
  <2>2. k.st = "closing" => run.h = "close"
    BY <1>1 DEF Busy
  <2> QED
    BY <1>6, <2>1, <2>2 DEF Owned
<1>9. NoneWaits(l, plan.script)
  BY <1>1, KeepNoneWaits DEF SameState, HasTc
<1>10. Queue(l.ql, c, qent')
  BY <1>4
<1>11. Typed' /\ Connections' /\ Running'
  BY <1>1, <1>4, <1>6, <1>7, <1>8, <1>9, <1>10, Step
<1> QED
  BY <1>4, <1>11 DEF Inv

LEMMA FirstFacts ==
    ASSUME Inv, run.h \in {"estab", "close"}, run.le
    PROVE  LET q == conn[run.c].ql IN
           /\ q \in Seq(Nat \ {0}) /\ Tail(q) \in Seq(Nat \ {0})
           /\ Entry(q, 1, Head(q)) /\ Without(q, 1, Tail(q))
           /\ Among(Tail(q), q)
           /\ Head(q) \in 1..Len(msg) /\ Head(q) \in Nat \ {0}
           /\ msg[Head(q)] = "queued"
           /\ \A j \in 1..Len(Tail(q)) : Head(q) < Tail(q)[j]
<1> DEFINE q == conn[run.c].ql
<1>1. /\ run.c \in 1..plan.conns /\ conn[run.c] \in ConnRec /\ q # <<>>
      /\ Queue(q, run.c, qent)
  BY AtLoop
<1>2. q \in Seq(Nat \ {0}) /\ Len(q) \in Nat
  BY <1>1, Members, LenProperties
<1>3. /\ Tail(q) \in Seq(Nat \ {0}) /\ Without(q, 1, Tail(q))
      /\ Entry(q, 1, Head(q))
  BY <1>1, <1>2, TailWithout
<1>4. /\ Head(q) \in 1..Len(msg) /\ Head(q) \in Nat \ {0}
      /\ msg[Head(q)] = "queued"
  <2> DEFINE h == Head(q)
             c == run.c
  <2>1. Entry(conn[c].ql, 1, h)
    BY <1>3
  <2>2. c \in 1..plan.conns
    BY <1>1
  <2> HIDE DEF h, c
  <2>3. h \in 1..Len(msg) /\ h \in Nat \ {0} /\ msg[h] = "queued"
    BY <2>1, <2>2, Waiting
  <2> QED
    BY <2>3 DEF h
<1>5. /\ 1 \in 1..Len(q) /\ Head(q) = q[1] /\ Len(Tail(q)) = Len(q) - 1
      /\ \A j \in 1..Len(Tail(q)) : Tail(q)[j] = q[j + 1]
  <2>1. 1 \in 1..Len(q) /\ Head(q) = q[1]
    BY <1>3 DEF Entry
  <2> QED
    BY <1>1, <1>2, <2>1, HeadTailProperties
<1>s. \A i, j \in 1..Len(q) : i < j => q[i] < q[j]
  BY <1>1 DEF Queue
<1> HIDE DEF q
<1>6. \A j \in 1..Len(Tail(q)) : j + 1 \in 1..Len(q) /\ 1 < j + 1
  BY <1>2, <1>5
<1>7. Among(Tail(q), q)
  BY <1>5, <1>6 DEF Among
<1>8. \A j \in 1..Len(Tail(q)) : Head(q) < Tail(q)[j]
  <2> TAKE j \in 1..Len(Tail(q))
  <2>1. q[1] < q[j + 1]
    BY <1>5, <1>6, <1>s
  <2> QED
    BY <1>5, <2>1
<1> QED
  BY <1>2, <1>3, <1>4, <1>7, <1>8 DEF q

LEMMA InvEstabLoop ==
    ASSUME Inv, estab_loop
    PROVE  Inv'
<1> DEFINE c == run.c
           k == conn[c]
           s == plan.script
           m == Head(k.ql)
           q == Tail(k.ql)
<1>1. run.h = "estab" /\ plan' = plan
  BY DEF estab_loop
<1>2. /\ c \in 1..plan.conns /\ conn \in [1..plan.conns -> ConnRec]
      /\ run \in RunRec(plan.conns) /\ k \in ConnRec
      /\ Sound(k, s) /\ Recorded(k, msg) /\ Queue(k.ql, c, qent)
      /\ NoneWaits(k, s) /\ Busy(run, k) /\ (run.le <=> k.ql # <<>>)
  BY <1>1, AtLoop
<1>3. k.st = "open" /\ HasTc(k) /\ Sending(k)
  BY <1>1, <1>2 DEF Busy, HasTc, Sound
<1>4. CASE run.le
  <2>1. PICK r \in tcp_send(k, m) :
           /\ conn' = [conn EXCEPT ![c] = [r.k EXCEPT !.ql = Tail(@)]]
           /\ msg' = [msg EXCEPT ![m] = IF r.ok THEN "sent" ELSE "told"]
           /\ run' = [run EXCEPT !.le = Len(k.ql) > 1, !.cb = ~r.ok]
    BY <1>1, <1>4 DEF estab_loop
  <2>2. qent' = [qent EXCEPT ![m] = None]
    BY <1>1, <1>4 DEF estab_loop
  <2> DEFINE st == IF r.ok THEN "sent" ELSE "told"
             d == ~r.ok
             l == Queued(r.k, q)
  <2>3. /\ k.ql \in Seq(Nat \ {0}) /\ q \in Seq(Nat \ {0})
        /\ Entry(k.ql, 1, m) /\ Without(k.ql, 1, q) /\ Among(q, k.ql)
        /\ m \in 1..Len(msg) /\ m \in Nat \ {0} /\ msg[m] = "queued"
        /\ \A j \in 1..Len(q) : m < q[j]
    BY <1>1, <1>4, FirstFacts
  <2>t. r \in tcp_send(k, m)
    OBVIOUS
  <2>h. m = Head(k.ql)
    OBVIOUS
  <2>q. q = Tail(k.ql)
    OBVIOUS
  <2> HIDE DEF m, q
  <2>m. m \in Nat
    BY <2>3
  <2>k. k \in ConnRec
    BY <1>2
  <2>4. r.k.ql = k.ql /\ r.ok \in BOOLEAN
    BY <2>m, <2>k, <2>t, Sends
  <2>5. conn' = [conn EXCEPT ![c] = l]
    BY <2>1, <2>4 DEF Queued, q
  <2>6. st \in Status /\ st # "queued" /\ d \in BOOLEAN
    BY <2>4 DEF Status
  <2>7. msg' = [msg EXCEPT ![m] = st]
    BY <2>1
  <2>8. run' = [run EXCEPT !.le = Len(k.ql) > 1, !.cb = d]
    BY <2>1
  <2>r. (st = "sent" <=> r.ok) /\ (d <=> ~r.ok)
    BY <2>4
  <2> HIDE DEF st, d
  <2>9. /\ Marked(msg, msg', m, st) /\ Marked(qent, qent', m, None)
        /\ msg' \in Seq(Status)
        /\ qent' \in Seq(1..plan.conns \cup {None})
    BY <2>2, <2>3, <2>6, <2>7, MarkedMessage
  <2>10. Extends(msg, msg')
    BY <1>2, <2>3, <2>6, <2>9, Leaves
  <2>11. k.failed \/ Before(Stream(k), k.ql)
    BY <1>3 DEF Sending
  <2>12. k.failed \/ Before(Stream(k), q)
    BY <2>3, <2>11, BeforeRest
  <2>13. \A i \in 1..Len(Stream(k)) : Stream(k)[i] # m
    <3> TAKE i \in 1..Len(Stream(k))
    <3>1. Stream(k)[i] # Crlf => msg[Stream(k)[i]] = "sent"
      BY <1>2, <1>3 DEF Recorded
    <3>2. m # Crlf
      BY <2>3 DEF Crlf
    <3> QED
      BY <2>3, <3>1, <3>2
  <2>14. k.failed \/ \A i \in 1..Len(Stream(k)) : Stream(k)[i] <= m
    <3> SUFFICES ASSUME ~k.failed, NEW i \in 1..Len(Stream(k))
                 PROVE  Stream(k)[i] <= m
      OBVIOUS
    <3>1. 1 \in 1..Len(k.ql) /\ k.ql[1] = m
      BY <2>3 DEF Entry
    <3>2. Stream(k)[i] < m
      BY <2>11, <3>1 DEF Before
    <3>3. Stream(k)[i] \in Nat
      BY <1>2, StreamFacts
    <3> QED
      BY <2>3, <3>2, <3>3
  <2>15. m \in Nat /\ (k.failed \/ /\ m = Crlf \/ \A i \in 1..Len(Stream(k)) :
                                        Stream(k)[i] <= m
                                   /\ \A j \in 1..Len(q) : m < q[j])
    BY <2>3, <2>14
  <2>16. /\ Sound(l, s) /\ l.ql = q /\ SameState(k, l) /\ SameInput(k, l)
         /\ l.failed <=> (k.failed \/ ~r.ok)
         /\ r.ok => Grown(Stream(k), Stream(l), m, Units(m))
         /\ ~r.ok => Stream(l) = Stream(k)
    <3>1. Sound(k, s)
      BY <1>2
    <3>2. q \in Seq(Nat \ {0})
      BY <2>3
    <3> HIDE DEF k
    <3> QED
      BY <3>1, <3>2, <2>t, <2>m, <2>12, <2>13, <2>15, SoundSend
  <2> HIDE DEF l
  <2>17. Recorded(l, msg')
    <3>0. l \in ConnRec
      BY <2>16 DEF Sound
    <3>1. CASE r.ok
      <4>1. Len(msg') = Len(msg) /\ msg'[m] = "sent"
        BY <2>9, <2>r, <3>1 DEF Marked
      <4>2. m \in 1..Len(msg') /\ m \in Nat
        BY <2>3, <4>1
      <4> QED
        BY <1>2, <1>3, <2>10, <2>16, <3>0, <3>1, <4>1, <4>2, RecordedSent
    <3>2. CASE ~r.ok
      <4>1. Recorded(l, msg)
        BY <1>2, <1>3, <2>16, <3>2 DEF Recorded
      <4> QED
        BY <2>10, <4>1, RecordedLater
    <3> QED
      BY <3>1, <3>2
  <2>18. run.h = "estab" /\ d => l.failed
    BY <2>16, <2>r
  <2>19. l.ql = Tail(k.ql)
    BY <2>16, <2>q
  <2> QED
    BY <1>1, <1>4, <2>5, <2>6, <2>8, <2>9, <2>16, <2>17, <2>18, <2>19, <2>h,
       LoopStep
<1>5. CASE ~run.le
  <2>1. run' = Resting /\ UNCHANGED <<plan, conn, msg, qent>>
    BY <1>1, <1>5 DEF estab_loop
  <2>2. conn' = [conn EXCEPT ![c] = k]
    BY <1>2, <2>1
  <2>3. run' \in RunRec(plan.conns) /\ run'.h = "none"
    BY <2>1 DEF Resting, RunRec
  <2>4. Owned(run', c, k)
    BY <1>2, <1>3, <1>5 DEF Owned
  <2> QED
    BY <1>2, <2>1, <2>2, <2>3, <2>4, QuietStep
<1> QED
  BY <1>4, <1>5

LEMMA InvCloseLoop ==
    ASSUME Inv, close_loop
    PROVE  Inv'
<1> DEFINE c == run.c
           k == conn[c]
           s == plan.script
<1>1. run.h = "close" /\ plan' = plan
  BY DEF close_loop
<1>2. /\ c \in 1..plan.conns /\ conn \in [1..plan.conns -> ConnRec]
      /\ run \in RunRec(plan.conns) /\ k \in ConnRec
      /\ Sound(k, s) /\ Recorded(k, msg) /\ Queue(k.ql, c, qent)
      /\ NoneWaits(k, s) /\ Busy(run, k) /\ (run.le <=> k.ql # <<>>)
  BY <1>1, AtLoop
<1>3. k.st = "closing" /\ ~HasTc(k)
  BY <1>1, <1>2 DEF Busy, HasTc
<1>4. CASE run.le
  <2> DEFINE m == Head(k.ql)
             q == Tail(k.ql)
             st == "told"
             l == Queued(k, q)
  <2>1. /\ conn' = [conn EXCEPT ![c].ql = Tail(@)]
        /\ msg' = [msg EXCEPT ![m] = st]
        /\ qent' = [qent EXCEPT ![m] = None]
        /\ run' = [run EXCEPT !.le = Len(k.ql) > 1, !.cb = TRUE]
    BY <1>1, <1>4 DEF close_loop
  <2>2. q \in Seq(Nat \ {0}) /\ m \in 1..Len(msg)
    BY <1>1, <1>4, FirstFacts
  <2>3. conn' = [conn EXCEPT ![c] = l]
    BY <1>2, <2>1 DEF Queued, ConnRec
  <2>4. st \in Status /\ st # "queued"
    BY DEF Status
  <2>5. m = Head(k.ql) /\ q = Tail(k.ql)
    OBVIOUS
  <2> HIDE DEF st, m, q
  <2>6. /\ Marked(msg, msg', m, st) /\ Marked(qent, qent', m, None)
        /\ msg' \in Seq(Status)
        /\ qent' \in Seq(1..plan.conns \cup {None})
    BY <2>1, <2>2, <2>4, MarkedMessage
  <2>7. /\ Sound(l, s) /\ l.ql = q /\ SameState(k, l) /\ SameInput(k, l)
    BY <1>2, <1>3, <2>2, SoundQueued
  <2> HIDE DEF l
  <2>8. ~HasTc(l)
    BY <1>3, <2>7 DEF SameState, HasTc
  <2>9. Recorded(l, msg')
    BY <2>8 DEF Recorded
  <2>10. /\ l.ql = Tail(k.ql) /\ TRUE \in BOOLEAN
         /\ run' = [run EXCEPT !.le = Len(k.ql) > 1, !.cb = TRUE]
    BY <2>1, <2>5, <2>7
  <2>11. ~(run.h = "estab" /\ TRUE)
    BY <1>1
  <2> QED
    BY <1>1, <1>4, <2>3, <2>4, <2>5, <2>6, <2>7, <2>9, <2>10, <2>11, LoopStep
<1>5. CASE ~run.le /\ k.kal
  <2> DEFINE l == Signal(k, FALSE)
  <2>1. /\ conn' = [conn EXCEPT ![c].kal = FALSE]
        /\ run' = [run EXCEPT !.cb = TRUE] /\ UNCHANGED <<plan, msg, qent>>
    BY <1>1, <1>5 DEF close_loop
  <2>2. conn' = [conn EXCEPT ![c] = l]
    BY <1>2, <2>1 DEF Signal, ConnRec
  <2>3. /\ Sound(l, s) /\ l.ql = k.ql /\ l.st = k.st
        /\ SameInput(k, l) /\ SameOutput(k, l)
    BY <1>2, SoundSignal
  <2> HIDE DEF l
  <2>4. /\ run' \in RunRec(plan.conns) /\ run'.h = "close" /\ run'.c = c
        /\ run'.le = run.le
    BY <1>1, <1>2, <2>1 DEF RunRec
  <2>5. Busy(run', l) /\ Owned(run', c, l)
    BY <1>2, <1>3, <2>3, <2>4 DEF Busy, Owned
  <2>6. ~HasTc(l)
    BY <1>3, <2>3 DEF HasTc
  <2>7. Recorded(l, msg) /\ NoneWaits(l, s)
    BY <2>6 DEF Recorded, NoneWaits
  <2>8. l.ql = conn[c].ql /\ UNCHANGED <<plan, msg, qent>>
    BY <2>1, <2>3
  <2> QED
    BY <1>2, <2>2, <2>3, <2>4, <2>5, <2>7, <2>8, QuietStep
<1>6. CASE ~run.le /\ ~k.kal
  <2> DEFINE l == Freed(k.addr, k.sock)
  <2>1. /\ conn' = [conn EXCEPT ![c] = l]
        /\ msg' = [m \in DOMAIN msg |->
                      IF \E i \in 1..Len(k.ql) : k.ql[i] = m
                      THEN "dropped" ELSE msg[m]]
        /\ qent' = [m \in DOMAIN qent |->
                      IF qent[m] = c THEN None ELSE qent[m]]
        /\ run' = Resting
    BY <1>1, <1>6 DEF close_loop, Freed
  <2>2. k.ql = <<>> /\ Len(k.ql) = 0
    BY <1>2, <1>6
  <2>3. /\ msg \in Seq(Status) /\ qent \in Seq(1..plan.conns \cup {None})
        /\ Len(qent) = Len(msg)
    BY DEF Inv, Typed
  <2>4. msg' = msg
    BY <2>1, <2>2, <2>3
  <2>5. \A m \in 1..Len(qent) : qent[m] # c
    BY <1>2, <2>2 DEF Queue, In
  <2>6. qent' = qent
    <3>1. DOMAIN qent = 1..Len(qent)
      BY <2>3
    <3>2. qent' = [m \in 1..Len(qent) |-> qent[m]]
      BY <2>1, <2>5, <3>1
    <3> QED
      BY <2>3, <3>2
  <2>7. k.addr \in Address /\ k.sock \in BOOLEAN /\ k.pos <= k.got
    BY <1>2, Members DEF Sound
  <2>8. /\ l \in ConnRec
        /\ l.st = "freed" /\ l.hashed = FALSE /\ l.ql = <<>>
        /\ l.tmr = Off /\ l.tmr_ka = Off /\ l.got = 0 /\ l.pos = 0
    BY <2>7, FreedFields
  <2> HIDE DEF l
  <2>9. ~HasTc(l) /\ Life(l) /\ l.pos <= l.got
    BY <2>8 DEF HasTc, Life
  <2>10. Sound(l, s) /\ Recorded(l, msg) /\ NoneWaits(l, s)
    BY <2>8, <2>9, SoundGone
  <2>11. run' \in RunRec(plan.conns) /\ run'.h = "none"
    BY <2>1 DEF Resting, RunRec
  <2>12. Owned(run', c, l)
    BY <2>8 DEF Owned
  <2>13. l.ql = conn[c].ql /\ UNCHANGED <<plan, msg, qent>>
    BY <1>1, <2>2, <2>4, <2>6, <2>8
  <2>14. conn' = [conn EXCEPT ![c] = l]
    BY <2>1
  <2> QED
    BY <1>2, <2>10, <2>11, <2>12, <2>13, <2>14, QuietStep
<1> QED
  BY <1>2, <1>4, <1>5, <1>6

-----------------------------------------------------------------------------
(* The invariant.                                                          *)

LEMMA InvInit == Init => Inv
<1> SUFFICES ASSUME Init PROVE Inv
  OBVIOUS
<1>1. /\ plan \in Plans /\ conn = [c \in 1..plan.conns |-> Unused]
      /\ msg = <<>> /\ qent = <<>> /\ run = Resting
  BY DEF Init
<1>2. Unused \in ConnRec
  BY UnusedFacts
<1>3. /\ Unused.st = "none" /\ Unused.hashed = FALSE /\ Unused.ql = <<>>
      /\ Unused.tmr = Off /\ Unused.tmr_ka = Off /\ Unused.sock = FALSE
      /\ Unused.pos = 0 /\ Unused.got = 0
  BY DEF Unused
<1>4. ~HasTc(Unused) /\ Life(Unused) /\ Unused.pos <= Unused.got
  BY <1>3 DEF HasTc, Life
<1>5. /\ run.h = "none" /\ run \in RunRec(plan.conns)
  BY <1>1 DEF Resting, RunRec
<1>6. Len(msg) = 0 /\ Len(qent) = 0
  BY <1>1
<1>7. Typed
  BY <1>1, <1>2, <1>5, <1>6 DEF Typed
<1>8. \A c \in 1..plan.conns : conn[c] = Unused
  BY <1>1
<1>9. Connections
  <2> SUFFICES ASSUME NEW c \in 1..plan.conns
               PROVE  /\ Sound(conn[c], plan.script)
                      /\ Recorded(conn[c], msg)
                      /\ Queue(conn[c].ql, c, qent)
                      /\ NoneWaits(conn[c], plan.script)
    BY DEF Connections
  <2>1. /\ Sound(Unused, plan.script) /\ Recorded(Unused, msg)
        /\ NoneWaits(Unused, plan.script)
    BY <1>2, <1>4, SoundGone
  <2>2. Queue(<<>>, c, qent)
    BY <1>6 DEF Queue
  <2> QED
    BY <1>3, <1>8, <2>1, <2>2
<1>10. Running
  <2>1. \A c \in 1..plan.conns : Owned(run, c, conn[c])
    BY <1>3, <1>8 DEF Owned
  <2> QED
    BY <1>5, <2>1 DEF Running
<1>11. Pointers
  BY <1>6 DEF Pointers
<1> QED
  BY <1>7, <1>9, <1>10, <1>11 DEF Inv

LEMMA InvNext == Inv /\ [Next]_vars => Inv'
<1> SUFFICES ASSUME Inv, [Next]_vars PROVE Inv'
  OBVIOUS
<1>1. ASSUME NEW a \in plan.addrs, NEW s \in Conn \cup {None},
             sip_transp_send(a, s)
      PROVE  Inv'
  BY <1>1, InvSend
<1>2. ASSUME NEW a \in plan.addrs, tcp_connect_handler(a)
      PROVE  Inv'
  BY <1>2, InvConnect
<1>3. ASSUME NEW m \in DOMAIN msg, qent_destructor(m)
      PROVE  Inv'
  BY <1>3, InvWithdraw
<1>4. ASSUME NEW c \in Conn, tcp_estab_handler(c)
      PROVE  Inv'
  BY <1>4, InvEstab
<1>5. ASSUME NEW c \in Conn, tcp_close_handler(c)
      PROVE  Inv'
  BY <1>5, InvTcpClose
<1>6. ASSUME NEW c \in Conn, conn_tmr_handler(c)
      PROVE  Inv'
  BY <1>6, InvTmr
<1>7. ASSUME NEW c \in Conn, conn_keepalive_handler(c)
      PROVE  Inv'
  BY <1>7, InvKeepalive
<1>8. ASSUME NEW c \in Conn, dequeue(c)
      PROVE  Inv'
  BY <1>8, InvDequeue
<1>9. ASSUME NEW c \in Conn, NEW i \in plan.flow, sip_keepalive_tcp(c, i)
      PROVE  Inv'
  <2>1. plan \in Plans
    BY DEF Inv, Typed
  <2>2. i \in Flow
    BY <2>1, PlansAssumption
  <2> QED
    BY <1>9, <2>2, InvStartKeepalive
<1>10. ASSUME NEW c \in Conn, NEW n \in 1..Len(plan.script),
              tcp_recv_handler(c, n)
       PROVE  Inv'
  BY <1>10, InvRecv
<1>11. CASE estab_loop
  BY <1>11, InvEstabLoop
<1>12. CASE close_loop
  BY <1>12, InvCloseLoop
<1>13. CASE recv_loop
  BY <1>13, InvReadLoop
<1>14. CASE Tick
  BY <1>14, InvTick
<1>15. CASE UNCHANGED vars
  <2>1. /\ plan' = plan /\ conn' = conn /\ msg' = msg /\ qent' = qent
        /\ run' = run
    BY <1>15 DEF vars
  <2>2. Typed' /\ Connections' /\ Running' /\ Pointers'
    BY <2>1 DEF Inv, Typed, Connections, Running, Pointers
  <2> QED
    BY <2>2 DEF Inv
<1>16. CASE Done
  BY <1>15, <1>16 DEF Done
<1> QED
  BY <1>1, <1>2, <1>3, <1>4, <1>5, <1>6, <1>7, <1>8, <1>9, <1>10, <1>11,
     <1>12, <1>13, <1>14, <1>15, <1>16 DEF Next

(* Everything that the properties need to know about the connections, the  *)
(* messages and the running loop holds in every reachable state.           *)
THEOREM ConnInvariant == Spec => []Inv
<1>1. Init => Inv
  BY InvInit
<1>2. Inv /\ [Next]_vars => Inv'
  BY InvNext
<1> QED
  BY <1>1, <1>2, PTL DEF Spec

-----------------------------------------------------------------------------
(* What follows from it.                                                   *)

LEMMA InvTypeOK == Inv => TypeOK
<1> SUFFICES ASSUME Inv PROVE TypeOK
  OBVIOUS
<1>1. /\ plan \in Plans /\ conn \in [1..plan.conns -> ConnRec]
      /\ msg \in Seq(Status) /\ qent \in Seq(1..plan.conns \cup {None})
      /\ Len(qent) = Len(msg) /\ run \in RunRec(plan.conns)
  BY DEF Inv, Typed
<1>2. Conn = 1..plan.conns
  BY <1>1 DEF Conn
<1>3. ASSUME NEW c \in Conn
      PROVE  /\ conn[c].st \in {"none", "opening", "open", "closing", "freed"}
             /\ conn[c].tmr \in Off..Idle
             /\ conn[c].tmr_ka \in Off..LongestInterval
             /\ conn[c].pos <= conn[c].got
  <2>1. conn[c] \in ConnRec /\ Sound(conn[c], plan.script)
    BY <1>2, At
  <2>2. conn[c].pos <= conn[c].got
    BY <2>1 DEF Sound
  <2> QED
    BY <2>1, <2>2 DEF ConnRec
<1>4. DOMAIN msg = 1..Len(msg) /\ DOMAIN qent = 1..Len(msg)
  BY <1>1
<1>5. ASSUME NEW m \in DOMAIN msg
      PROVE  /\ msg[m] \in {"queued", "sent", "refused", "told", "withdrawn"}
             /\ qent[m] \in Conn \cup {None}
  <2>1. msg[m] \in Status
    BY <1>1, <1>4, ElementOfSeq
  <2>2. qent[m] \in 1..plan.conns \cup {None}
    BY <1>1, <1>4, ElementOfSeq
  <2> QED
    BY <1>2, <2>1, <2>2 DEF Status
<1>6. run.h \in {"none", "estab", "close", "recv"}
  BY <1>1 DEF RunRec
<1> QED
  BY <1>1, <1>3, <1>4, <1>5, <1>6 DEF TypeOK

LEMMA InvNothingLost == Inv => NothingLost
<1> SUFFICES ASSUME Inv PROVE NothingLost
  OBVIOUS
<1>1. TypeOK
  BY InvTypeOK
<1>2. /\ msg \in Seq(Status) /\ Len(qent) = Len(msg)
      /\ conn \in [1..plan.conns -> ConnRec]
  BY DEF Inv, Typed
<1>3. DOMAIN msg = 1..Len(msg) /\ Conn = 1..plan.conns
  BY <1>2 DEF Conn
<1>4. ASSUME NEW m \in DOMAIN msg
      PROVE  (msg[m] = "queued") = (qent[m] # None)
  <2>1. msg[m] = "queued" <=> qent[m] # None
    BY <1>3 DEF Inv, Pointers
  <2> QED
    BY <2>1, Zenon
<1>5. ASSUME NEW c \in Conn, NEW m \in DOMAIN msg
      PROVE  In(m, conn[c].ql) = (qent[m] = c)
  <2>1. Queue(conn[c].ql, c, qent) /\ m \in 1..Len(qent)
    BY <1>2, <1>3, At
  <2>2. In(m, conn[c].ql) <=> qent[m] = c
    BY <2>1 DEF Queue
  <2>3. In(m, conn[c].ql) \in BOOLEAN
    BY DEF In
  <2> QED
    BY <2>2, <2>3, Zenon
<1>6. ASSUME NEW c \in Conn, conn[c].ql # <<>>
      PROVE  \/ conn[c].st = "opening"
             \/ run.h \in {"estab", "close"} /\ run.c = c /\ run.le
  <2>1. Owned(run, c, conn[c])
    BY <1>3, At
  <2>2. CASE run.h \in {"estab", "close"} /\ run.c = c
    <3>1. run.le <=> conn[c].ql # <<>>
      BY <2>2, AtLoop
    <3> QED
      BY <1>6, <2>2, <3>1
  <2> QED
    BY <1>6, <2>1, <2>2 DEF Owned
<1> QED
  BY <1>1, <1>4, <1>5, <1>6 DEF NothingLost

(* The idle timer and the keepalive timer bound the silence.               *)
LEMMA InvHeard == Inv => Heard
<1> SUFFICES ASSUME Inv, NEW c \in Conn, HasTc(conn[c])
             PROVE  LET k == conn[c] IN
                    /\ k.tmr_ka = Off => k.quiet <= Idle
                    /\ k.tmr_ka # Off /\ k.ka_interval < Wrap =>
                          k.quiet <= Min({Idle, k.ka_interval}) + Pong
  BY DEF Heard
<1> DEFINE k == conn[c]
           n == k.ka_interval
<1>1. c \in 1..plan.conns
  BY DEF Inv, Typed, Conn
<1>2. k \in ConnRec /\ Life(k) /\ Time(k)
  BY <1>1, At DEF Sound
<1>3. /\ k.quiet \in Nat /\ k.tmr \in Nat /\ n \in Nat
      /\ k.tmr_ka # Off => k.tmr_ka \in Nat
  <2>1. k.tmr # Off
    BY <1>2 DEF Life
  <2>2. /\ k.tmr \in Off..Idle /\ k.tmr_ka \in Off..LongestInterval
        /\ k.quiet \in Nat /\ n \in 0..LongestInterval
    BY <1>2 DEF ConnRec
  <2> QED
    BY <2>1, <2>2, Timeouts DEF Off
<1>4. \/ /\ k.quiet + k.tmr <= Idle
         /\ k.tmr_ka # Off => k.quiet + k.tmr_ka <= n
      \/ /\ k.tmr_ka # Off
         /\ k.quiet + k.tmr <= Idle + Pong
         /\ k.quiet + k.tmr <= n + Pong
      \/ /\ k.tmr_ka # Off
         /\ Wrap <= n
  BY <1>2 DEF Time
<1> DEFINE b == Min({Idle, n})
<1>5. b \in Nat /\ b = IF Idle <= n THEN Idle ELSE n
  BY <1>3, Timeouts, MinOfTwo
<1> HIDE DEF b, k, n
<1>6. CASE k.tmr_ka = Off
  <2>1. k.quiet + k.tmr <= Idle
    BY <1>4, <1>6
  <2>2. k.quiet <= Idle
    BY <1>3, <2>1, Timeouts
  <2> QED
    BY <1>6, <2>2 DEF k
<1>7. CASE k.tmr_ka # Off /\ n < Wrap
  <2> DEFINE x == k.quiet
             y == k.tmr
             z == k.tmr_ka
  <2>1. /\ x \in Nat /\ y \in Nat /\ z \in Nat /\ n \in Nat /\ Idle \in Nat
        /\ Pong \in Nat
    BY <1>3, <1>7, Timeouts
  <2>a. ~(Wrap <= n)
    BY <1>3, <1>7, TimeAssumption
  <2>2. \/ x + y <= Idle /\ x + z <= n
        \/ x + y <= Idle + Pong /\ x + y <= n + Pong
    BY <1>4, <1>7, <2>a
  <2> HIDE DEF x, y, z
  <2>3. x <= b + Pong
    BY <1>5, <2>1, <2>2
  <2> QED
    BY <1>7, <2>3 DEF x, k, b, n
<1> QED
  BY <1>6, <1>7 DEF k, n, b

(* Each unit of a message is in a block with its other units.              *)
LEMMA WholeBlocks ==
    ASSUME NEW s, Whole(s), NEW i \in 1..Len(s), s[i] # Crlf
    PROVE  \E j \in 1..i :
              /\ i < j + Size /\ Len(s) >= j + Size - 1
              /\ \A l \in 1..Len(s) :
                    (s[l] = s[i]) = (l \in j..(j + Size - 1))
<1>1. PICK j \in 1..i : Block(s, i, j)
  BY DEF Whole
<1>2. i < j + Size /\ Len(s) >= j + Size - 1
  BY <1>1 DEF Block
<1>3. ASSUME NEW l \in 1..Len(s)
      PROVE  (s[l] = s[i]) = (l \in j..(j + Size - 1))
  <2> DEFINE A == s[l] = s[i]
             B == l \in j..(j + Size - 1)
  <2>1. A <=> B
    BY <1>1 DEF Block
  <2>2. A \in BOOLEAN /\ B \in BOOLEAN
    OBVIOUS
  <2> HIDE DEF A, B
  <2>3. A = B
    BY <2>1, <2>2, Zenon
  <2> QED
    BY <2>3 DEF A, B
<1> QED
  BY <1>2, <1>3

LEMMA InvStreamsKept == Inv => StreamsKept
<1> SUFFICES ASSUME Inv, NEW c \in Conn, HasTc(conn[c])
             PROVE  LET k == conn[c] s == Stream(k) IN
               /\ Len(k.sendq) <= TxMax
               /\ \A i \in 1..Len(s) :
                     s[i] = Crlf \/ \E j \in 1..i :
                         /\ i < j + Size /\ Len(s) >= j + Size - 1
                         /\ \A l \in 1..Len(s) :
                               (s[l] = s[i]) = (l \in j..(j + Size - 1))
               /\ k.failed \/ \A i, j \in 1..Len(s) :
                     i < j /\ s[j] # Crlf => s[i] <= s[j]
               /\ run.h = "recv" \/
                  k.seen = Cardinality({i \in 1..k.got : plan.script[i] = "b"})
  BY DEF StreamsKept
<1> DEFINE k == conn[c]
           s == Stream(k)
<1>1. c \in 1..plan.conns
  BY DEF Inv, Typed, Conn
<1>2. /\ k \in ConnRec /\ Sound(k, plan.script)
      /\ (run.h = "recv" /\ run.c = c) \/ NoneWaits(k, plan.script)
  BY <1>1, At
<1>3. /\ Len(k.sendq) <= TxMax /\ Whole(s) /\ (k.failed \/ Sorted(s))
  BY <1>2 DEF Sound, Sending
<1>4. ASSUME run.h # "recv"
      PROVE  k.seen = Cardinality({i \in 1..k.got : plan.script[i] = "b"})
  <2>1. /\ k.pos \in Nat /\ k.got \in Nat /\ k.pos <= k.got
        /\ k.seen = Cardinality(Bodies(plan.script, k.pos))
    BY <1>2 DEF Sound, Parsed, Bodies, ConnRec
  <2>2. \A i \in (k.pos + 1)..k.got : plan.script[i] # "b"
    BY <1>2, <1>4 DEF NoneWaits
  <2>3. Bodies(plan.script, k.got) = Bodies(plan.script, k.pos)
    BY <2>1, <2>2, BodiesSame
  <2> QED
    BY <2>1, <2>3 DEF Bodies
<1>5. \A i \in 1..Len(s) :
         s[i] = Crlf \/ \E j \in 1..i :
             /\ i < j + Size /\ Len(s) >= j + Size - 1
             /\ \A l \in 1..Len(s) :
                   (s[l] = s[i]) = (l \in j..(j + Size - 1))
  <2> HIDE DEF s
  <2> QED
    BY <1>3, WholeBlocks
<1>6. k.failed \/ \A i, j \in 1..Len(s) : i < j /\ s[j] # Crlf => s[i] <= s[j]
  BY <1>3 DEF Sorted
<1> QED
  BY <1>3, <1>4, <1>5, <1>6

(* Every variable of the connections keeps its type, for all bounds.       *)
THEOREM ConnTypeCorrect == Spec => []TypeOK
  BY ConnInvariant, InvTypeOK, PTL

(* No message handed to sip_transp_send is lost between a connection's     *)
(* queue, its sender's pointer and the loops of tcp_estab_handler and      *)
(* conn_close, whatever is sent from inside their callbacks.               *)
THEOREM ConnNothingLost == Spec => []NothingLost
  BY ConnInvariant, InvNothingLost, PTL

(* The streams of every connection keep messages whole and in order, and   *)
(* tcp_recv_handler passes on each message that has arrived as a whole,    *)
(* for messages and send queues of any size, however they are cut up.      *)
THEOREM ConnStreamsKept == Spec => []StreamsKept
  BY ConnInvariant, InvStreamsKept, PTL

(* A silent peer is noticed within the idle time, or with keepalives       *)
(* within an interval and the time for the pong, for all timeouts and      *)
(* every interval servers ask for that sip_keepalive_wait can multiply in  *)
(* 32 bits: sip_keepalive_tcp keeps it at twice the time for the pong.     *)
THEOREM ConnHeard == Spec => []Heard
  BY ConnInvariant, InvHeard, PTL
=============================================================================
