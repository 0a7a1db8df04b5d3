-------------------------- MODULE SipSessionProofs --------------------------
(***************************************************************************)
(* Proofs about SipSession, for every number of INFOs under way, every     *)
(* limit on failures and any number of unacknowledged answers.             *)
(***************************************************************************)
EXTENDS SipSession, SequenceTheorems, TLAPS

Refs == 0..4
Stages == 0..2
Reqs == {"none", "invite", "reinvite", "bye"}
Fails == 0..MaxFail
Replies == Seq(BOOLEAN)
Requests == [Info -> 0..MaxFail]
Tells == Seq({"up", "closed"})
Byes == 0..1

Record ==
    [alive : BOOLEAN, refs : Refs, held : BOOLEAN, dir : {"out", "in"},
     terminated : Stages, established : BOOLEAN, peerterm : BOOLEAN,
     req : Reqs, failc : Fails,
     st : BOOLEAN, replyl : Replies, awaiting_answer : BOOLEAN,
     requestl : Requests, tmr : BOOLEAN,
     modify_pending : BOOLEAN, desc : BOOLEAN, sent_offer : BOOLEAN,
     told : Tells, answered : BOOLEAN, byes : Byes,
     byefail : BOOLEAN, gaveup : BOOLEAN]

(* An INFO is under way.                                                   *)
Some(requestl) == \E i \in Info : requestl[i] > 0

(* The reference of the holder.                                            *)
Hold(s) == One(s.held)

(* The references for what the session waits for.                          *)
Owed(s) == One(s.req # "none") + One(s.replyl # <<>>) + One(Some(s.requestl))

(* A session that gave or took a 2xx has said goodbye.                     *)
Said(s) == s.answered => s.byes = 1 \/ s.peerterm \/ s.byefail

Fields == {"alive", "refs", "held", "dir", "terminated", "established",
           "peerterm", "req", "failc", "st", "replyl", "awaiting_answer",
           "requestl", "tmr", "modify_pending", "told", "answered", "byes",
           "byefail", "gaveup"}

Same(o, s, changed) == \A f \in Fields \ changed : o[f] = s[f]

(* At any time, also inside a handler.                                     *)
Rest(s) ==
    /\ s \in Record
    /\ Len(s.replyl) <= MaxReplies
    /\ s.terminated # 0 => ~s.st /\ ~s.tmr
    /\ s.terminated = 2 => /\ s.req \in {"none", "bye"} /\ s.replyl = <<>>
                           /\ ~Some(s.requestl) /\ Said(s)
    /\ s.req = "bye" => s.terminated = 2
    /\ s.terminated # 2 => s.byes = 0
    /\ s.answered /\ ~s.established /\ ~s.peerterm => s.replyl # <<>>
    /\ s.req # "none" => s.failc < MaxFail /\ s.replyl = <<>>
    /\ s.tmr => s.replyl = <<>>
    /\ s.st => /\ s.replyl = <<>> /\ s.req = "none" /\ ~s.tmr
               /\ ~s.modify_pending /\ s.dir = "in" /\ ~s.established
               /\ ~s.awaiting_answer

(* While it is not being taken down: the answers that are due, what the    *)
(* holder knows, and what a modification that was put off waits for.       *)
Due(s) ==
    /\ s.awaiting_answer <=> \E i \in DOMAIN s.replyl : s.replyl[i]
    /\ \A i \in DOMAIN s.replyl : s.replyl[i] => i = Len(s.replyl)

Known(s) ==
    /\ s.told = IF s.established THEN <<"up">> ELSE <<>>
    /\ ~s.established =>
         IF s.dir = "out" THEN s.req = "invite"
                          ELSE s.st \/ s.replyl # <<>> \/ s.gaveup
    /\ s.req = "invite" => ~s.established /\ s.dir = "out"

Modifies(s) == s.modify_pending => s.req # "none" \/ s.tmr \/ s.replyl # <<>>

Live(s) == Due(s) /\ Known(s) /\ Modifies(s)

Dead(s) ==
    /\ ~s.alive /\ s.refs = 0 /\ ~s.held /\ ~s.st /\ ~s.tmr
    /\ Owed(s) = 0 /\ Said(s)

Counted(s) ==
    /\ s.alive /\ s.refs > 0
    /\ s.terminated = 0 => s.held /\ s.refs = 1 /\ Live(s)
    /\ s.terminated # 0 => s.refs = Hold(s) + Owed(s)

Ok(s) == Rest(s) /\ (Dead(s) \/ Counted(s))

Inv == Ok(sess)
-----------------------------------------------------------------------------
(* The operators.                                                          *)

LEMMA Members ==
    /\ 0 \in Stages /\ 1 \in Stages /\ 2 \in Stages
    /\ "none" \in Reqs /\ "invite" \in Reqs /\ "reinvite" \in Reqs /\ "bye" \in Reqs
    /\ 0 \in Fails /\ 0 \in Refs /\ 1 \in Refs /\ 0 \in Byes /\ 1 \in Byes
    /\ <<>> \in Replies /\ <<>> \in Tells
  BY BoundsAssumption DEF Stages, Reqs, Fails, Refs, Byes, Replies, Tells

LEMMA HoldType ==
    ASSUME NEW s
    PROVE  Hold(s) \in {0, 1} /\ (Hold(s) = 1 <=> s.held)
  BY DEF Hold, One

LEMMA OwedIs ==
    ASSUME NEW s
    PROVE  /\ Count(s) = Owed(s)
           /\ Waits(s) = {} <=> Owed(s) = 0
           /\ Owed(s) = 0 <=> s.req = "none" /\ s.replyl = <<>> /\ ~Some(s.requestl)
           /\ Owed(s) \in 0..3
<1>1. Infos(s) # {} <=> Some(s.requestl)
  BY DEF Infos, Some
<1>2. /\ "req" \in Waits(s) <=> s.req # "none"
      /\ "replyl" \in Waits(s) <=> s.replyl # <<>>
      /\ "requestl" \in Waits(s) <=> Some(s.requestl)
      /\ Waits(s) \subseteq {"req", "replyl", "requestl"}
  BY <1>1 DEF Waits
<1>3. Waits(s) = {} <=> s.req = "none" /\ s.replyl = <<>> /\ ~Some(s.requestl)
  BY <1>2
<1> QED
  BY <1>2, <1>3 DEF Count, Owed, One

LEMMA SameHold == ASSUME NEW o, NEW s, o.held = s.held PROVE Hold(o) = Hold(s)
  BY DEF Hold

(* terminate: with nothing left to wait for the session says BYE, where it *)
(* has to and can.                                                         *)
LEMMA Terminated ==
    ASSUME NEW s, Rest(s), s.terminated = 1, Owed(s) = 0, s.refs = Hold(s),
           NEW ok \in BOOLEAN
    PROVE  LET o == terminate(s, ok) IN
           /\ Rest(o) /\ o.terminated = 2 /\ o.refs = Hold(o) + Owed(o)
           /\ o.alive = s.alive /\ o.held = s.held /\ o.told = s.told
           /\ o.requestl = s.requestl
           /\ ~s.established => Owed(o) = 0
<1> DEFINE o == terminate(s, ok)
<1> USE BoundsAssumption
<1>0. /\ s \in Record /\ s.req = "none" /\ s.replyl = <<>> /\ ~Some(s.requestl)
      /\ s.byes = 0 /\ s.refs \in {0, 1}
  BY OwedIs, HoldType DEF Rest, Record
<1>1. CASE ~s.established \/ s.peerterm
  <2>1. o = [s EXCEPT !.terminated = 2]
    BY <1>1 DEF terminate
  <2>2. o \in Record
    BY <1>0, <2>1, Members DEF Record
  <2>3. o.terminated = 2 /\ Same(o, s, {"terminated"})
    BY <1>0, <2>1 DEF Record, Same, Fields
  <2> HIDE DEF o
  <2>4. Rest(o)
    BY <1>0, <1>1, <2>2, <2>3 DEF Rest, Same, Fields, Said
  <2>5. /\ o.held = s.held /\ o.alive = s.alive /\ o.told = s.told
        /\ o.requestl = s.requestl /\ o.refs = s.refs /\ Owed(o) = Owed(s)
    BY <2>3 DEF Owed, Same, Fields
  <2>6. Hold(o) = Hold(s)
    BY <2>5, SameHold
  <2> QED
    BY <1>0, <2>3, <2>4, <2>5, <2>6 DEF o
<1>2. CASE s.established /\ ~s.peerterm
  <2> DEFINE t == [s EXCEPT !.terminated = 2]
             z == [t EXCEPT !.failc = 0]
             b == sipsess_bye(z, ok)
  <2>a. t \in Record
    BY <1>0, Members DEF Record
  <2>b. t.terminated = 2 /\ Same(t, s, {"terminated"})
    BY <1>0 DEF Record, Same, Fields
  <2>c. z \in Record
    BY <2>a, Members, ZenonT(60) DEF Record
  <2>0. z \in Record /\ z.req = "none" /\ z.byes = 0 /\ z.refs = s.refs
        /\ z.failc = 0 /\ z.terminated = 2
        /\ Same(z, s, {"terminated", "failc"})
    BY <1>0, <2>a, <2>b, <2>c DEF Record, Same, Fields
  <2>1. CASE ok
    <3>1. b = [z EXCEPT !.req = "bye"]
      BY <2>0, <2>1 DEF sipsess_bye
    <3>2. b.req = "bye" /\ b.refs = s.refs /\ b.byes = 0
      BY <2>0, <3>1 DEF Record
    <3>3. o = [b EXCEPT !.refs = b.refs + 1, !.byes = b.byes + 1]
      BY <1>2, <3>2 DEF terminate
    <3> HIDE DEF z, b, o
    <3>4. o = [z EXCEPT !.req = "bye", !.refs = s.refs + 1, !.byes = 1]
      BY <2>0, <3>1, <3>2, <3>3
    <3>5. o \in Record
      <4>1. s.refs + 1 \in Refs
        BY <1>0 DEF Refs
      <4> QED
        BY <2>0, <3>4, <4>1, Members DEF Record
    <3>6. /\ o.req = "bye" /\ o.refs = s.refs + 1 /\ o.byes = 1
          /\ Same(o, z, {"req", "refs", "byes"})
      BY <2>0, <3>4 DEF Record, Same, Fields
    <3>7. Rest(o)
      BY <1>0, <2>0, <3>5, <3>6 DEF Rest, Same, Fields, Said
    <3> QED
      BY <1>0, <1>2, <2>0, <3>6, <3>7 DEF Owed, Hold, One, Same, Fields, o
  <2>2. CASE ~ok
    <3>1. b = z
      BY <2>2 DEF sipsess_bye
    <3>2. o = [t EXCEPT !.byefail = TRUE]
      BY <1>2, <2>0, <2>2, <3>1 DEF terminate
    <3>3. o \in Record
      BY <2>a, <3>2, ZenonT(60) DEF Record
    <3>4. /\ o.terminated = 2 /\ o.byefail = TRUE
          /\ Same(o, s, {"terminated", "byefail"})
      BY <1>0, <3>2, ZenonT(60) DEF Record, Same, Fields
    <3> HIDE DEF o
    <3>5. Rest(o)
      BY <1>0, <3>3, <3>4 DEF Rest, Same, Fields, Said
    <3> QED
      BY <1>0, <1>2, <3>4, <3>5 DEF Owed, Hold, One, Same, Fields, o
  <2> QED
    BY <2>1, <2>2
<1> QED
  BY <1>0, <1>1, <1>2 DEF Record

(* What is left of s once a reference of it has been given back.           *)
Left(o, s) ==
    /\ Ok(o) /\ o.terminated # 0
    /\ o.held = s.held /\ o.told = s.told /\ o.requestl = s.requestl
    /\ s.held => o.alive

(* The end of the destructor.                                              *)
LEMMA Destroyed ==
    ASSUME NEW u, Rest(u), u.terminated # 0, u.terminated = 1 => u.refs > 0,
           ~u.held, u.refs = Owed(u)
    PROVE  Left([u EXCEPT !.alive = (u.refs > 0)], u)
<1> DEFINE o == [u EXCEPT !.alive = (u.refs > 0)]
<1>0. u \in Record
  BY DEF Rest
<1>1. o \in Record
  <2>1. (u.refs > 0) \in BOOLEAN
    OBVIOUS
  <2> QED
    BY <1>0, <2>1 DEF Record
<1>2. o.alive = (u.refs > 0) /\ Same(o, u, {"alive"})
  BY <1>0 DEF Record, Same, Fields
<1> HIDE DEF o
<1>a. /\ o.alive <=> u.refs > 0
      /\ o.refs = u.refs /\ ~o.held /\ o.terminated # 0 /\ o.st = u.st
      /\ o.tmr = u.tmr /\ Hold(o) = 0
  BY <1>2 DEF Same, Fields, Hold, One
<1>3. Rest(o)
  BY <1>1, <1>2 DEF Rest, Same, Fields, Said
<1>4. Owed(o) = Owed(u) 
  BY <1>2 DEF Owed, Same, Fields, Hold, One
<1>5. Owed(u) \in 0..3
  BY OwedIs
<1>6. CASE u.refs > 0
  <2>1. Counted(o)
    BY <1>a, <1>4, <1>5, <1>6 DEF Counted
  <2> QED
    BY <1>2, <1>3, <2>1 DEF Left, Ok, Same, Fields, o
<1>7. CASE u.refs = 0
  <2>1. u.terminated = 2 /\ Said(u)
    BY <1>0, <1>7 DEF Rest, Record, Stages
  <2>2. Said(o) /\ ~u.st /\ ~u.tmr
    BY <1>2, <2>1 DEF Same, Fields, Said, Rest
  <2>3. Dead(o)
    BY <1>a, <1>4, <1>7, <2>2 DEF Dead
  <2> QED
    BY <1>2, <1>3, <2>3 DEF Left, Ok, Same, Fields, o
<1> QED
  BY <1>5, <1>6, <1>7

LEMMA Deref ==
    ASSUME NEW s, Rest(s), s.alive, s.terminated # 0,
           s.refs = Hold(s) + Owed(s) + 1, NEW ok \in BOOLEAN
    PROVE  Left(mem_deref(s, ok), s)
<1>0. s \in Record /\ Owed(s) \in 0..3 /\ Hold(s) \in {0, 1}
      /\ s.terminated \in {1, 2}
  BY OwedIs, HoldType DEF Rest, Record, Stages
<1>1. CASE s.refs # 1
  <2> DEFINE o == [s EXCEPT !.refs = s.refs - 1]
  <2>1. mem_deref(s, ok) = o
    BY <1>1 DEF mem_deref
  <2>2. s.refs - 1 \in Refs /\ s.refs - 1 > 0
    BY <1>0, <1>1 DEF Refs, Record
  <2>3. o \in Record
    BY <1>0, <2>2 DEF Record
  <2>4. o.refs = s.refs - 1 /\ Same(o, s, {"refs"})
    BY <1>0 DEF Record, Same, Fields
  <2> HIDE DEF o
  <2>5. Rest(o)
    BY <2>3, <2>4 DEF Rest, Same, Fields, Said
  <2>6. Owed(o) = Owed(s) /\ Hold(o) = Hold(s)
    BY <2>4, SameHold DEF Owed, Same, Fields
  <2>7. Counted(o)
    BY <1>0, <2>2, <2>4, <2>6 DEF Counted, Same, Fields
  <2> QED
    BY <2>1, <2>4, <2>5, <2>7 DEF Left, Ok, Same, Fields
<1>2. CASE s.refs = 1
  <2> DEFINE z == [s EXCEPT !.refs = 0]
  <2>1. z \in Record
    BY <1>0, Members DEF Record
  <2>2. z.refs = 0 /\ Same(z, s, {"refs"})
    BY <1>0 DEF Record, Same, Fields
  <2>3. mem_deref(s, ok) = destructor(z, ok)
    BY <1>2 DEF mem_deref
  <2> HIDE DEF z
  <2>4. Rest(z) /\ Owed(z) = 0 /\ ~s.held /\ ~z.held /\ Hold(z) = 0
    <3>1. Hold(s) = 0 /\ Owed(s) = 0
      BY <1>0, <1>2
    <3>2. ~s.held
      BY <3>1 DEF Hold, One
    <3>3. Owed(z) = Owed(s)
      BY <2>2 DEF Owed, Same, Fields
    <3>4. Rest(z)
      BY <2>1, <2>2 DEF Rest, Same, Fields, Said
    <3> QED
      BY <2>2, <3>1, <3>2, <3>3, <3>4 DEF Same, Fields, Hold, One
  <2>5. /\ z.terminated = s.terminated /\ z.told = s.told /\ z.held = s.held
        /\ z.requestl = s.requestl
    BY <2>2 DEF Same, Fields
  <2>6. CASE s.terminated = 1
    <3> DEFINE u == terminate(z, ok)
    <3>1. /\ Rest(u) /\ u.terminated = 2 /\ u.refs = Hold(u) + Owed(u)
          /\ u.held = z.held /\ u.told = z.told /\ u.requestl = z.requestl
      BY <2>2, <2>4, <2>5, <2>6, Terminated
    <3>2. mem_deref(s, ok) = [u EXCEPT !.alive = (u.refs > 0)]
      BY <2>2, <2>3, <2>5, <2>6 DEF destructor
    <3> HIDE DEF u
    <3>3. Left([u EXCEPT !.alive = (u.refs > 0)], u)
      <4>1. u.refs = Owed(u)
        BY <2>4, <3>1, OwedIs, HoldType
      <4> QED
        BY <2>4, <3>1, <4>1, Destroyed
    <3> QED
      BY <2>4, <2>5, <3>1, <3>2, <3>3 DEF Left
  <2>7. CASE s.terminated = 2
    <3>1. mem_deref(s, ok) = [z EXCEPT !.alive = (z.refs > 0)]
      BY <2>3, <2>5, <2>7 DEF destructor
    <3>2. Left([z EXCEPT !.alive = (z.refs > 0)], z)
      BY <2>2, <2>4, <2>5, <2>7, Destroyed
    <3> QED
      BY <2>4, <2>5, <3>1, <3>2 DEF Left
  <2> QED
    BY <1>0, <2>6, <2>7
<1> QED
  BY <1>1, <1>2

(* termwait: the references of what is still under way.                    *)
LEMMA Termwaited ==
    ASSUME NEW s, Rest(s), s.terminated = 0, s.refs \in {0, 1}
    PROVE  LET t == termwait(s) IN
           /\ Rest(t) /\ t.terminated = 1 /\ t.refs = s.refs + Owed(t)
           /\ Owed(t) = Owed(s)
           /\ Same(t, s, {"terminated", "tmr", "st", "refs"})
<1> DEFINE t == termwait(s)
<1>0. s \in Record /\ Owed(s) \in 0..3 /\ Count(s) = Owed(s)
  BY OwedIs DEF Rest
<1>1. s.refs + Count(s) \in Refs
  BY <1>0 DEF Refs
<1>2. t \in Record
  BY <1>0, <1>1, Members DEF termwait, Record
<1>3. /\ t.terminated = 1 /\ t.tmr = FALSE /\ t.st = FALSE
      /\ t.refs = s.refs + Owed(s)
      /\ Same(t, s, {"terminated", "tmr", "st", "refs"})
  BY <1>0 DEF termwait, Record, Same, Fields
<1> HIDE DEF t
<1>4. Rest(t)
  BY <1>2, <1>3 DEF Rest, Same, Fields, Said
<1>5. Owed(t) = Owed(s)
  BY <1>3 DEF Owed, Same, Fields
<1> QED
  BY <1>3, <1>4, <1>5 DEF t

(* The last reference of a session that was not being taken down.          *)
LEMMA Released ==
    ASSUME NEW s, Rest(s), s.terminated = 0, s.refs = 1, ~s.held,
           NEW ok \in BOOLEAN
    PROVE  LET o == mem_deref(s, ok)
           IN  Left(o, s) /\ (Owed(s) = 0 /\ ~s.established => ~o.alive)
<1> DEFINE z == [s EXCEPT !.refs = 0]
           t == termwait(z)
<1>0. s \in Record
  BY DEF Rest
<1>1. z \in Record
  BY <1>0, Members DEF Record
<1>2. z.refs = 0 /\ Same(z, s, {"refs"})
  BY <1>0 DEF Record, Same, Fields
<1>3. mem_deref(s, ok) = destructor(z, ok)
  BY DEF mem_deref
<1> HIDE DEF z
<1>4. Rest(z) /\ z.terminated = 0
  BY <1>1, <1>2 DEF Rest, Same, Fields, Said
<1>5. /\ Rest(t) /\ t.terminated = 1 /\ t.refs = z.refs + Owed(t)
      /\ Same(t, z, {"terminated", "tmr", "st", "refs"})
  BY <1>2, <1>4, Termwaited
<1>6. Owed(t) \in 0..3 /\ t.refs = Owed(t)
  BY <1>2, <1>5, OwedIs
<1>7. ~t.held /\ t.held = s.held /\ t.told = s.told /\ t.requestl = s.requestl
      /\ t.established = s.established /\ Owed(t) = Owed(s)
  BY <1>2, <1>5 DEF Same, Fields, Owed
<1>8. destructor(z, ok) =
         LET u == IF t.terminated = 1 /\ t.refs = 0 THEN terminate(t, ok) ELSE t
         IN  [u EXCEPT !.alive = (u.refs > 0)]
  BY <1>4 DEF destructor
<1> HIDE DEF t
<1>9. CASE t.refs = 0
  <2> DEFINE u == terminate(t, ok)
  <2>1. Hold(t) = 0
    BY <1>7 DEF Hold, One
  <2>2. /\ Rest(u) /\ u.terminated = 2 /\ u.refs = Hold(u) + Owed(u)
        /\ u.held = t.held /\ u.told = t.told /\ u.requestl = t.requestl
        /\ ~t.established => Owed(u) = 0
    BY <1>5, <1>6, <1>9, <2>1, Terminated
  <2>3. mem_deref(s, ok) = [u EXCEPT !.alive = (u.refs > 0)]
    BY <1>3, <1>5, <1>8, <1>9
  <2> HIDE DEF u
  <2>4. u.refs = Owed(u)
    BY <1>7, <2>2, OwedIs, HoldType
  <2>5. Left([u EXCEPT !.alive = (u.refs > 0)], u)
    BY <1>7, <2>2, <2>4, Destroyed
  <2>6. u.refs = 0 => ~[u EXCEPT !.alive = (u.refs > 0)].alive
    BY <2>2 DEF Rest, Record
  <2> QED
    BY <1>7, <2>2, <2>3, <2>4, <2>5, <2>6 DEF Left
<1>10. CASE t.refs # 0
  <2>1. mem_deref(s, ok) = [t EXCEPT !.alive = (t.refs > 0)]
    BY <1>3, <1>8, <1>10
  <2>2. Left([t EXCEPT !.alive = (t.refs > 0)], t)
    BY <1>5, <1>6, <1>7, <1>10, Destroyed
  <2> QED
    BY <1>6, <1>7, <1>10, <2>1, <2>2 DEF Left
<1> QED
  BY <1>9, <1>10

(* The holder gives the session up.                                        *)
LEMMA GivenUp ==
    ASSUME NEW s, Ok(s), s.held, NEW ok \in BOOLEAN
    PROVE  LET o == mem_deref([s EXCEPT !.held = FALSE], ok) IN
           /\ Ok(o) /\ o.terminated # 0 /\ ~o.held
           /\ o.told = s.told /\ o.requestl = s.requestl
<1> DEFINE h == [s EXCEPT !.held = FALSE]
<1>0. s \in Record /\ Counted(s) /\ Rest(s)
  BY DEF Ok, Rest, Dead
<1>1. h \in Record
  BY <1>0 DEF Record
<1>2. h.held = FALSE /\ Same(h, s, {"held"})
  BY <1>0 DEF Record, Same, Fields
<1> HIDE DEF h
<1>3. Rest(h)
  BY <1>0, <1>1, <1>2 DEF Rest, Same, Fields, Said
<1>4. Left(mem_deref(h, ok), h)
  <2>1. CASE s.terminated = 0
    <3>1. h.terminated = 0 /\ h.refs = 1
      BY <1>0, <1>2, <2>1 DEF Same, Fields, Counted
    <3> QED
      BY <1>2, <1>3, <3>1, Released
  <2>2. CASE s.terminated # 0
    <3>1. Hold(s) = 1 /\ Hold(h) = 0
      BY <1>2 DEF Hold, One
    <3>2. Owed(h) = Owed(s) /\ Owed(s) \in 0..3
      BY <1>2, OwedIs DEF Owed, Same, Fields
    <3>a. s.alive /\ s.refs = 1 + Owed(s)
      BY <1>0, <2>2, <3>1 DEF Counted
    <3>b. h.alive = s.alive /\ h.refs = s.refs /\ h.terminated = s.terminated
      BY <1>2 DEF Same, Fields
    <3>3. h.terminated # 0 /\ h.alive /\ h.refs = Hold(h) + Owed(h) + 1
      BY <2>2, <3>1, <3>2, <3>a, <3>b
    <3> QED
      BY <1>3, <3>3, Deref
  <2> QED
    BY <2>1, <2>2
<1>5. h.told = s.told /\ h.requestl = s.requestl
  BY <1>2 DEF Same, Fields
<1> QED
  BY <1>2, <1>4, <1>5 DEF Left, h

LEMMA HandlerOk ==
    ASSUME NEW s, Ok(s), NEW drop \in BOOLEAN, drop => s.held, NEW ok \in BOOLEAN
    PROVE  LET o == Handler(s, drop, ok) IN
           /\ Ok(o) /\ o.told = s.told /\ o.requestl = s.requestl
           /\ o.held <=> s.held /\ ~drop
           /\ drop => o.terminated # 0
           /\ ~drop => o = s
<1>1. CASE drop
  BY <1>1, GivenUp DEF Handler
<1>2. CASE ~drop
  BY <1>2 DEF Handler
<1> QED
  BY <1>1, <1>2

LEMMA Append1 ==
    ASSUME NEW t \in Tells, NEW w \in {"up", "closed"}
    PROVE  Append(t, w) \in Tells
  BY DEF Tells

(* sipsess_terminate, of a session that is up or coming up.                *)
LEMMA TerminateOk ==
    ASSUME NEW s, Rest(s), s.alive, s.terminated = 0, s.held, s.refs = 1,
           NEW drop \in BOOLEAN, NEW ok \in BOOLEAN
    PROVE  LET o == sipsess_terminate(s, drop, ok) IN
           /\ Ok(o) /\ o.terminated # 0 /\ (o.held <=> ~drop)
           /\ o.told = Append(s.told, "closed") /\ o.requestl = s.requestl
<1> DEFINE t == termwait(s)
           u == IF Waits(s) = {} THEN terminate(t, ok) ELSE t
           v == [u EXCEPT !.told = Append(u.told, "closed")]
<1>1. sipsess_terminate(s, drop, ok) = Handler(v, drop, ok)
  BY DEF sipsess_terminate
<1>2. /\ Rest(t) /\ t.terminated = 1 /\ t.refs = s.refs + Owed(t) /\ Owed(t) = Owed(s)
      /\ Same(t, s, {"terminated", "tmr", "st", "refs"})
  BY Termwaited
<1>3. /\ t.alive /\ t.held /\ t.told = s.told
      /\ t.requestl = s.requestl
  BY <1>2 DEF Same, Fields
<1>4. Hold(t) = 1 /\ Owed(t) \in 0..3
  BY <1>3, OwedIs DEF Hold, One
<1> HIDE DEF t
<1>5. /\ Rest(u) /\ u.terminated # 0 /\ u.refs = Hold(u) + Owed(u)
      /\ u.alive /\ u.held /\ u.told = s.told
      /\ u.requestl = s.requestl
  <2>1. CASE Waits(s) = {}
    <3>1. u = terminate(t, ok)
      BY <2>1
    <3> HIDE DEF u, v
    <3>2. Owed(t) = 0
      BY <1>2, <2>1, OwedIs
    <3>3. t.refs = Hold(t)
      BY <1>2, <1>4, <3>2
    <3> QED
      BY <1>2, <1>3, <3>1, <3>2, <3>3, Terminated
  <2>2. CASE Waits(s) # {}
    <3>1. u = t
      BY <2>2
    <3> HIDE DEF u, v
    <3> QED
      BY <1>2, <1>3, <1>4, <3>1
  <2> QED
    BY <2>1, <2>2
<1> HIDE DEF u
<1>6. u \in Record /\ Append(u.told, "closed") \in Tells /\ Owed(u) \in 0..3
  <2>1. u \in Record
    BY <1>5 DEF Rest
  <2>2. u.told \in Tells
    BY <2>1 DEF Record
  <2> QED
    BY <2>1, <2>2, Append1, OwedIs
<1>7. v \in Record
  BY <1>6 DEF Record
<1>8. v.told = Append(u.told, "closed") /\ Same(v, u, {"told"})
  BY <1>6 DEF Record, Same, Fields
<1> HIDE DEF v
<1>9. Rest(v)
  BY <1>5, <1>7, <1>8 DEF Rest, Same, Fields, Said
<1>10. Counted(v)
  <2>1. Owed(v) = Owed(u)
    BY <1>8 DEF Owed, Same, Fields
  <2>2. Hold(u) = 1 /\ Hold(v) = 1
    BY <1>5, <1>8 DEF Hold, One, Same, Fields
  <2>3. v.alive /\ v.terminated # 0 /\ v.refs = u.refs
    BY <1>5, <1>8 DEF Same, Fields
  <2> QED
    BY <1>5, <1>6, <2>1, <2>2, <2>3 DEF Counted
<1>11. v.told = Append(s.told, "closed") /\ v.requestl = s.requestl /\ v.held
       /\ v.terminated # 0
  BY <1>5, <1>8 DEF Same, Fields
<1>12. Ok(v)
  BY <1>9, <1>10 DEF Ok
<1>13. LET o == Handler(v, drop, ok) IN
       /\ Ok(o) /\ o.told = v.told /\ o.requestl = v.requestl
       /\ o.held <=> v.held /\ ~drop
       /\ drop => o.terminated # 0
       /\ ~drop => o = v
  BY <1>11, <1>12, HandlerOk
<1> QED
  BY <1>1, <1>11, <1>13

(* The end of a response or of a timeout: taken down, or a reference less. *)
LEMMA OutOk ==
    ASSUME NEW s, Rest(s), s.alive,
           s.terminated = 0 => s.held /\ s.refs = 1,
           s.terminated # 0 => s.refs = Hold(s) + Owed(s) + 1,
           NEW drop \in BOOLEAN, NEW ok \in BOOLEAN
    PROVE  LET o == Out(s, drop, ok) IN
           /\ Ok(o) /\ o.requestl = s.requestl
           /\ s.terminated = 0 => o.told = Append(s.told, "closed")
           /\ s.terminated # 0 => o.told = s.told /\ o.held = s.held
<1>1. CASE s.terminated = 0
  <2>1. Out(s, drop, ok) = sipsess_terminate(s, drop, ok)
    BY <1>1 DEF Out
  <2> QED
    BY <1>1, <2>1, TerminateOk
<1>2. CASE s.terminated # 0
  <2>1. Out(s, drop, ok) = mem_deref(s, ok)
    BY <1>2 DEF Out
  <2> QED
    BY <1>2, <2>1, Deref DEF Left
<1> QED
  BY <1>1, <1>2

(* A session put to the state o: the holder is told, gives it up, or       *)
(* neither.                                                                *)
Advance(o) ==
    /\ sess.alive /\ Ok(o)
    /\ \/ o.told = sess.told /\ o.held = sess.held
       \/ sess.held /\ ~o.held /\ o.told = sess.told
       \/ sess.held /\ sess.told = <<>> /\ o.told = Append(sess.told, "up")
       \/ /\ sess.held /\ sess.told \in {<<>>, <<"up">>}
          /\ o.told = Append(sess.told, "closed")

SessStep == Contract!Next \/ UNCHANGED Contract!vars

LEMMA Advances == ASSUME Inv, Advance(sess') PROVE Inv' /\ SessStep
<1>1. Ok(sess)' /\ Inv'
  BY DEF Advance, Inv, Ok, Rest, Dead, Counted, Live, Due, Known, Modifies, Said,
         Owed, Hold, Some
<1> SUFFICES SessStep
  BY <1>1
<1>2. sess'.held => sess'.alive
  BY DEF Advance, Ok, Dead, Counted
<1>3. sess'.held \in BOOLEAN /\ sess'.alive \in BOOLEAN
  BY DEF Advance, Ok, Rest, Record
<1>4. sess.held \in BOOLEAN /\ sess.alive \in BOOLEAN
  BY DEF Inv, Ok, Rest, Record
<1>5. CASE sess'.told = sess.told /\ sess'.held = sess.held
  BY <1>2, <1>3, <1>4, <1>5
  DEF Advance, SessStep, Contract!Next, Contract!vars, Contract!Free
<1>6. CASE sess.held /\ ~sess'.held /\ sess'.told = sess.told
  BY <1>2, <1>3, <1>4, <1>6
  DEF Advance, SessStep, Contract!Next, Contract!vars, Contract!Drop
<1>7. CASE sess.held /\ sess.told = <<>> /\ sess'.told = Append(sess.told, "up")
  BY <1>2, <1>3, <1>4, <1>7
  DEF Advance, SessStep, Contract!Next, Contract!Up, Contract!Tell
<1>8. CASE /\ sess.held /\ sess.told \in {<<>>, <<"up">>}
           /\ sess'.told = Append(sess.told, "closed")
  BY <1>2, <1>3, <1>4, <1>8
  DEF Advance, SessStep, Contract!Next, Contract!Closed, Contract!Tell
<1> QED
  BY <1>1, <1>5, <1>6, <1>7, <1>8 DEF Advance

(* Something is under way, so the session exists.                          *)
LEMMA Exists ==
    ASSUME Inv,
           \/ sess.alive \/ sess.held \/ sess.st \/ sess.tmr \/ sess.req # "none"
           \/ sess.replyl # <<>> \/ Some(sess.requestl)
    PROVE  /\ sess \in Record /\ Rest(sess) /\ sess.alive /\ Counted(sess)
           /\ sess.terminated = 0 =>
                sess.held /\ sess.refs = 1 /\ Live(sess) /\ sess.told \in {<<>>, <<"up">>}
           /\ sess.terminated # 0 => sess.refs = Hold(sess) + Owed(sess)
<1>1. Rest(sess) /\ Counted(sess)
  BY OwedIs DEF Inv, Ok, Dead
<1> QED
  BY <1>1 DEF Counted, Rest, Live, Known

(* Out, sipsess_terminate and mem_deref in a handler that has changed      *)
(* nothing its holder sees.                                                *)
Unseen(s) ==
    /\ Rest(s) /\ s.terminated = sess.terminated /\ s.alive = sess.alive
    /\ s.held = sess.held /\ s.told = sess.told /\ s.refs = sess.refs

LEMMA OutAdvances ==
    ASSUME Inv, sess.alive, NEW s, Unseen(s),
           s.terminated # 0 => s.refs = Hold(s) + Owed(s) + 1,
           NEW d \in BOOLEAN, NEW bye \in BOOLEAN
    PROVE  /\ Advance(Out(s, d, bye))
           /\ s.terminated = 0 => Advance(sipsess_terminate(s, d, bye))
           /\ s.terminated # 0 => Advance(mem_deref(s, bye))
<1>1. /\ sess.terminated = 0 => /\ sess.held /\ sess.refs = 1
                                /\ sess.told \in {<<>>, <<"up">>}
  BY Exists
<1>2. /\ Rest(s) /\ s.alive /\ (s.terminated = 0 => s.held /\ s.refs = 1)
      /\ s.told = sess.told /\ s.held = sess.held /\ s.terminated = sess.terminated
  BY <1>1 DEF Unseen
<1>3. LET o == Out(s, d, bye) IN
      /\ Ok(o) /\ o.requestl = s.requestl
      /\ s.terminated = 0 => o.told = Append(s.told, "closed")
      /\ s.terminated # 0 => o.told = s.told /\ o.held = s.held
  BY <1>2, OutOk
<1>4. Advance(Out(s, d, bye))
  BY <1>1, <1>2, <1>3 DEF Advance
<1>5. /\ s.terminated = 0 => Out(s, d, bye) = sipsess_terminate(s, d, bye)
      /\ s.terminated # 0 => Out(s, d, bye) = mem_deref(s, bye)
  BY DEF Out
<1> QED
  BY <1>4, <1>5
-----------------------------------------------------------------------------
(* The holder's actions.                                                   *)

LEMMA DropInv == ASSUME Inv, NEW bye \in BOOLEAN, Drop(bye) PROVE Advance(sess')
  BY Exists, GivenUp DEF Drop, Advance, Inv

LEMMA RejectInv == ASSUME Inv, sipsess_reject PROVE Advance(sess')
<1>0. sess.held /\ sess.st /\ sess' = [sess EXCEPT !.st = FALSE, !.gaveup = TRUE]
  BY DEF sipsess_reject
<1>1. /\ sess \in Record /\ Rest(sess) /\ sess.alive /\ Counted(sess)
      /\ sess.terminated = 0
  BY <1>0, Exists DEF Rest
<1>2. sess' \in Record
  BY <1>0, <1>1 DEF Record
<1>3. sess'.st = FALSE /\ sess'.gaveup = TRUE /\ Same(sess', sess, {"st", "gaveup"})
  BY <1>0, <1>1 DEF Record, Same, Fields
<1>4. Rest(sess')
  BY <1>1, <1>2, <1>3 DEF Rest, Same, Fields, Said
<1>5. Counted(sess')
  BY <1>0, <1>1, <1>3
  DEF Counted, Live, Due, Known, Modifies, Rest, Same, Fields
<1> QED
  BY <1>1, <1>3, <1>4, <1>5 DEF Advance, Ok, Same, Fields

LEMMA AnswerInv == ASSUME Inv, sipsess_answer PROVE Advance(sess')
<1>0. sess.held /\ sess.st
  BY DEF sipsess_answer
<1>1. /\ sess \in Record /\ Rest(sess) /\ sess.alive /\ Counted(sess)
      /\ sess.terminated = 0 /\ sess.replyl = <<>> /\ sess.awaiting_answer = FALSE
  <2>1. sess \in Record /\ Rest(sess) /\ sess.alive /\ Counted(sess)
    BY <1>0, Exists
  <2>2. sess.awaiting_answer \in BOOLEAN
    BY <2>1 DEF Record
  <2> QED
    BY <1>0, <2>1, <2>2 DEF Rest
<1>2. PICK aw \in BOOLEAN, ok \in BOOLEAN :
         sess' = [sipsess_reply_2xx(sess, aw, ok) EXCEPT !.gaveup = ~ok]
  BY DEF sipsess_answer
<1>3. CASE ok
  <2> DEFINE r == [sess EXCEPT !.st = FALSE, !.replyl = Append(sess.replyl, aw),
                    !.awaiting_answer = sess.awaiting_answer \/ aw, !.answered = TRUE]
  <2>1. sess' = [r EXCEPT !.gaveup = FALSE]
    BY <1>2, <1>3 DEF sipsess_reply_2xx
  <2>2. Append(sess.replyl, aw) = <<aw>> /\ <<aw>> \in Replies
    BY <1>1 DEF Replies
  <2>3. (sess.awaiting_answer \/ aw) = aw
    BY <1>1
  <2>4. r \in Record
    BY <1>1, <2>2, <2>3, ZenonT(60) DEF Record
  <2>5. /\ r.st = FALSE /\ r.replyl = <<aw>> /\ r.awaiting_answer = aw /\ r.answered = TRUE
        /\ Same(r, sess, {"st", "replyl", "awaiting_answer", "answered"})
    BY <1>1, <2>2, <2>3 DEF Record, Same, Fields
  <2> HIDE DEF r
  <2>6. sess' \in Record
    BY <2>1, <2>4 DEF Record
  <2>7. Same(sess', r, {"gaveup"})
    BY <2>1, <2>4 DEF Record, Same, Fields
  <2>8. /\ Len(<<aw>>) = 1 /\ <<aw>> # <<>> /\ DOMAIN <<aw>> = {1} /\ <<aw>>[1] = aw
        /\ 1 <= MaxReplies
    BY BoundsAssumption
  <2>a. /\ sess'.st = FALSE /\ sess'.replyl = <<aw>> /\ sess'.answered = TRUE
        /\ Same(sess', sess, {"st", "replyl", "awaiting_answer", "answered", "gaveup"})
    BY <2>5, <2>7 DEF Same, Fields
  <2>9. Rest(sess')
    BY <1>0, <1>1, <2>6, <2>8, <2>a DEF Rest, Same, Fields, Said
  <2>10. Due(sess')
    BY <2>5, <2>7, <2>8 DEF Due, Same, Fields
  <2>11. Counted(sess')
    BY <1>0, <1>1, <2>5, <2>7, <2>8, <2>10
    DEF Counted, Live, Known, Modifies, Rest, Same, Fields
  <2> QED
    BY <1>1, <2>5, <2>7, <2>9, <2>11 DEF Advance, Ok, Same, Fields
<1>4. CASE ~ok
  <2>1. sess' = [sess EXCEPT !.st = FALSE, !.gaveup = TRUE]
    BY <1>1, <1>2, <1>4 DEF sipsess_reply_2xx, Record
  <2> QED
    BY <1>0, <2>1, RejectInv DEF sipsess_reject
<1> QED
  BY <1>3, <1>4

(* sipsess_reinvite on a session that may begin a re-INVITE.               *)
LEMMA Reinvite ==
    ASSUME NEW s, Rest(s), s.terminated = 0, s.replyl = <<>>, ~s.st,
           NEW ok \in BOOLEAN
    PROVE  LET o == sipsess_reinvite(s, TRUE, ok) IN
           /\ Rest(o) /\ Modifies(o)
           /\ Same(o, s, {"modify_pending", "failc", "req"})
           /\ s.req # "none" => o.req = s.req
           /\ s.req = "none" => o.req \in {"reinvite", "none"}
<1> DEFINE o == sipsess_reinvite(s, TRUE, ok)
<1>0. s \in Record
  BY DEF Rest
<1>1. CASE s.req # "none"
  <2>1. o = s
    BY <1>1 DEF sipsess_reinvite
  <2> QED
    BY <1>1, <2>1 DEF Same, Modifies
<1>2. CASE s.req = "none"
  <2> DEFINE q == IF ok THEN "reinvite" ELSE "none"
  <2>1. o = [s EXCEPT !.sent_offer = s.desc, !.modify_pending = FALSE, !.failc = 0,
                      !.req = q]
    BY <1>2 DEF sipsess_reinvite
  <2>2. q \in Reqs /\ q \in {"reinvite", "none"} /\ s.desc \in BOOLEAN
    BY <1>0, Members DEF Record
  <2> HIDE DEF q
  <2>3. o \in Record
    <3> DEFINE m == [s EXCEPT !.sent_offer = s.desc, !.modify_pending = FALSE]
    <3>1. m \in Record
      BY <1>0, <2>2 DEF Record
    <3>2. o = [m EXCEPT !.failc = 0, !.req = q]
      BY <2>1
    <3> HIDE DEF m, o
    <3> QED
      BY <2>2, <3>1, <3>2, Members DEF Record
  <2>4. /\ o.modify_pending = FALSE /\ o.failc = 0 /\ o.req = q
        /\ Same(o, s, {"modify_pending", "failc", "req"})
    BY <1>0, <2>1 DEF Record, Same, Fields
  <2> HIDE DEF o
  <2>5. Rest(o)
    BY <2>2, <2>3, <2>4, BoundsAssumption DEF Rest, Same, Fields, Said
  <2> QED
    BY <1>2, <2>2, <2>4, <2>5 DEF Modifies, o
<1> QED
  BY <1>1, <1>2

LEMMA ReinviteAdvances ==
    ASSUME Inv, sess.alive, NEW s, Unseen(s), s.terminated = 0, Due(s), Known(s),
           s.replyl = <<>>, ~s.st, NEW ok \in BOOLEAN
    PROVE  Advance(sipsess_reinvite(s, TRUE, ok))
<1> DEFINE o == sipsess_reinvite(s, TRUE, ok)
<1>1. /\ Rest(o) /\ Modifies(o) /\ Same(o, s, {"modify_pending", "failc", "req"})
      /\ s.req # "none" => o.req = s.req
      /\ s.req = "none" => o.req \in {"reinvite", "none"}
  BY Reinvite DEF Unseen
<1> HIDE DEF o
<1>2. Due(o) /\ Known(o)
  BY <1>1 DEF Due, Known, Same, Fields
<1>3. /\ o.alive = sess.alive /\ o.terminated = 0 /\ o.held = sess.held
      /\ o.refs = sess.refs /\ o.told = sess.told /\ sess.terminated = 0
  BY <1>1 DEF Unseen, Same, Fields
<1>4. sess.held /\ sess.refs = 1
  BY <1>3, Exists
<1>5. Counted(o)
  BY <1>1, <1>2, <1>3, <1>4 DEF Counted, Live
<1> QED
  BY <1>1, <1>3, <1>5 DEF Advance, Ok, o

LEMMA ModifyInv ==
    ASSUME Inv, NEW offer \in BOOLEAN, NEW ok \in BOOLEAN, sipsess_modify(offer, ok)
    PROVE  Advance(sess')
<1> DEFINE s == [sess EXCEPT !.desc = offer]
<1>0. sess.held /\ ~sess.st /\ sess.terminated = 0
  BY DEF sipsess_modify
<1>1. /\ sess \in Record /\ Rest(sess) /\ sess.alive /\ Live(sess) /\ sess.refs = 1
  BY <1>0, Exists
<1>2. s \in Record
  BY <1>1 DEF Record
<1>3. Same(s, sess, {})
  BY <1>1 DEF Record, Same, Fields
<1>4. sess' = IF s.req # "none" \/ s.tmr \/ s.replyl # <<>>
              THEN [s EXCEPT !.modify_pending = TRUE]
              ELSE sipsess_reinvite(s, TRUE, ok)
  BY DEF sipsess_modify
<1> HIDE DEF s
<1>5. /\ Rest(s) /\ s.alive /\ s.terminated = 0 /\ s.held /\ s.refs = 1 /\ ~s.st
      /\ Due(s) /\ Known(s) /\ s.told = sess.told /\ s.held = sess.held
      /\ Unseen(s)
  BY <1>0, <1>1, <1>2, <1>3, ZenonT(60) DEF Unseen, Rest, Live, Due, Known, Same, Fields, Said
<1>6. CASE s.req # "none" \/ s.tmr \/ s.replyl # <<>>
  <2>1. sess' = [s EXCEPT !.modify_pending = TRUE]
    BY <1>4, <1>6
  <2>2. sess' \in Record
    BY <1>2, <2>1 DEF Record
  <2>3. sess'.modify_pending = TRUE /\ Same(sess', s, {"modify_pending"})
    BY <1>2, <2>1 DEF Record, Same, Fields
  <2>4. Rest(sess')
    BY <1>5, <2>2, <2>3 DEF Rest, Same, Fields, Said
  <2>5. Counted(sess')
    BY <1>5, <1>6, <2>3 DEF Counted, Live, Due, Known, Modifies, Same, Fields
  <2> QED
    BY <1>1, <1>5, <2>3, <2>4, <2>5 DEF Advance, Ok, Same, Fields
<1>7. CASE ~(s.req # "none" \/ s.tmr \/ s.replyl # <<>>)
  BY <1>1, <1>4, <1>5, <1>7, ReinviteAdvances
<1> QED
  BY <1>6, <1>7

LEMMA InfoInv == ASSUME Inv, NEW i \in Info, sipsess_info(i) PROVE Advance(sess')
<1>0. /\ sess.held /\ sess.terminated = 0
      /\ sess' = [sess EXCEPT !.requestl = [sess.requestl EXCEPT ![i] = 1]]
  BY DEF sipsess_info
<1>1. sess \in Record /\ Rest(sess) /\ sess.alive /\ Counted(sess)
  BY <1>0, Exists
<1>2. [sess.requestl EXCEPT ![i] = 1] \in Requests
  <2>1. sess.requestl \in Requests /\ 1 \in 0..MaxFail
    BY <1>1, BoundsAssumption DEF Record
  <2> QED
    BY <2>1 DEF Requests
<1>3. sess' \in Record
  BY <1>0, <1>1, <1>2 DEF Record
<1>4. Same(sess', sess, {"requestl"})
  BY <1>0, <1>1 DEF Record, Same, Fields
<1>5. Rest(sess')
  BY <1>0, <1>1, <1>3, <1>4 DEF Rest, Same, Fields, Said
<1>6. Counted(sess')
  BY <1>0, <1>1, <1>4 DEF Counted, Live, Due, Known, Modifies, Same, Fields
<1> QED
  BY <1>1, <1>4, <1>5, <1>6 DEF Advance, Ok, Same, Fields

(* A new session, before its INVITE or its answer.                         *)
LEMMA NewOk ==
    ASSUME NEW d \in {"out", "in"}
    PROVE  LET n == New(d) IN
           /\ n \in Record /\ n.alive /\ n.refs = 1 /\ ~n.held /\ n.dir = d
           /\ n.terminated = 0 /\ ~n.established /\ ~n.peerterm /\ n.req = "none"
           /\ n.failc = 0 /\ ~n.st /\ n.replyl = <<>> /\ ~n.awaiting_answer
           /\ ~Some(n.requestl) /\ ~n.tmr /\ ~n.modify_pending /\ n.told = <<>>
           /\ ~n.answered /\ n.byes = 0 /\ ~n.byefail /\ ~n.gaveup
<1>1. [i \in Info |-> 0] \in Requests /\ ~Some([i \in Info |-> 0])
  BY BoundsAssumption DEF Requests, Some
<1>2. New(d) \in Record
  BY <1>1, Members DEF New, Record
<1> QED
  BY <1>1, <1>2 DEF New

(* A new session with its first INVITE or its answer, ok: handed over.     *)
Fresh(s) ==
    /\ s \in Record /\ s.alive /\ s.refs = 1 /\ ~s.held
    /\ s.terminated = 0 /\ ~s.established
    /\ ~s.peerterm /\ s.failc = 0 /\ ~Some(s.requestl) /\ ~s.tmr
    /\ ~s.modify_pending /\ s.told = <<>>
    /\ s.byes = 0 /\ ~s.byefail

LEMMA Created ==
    ASSUME Inv, ~sess.alive, NEW s, Fresh(s), Rest(s), NEW ok \in BOOLEAN,
           ok => Due(s) /\ Known(s),
           ~ok => Owed(s) = 0,
           sess' = IF ok THEN [s EXCEPT !.held = TRUE] ELSE mem_deref(s, TRUE)
    PROVE  Inv' /\ SessStep
<1>0. ~sess.held /\ sess.held \in BOOLEAN /\ sess.alive \in BOOLEAN
  BY DEF Inv, Ok, Dead, Counted, Rest, Record
<1>1. CASE ok
  <2>1. sess' = [s EXCEPT !.held = TRUE]
    BY <1>1
  <2>2. sess' \in Record
    BY <2>1 DEF Fresh, Record
  <2>3. sess'.held = TRUE /\ Same(sess', s, {"held"})
    BY <2>1, ZenonT(60) DEF Fresh, Record, Same, Fields
  <2>4. Rest(sess)'
    BY <2>2, <2>3, ZenonT(60) DEF Rest, Same, Fields, Said
  <2>5. Counted(sess)'
    BY <1>1, <2>3 DEF Counted, Live, Due, Known, Modifies, Same, Fields, Fresh
  <2>6. sess'.alive \in BOOLEAN /\ sess'.alive /\ sess'.told = <<>>
    <3>1. sess'.alive = s.alive /\ sess'.told = s.told
      BY <2>3 DEF Same, Fields
    <3>2. sess'.alive \in BOOLEAN
      BY <2>2 DEF Record
    <3> QED
      BY <3>1, <3>2 DEF Fresh
  <2>7. SessStep
    BY <1>0, <2>3, <2>6 DEF SessStep, Contract!Next, Contract!Create
  <2> QED
    BY <2>4, <2>5, <2>7 DEF Inv, Ok
<1>2. CASE ~ok
  <2>1. sess' = mem_deref(s, TRUE)
    BY <1>2
  <2>2. Left(sess', s) /\ ~sess'.alive
    BY <1>2, <2>1, Released DEF Fresh
  <2>3. sess'.held \in BOOLEAN /\ sess'.alive \in BOOLEAN /\ ~sess'.held
    BY <2>2 DEF Left, Ok, Rest, Record, Fresh
  <2>4. SessStep
    BY <1>0, <2>2, <2>3 DEF SessStep, Contract!vars
  <2>5. Inv'
    BY <2>2 DEF Left, Inv, Ok, Rest, Dead, Counted, Live, Due, Known, Modifies,
                Said, Owed, Hold, Some
  <2> QED
    BY <2>4, <2>5
<1> QED
  BY <1>1, <1>2

LEMMA ConnectInv == ASSUME Inv, sipsess_connect PROVE Inv' /\ SessStep
<1>0. ~sess.alive
  BY DEF sipsess_connect
<1>1. PICK offer \in BOOLEAN, ok \in BOOLEAN :
         LET s == invite([New("out") EXCEPT !.desc = offer], ok)
         IN  sess' = IF ok THEN [s EXCEPT !.held = TRUE] ELSE mem_deref(s, TRUE)
  BY DEF sipsess_connect
<1> DEFINE n == [New("out") EXCEPT !.desc = offer]
           q == IF ok THEN "invite" ELSE "none"
           s == [n EXCEPT !.sent_offer = n.desc, !.modify_pending = FALSE, !.req = q]
<1>2. invite(n, ok) = s
  BY DEF invite
<1>3. n \in Record /\ Same(n, New("out"), {})
  <2>1. New("out") \in Record
    BY NewOk
  <2> QED
    BY <2>1 DEF Record, Same, Fields
<1>4. q \in Reqs /\ n.desc \in BOOLEAN
  BY <1>3, Members DEF Record
<1>5. (ok => q = "invite") /\ (~ok => q = "none")
  OBVIOUS
<1> HIDE DEF n, q
<1>6. s \in Record
  BY <1>3, <1>4 DEF Record
<1>7. s.req = q /\ s.modify_pending = FALSE /\ Same(s, n, {"req", "modify_pending"})
  BY <1>3 DEF Record, Same, Fields
<1> HIDE DEF s
<1>8. /\ Fresh(s) /\ s.replyl = <<>> /\ ~s.awaiting_answer /\ ~s.answered /\ ~s.st
      /\ s.dir = "out" /\ s.req = q
  BY <1>3, <1>6, <1>7, NewOk DEF Fresh, Same, Fields
<1>9. Len(<<>>) = 0 /\ DOMAIN <<>> = {} /\ q \in {"invite", "none"}
  BY <1>5
<1>10. Rest(s)
  BY <1>8, <1>9, BoundsAssumption DEF Rest, Fresh, Said
<1>11. ok => Due(s) /\ Known(s)
  BY <1>5, <1>8, <1>9 DEF Due, Known, Fresh
<1>12. ~ok => Owed(s) = 0
  BY <1>5, <1>8, OwedIs DEF Fresh
<1>13. sess' = IF ok THEN [s EXCEPT !.held = TRUE] ELSE mem_deref(s, TRUE)
  BY <1>1, <1>2 DEF n
<1> QED
  BY <1>0, <1>8, <1>10, <1>11, <1>12, <1>13, Created

LEMMA AcceptInv ==
    ASSUME Inv, NEW final \in BOOLEAN, sipsess_accept(final) PROVE Inv' /\ SessStep
<1>0. ~sess.alive
  BY DEF sipsess_accept
<1> DEFINE n == [New("in") EXCEPT !.st = TRUE]
<1>1. PICK aw \in BOOLEAN, ok \in BOOLEAN :
         LET s == IF final THEN sipsess_reply_2xx(n, aw, ok) ELSE [n EXCEPT !.st = ok]
         IN  sess' = IF ok THEN [s EXCEPT !.held = TRUE] ELSE mem_deref(s, TRUE)
  BY DEF sipsess_accept
<1>2. n \in Record /\ n.st = TRUE /\ Same(n, New("in"), {"st"})
  <2>1. New("in") \in Record
    BY NewOk
  <2> QED
    BY <2>1 DEF Record, Same, Fields
<1> HIDE DEF n
<1>3. /\ n.replyl = <<>> /\ n.awaiting_answer = FALSE /\ ~n.answered /\ n.dir = "in"
      /\ n.req = "none" /\ Fresh(n)
  BY <1>2, NewOk DEF Fresh, Same, Fields, Record
<1>a. Len(<<>>) = 0 /\ DOMAIN <<>> = {}
  OBVIOUS
<1>4. CASE final /\ ok
  <2> DEFINE s == [n EXCEPT !.st = FALSE, !.replyl = Append(n.replyl, aw),
                            !.awaiting_answer = n.awaiting_answer \/ aw,
                            !.answered = TRUE]
  <2>1. sess' = IF ok THEN [s EXCEPT !.held = TRUE] ELSE mem_deref(s, TRUE)
    BY <1>1, <1>4 DEF sipsess_reply_2xx
  <2>2. Append(n.replyl, aw) = <<aw>> /\ <<aw>> \in Replies
    BY <1>3 DEF Replies
  <2>3. (n.awaiting_answer \/ aw) = aw
    BY <1>3
  <2>4. s \in Record
    <3> DEFINE m == [n EXCEPT !.st = FALSE, !.replyl = <<aw>>]
    <3>1. s = [m EXCEPT !.awaiting_answer = aw, !.answered = TRUE]
      BY <2>2, <2>3
    <3>2. m \in Record
      BY <1>2, <2>2 DEF Record
    <3> HIDE DEF m, s
    <3> QED
      BY <3>1, <3>2 DEF Record
  <2>5. /\ s.st = FALSE /\ s.replyl = <<aw>> /\ s.awaiting_answer = aw /\ s.answered = TRUE
        /\ Same(s, n, {"st", "replyl", "awaiting_answer", "answered"})
    BY <1>2, <2>2, <2>3 DEF Record, Same, Fields
  <2> HIDE DEF s
  <2>6. /\ Len(<<aw>>) = 1 /\ <<aw>> # <<>> /\ DOMAIN <<aw>> = {1} /\ <<aw>>[1] = aw
        /\ 1 <= MaxReplies
    BY BoundsAssumption
  <2>7. Fresh(s) /\ s.dir = "in" /\ s.req = "none"
    BY <1>3, <2>4, <2>5 DEF Fresh, Same, Fields
  <2>8. Rest(s)
    BY <2>5, <2>6, <2>7 DEF Rest, Fresh, Said
  <2>9. Due(s) /\ Known(s)
    BY <2>5, <2>6, <2>7 DEF Due, Known, Fresh
  <2> QED
    BY <1>0, <1>4, <2>1, <2>7, <2>8, <2>9, Created
<1>5. CASE ~(final /\ ok)
  <2> DEFINE s == [n EXCEPT !.st = ok]
  <2>1. sess' = IF ok THEN [s EXCEPT !.held = TRUE] ELSE mem_deref(s, TRUE)
    BY <1>1, <1>5 DEF sipsess_reply_2xx
  <2>2. s \in Record
    BY <1>2 DEF Record
  <2>3. s.st = ok /\ Same(s, n, {"st"})
    BY <1>2 DEF Record, Same, Fields
  <2> HIDE DEF s
  <2>4. Fresh(s) /\ s.dir = "in" /\ s.req = "none" /\ s.replyl = <<>>
        /\ ~s.awaiting_answer /\ ~s.answered
    BY <1>3, <2>2, <2>3 DEF Fresh, Same, Fields
  <2>5. Rest(s)
    BY <1>a, <2>4, BoundsAssumption DEF Rest, Fresh, Said
  <2>6. ok => Due(s) /\ Known(s)
    BY <1>a, <2>3, <2>4 DEF Due, Known, Fresh
  <2>7. ~ok => Owed(s) = 0
    BY <2>4, OwedIs DEF Fresh
  <2> QED
    BY <1>0, <2>1, <2>4, <2>5, <2>6, <2>7, Created
<1> QED
  BY <1>4, <1>5
-----------------------------------------------------------------------------
(* The peer's requests.                                                    *)

LEMMA CancelInv ==
    ASSUME Inv, NEW d \in BOOLEAN, NEW bye \in BOOLEAN, cancel_handler(d, bye)
    PROVE  Advance(sess')
<1> DEFINE s == [sess EXCEPT !.st = FALSE, !.peerterm = TRUE]
<1>0. sess.st /\ sess' = sipsess_terminate(s, d, bye)
  BY DEF cancel_handler
<1>1. /\ sess \in Record /\ Rest(sess) /\ sess.alive /\ sess.terminated = 0
      /\ sess.held /\ sess.refs = 1 /\ sess.told \in {<<>>, <<"up">>}
  BY <1>0, Exists DEF Rest
<1>2. s \in Record
  BY <1>1 DEF Record
<1>3. s.st = FALSE /\ s.peerterm = TRUE /\ Same(s, sess, {"st", "peerterm"})
  BY <1>1 DEF Record, Same, Fields
<1> HIDE DEF s
<1>4. Unseen(s) /\ s.terminated = 0
  BY <1>1, <1>2, <1>3 DEF Unseen, Rest, Same, Fields, Said
<1> QED
  BY <1>0, <1>1, <1>4, OutAdvances

LEMMA ByeInv ==
    ASSUME Inv, NEW d \in BOOLEAN, NEW bye \in BOOLEAN, bye_handler(d, bye)
    PROVE  Advance(sess')
<1> DEFINE s == [sess EXCEPT !.peerterm = TRUE]
           t == [s EXCEPT !.st = FALSE]
<1>0. /\ sess.alive
      /\ sess' = IF s.terminated # 0 THEN s ELSE sipsess_terminate(t, d, bye)
  BY DEF bye_handler, Found
<1>1. /\ sess \in Record /\ Rest(sess) /\ Counted(sess)
      /\ sess.terminated = 0 => /\ sess.held /\ sess.refs = 1
                                /\ sess.told \in {<<>>, <<"up">>}
  BY <1>0, Exists
<1>2. s \in Record
  BY <1>1 DEF Record
<1>3. s.peerterm = TRUE /\ Same(s, sess, {"peerterm"})
  BY <1>1 DEF Record, Same, Fields
<1> HIDE DEF s
<1>4. t \in Record
  BY <1>2 DEF Record
<1>5. t.st = FALSE /\ t.peerterm = TRUE /\ Same(t, sess, {"st", "peerterm"})
  BY <1>2, <1>3 DEF Record, Same, Fields
<1> HIDE DEF t
<1>6. CASE sess.terminated = 0
  <2>1. Unseen(t) /\ t.terminated = 0
    BY <1>1, <1>4, <1>5, <1>6 DEF Unseen, Rest, Same, Fields, Said
  <2>2. sess' = sipsess_terminate(t, d, bye)
    BY <1>0, <1>3, <1>6 DEF Same, Fields
  <2> QED
    BY <1>0, <2>1, <2>2, OutAdvances
<1>7. CASE sess.terminated # 0
  <2>1. sess' = s
    BY <1>0, <1>3, <1>7 DEF Same, Fields
  <2>2. Rest(s)
    BY <1>1, <1>2, <1>3 DEF Rest, Same, Fields, Said
  <2>3. Owed(s) = Owed(sess) /\ s.held = sess.held /\ s.refs = sess.refs
        /\ s.alive = sess.alive /\ s.told = sess.told /\ s.terminated = sess.terminated
    BY <1>3 DEF Owed, Same, Fields
  <2>4. Counted(s)
    <3>1. Hold(s) = Hold(sess)
      BY <2>3, SameHold
    <3> QED
      BY <1>1, <1>7, <2>3, <3>1 DEF Counted
  <2> QED
    BY <1>0, <2>1, <2>2, <2>3, <2>4 DEF Advance, Ok
<1> QED
  BY <1>6, <1>7

LEMMA ReinviteHandlerInv == ASSUME Inv, reinvite_handler PROVE Advance(sess')
<1>0. /\ sess.alive /\ sess.terminated = 0 /\ ~sess.st /\ ~sess.awaiting_answer
      /\ sess.req = "none" /\ Len(sess.replyl) < MaxReplies
      /\ sess.dir = "in" \/ sess.established
  BY DEF reinvite_handler, Found
<1>1. /\ sess \in Record /\ Rest(sess) /\ Live(sess) /\ sess.held /\ sess.refs = 1
  BY <1>0, Exists
<1>2. PICK aw \in BOOLEAN, ok \in BOOLEAN :
         sess' = [sipsess_reply_2xx(sess, aw, ok)
                     EXCEPT !.desc = FALSE, !.modify_pending = FALSE, !.tmr = FALSE]
  BY DEF reinvite_handler
<1>a. sess.replyl \in Replies /\ sess.awaiting_answer = FALSE
  BY <1>0, <1>1 DEF Record
<1>3. CASE ok
  <2> DEFINE l == Append(sess.replyl, aw)
             n == [sess EXCEPT !.st = FALSE, !.replyl = l,
                               !.awaiting_answer = sess.awaiting_answer \/ aw]
             r == [n EXCEPT !.answered = TRUE]
  <2>1. /\ l \in Replies /\ l # <<>> /\ Len(l) = Len(sess.replyl) + 1
        /\ Len(sess.replyl) \in Nat
        /\ DOMAIN l = 1..Len(l) /\ DOMAIN sess.replyl = 1..Len(sess.replyl)
        /\ l[Len(l)] = aw
        /\ \A i \in DOMAIN sess.replyl : l[i] = sess.replyl[i]
    BY <1>a DEF Replies
  <2>2. (sess.awaiting_answer \/ aw) = aw
    BY <1>a
  <2>3. n \in Record
    BY <1>1, <2>1, <2>2 DEF Record
  <2>4. /\ n.st = FALSE /\ n.replyl = l /\ n.awaiting_answer = aw
        /\ Same(n, sess, {"st", "replyl", "awaiting_answer"})
    BY <1>1, <2>2 DEF Record, Same, Fields
  <2>5. sess' = [r EXCEPT !.desc = FALSE, !.modify_pending = FALSE, !.tmr = FALSE]
    BY <1>2, <1>3 DEF sipsess_reply_2xx
  <2> HIDE DEF l, n
  <2>6. r \in Record /\ r.answered = TRUE /\ Same(r, n, {"answered"})
    <3>1. r \in Record
      BY <2>3 DEF Record
    <3> QED
      BY <2>3, <3>1 DEF Record, Same, Fields
  <2> HIDE DEF r
  <2>7. sess' \in Record
    BY <2>5, <2>6 DEF Record
  <2>8. /\ sess'.modify_pending = FALSE /\ sess'.tmr = FALSE
        /\ Same(sess', r, {"modify_pending", "tmr"})
    BY <2>5, <2>6 DEF Record, Same, Fields
  <2>9. /\ sess'.st = FALSE /\ sess'.replyl = l /\ sess'.awaiting_answer = aw
        /\ sess'.answered = TRUE
        /\ Same(sess', sess, {"st", "replyl", "awaiting_answer", "answered",
                              "modify_pending", "tmr"})
    BY <2>4, <2>6, <2>8 DEF Same, Fields
  <2>a. Len(l) <= MaxReplies /\ l # <<>>
    BY <1>0, <2>1, BoundsAssumption
  <2>10. Rest(sess')
    BY <1>0, <1>1, <2>7, <2>8, <2>9, <2>a DEF Rest, Same, Fields, Said
  <2>11. Due(sess')
    <3>1. \A i \in DOMAIN sess.replyl : ~sess.replyl[i]
      BY <1>0, <1>1 DEF Live, Due
    <3>2. \A i \in DOMAIN l : l[i] => i = Len(l)
      BY <2>1, <3>1
    <3>3. aw <=> \E i \in DOMAIN l : l[i]
      BY <2>1, <3>1
    <3> QED
      BY <2>9, <3>2, <3>3 DEF Due
  <2>12. Counted(sess')
    BY <1>0, <1>1, <2>1, <2>8, <2>9, <2>11
    DEF Counted, Live, Known, Modifies, Same, Fields
  <2> QED
    BY <1>0, <2>9, <2>10, <2>12 DEF Advance, Ok, Same, Fields
<1>4. CASE ~ok
  <2> DEFINE r == [sess EXCEPT !.st = FALSE]
  <2>1. r \in Record /\ r.st = FALSE /\ Same(r, sess, {"st"})
    <3>1. r \in Record
      BY <1>1 DEF Record
    <3> QED
      BY <1>1, <3>1 DEF Record, Same, Fields
  <2>2. sess' = [r EXCEPT !.desc = FALSE, !.modify_pending = FALSE, !.tmr = FALSE]
    BY <1>2, <1>4 DEF sipsess_reply_2xx
  <2> HIDE DEF r
  <2>3. sess' \in Record
    BY <2>1, <2>2 DEF Record
  <2>4. /\ sess'.modify_pending = FALSE /\ sess'.tmr = FALSE
        /\ Same(sess', r, {"modify_pending", "tmr"})
    BY <2>1, <2>2 DEF Record, Same, Fields
  <2>5. Same(sess', sess, {"st", "modify_pending", "tmr"}) /\ sess'.st = FALSE
    BY <2>1, <2>4 DEF Same, Fields
  <2>6. Rest(sess')
    BY <1>0, <1>1, <2>3, <2>4, <2>5 DEF Rest, Same, Fields, Said
  <2>7. Counted(sess')
    BY <1>0, <1>1, <2>4, <2>5 DEF Counted, Live, Due, Known, Modifies, Same, Fields
  <2> QED
    BY <1>0, <2>5, <2>6, <2>7 DEF Advance, Ok, Same, Fields
<1> QED
  BY <1>3, <1>4

(* A reply taken out of the list.                                          *)
LEMMA Removed ==
    ASSUME NEW l \in Seq(BOOLEAN), NEW i \in 1..Len(l)
    PROVE  LET m == RemoveAt(l, i) IN
           /\ m \in Seq(BOOLEAN) /\ Len(m) = Len(l) - 1
           /\ \A k \in 1..(Len(l) - 1) : m[k] = IF k < i THEN l[k] ELSE l[k + 1]
<1> DEFINE a == SubSeq(l, 1, i - 1)
           b == SubSeq(l, i + 1, Len(l))
<1>0. Len(l) \in Nat /\ i \in Nat /\ i >= 1 /\ i <= Len(l)
  OBVIOUS
<1>1. a \in Seq(BOOLEAN) /\ Len(a) = i - 1 /\ \A k \in 1..(i - 1) : a[k] = l[k]
  BY <1>0
<1>2. /\ b \in Seq(BOOLEAN) /\ Len(b) = Len(l) - i
      /\ \A k \in 1..(Len(l) - i) : b[k] = l[k + i]
  BY <1>0
<1> HIDE DEF a, b
<1>3. /\ a \o b \in Seq(BOOLEAN) /\ Len(a \o b) = Len(a) + Len(b)
      /\ \A k \in 1..(Len(a) + Len(b)) :
            (a \o b)[k] = IF k <= Len(a) THEN a[k] ELSE b[k - Len(a)]
  BY <1>1, <1>2, ConcatProperties
<1>4. RemoveAt(l, i) = a \o b
  BY DEF RemoveAt, a, b
<1>5. ASSUME NEW k \in 1..(Len(l) - 1)
      PROVE  (a \o b)[k] = IF k < i THEN l[k] ELSE l[k + 1]
  <2>1. CASE k < i
    BY <1>0, <1>1, <1>2, <1>3, <2>1
  <2>2. CASE k >= i
    <3>1. k - (i - 1) \in 1..(Len(l) - i) /\ k - (i - 1) + i = k + 1
      BY <1>0, <2>2
    <3>2. (a \o b)[k] = b[k - (i - 1)]
      BY <1>0, <1>1, <1>2, <1>3, <2>2
    <3> QED
      BY <1>2, <2>2, <3>1, <3>2
  <2>3. k < i \/ k >= i
    BY <1>0
  <2> QED
    BY ONLY <2>1, <2>2, <2>3, Zenon
<1>6. Len(a \o b) = Len(l) - 1
  BY <1>0, <1>1, <1>2, <1>3
<1> QED
  BY <1>3, <1>4, <1>5, <1>6

(* A reply less: those left are as they were, the last is still the last.  *)
LEMMA ReplyLess ==
    ASSUME NEW l \in Replies, NEW i \in DOMAIN l,
           \A k \in DOMAIN l : l[k] => k = Len(l)
    PROVE  LET m == RemoveAt(l, i) IN
           /\ m \in Replies /\ Len(m) <= Len(l)
           /\ \A k \in DOMAIN m : m[k] => k = Len(m)
           /\ (\E k \in DOMAIN m : m[k]) <=> ~l[i] /\ \E k \in DOMAIN l : l[k]
<1> DEFINE m == RemoveAt(l, i)
<1>0. /\ l \in Seq(BOOLEAN) /\ DOMAIN l = 1..Len(l) /\ Len(l) \in Nat
      /\ i \in 1..Len(l)
  BY DEF Replies
<1>1. /\ m \in Seq(BOOLEAN) /\ Len(m) = Len(l) - 1
      /\ \A k \in 1..(Len(l) - 1) : m[k] = IF k < i THEN l[k] ELSE l[k + 1]
  BY <1>0, Removed
<1> HIDE DEF m
<1>2. DOMAIN m = 1..(Len(l) - 1)
  BY <1>1
<1>3. \A k \in DOMAIN m : m[k] => k = Len(m) /\ i < Len(l)
  <2> SUFFICES ASSUME NEW k \in DOMAIN m, m[k]
               PROVE  k = Len(m) /\ i < Len(l)
    OBVIOUS
  <2>0. k \in 1..(Len(l) - 1) /\ k \in Nat /\ i \in Nat
    BY <1>0, <1>2
  <2>1. CASE k < i
    <3>1. l[k] /\ k \in DOMAIN l
      BY <1>0, <1>1, <2>0, <2>1
    <3>2. k = Len(l)
      BY <3>1
    <3> QED
      BY <1>0, <2>0, <3>2
  <2>2. CASE ~(k < i)
    <3>1. l[k + 1] /\ k + 1 \in DOMAIN l
      BY <1>0, <1>1, <2>0, <2>2
    <3>2. k + 1 = Len(l)
      BY <3>1
    <3>3. Len(m) = Len(l) - 1
      BY <1>1
    <3> QED
      BY <1>0, <2>0, <2>2, <3>2, <3>3
  <2> QED
    BY <2>1, <2>2
<1>4. i < Len(l) /\ l[Len(l)] => m[Len(l) - 1]
  BY <1>0, <1>1
<1>5. ASSUME NEW k \in DOMAIN m, m[k]
      PROVE  ~l[i] /\ \E j \in DOMAIN l : l[j]
  <2>1. i < Len(l) /\ k \in 1..(Len(l) - 1)
    BY <1>2, <1>3, <1>5
  <2>2. ~l[i]
    BY <1>0, <2>1
  <2>3. l[k] \/ l[k + 1]
    BY <1>0, <1>1, <1>5, <2>1
  <2>4. k \in DOMAIN l /\ k + 1 \in DOMAIN l
    BY <1>0, <2>1
  <2> QED
    BY <2>2, <2>3, <2>4
<1>6. ASSUME ~l[i], NEW j \in DOMAIN l, l[j]
      PROVE  \E k \in DOMAIN m : m[k]
  <2>1. j = Len(l) /\ i < Len(l)
    BY <1>0, <1>6
  <2>2. m[Len(l) - 1] /\ Len(l) - 1 \in DOMAIN m
    BY <1>0, <1>2, <1>4, <1>6, <2>1
  <2> QED
    BY <2>2
<1>7. m \in Replies /\ Len(m) <= Len(l)
  BY <1>0, <1>1 DEF Replies
<1> QED
  BY <1>3, <1>5, <1>6, <1>7 DEF m

(* The session goes on as before.                                          *)
LEMMA GoesOn ==
    ASSUME Inv, sess.alive, NEW o, Unseen(o), o.terminated = 0,
           Due(o), Known(o), Modifies(o)
    PROVE  Advance(o)
<1>1. sess.held /\ sess.refs = 1 /\ o.terminated = sess.terminated
  BY Exists DEF Unseen
<1>2. o.alive /\ o.held /\ o.refs = 1 /\ o.told = sess.told /\ o.held = sess.held
  BY <1>1 DEF Unseen
<1> QED
  BY <1>2 DEF Advance, Ok, Counted, Live, Unseen

(* The holder is told that the session is up.                              *)
LEMMA EstabAdvances ==
    ASSUME Inv, sess.alive, sess.terminated = 0, ~sess.established,
           NEW e, Unseen(e), e.established, Due(e), Modifies(e), e.req # "invite",
           NEW d \in BOOLEAN, NEW bye \in BOOLEAN
    PROVE  Advance(estabh(e, d, bye))
<1> DEFINE x == [e EXCEPT !.told = Append(e.told, "up")]
<1>0. sess.held /\ sess.refs = 1 /\ sess.told = <<>>
  BY Exists DEF Live, Known
<1>1. e \in Record /\ e.told = <<>> /\ Append(e.told, "up") \in Tells
      /\ Append(e.told, "up") = <<"up">>
  <2>1. e \in Record /\ e.told = sess.told
    BY DEF Unseen, Rest
  <2>2. e.told = <<>>
    BY <1>0, <2>1
  <2>3. Append(<<>>, "up") = <<"up">>
    OBVIOUS
  <2>4. Append(<<>>, "up") \in Tells
    BY Append1, Members
  <2> QED
    BY <2>1, <2>2, <2>3, <2>4
<1>2. x \in Record
  BY <1>1 DEF Record
<1>3. x.told = <<"up">> /\ Same(x, e, {"told"})
  BY <1>1 DEF Record, Same, Fields
<1>4. estabh(e, d, bye) = Handler(x, d, bye)
  BY DEF estabh
<1> HIDE DEF x
<1>5. Rest(x)
  BY <1>2, <1>3 DEF Unseen, Rest, Same, Fields, Said
<1>6. Counted(x) /\ x.held
  <2>1. x.alive /\ x.held /\ x.refs = 1 /\ x.terminated = 0 /\ x.established
    BY <1>0, <1>3 DEF Unseen, Same, Fields
  <2>2. Due(x) /\ Modifies(x)
    BY <1>3 DEF Due, Modifies, Same, Fields
  <2>3. x.req = e.req
    BY <1>3 DEF Same, Fields
  <2>4. Known(x)
    BY <1>3, <2>1, <2>3 DEF Known
  <2> QED
    BY <2>1, <2>2, <2>4 DEF Counted, Live
<1>7. LET o == Handler(x, d, bye) IN
      /\ Ok(o) /\ o.told = x.told /\ (~d => o = x)
  BY <1>5, <1>6, HandlerOk DEF Ok
<1> QED
  BY <1>0, <1>1, <1>3, <1>4, <1>7 DEF Advance

LEMMA AckInv ==
    ASSUME Inv, NEW i \in DOMAIN sess.replyl, NEW good \in BOOLEAN,
           NEW d \in BOOLEAN, NEW ok \in BOOLEAN, NEW bye \in BOOLEAN,
           ack_handler(i, good, d, ok, bye)
    PROVE  Advance(sess')
<1> DEFINE l == RemoveAt(sess.replyl, i)
           s == [sess EXCEPT !.replyl = l]
           a == [s EXCEPT !.awaiting_answer = s.awaiting_answer /\ ~sess.replyl[i]]
           m == IF a.modify_pending /\ a.replyl = <<>>
                THEN sipsess_reinvite(a, TRUE, ok) ELSE a
           e == [m EXCEPT !.established = TRUE]
           z == [s EXCEPT !.established = TRUE]
<1>0. /\ sess.alive
      /\ sess' = IF s.terminated # 0
                 THEN IF s.replyl # <<>> THEN s ELSE mem_deref(z, bye)
                 ELSE IF m.established THEN m
                 ELSE IF sess.replyl[i] /\ ~good THEN sipsess_terminate(e, d, bye)
                 ELSE estabh(e, d, bye)
  BY DEF ack_handler, Found
<1>1. /\ sess \in Record /\ Rest(sess) /\ Counted(sess) /\ sess.replyl \in Replies
      /\ sess.replyl # <<>> /\ sess.req = "none" /\ ~sess.st /\ ~sess.tmr
      /\ Len(sess.replyl) <= MaxReplies /\ Len(sess.replyl) \in Nat
      /\ sess.terminated # 2
  <2>1. sess \in Record /\ Rest(sess) /\ Counted(sess)
    BY <1>0, Exists
  <2>2. sess.replyl \in Replies
    BY <2>1 DEF Record
  <2>3. sess.replyl # <<>> /\ Len(sess.replyl) \in Nat
    BY <2>2 DEF Replies
  <2> QED
    BY <2>1, <2>2, <2>3 DEF Rest
<1>2. sess.terminated = 0 => Live(sess) /\ sess.held /\ sess.refs = 1
  BY <1>0, Exists
<1>3. l \in Replies /\ Len(l) <= MaxReplies
  <2>1. sess.replyl \in Seq(BOOLEAN) /\ i \in 1..Len(sess.replyl)
    BY <1>1 DEF Replies
  <2>2. l \in Seq(BOOLEAN) /\ Len(l) = Len(sess.replyl) - 1
    BY <2>1, Removed
  <2> QED
    BY <1>1, <2>2, BoundsAssumption DEF Replies
<1>4. s \in Record /\ s.replyl = l /\ Same(s, sess, {"replyl"})
  <2> HIDE DEF l
  <2>1. s \in Record
    BY <1>1, <1>3 DEF Record
  <2> QED
    BY <1>1, <2>1 DEF Record, Same, Fields
<1>5. CASE sess.terminated # 0 /\ l # <<>>
  <2>1. sess' = s
    BY <1>0, <1>4, <1>5 DEF Same, Fields
  <2> HIDE DEF s, l
  <2>2. Rest(s)
    BY <1>1, <1>3, <1>4, <1>5 DEF Rest, Same, Fields, Said
  <2>3. Owed(s) = Owed(sess)
    BY <1>1, <1>4, <1>5 DEF Owed, Same, Fields
  <2>4. s.held = sess.held /\ s.told = sess.told /\ s.refs = sess.refs
        /\ s.alive = sess.alive /\ s.terminated = sess.terminated
    BY <1>4 DEF Same, Fields
  <2>5. Counted(s)
    <3>1. Hold(s) = Hold(sess)
      BY <2>4, SameHold
    <3> QED
      BY <1>1, <1>5, <2>3, <2>4, <3>1 DEF Counted
  <2> QED
    BY <1>0, <2>1, <2>2, <2>4, <2>5 DEF Advance, Ok
<1>6. CASE sess.terminated # 0 /\ l = <<>>
  <2>1. sess' = mem_deref(z, bye)
    BY <1>0, <1>4, <1>6 DEF Same, Fields
  <2> HIDE DEF s, l
  <2>2. z \in Record /\ z.established = TRUE /\ Same(z, s, {"established"})
    <3>1. z \in Record
      BY <1>4 DEF Record
    <3> QED
      BY <1>4, <3>1 DEF Record, Same, Fields
  <2> HIDE DEF z
  <2>3. z.replyl = <<>> /\ Same(z, sess, {"established", "replyl"})
    BY <1>4, <1>6, <2>2 DEF Same, Fields
  <2>4. Len(<<>>) = 0
    OBVIOUS
  <2>5. Unseen(z)
    BY <1>1, <2>2, <2>3, <2>4, BoundsAssumption DEF Unseen, Rest, Same, Fields, Said
  <2>6. Owed(z) + 1 = Owed(sess)
    BY <1>1, <2>3 DEF Owed, Same, Fields, One
  <2>7. z.refs = Hold(z) + Owed(z) + 1
    <3>1. Hold(z) = Hold(sess)
      BY <2>5, SameHold DEF Unseen
    <3>2. sess.refs = Hold(sess) + Owed(sess) /\ z.refs = sess.refs
      BY <1>1, <1>6, <2>5 DEF Counted, Unseen
    <3> QED
      BY <2>6, <3>1, <3>2, HoldType, OwedIs
  <2> QED
    BY <1>0, <1>6, <2>1, <2>5, <2>7, OutAdvances DEF Unseen
<1>7. CASE sess.terminated = 0
  <2>0. s.terminated = 0
    BY <1>4, <1>7 DEF Same, Fields
  <2>1. /\ \A k \in DOMAIN l : l[k] => k = Len(l)
        /\ (\E k \in DOMAIN l : l[k])
              <=> ~sess.replyl[i] /\ \E k \in DOMAIN sess.replyl : sess.replyl[k]
    BY <1>1, <1>2, <1>7, ReplyLess DEF Live, Due
  <2> HIDE DEF l, s
  <2>2. a \in Record /\ (a.awaiting_answer <=> s.awaiting_answer /\ ~sess.replyl[i])
        /\ Same(a, s, {"awaiting_answer"})
    <3>1. (s.awaiting_answer /\ ~sess.replyl[i]) \in BOOLEAN
      OBVIOUS
    <3>2. a \in Record
      BY <1>4, <3>1 DEF Record
    <3> QED
      BY <1>4, <3>2 DEF Record, Same, Fields
  <2>3. a.replyl = l /\ Same(a, sess, {"replyl", "awaiting_answer"})
        /\ s.awaiting_answer = sess.awaiting_answer
    BY <1>4, <2>2 DEF Same, Fields
  <2> HIDE DEF a
  <2>4. Due(a)
    <3>1. sess.awaiting_answer <=> \E k \in DOMAIN sess.replyl : sess.replyl[k]
      BY <1>2, <1>7 DEF Live, Due
    <3>2. a.awaiting_answer <=> \E k \in DOMAIN l : l[k]
      BY <2>1, <2>2, <2>3, <3>1
    <3> QED
      BY <2>1, <2>3, <3>2 DEF Due
  <2> DEFINE b == [a EXCEPT !.established = TRUE]
             n == IF b.modify_pending /\ b.replyl = <<>>
                  THEN sipsess_reinvite(b, TRUE, ok) ELSE b
  <2>5. b \in Record /\ b.established = TRUE /\ Same(b, a, {"established"})
        /\ b.desc = a.desc
    <3>1. b \in Record
      BY <2>2 DEF Record
    <3> QED
      BY <2>2, <3>1 DEF Record, Same, Fields
  <2>6. /\ a.req = "none" /\ b.req = "none" /\ b.replyl = l /\ b.terminated = 0 /\ ~b.st
        /\ Same(b, sess, {"established", "replyl", "awaiting_answer"})
        /\ b.modify_pending = a.modify_pending /\ a.replyl = l
    BY <1>1, <1>7, <2>3, <2>5 DEF Same, Fields
  <2>7. sess.established => a = b
    <3>1. SUFFICES ASSUME sess.established PROVE a = b
      OBVIOUS
    <3>2. a.established = TRUE
      <4>1. a.established = sess.established /\ sess.established \in BOOLEAN
        BY <1>1, <2>3 DEF Same, Fields, Record
      <4> QED
        BY <3>1, <4>1
    <3> QED
      BY <2>2, <3>2 DEF Record
  <2>8. n = e
    <3>1. CASE a.modify_pending /\ a.replyl = <<>>
      <4> DEFINE q == IF ok THEN "reinvite" ELSE "none"
      <4>1. m = [a EXCEPT !.sent_offer = a.desc, !.modify_pending = FALSE,
                          !.failc = 0, !.req = q]
        BY <2>6, <3>1 DEF sipsess_reinvite
      <4>2. n = [b EXCEPT !.sent_offer = b.desc, !.modify_pending = FALSE,
                          !.failc = 0, !.req = q]
        BY <2>6, <3>1 DEF sipsess_reinvite
      <4> HIDE DEF n, m, q
      <4> QED
        BY <2>2, <2>5, <4>1, <4>2 DEF Record
    <3>2. CASE ~(a.modify_pending /\ a.replyl = <<>>)
      BY <2>6, <3>2
    <3> QED
      BY <3>1, <3>2
  <2>9. m.established = a.established
    BY <2>2, <2>6 DEF sipsess_reinvite, Record
  <2>10. sess.established => m = n
    BY <2>7
  <2>a. Rest(b) /\ Due(b)
    BY <1>1, <1>3, <2>4, <2>5, <2>6, ZenonT(60) DEF Rest, Due, Same, Fields, Said
  <2>b. m.established = sess.established
    BY <2>3, <2>9 DEF Same, Fields
  <2> HIDE DEF m, e, b
  <2>11. /\ Rest(n) /\ Modifies(n) /\ n.req \in {"none", "reinvite"}
         /\ Same(n, b, {"modify_pending", "failc", "req"})
    <3>1. CASE b.modify_pending /\ b.replyl = <<>>
      BY <2>6, <2>a, <3>1, Reinvite
    <3>2. CASE ~(b.modify_pending /\ b.replyl = <<>>)
      BY <2>6, <2>a, <3>2 DEF Modifies, Same
    <3> QED
      BY <3>1, <3>2
  <2> HIDE DEF n
  <2>12. /\ Unseen(n) /\ n.terminated = 0 /\ Due(n) /\ n.established
         /\ n.told = sess.told
    BY <1>7, <2>5, <2>6, <2>11, <2>a DEF Unseen, Due, Same, Fields
  <2>13. sess' = IF m.established THEN m
                 ELSE IF sess.replyl[i] /\ ~good THEN sipsess_terminate(e, d, bye)
                 ELSE estabh(e, d, bye)
    BY <1>0, <2>0
  <2>14. CASE sess.established
    <3>1. sess' = n
      BY <2>10, <2>13, <2>14, <2>b
    <3>2. Known(n)
      BY <1>2, <1>7, <2>11, <2>12, <2>14 DEF Known, Live
    <3> QED
      BY <1>0, <2>11, <2>12, <3>1, <3>2, GoesOn
  <2>15. CASE ~sess.established
    BY <1>0, <1>7, <2>8, <2>11, <2>12, <2>13, <2>15, <2>b, OutAdvances, EstabAdvances
  <2> QED
    BY <2>14, <2>15
<1> QED
  BY <1>5, <1>6, <1>7
-----------------------------------------------------------------------------
(* The timers.                                                             *)

LEMMA ModifyTmrInv ==
    ASSUME Inv, NEW ok \in BOOLEAN, modify_tmr_handler(ok) PROVE Advance(sess')
<1> DEFINE s == [sess EXCEPT !.tmr = FALSE]
<1>0. sess.tmr /\ sess' = sipsess_reinvite(s, TRUE, ok)
  BY DEF modify_tmr_handler
<1>1. /\ sess \in Record /\ Rest(sess) /\ sess.alive /\ sess.terminated = 0
      /\ Live(sess) /\ sess.replyl = <<>> /\ ~sess.st
  BY <1>0, Exists DEF Rest
<1>2. s \in Record
  BY <1>1 DEF Record
<1>3. s.tmr = FALSE /\ Same(s, sess, {"tmr"})
  BY <1>1 DEF Record, Same, Fields
<1> HIDE DEF s
<1>4. /\ Unseen(s) /\ s.terminated = 0 /\ Due(s) /\ Known(s) /\ s.replyl = <<>>
      /\ ~s.st
  BY <1>1, <1>2, <1>3, ZenonT(60) DEF Unseen, Rest, Live, Due, Known, Same, Fields, Said
<1> QED
  BY <1>0, <1>1, <1>4, ReinviteAdvances

LEMMA ReplyTmrInv ==
    ASSUME Inv, NEW d \in BOOLEAN, NEW bye \in BOOLEAN, reply_tmr_handler(d, bye)
    PROVE  Advance(sess')
<1> DEFINE l == Tail(sess.replyl)
           s == [sess EXCEPT !.replyl = l]
           e == [s EXCEPT !.established = TRUE]
<1>0. /\ sess.replyl # <<>>
      /\ sess' = IF s.replyl # <<>> THEN s ELSE Out(e, d, bye)
  BY DEF reply_tmr_handler
<1>1. /\ sess \in Record /\ Rest(sess) /\ sess.alive /\ Counted(sess)
      /\ sess.terminated # 2 /\ ~sess.st /\ sess.req = "none"
      /\ sess.terminated = 0 => Live(sess)
      /\ sess.terminated # 0 => sess.refs = Hold(sess) + Owed(sess)
  BY <1>0, Exists DEF Rest
<1>2. /\ sess.replyl \in Seq(BOOLEAN) /\ Len(sess.replyl) \in Nat
      /\ Len(sess.replyl) > 0 /\ Len(sess.replyl) <= MaxReplies
      /\ DOMAIN sess.replyl = 1..Len(sess.replyl)
  <2>1. sess.replyl \in Seq(BOOLEAN)
    BY <1>1 DEF Record, Replies
  <2> QED
    BY <1>0, <1>1, <2>1 DEF Rest
<1>3. /\ l \in Replies /\ Len(l) = Len(sess.replyl) - 1 /\ Len(l) <= MaxReplies
      /\ DOMAIN l = 1..Len(l)
      /\ \A k \in DOMAIN l : l[k] = sess.replyl[k + 1] /\ k + 1 \in DOMAIN sess.replyl
  <2>1. l \in Seq(BOOLEAN) /\ Len(l) = Len(sess.replyl) - 1
        /\ \A k \in 1..Len(l) : l[k] = sess.replyl[k + 1]
    BY <1>0, <1>2, HeadTailProperties
  <2>2. DOMAIN l = 1..Len(l)
    BY <2>1
  <2> QED
    BY <1>2, <2>1, <2>2, BoundsAssumption DEF Replies
<1> HIDE DEF l
<1>4. s \in Record /\ s.replyl = l /\ Same(s, sess, {"replyl"})
  <2>1. s \in Record
    BY <1>1, <1>3 DEF Record
  <2> QED
    BY <1>1, <2>1 DEF Record, Same, Fields
<1> HIDE DEF s
<1>5. e \in Record /\ e.established = TRUE /\ Same(e, s, {"established"})
  <2>1. e \in Record
    BY <1>4 DEF Record
  <2> QED
    BY <1>4, <2>1 DEF Record, Same, Fields
<1> HIDE DEF e
<1>6. CASE l # <<>>
  <2>1. sess' = s /\ Unseen(s)
    BY <1>0, <1>1, <1>3, <1>4, <1>6 DEF Unseen, Rest, Same, Fields, Said
  <2>2. CASE sess.terminated = 0
    <3>1. Due(s)
      <4>0. Due(sess)
        BY <1>1, <2>2 DEF Live
      <4>1. \A k \in DOMAIN l : l[k] => k = Len(l)
        BY <1>2, <1>3, <4>0 DEF Due
      <4>2. (\E k \in DOMAIN l : l[k]) <=> (\E k \in DOMAIN sess.replyl : sess.replyl[k])
        <5>1. (\E k \in DOMAIN l : l[k]) => (\E k \in DOMAIN sess.replyl : sess.replyl[k])
          BY <1>3
        <5>2. ASSUME NEW k \in DOMAIN sess.replyl, sess.replyl[k]
              PROVE  \E j \in DOMAIN l : l[j]
          <6>1. k = Len(sess.replyl)
            BY <4>0, <5>2 DEF Due
          <6>2. Len(l) \in Nat /\ Len(l) > 0
            BY <1>2, <1>3, <1>6 DEF Replies
          <6>3. k - 1 \in DOMAIN l /\ l[k - 1] = sess.replyl[k]
            BY <1>2, <1>3, <6>1, <6>2
          <6> QED
            BY <5>2, <6>3
        <5> QED
          BY <5>1, <5>2
      <4>3. s.awaiting_answer = sess.awaiting_answer
        BY <1>4 DEF Same, Fields
      <4> QED
        BY <1>4, <4>0, <4>1, <4>2, <4>3 DEF Due
    <3>2. Known(s) /\ Modifies(s) /\ s.terminated = 0
      BY <1>1, <1>4, <1>6, <2>2 DEF Live, Known, Modifies, Same, Fields
    <3> QED
      BY <1>1, <2>1, <3>1, <3>2, GoesOn
  <2>3. CASE sess.terminated # 0
    <3>1. Owed(s) = Owed(sess)
      BY <1>0, <1>4, <1>6 DEF Owed, Same, Fields
    <3>2. Hold(s) = Hold(sess)
      BY <2>1, SameHold DEF Unseen
    <3>3. Counted(s)
      BY <1>1, <2>1, <2>3, <3>1, <3>2 DEF Counted, Unseen
    <3> QED
      BY <1>1, <2>1, <3>3 DEF Advance, Ok, Unseen
  <2> QED
    BY <2>2, <2>3
<1>7. CASE l = <<>>
  <2>1. e.replyl = <<>> /\ Same(e, sess, {"established", "replyl"})
    BY <1>4, <1>5, <1>7 DEF Same, Fields
  <2>2. Unseen(e)
    BY <1>1, <1>3, <1>5, <1>7, <2>1 DEF Unseen, Rest, Same, Fields, Said
  <2>3. e.terminated # 0 => e.refs = Hold(e) + Owed(e) + 1
    <3>1. Hold(e) = Hold(sess) /\ e.refs = sess.refs /\ e.terminated = sess.terminated
      BY <2>2, SameHold DEF Unseen
    <3>2. Owed(e) + 1 = Owed(sess)
      BY <1>0, <1>1, <2>1 DEF Owed, Same, Fields, One
    <3> QED
      BY <1>1, <3>1, <3>2, HoldType, OwedIs
  <2> QED
    BY <1>0, <1>1, <1>4, <1>7, <2>2, <2>3, OutAdvances
<1> QED
  BY <1>6, <1>7
-----------------------------------------------------------------------------
(* The answers to the session's requests.                                  *)

(* The request is over.                                                    *)
Over == [sess EXCEPT !.req = "none"]

LEMMA OverIs ==
    ASSUME Inv, sess.req # "none"
    PROVE  /\ sess \in Record /\ Rest(sess) /\ sess.alive /\ Counted(sess)
           /\ Over \in Record /\ Over.req = "none" /\ Same(Over, sess, {"req"})
           /\ Unseen(Over) /\ Over.replyl = <<>> /\ ~Over.st /\ Over.failc < MaxFail
           /\ Over.terminated = 0 => Live(sess) /\ Due(Over) /\ sess.terminated = 0
<1>1. /\ sess \in Record /\ Rest(sess) /\ sess.alive /\ Counted(sess)
      /\ sess.replyl = <<>> /\ ~sess.st /\ sess.failc < MaxFail
      /\ sess.terminated = 0 => Live(sess)
  BY Exists DEF Rest
<1>2. Over \in Record
  BY <1>1, Members DEF Over, Record
<1>3. Over.req = "none" /\ Same(Over, sess, {"req"})
  BY <1>1 DEF Over, Record, Same, Fields
<1>4. Unseen(Over)
  BY <1>1, <1>2, <1>3 DEF Unseen, Rest, Same, Fields, Said
<1>5. Over.replyl = <<>> /\ ~Over.st /\ Over.failc < MaxFail
  BY <1>1, <1>3 DEF Same, Fields
<1>6. Over.terminated = 0 => Due(Over) /\ sess.terminated = 0
  BY <1>1, <1>3 DEF Live, Due, Same, Fields
<1> QED
  BY <1>1, <1>2, <1>3, <1>4, <1>5, <1>6

(* What has become of the session once the request was over: a reference   *)
(* is to be given back if it is being taken down.                          *)
LEMMA OverOwed ==
    ASSUME Inv, sess.req # "none", NEW s, Unseen(s), s.req = "none",
           s.replyl = sess.replyl, s.requestl = sess.requestl
    PROVE  s.terminated # 0 => s.refs = Hold(s) + Owed(s) + 1
<1>1. sess.terminated # 0 => sess.refs = Hold(sess) + Owed(sess)
  BY Exists
<1>2. Hold(s) = Hold(sess) /\ s.refs = sess.refs /\ s.terminated = sess.terminated
  BY SameHold DEF Unseen
<1>3. Owed(s) + 1 = Owed(sess)
  BY DEF Owed, One
<1> QED
  BY <1>1, <1>2, <1>3, HoldType, OwedIs

LEMMA ByeRespInv ==
    ASSUME Inv, NEW c, NEW ok \in BOOLEAN, bye_resp_handler(c, ok)
    PROVE  Advance(sess')
<1>0. sess.req = "bye" /\ sess.req # "none"
  BY DEF bye_resp_handler
<1>1. /\ sess \in Record /\ Rest(sess) /\ sess.alive /\ Counted(sess)
      /\ Over \in Record /\ Over.req = "none" /\ Same(Over, sess, {"req"})
      /\ Unseen(Over) /\ Over.failc < MaxFail
  BY <1>0, OverIs
<1>2. sess.terminated = 2 /\ Over.terminated = 2
  BY <1>0, <1>1 DEF Rest, Same, Fields
<1>3. Advance(mem_deref(Over, TRUE))
  <2>1. Over.replyl = sess.replyl /\ Over.requestl = sess.requestl
    BY <1>1 DEF Same, Fields
  <2>2. Over.refs = Hold(Over) + Owed(Over) + 1
    BY <1>0, <1>1, <1>2, <2>1, OverOwed
  <2>3. Over.terminated # 0
    BY <1>2
  <2>4. Over.terminated # 0 => Advance(mem_deref(Over, TRUE))
    BY <1>1, <2>2, OutAdvances
  <2> QED
    BY <2>3, <2>4
<1> DEFINE f == [Over EXCEPT !.failc = Over.failc + 1]
           o == [f EXCEPT !.req = "bye"]
<1>4. \/ sess' = mem_deref(Over, TRUE)
      \/ ~Loops(Over.failc) /\ sess' = sipsess_bye(f, TRUE)
  BY DEF bye_resp_handler, Over
<1>5. ASSUME ~Loops(Over.failc), sess' = sipsess_bye(f, TRUE)
      PROVE  Advance(sess')
  <2>1. Over.failc + 1 \in Fails /\ Over.failc + 1 < MaxFail
    <3>1. Over.failc \in Fails
      BY <1>1 DEF Record
    <3> QED
      BY <1>5, <3>1, BoundsAssumption DEF Fails, Loops
  <2>2. f \in Record
    BY <1>1, <2>1 DEF Record
  <2>3. f.failc = Over.failc + 1 /\ Same(f, Over, {"failc"})
    BY <1>1 DEF Record, Same, Fields
  <2> HIDE DEF f
  <2>4. f.req = "none" /\ Same(f, sess, {"failc", "req"}) /\ f.failc < MaxFail
    BY <1>1, <2>1, <2>3 DEF Same, Fields
  <2>5. sess' = o
    BY <1>5, <2>4 DEF sipsess_bye
  <2>6. o \in Record
    BY <2>2, Members DEF Record
  <2>7. o.req = "bye" /\ Same(o, f, {"req"})
    BY <2>2 DEF Record, Same, Fields
  <2> HIDE DEF o
  <2>8. Same(o, sess, {"failc", "req"}) /\ o.failc < MaxFail
    BY <2>4, <2>7 DEF Same, Fields
  <2>9. Rest(o)
    BY <1>0, <1>1, <2>6, <2>7, <2>8 DEF Rest, Same, Fields, Said
  <2>10. o.alive = sess.alive /\ o.held = sess.held /\ o.told = sess.told
         /\ o.refs = sess.refs /\ o.terminated = sess.terminated
    BY <2>8 DEF Same, Fields
  <2>11. Owed(o) = Owed(sess)
    BY <1>0, <2>7, <2>8 DEF Owed, Same, Fields
  <2>12. Hold(o) = Hold(sess)
    BY <2>10, SameHold
  <2>13. Counted(o)
    BY <1>1, <1>2, <2>10, <2>11, <2>12 DEF Counted
  <2> QED
    BY <1>1, <2>5, <2>9, <2>10, <2>13 DEF Advance, Ok
<1> QED
  BY <1>3, <1>4, <1>5

(* The end of the INVITE or re-INVITE, whatever became of it.              *)
LEMMA OverOut ==
    ASSUME Inv, sess.req # "none", NEW s, Unseen(s),
           Same(s, sess, {"req", "failc", "modify_pending", "established", "answered"}),
           s.req = "none", NEW d \in BOOLEAN, NEW bye \in BOOLEAN
    PROVE  /\ Advance(Out(s, d, bye))
           /\ s.terminated = 0 => Advance(sipsess_terminate(s, d, bye))
           /\ s.terminated # 0 => Advance(mem_deref(s, bye))
<1>1. s.replyl = sess.replyl /\ s.requestl = sess.requestl /\ sess.alive
  BY Exists DEF Same, Fields
<1> QED
  BY <1>1, OverOwed, OutAdvances

(* A failure counted.                                                      *)
LEMMA Failed ==
    ASSUME Inv, sess.req # "none"
    PROVE  LET f == [Over EXCEPT !.failc = Over.failc + 1] IN
           /\ f \in Record /\ f.req = "none" /\ f.failc = Over.failc + 1
           /\ Same(f, sess, {"req", "failc"}) /\ Unseen(f)
           /\ ~Loops(Over.failc) => f.failc < MaxFail
<1> DEFINE f == [Over EXCEPT !.failc = Over.failc + 1]
<1>1. /\ Over \in Record /\ Over.req = "none" /\ Same(Over, sess, {"req"})
      /\ Unseen(Over) /\ Over.failc < MaxFail
  BY OverIs
<1>2. Over.failc + 1 \in Fails /\ (~Loops(Over.failc) => Over.failc + 1 < MaxFail)
  <2>1. Over.failc \in Fails
    BY <1>1 DEF Record
  <2> QED
    BY <1>1, <2>1, BoundsAssumption DEF Fails, Loops
<1>3. f \in Record
  BY <1>1, <1>2 DEF Record
<1>4. f.failc = Over.failc + 1 /\ Same(f, Over, {"failc"})
  BY <1>1 DEF Record, Same, Fields
<1> HIDE DEF f
<1>5. Same(f, sess, {"req", "failc"}) /\ f.req = "none"
  BY <1>1, <1>4 DEF Same, Fields
<1>6. Unseen(f)
  BY <1>1, <1>3, <1>4, <1>5 DEF Unseen, Rest, Same, Fields, Said
<1> QED
  BY <1>2, <1>3, <1>4, <1>5, <1>6 DEF f
LEMMA InviteRespInv ==
    ASSUME Inv, NEW c, NEW d \in BOOLEAN, NEW ok \in BOOLEAN, NEW bye \in BOOLEAN,
           invite_resp_handler(c, d, ok, bye)
    PROVE  Advance(sess')
<1> DEFINE f == [Over EXCEPT !.failc = Over.failc + 1]
           n == [Over EXCEPT !.failc = 0]
           p == Over.modify_pending /\ Over.sent_offer
           e == [Over EXCEPT !.failc = 0, !.established = TRUE, !.answered = TRUE,
                             !.modify_pending = p]
<1>0. sess.req = "invite" /\ sess.req # "none"
  BY DEF invite_resp_handler
<1>1. /\ sess \in Record /\ Rest(sess) /\ sess.alive /\ Counted(sess)
      /\ Over \in Record /\ Over.req = "none" /\ Same(Over, sess, {"req"})
      /\ Unseen(Over) /\ Over.replyl = <<>> /\ ~Over.st
      /\ Over.terminated = 0 => Live(sess) /\ Due(Over) /\ sess.terminated = 0
  BY <1>0, OverIs
<1>2. Advance(Out(Over, d, bye))
  BY <1>0, <1>1, OverOut DEF Same
<1>3. ASSUME ~Loops(Over.failc), Over.terminated = 0, sess' = invite(f, TRUE)
      PROVE  Advance(sess')
  <2>1. /\ f \in Record /\ f.req = "none" /\ Same(f, sess, {"req", "failc"})
        /\ Unseen(f) /\ f.failc < MaxFail
    BY <1>0, <1>3, Failed
  <2> HIDE DEF f
  <2>2. sess' = [f EXCEPT !.sent_offer = f.desc, !.modify_pending = FALSE,
                          !.req = "invite"]
    BY <1>3 DEF invite
  <2>3. sess' \in Record
    <3>1. f.desc \in BOOLEAN
      BY <2>1 DEF Record
    <3> QED
      BY <2>1, <2>2, <3>1, Members DEF Record
  <2>4. sess'.req = "invite" /\ sess'.modify_pending = FALSE
        /\ Same(sess', f, {"req", "modify_pending"})
    BY <2>1, <2>2 DEF Record, Same, Fields
  <2>5. Same(sess', sess, {"req", "failc", "modify_pending"}) /\ sess'.failc < MaxFail
    BY <2>1, <2>4 DEF Same, Fields
  <2>6. Unseen(sess')
    BY <1>0, <1>1, <2>3, <2>4, <2>5, ZenonT(60) DEF Unseen, Rest, Same, Fields, Said
  <2>a. Live(sess) /\ sess.terminated = 0
    BY <1>1, <1>3
  <2>b. Due(sess')
    BY <2>5, <2>a DEF Live, Due, Same, Fields
  <2>c. Known(sess')
    BY <1>0, <2>4, <2>5, <2>a DEF Live, Known, Same, Fields
  <2>7. Due(sess') /\ Known(sess') /\ Modifies(sess') /\ sess'.terminated = 0
    BY <2>4, <2>5, <2>a, <2>b, <2>c DEF Modifies, Same, Fields
  <2> QED
    BY <1>1, <2>6, <2>7, GoesOn
<1>4. Advance(Out(n, d, bye))
  <2>1. n \in Record
    BY <1>1, Members DEF Record
  <2>2. n.failc = 0 /\ Same(n, Over, {"failc"})
    BY <1>1 DEF Record, Same, Fields
  <2> HIDE DEF n
  <2>3. Same(n, sess, {"req", "failc"}) /\ n.req = "none"
    BY <1>1, <2>2 DEF Same, Fields
  <2>a. Rest(n)
    BY <1>0, <1>1, <2>1, <2>3 DEF Rest, Same, Fields, Said
  <2>4. Unseen(n)
    BY <2>3, <2>a DEF Unseen, Same, Fields
  <2>5. Same(n, sess, {"req", "failc", "modify_pending", "established", "answered"})
    BY <2>3 DEF Same
  <2> QED
    BY <1>0, <2>3, <2>4, <2>5, OverOut
<1>5. /\ e \in Record /\ e.failc = 0 /\ e.established = TRUE /\ e.answered = TRUE
      /\ Same(e, Over, {"failc", "modify_pending", "established", "answered"})
  <2>1. p \in BOOLEAN
    OBVIOUS
  <2> HIDE DEF p
  <2>2. e \in Record
    <3> DEFINE g == [Over EXCEPT !.failc = 0, !.established = TRUE]
    <3>1. g \in Record
      BY <1>1, Members DEF Record
    <3>2. e = [g EXCEPT !.answered = TRUE, !.modify_pending = p]
      OBVIOUS
    <3> HIDE DEF g, e
    <3> QED
      BY <2>1, <3>1, <3>2 DEF Record
  <2> QED
    BY <1>1, <2>2 DEF Record, Same, Fields
<1>6. ASSUME NEW good \in BOOLEAN, NEW sent \in BOOLEAN,
             sess' = LET m == IF e.modify_pending
                              THEN sipsess_reinvite(e, TRUE, sent)
                              ELSE [e EXCEPT !.desc = FALSE]
                     IN  IF ~good \/ e.terminated # 0 THEN Out(e, d, bye)
                         ELSE estabh(m, d, bye)
      PROVE  Advance(sess')
  <2> DEFINE m == IF e.modify_pending THEN sipsess_reinvite(e, TRUE, sent)
                  ELSE [e EXCEPT !.desc = FALSE]
  <2> HIDE DEF e
  <2>0. sess' = IF ~good \/ e.terminated # 0 THEN Out(e, d, bye)
                ELSE estabh(m, d, bye)
    BY <1>6
  <2>1. /\ e.req = "none" /\ e.replyl = <<>> /\ ~e.st
        /\ Same(e, sess, {"req", "failc", "modify_pending", "established", "answered"})
    BY <1>1, <1>5 DEF Same, Fields
  <2>2. sess.terminated # 2
    BY <1>0, <1>1 DEF Rest
  <2>3. Unseen(e)
    BY <1>1, <1>5, <2>1, <2>2, ZenonT(60) DEF Unseen, Rest, Same, Fields, Said
  <2>4. CASE ~good \/ e.terminated # 0
    BY <1>0, <2>0, <2>1, <2>3, <2>4, OverOut
  <2>5. CASE ~(~good \/ e.terminated # 0)
    <3>1. sess.terminated = 0 /\ Live(sess) /\ e.terminated = 0 /\ Due(e)
      BY <1>1, <2>1, <2>3, <2>5 DEF Unseen, Same, Fields, Due
    <3>2. ~sess.established
      BY <1>0, <3>1 DEF Live, Known
    <3>3. /\ Rest(m) /\ Modifies(m) /\ m.req \in {"none", "reinvite"}
          /\ Same(m, e, {"modify_pending", "failc", "req"})
      <4>1. CASE e.modify_pending
        BY <2>1, <2>3, <3>1, <4>1, Reinvite DEF Unseen
      <4>2. CASE ~e.modify_pending
        <5> DEFINE o == [e EXCEPT !.desc = FALSE]
        <5>1. m = o
          BY <4>2
        <5>2. o \in Record
          BY <1>5 DEF Record
        <5>3. Same(o, e, {})
          BY <1>5 DEF Record, Same, Fields
        <5> HIDE DEF o, m
        <5>4. Rest(o) /\ Modifies(o) /\ o.req = "none"
          BY <2>1, <2>3, <4>2, <5>2, <5>3 DEF Unseen, Rest, Modifies, Same, Fields, Said
        <5>5. Same(o, e, {"modify_pending", "failc", "req"})
          BY <5>3 DEF Same
        <5> QED
          BY <5>1, <5>4, <5>5
      <4> QED
        BY <4>1, <4>2
    <3> HIDE DEF m
    <3>4. Unseen(m) /\ m.established /\ Due(m)
      BY <1>5, <2>3, <3>1, <3>3 DEF Unseen, Due, Same, Fields
    <3> QED
      BY <1>1, <2>0, <2>5, <3>1, <3>2, <3>3, <3>4, EstabAdvances
  <2> QED
    BY <2>4, <2>5
<1>7. \/ sess' = Out(Over, d, bye)
      \/ ~Loops(Over.failc) /\ Over.terminated = 0 /\ sess' = invite(f, TRUE)
      \/ sess' = Out(n, d, bye)
      \/ \E good, sent \in BOOLEAN :
            sess' = LET m == IF e.modify_pending
                              THEN sipsess_reinvite(e, TRUE, sent)
                              ELSE [e EXCEPT !.desc = FALSE]
                    IN  IF ~good \/ e.terminated # 0 THEN Out(e, d, bye)
                        ELSE estabh(m, d, bye)
  <2>1. \/ c \in {"error", "other"} /\ sess' = Out(Over, d, bye)
        \/ sess' = IF Loops(Over.failc) \/ Over.terminated # 0 \/ ~ok
                   THEN Out(Over, d, bye) ELSE invite(f, ok)
        \/ sess' = Out(n, d, bye)
        \/ \E good, sent \in BOOLEAN :
            sess' = LET m == IF e.modify_pending
                              THEN sipsess_reinvite(e, TRUE, sent)
                              ELSE [e EXCEPT !.desc = FALSE]
                    IN  IF ~good \/ e.terminated # 0 THEN Out(e, d, bye)
                        ELSE estabh(m, d, bye)
    BY DEF invite_resp_handler, Over
  <2> HIDE DEF e, f, n
  <2>2. ok => ok = TRUE
    OBVIOUS
  <2> QED
    BY <2>1, <2>2
<1> QED
  BY <1>2, <1>3, <1>4, <1>6, <1>7

LEMMA ReinviteRespInv ==
    ASSUME Inv, NEW c, NEW d \in BOOLEAN, NEW ok \in BOOLEAN, NEW bye \in BOOLEAN,
           reinvite_resp_handler(c, d, ok, bye)
    PROVE  Advance(sess')
<1> DEFINE f == [Over EXCEPT !.failc = Over.failc + 1]
           p == Over.modify_pending /\ Over.sent_offer
           n == [Over EXCEPT !.failc = 0, !.modify_pending = p]
           live == Over.terminated = 0 /\ ~Loops(Over.failc)
<1>0. sess.req = "reinvite" /\ sess.req # "none"
  BY DEF reinvite_resp_handler
<1>1. /\ sess \in Record /\ Rest(sess) /\ sess.alive /\ Counted(sess)
      /\ Over \in Record /\ Over.req = "none" /\ Same(Over, sess, {"req"})
      /\ Unseen(Over) /\ Over.replyl = <<>> /\ ~Over.st
      /\ Over.terminated = 0 => Live(sess) /\ Due(Over) /\ sess.terminated = 0
  BY <1>0, OverIs
<1>2. /\ f \in Record /\ f.req = "none" /\ Same(f, sess, {"req", "failc"})
      /\ Unseen(f) /\ (~Loops(Over.failc) => f.failc < MaxFail)
  BY <1>0, Failed
<1> HIDE DEF f
(* Where the session goes on.                                              *)
<1>3. ASSUME NEW o, Same(o, sess, {"req", "failc", "modify_pending", "tmr"}),
             o.req # "invite", sess.terminated = 0
      PROVE  Due(o) /\ Known(o) /\ o.terminated = 0 /\ o.replyl = <<>> /\ ~o.st
  <2>1. Live(sess) /\ sess.replyl = <<>> /\ ~sess.st
    BY <1>0, <1>1, <1>3 DEF Counted, Rest
  <2> QED
    BY <1>0, <1>3, <2>1 DEF Live, Due, Known, Same, Fields
<1>4. ASSUME NEW x, Unseen(x), x.req = "none",
             Same(x, sess, {"req", "failc", "modify_pending"}),
             NEW timedout \in BOOLEAN
      PROVE  Advance(ReinviteOut(x, timedout, d, ok, bye))
  <2>0. x.terminated = sess.terminated /\ x \in Record
    BY <1>4 DEF Unseen, Rest
  <2>a. /\ Same(x, sess, {"req", "failc", "modify_pending", "established", "answered"})
        /\ Same(x, sess, {"req", "failc", "modify_pending", "tmr"})
    BY <1>4 DEF Same
  <2>1. CASE x.terminated # 0 \/ timedout
    BY <1>0, <1>4, <2>1, <2>a, OverOut DEF ReinviteOut
  <2>2. CASE x.terminated = 0 /\ ~timedout
    <3>1. Due(x) /\ Known(x) /\ x.replyl = <<>> /\ ~x.st
      BY <1>3, <1>4, <2>0, <2>2, <2>a
    <3>2. CASE x.modify_pending
      BY <1>1, <1>4, <2>2, <3>1, <3>2, ReinviteAdvances DEF ReinviteOut
    <3>3. CASE ~x.modify_pending
      <4> DEFINE o == [x EXCEPT !.desc = FALSE]
      <4>1. ReinviteOut(x, timedout, d, ok, bye) = o
        BY <2>2, <3>3 DEF ReinviteOut
      <4>2. o \in Record
        BY <2>0 DEF Record
      <4>3. Same(o, x, {})
        BY <2>0 DEF Record, Same, Fields
      <4> HIDE DEF o
      <4>4. Unseen(o) /\ o.terminated = 0
        BY <1>4, <2>2, <4>2, <4>3 DEF Unseen, Rest, Same, Fields, Said
      <4>5. Due(o) /\ Known(o) /\ Modifies(o)
        BY <3>1, <3>3, <4>3 DEF Due, Known, Modifies, Same, Fields
      <4> QED
        BY <1>1, <4>1, <4>4, <4>5, GoesOn
    <3> QED
      BY <3>2, <3>3
  <2> QED
    BY <2>1, <2>2
<1>5. \A timedout \in BOOLEAN :
         /\ Advance(ReinviteOut(Over, timedout, d, ok, bye))
         /\ Advance(ReinviteOut(f, timedout, d, ok, bye))
  <2>1. /\ Same(Over, sess, {"req", "failc", "modify_pending"})
        /\ Same(f, sess, {"req", "failc", "modify_pending"})
    BY <1>1, <1>2 DEF Same
  <2> QED
    BY <1>1, <1>2, <1>4, <2>1
<1>6. Advance(ReinviteOut(n, FALSE, d, ok, bye))
  <2>1. p \in BOOLEAN
    OBVIOUS
  <2> HIDE DEF p
  <2>2. n \in Record
    BY <1>1, <2>1, Members DEF Record
  <2>3. n.failc = 0 /\ Same(n, Over, {"failc", "modify_pending"})
    BY <1>1 DEF Record, Same, Fields
  <2> HIDE DEF n
  <2>4. Same(n, sess, {"req", "failc", "modify_pending"}) /\ n.req = "none"
    BY <1>1, <2>3 DEF Same, Fields
  <2>5. ~sess.st
    BY <1>0, <1>1 DEF Rest
  <2>a. Rest(n)
    BY <1>0, <1>1, <2>2, <2>4, <2>5 DEF Rest, Same, Fields, Said
  <2>6. Unseen(n)
    BY <2>4, <2>a DEF Unseen, Same, Fields
  <2> QED
    BY <1>4, <2>4, <2>6
<1>7. ASSUME live PROVE Advance(sipsess_reinvite(f, FALSE, TRUE))
  <2> DEFINE o == [f EXCEPT !.sent_offer = f.desc, !.modify_pending = FALSE,
                            !.failc = f.failc, !.req = "reinvite"]
  <2>1. sipsess_reinvite(f, FALSE, TRUE) = o
    BY <1>2 DEF sipsess_reinvite
  <2>2. f.desc \in BOOLEAN /\ f.failc \in Fails
    BY <1>2 DEF Record
  <2>3. o \in Record
    <3> DEFINE g == [f EXCEPT !.sent_offer = f.desc, !.modify_pending = FALSE]
    <3>1. g \in Record
      BY <1>2, <2>2 DEF Record
    <3>2. o = [g EXCEPT !.failc = f.failc, !.req = "reinvite"]
      OBVIOUS
    <3> HIDE DEF g, o
    <3> QED
      BY <2>2, <3>1, <3>2, Members DEF Record
  <2>4. o.modify_pending = FALSE /\ o.req = "reinvite"
        /\ Same(o, f, {"modify_pending", "req"})
    BY <1>2 DEF Record, Same, Fields
  <2> HIDE DEF o
  <2>5. Same(o, sess, {"req", "failc", "modify_pending"}) /\ o.failc < MaxFail
    BY <1>2, <1>7, <2>4 DEF Same, Fields
  <2>6. Same(o, sess, {"req", "failc", "modify_pending", "tmr"})
    BY <2>5 DEF Same
  <2>7. Unseen(o)
    BY <1>0, <1>1, <2>3, <2>4, <2>5, ZenonT(60) DEF Unseen, Rest, Same, Fields, Said
  <2>8. Due(o) /\ Known(o) /\ o.terminated = 0
    BY <1>1, <1>3, <1>7, <2>4, <2>6
  <2>9. Modifies(o)
    BY <2>4 DEF Modifies
  <2> QED
    BY <1>1, <2>1, <2>7, <2>8, <2>9, GoesOn
<1>8. ASSUME live PROVE Advance(sipsess_terminate(f, d, bye))
  <2>1. Same(f, sess, {"req", "failc", "modify_pending", "established", "answered"})
        /\ f.terminated = 0
    BY <1>1, <1>2, <1>8 DEF Same, Fields
  <2> QED
    BY <1>0, <1>2, <2>1, OverOut
<1>9. ASSUME live PROVE Advance([f EXCEPT !.tmr = TRUE])
  <2> DEFINE o == [f EXCEPT !.tmr = TRUE]
  <2>1. o \in Record
    BY <1>2 DEF Record
  <2>2. o.tmr = TRUE /\ Same(o, f, {"tmr"})
    BY <1>2 DEF Record, Same, Fields
  <2> HIDE DEF o
  <2>3. Same(o, sess, {"req", "failc", "tmr"}) /\ o.req = "none"
    BY <1>2, <2>2 DEF Same, Fields
  <2>4. Same(o, sess, {"req", "failc", "modify_pending", "tmr"})
    BY <2>3 DEF Same
  <2>5. ~sess.st /\ sess.terminated = 0 /\ sess.replyl = <<>>
    BY <1>0, <1>1, <1>9 DEF Rest
  <2>a. Rest(o)
    BY <1>0, <1>1, <2>1, <2>2, <2>3, <2>5 DEF Rest, Same, Fields, Said
  <2>6. Unseen(o)
    BY <2>3, <2>a DEF Unseen, Same, Fields
  <2>7. Due(o) /\ Known(o) /\ o.terminated = 0
    BY <1>3, <2>3, <2>4, <2>5
  <2>8. Modifies(o)
    BY <2>2 DEF Modifies
  <2> QED
    BY <1>1, <2>6, <2>7, <2>8, GoesOn DEF o
<1>10. \/ sess' = ReinviteOut(Over, c = "timeout", d, ok, bye)
       \/ sess' = ReinviteOut(n, FALSE, d, ok, bye)
       \/ sess' = ReinviteOut(f, FALSE, d, ok, bye)
       \/ live /\ sess' = sipsess_reinvite(f, FALSE, TRUE)
       \/ live /\ sess' = sipsess_terminate(f, d, bye)
       \/ live /\ sess' = [f EXCEPT !.tmr = TRUE]
  BY DEF reinvite_resp_handler, Over, f
<1> HIDE DEF n, live
<1> QED
  BY <1>5, <1>6, <1>7, <1>8, <1>9, <1>10
(* The destructor of an INFO: the last one gives a reference back.         *)
LEMMA RequestGone ==
    ASSUME NEW x, Ok(x), NEW i \in Info, x.requestl[i] > 0, NEW bye \in BOOLEAN
    PROVE  LET o == request_destructor(x, i, bye)
           IN  Ok(o) /\ o.told = x.told /\ o.held = x.held
<1> DEFINE l == [x.requestl EXCEPT ![i] = 0]
           t == [x EXCEPT !.requestl = l]
<1>0. request_destructor(x, i, bye) =
         IF t.terminated # 0 /\ Infos(t) = {} THEN mem_deref(t, bye) ELSE t
  BY DEF request_destructor
<1>1. x \in Record /\ Rest(x) /\ Some(x.requestl) /\ x.terminated # 2
  BY DEF Ok, Rest, Some
<1>2. Counted(x)
  BY <1>1, OwedIs DEF Ok, Dead
<1>3. l \in Requests
  <2>1. x.requestl \in Requests /\ 0 \in 0..MaxFail
    BY <1>1, BoundsAssumption DEF Record
  <2> QED
    BY <2>1 DEF Requests
<1> HIDE DEF l
<1>4. t \in Record
  BY <1>1, <1>3 DEF Record
<1>5. t.requestl = l /\ Same(t, x, {"requestl"})
  BY <1>1 DEF Record, Same, Fields
<1> HIDE DEF t
<1>6. Rest(t)
  BY <1>1, <1>4, <1>5 DEF Rest, Same, Fields, Said
<1>7. /\ t.told = x.told /\ t.held = x.held /\ t.terminated = x.terminated
      /\ t.alive = x.alive /\ t.refs = x.refs /\ Hold(t) = Hold(x)
  BY <1>5, SameHold DEF Same, Fields
<1>8. Infos(t) = {} <=> ~Some(t.requestl)
  BY DEF Infos, Some
<1>9. CASE t.terminated # 0 /\ Infos(t) = {}
  <2>1. Owed(t) + 1 = Owed(x)
    BY <1>1, <1>5, <1>8, <1>9 DEF Owed, One, Same, Fields
  <2>2. t.alive /\ x.refs = Hold(x) + Owed(x)
    BY <1>2, <1>7, <1>9 DEF Counted
  <2>3. t.refs = Hold(t) + Owed(t) + 1
    BY <1>7, <2>1, <2>2, HoldType, OwedIs
  <2>4. Left(mem_deref(t, bye), t)
    BY <1>6, <1>9, <2>2, <2>3, Deref
  <2> QED
    BY <1>0, <1>7, <1>9, <2>4 DEF Left
<1>10. CASE ~(t.terminated # 0 /\ Infos(t) = {})
  <2>1. t.terminated # 0 => Owed(t) = Owed(x)
    BY <1>1, <1>5, <1>8, <1>10 DEF Owed, Same, Fields
  <2>2. x.terminated = 0 => Live(t)
    BY <1>2, <1>5 DEF Counted, Live, Due, Known, Modifies, Same, Fields
  <2>3. Counted(t)
    BY <1>2, <1>7, <2>1, <2>2 DEF Counted
  <2> QED
    BY <1>0, <1>6, <1>7, <1>10, <2>3 DEF Ok
<1> QED
  BY <1>9, <1>10

LEMMA InfoRespInv ==
    ASSUME Inv, NEW i \in Info, NEW c, NEW d \in BOOLEAN, d => sess.held,
           NEW bye \in BOOLEAN, info_resp_handler(i, c, d, bye)
    PROVE  Advance(sess')
<1>0. sess.requestl[i] > 0 /\ Some(sess.requestl)
  BY DEF info_resp_handler, Infos, Some
<1>1. /\ sess \in Record /\ Rest(sess) /\ sess.alive /\ Counted(sess) /\ Ok(sess)
      /\ sess.terminated = 0 => /\ sess.held /\ sess.refs = 1 /\ Live(sess)
                                /\ sess.told \in {<<>>, <<"up">>}
  BY <1>0, Exists DEF Inv
<1>2. ASSUME sess.terminated = 0, ~Loops(sess.requestl[i] - 1),
             sess' = [sess EXCEPT !.requestl[i] = @ + 1]
      PROVE  Advance(sess')
  <2> DEFINE l == [sess.requestl EXCEPT ![i] = sess.requestl[i] + 1]
  <2>1. l \in Requests
    <3>1. sess.requestl \in Requests
      BY <1>1 DEF Record
    <3>2. sess.requestl[i] + 1 \in 0..MaxFail
      BY <1>0, <1>2, <3>1, BoundsAssumption DEF Requests, Loops
    <3> QED
      BY <3>1, <3>2 DEF Requests
  <2>2. sess' = [sess EXCEPT !.requestl = l]
    BY <1>2
  <2> HIDE DEF l
  <2>3. sess' \in Record
    BY <1>1, <2>1, <2>2 DEF Record
  <2>4. Same(sess', sess, {"requestl"})
    BY <1>1, <2>2 DEF Record, Same, Fields
  <2>5. Rest(sess')
    BY <1>1, <1>2, <2>3, <2>4 DEF Rest, Same, Fields, Said
  <2>6. Unseen(sess') /\ sess'.terminated = 0
    BY <1>2, <2>4, <2>5 DEF Unseen, Same, Fields
  <2>7. Due(sess') /\ Known(sess') /\ Modifies(sess')
    BY <1>1, <1>2, <2>4 DEF Live, Due, Known, Modifies, Same, Fields
  <2> QED
    BY <1>1, <2>6, <2>7, GoesOn
<1>3. ASSUME sess.terminated = 0,
             sess' = request_destructor(sipsess_terminate(sess, d, bye), i, bye)
      PROVE  Advance(sess')
  <2> DEFINE x == sipsess_terminate(sess, d, bye)
  <2>1. Ok(x) /\ x.told = Append(sess.told, "closed") /\ x.requestl = sess.requestl
    BY <1>1, <1>3, TerminateOk
  <2> HIDE DEF x
  <2>2. Ok(sess') /\ sess'.told = x.told
    BY <1>0, <1>3, <2>1, RequestGone DEF x
  <2> QED
    BY <1>1, <1>3, <2>1, <2>2 DEF Advance
<1>4. ASSUME sess' = request_destructor(Handler(sess, d, bye), i, bye)
      PROVE  Advance(sess')
  <2> DEFINE x == Handler(sess, d, bye)
  <2>1. /\ Ok(x) /\ x.told = sess.told /\ x.requestl = sess.requestl
        /\ x.held <=> sess.held /\ ~d
        /\ ~d => x = sess
    BY <1>1, HandlerOk
  <2> HIDE DEF x
  <2>2. Ok(sess') /\ sess'.told = x.told /\ sess'.held = x.held
    BY <1>0, <1>4, <2>1, RequestGone DEF x
  <2>3. sess'.told = sess.told
    BY <2>1, <2>2
  <2>4. CASE d
    BY <1>1, <2>1, <2>2, <2>3, <2>4 DEF Advance
  <2>5. CASE ~d
    BY <1>1, <2>1, <2>2, <2>3, <2>5 DEF Advance
  <2> QED
    BY <2>4, <2>5
<1>5. ASSUME sess' = request_destructor(sess, i, bye)
      PROVE  Advance(sess')
  BY <1>0, <1>1, <1>5, RequestGone DEF Advance
<1> QED
  BY <1>2, <1>3, <1>4, <1>5 DEF info_resp_handler
-----------------------------------------------------------------------------
(* The invariant, and what each step is to the holder of the session.      *)

LEMMA InvInit == Init => Inv /\ Contract!Init
<1> SUFFICES ASSUME Init PROVE Inv /\ Contract!Init
  OBVIOUS
<1> DEFINE n == New("out")
<1>0. sess = [n EXCEPT !.alive = FALSE, !.refs = 0]
  BY DEF Init, Nothing
<1>1. /\ n \in Record /\ n.refs = 1 /\ ~n.held /\ n.dir = "out"
      /\ n.terminated = 0 /\ ~n.established /\ ~n.peerterm /\ n.req = "none"
      /\ n.failc = 0 /\ ~n.st /\ n.replyl = <<>> /\ ~n.awaiting_answer
      /\ ~Some(n.requestl) /\ ~n.tmr /\ ~n.modify_pending /\ n.told = <<>>
      /\ ~n.answered /\ n.byes = 0
  BY NewOk
<1> HIDE DEF n
<1>2. sess \in Record
  BY <1>0, <1>1, Members DEF Record
<1>3. sess.alive = FALSE /\ sess.refs = 0 /\ Same(sess, n, {"alive", "refs"})
  BY <1>0, <1>1 DEF Record, Same, Fields
<1>4. Len(<<>>) = 0
  OBVIOUS
<1>5. Rest(sess)
  BY <1>1, <1>2, <1>3, <1>4, BoundsAssumption DEF Rest, Same, Fields, Said
<1>6. Owed(sess) = 0
  BY <1>1, <1>3, OwedIs DEF Same, Fields
<1>7. Dead(sess)
  BY <1>1, <1>3, <1>6 DEF Dead, Same, Fields, Said
<1>8. sess.held = FALSE
  BY <1>2, <1>7 DEF Dead, Record
<1> QED
  BY <1>3, <1>5, <1>7, <1>8 DEF Inv, Ok, Contract!Init

LEMMA InvNext == ASSUME Inv, [Next]_vars PROVE Inv' /\ SessStep
<1>1. CASE Holder
  <2>1. CASE sipsess_connect
    BY <2>1, ConnectInv
  <2>2. CASE \E final \in BOOLEAN : sipsess_accept(final)
    BY <2>2, AcceptInv
  <2>3. CASE sipsess_answer
    BY <2>3, AnswerInv, Advances
  <2>4. CASE sipsess_reject
    BY <2>4, RejectInv, Advances
  <2>5. CASE \E offer, ok \in BOOLEAN : sipsess_modify(offer, ok)
    BY <2>5, ModifyInv, Advances
  <2>6. CASE \E i \in Info : sipsess_info(i)
    BY <2>6, InfoInv, Advances
  <2>7. CASE \E bye \in BOOLEAN : Drop(bye)
    BY <2>7, DropInv, Advances
  <2> QED
    BY <1>1, <2>1, <2>2, <2>3, <2>4, <2>5, <2>6, <2>7 DEF Holder
<1>2. CASE Peer
  <2>1. PICK d \in InHandler, ok \in BOOLEAN, bye \in BOOLEAN :
           \/ cancel_handler(d, bye)
           \/ bye_handler(d, bye)
           \/ \E i \in DOMAIN sess.replyl, good \in BOOLEAN :
                 ack_handler(i, good, d, ok, bye)
           \/ reinvite_handler
    BY <1>2 DEF Peer
  <2>2. d \in BOOLEAN
    BY DEF InHandler
  <2>3. CASE cancel_handler(d, bye)
    BY <2>2, <2>3, CancelInv, Advances
  <2>4. CASE bye_handler(d, bye)
    BY <2>2, <2>4, ByeInv, Advances
  <2>5. CASE \E i \in DOMAIN sess.replyl, good \in BOOLEAN :
                ack_handler(i, good, d, ok, bye)
    BY <2>2, <2>5, AckInv, Advances
  <2>6. CASE reinvite_handler
    BY <2>6, ReinviteHandlerInv, Advances
  <2> QED
    BY <2>1, <2>3, <2>4, <2>5, <2>6
<1>3. CASE Answers
  <2>1. PICK d \in InHandler, ok \in BOOLEAN, bye \in BOOLEAN, c \in Final :
           \/ invite_resp_handler(c, d, ok, bye)
           \/ reinvite_resp_handler(c, d, ok, bye)
           \/ \E i \in Info : info_resp_handler(i, c, d, bye)
           \/ bye_resp_handler(c, ok)
    BY <1>3 DEF Answers
  <2>2. d \in BOOLEAN /\ (d => sess.held)
    BY DEF InHandler
  <2>3. CASE invite_resp_handler(c, d, ok, bye)
    BY <2>2, <2>3, InviteRespInv, Advances
  <2>4. CASE reinvite_resp_handler(c, d, ok, bye)
    BY <2>2, <2>4, ReinviteRespInv, Advances
  <2>5. CASE \E i \in Info : info_resp_handler(i, c, d, bye)
    BY <2>2, <2>5, InfoRespInv, Advances
  <2>6. CASE bye_resp_handler(c, ok)
    BY <2>6, ByeRespInv, Advances
  <2> QED
    BY <2>1, <2>3, <2>4, <2>5, <2>6
<1>4. CASE Timers
  <2>1. CASE \E d \in InHandler, bye \in BOOLEAN : reply_tmr_handler(d, bye)
    <3>1. PICK d \in InHandler, bye \in BOOLEAN : reply_tmr_handler(d, bye)
      BY <2>1
    <3>2. d \in BOOLEAN
      BY DEF InHandler
    <3> QED
      BY <3>1, <3>2, ReplyTmrInv, Advances
  <2>2. CASE \E ok \in BOOLEAN : modify_tmr_handler(ok)
    BY <2>2, ModifyTmrInv, Advances
  <2> QED
    BY <1>4, <2>1, <2>2 DEF Timers
<1>5. CASE UNCHANGED vars
  <2>1. sess' = sess
    BY <1>5 DEF vars
  <2>2. SessStep
    BY <2>1 DEF SessStep, Contract!vars
  <2>3. Inv'
    BY <2>1 DEF Inv, Ok, Rest, Dead, Counted, Live, Due, Known, Modifies,
                Said, Owed, Hold, Some
  <2> QED
    BY <2>2, <2>3
<1> QED
  BY <1>1, <1>2, <1>3, <1>4, <1>5 DEF Next

LEMMA InvAlways == Spec => []Inv
<1>1. Init => Inv
  BY InvInit
<1>2. Inv /\ [Next]_vars => Inv'
  BY InvNext
<1> QED
  BY <1>1, <1>2, PTL DEF Spec
-----------------------------------------------------------------------------
(* Whatever ends first, the references of the session are its holder's and *)
(* one for each thing it waits for, and it is freed with the last of them, *)
(* for any number of INFOs under way, any limit on failures and on answers *)
(* that wait for an ACK.                                                   *)
THEOREM ReferencesExact == Spec => []RefsExact
<1>1. Inv => RefsExact
  <2> SUFFICES ASSUME Inv PROVE RefsExact
    OBVIOUS
  <2>1. Rest(sess) /\ sess \in Record /\ (Dead(sess) \/ Counted(sess))
    BY DEF Inv, Ok, Rest
  <2>2. TypeOK
    BY <2>1 DEF TypeOK, Rest, Record, Refs, Stages, Reqs, Fails, Replies, Requests, Tells
  <2>3. ~sess.alive => sess.refs = 0 /\ ~sess.st /\ ~sess.tmr /\ Waits(sess) = {}
    BY <2>1, OwedIs DEF Dead, Counted
  <2>4. sess.alive => Counted(sess)
    BY <2>1 DEF Dead
  <2>5. sess.terminated = 2 => Waits(sess) \subseteq {"req"}
    BY <2>1 DEF Rest, Waits, Infos, Some
  <2>6. Count(sess) = Owed(sess) /\ Hold(sess) = One(sess.held)
    BY OwedIs DEF Hold
  <2> QED
    BY <2>2, <2>3, <2>4, <2>5, <2>6 DEF RefsExact, Counted
<1> QED
  BY <1>1, InvAlways, PTL

(* A session that gave or took a 2xx is freed only after it has said BYE,  *)
(* once, or the peer has ended it or no BYE could be sent.                 *)
THEOREM SaysGoodbye == Spec => []Goodbye
<1>1. Inv => Goodbye
  <2> SUFFICES ASSUME Inv PROVE Goodbye
    OBVIOUS
  <2>1. sess.byes \in Byes
    BY DEF Inv, Ok, Rest, Record
  <2>2. sess.byes <= 1
    BY <2>1 DEF Byes
  <2>3. ~sess.alive => Said(sess)
    BY DEF Inv, Ok, Dead, Counted
  <2> QED
    BY <2>2, <2>3 DEF Goodbye, Said
<1> QED
  BY <1>1, InvAlways, PTL

(* The session's offers and the peer's do not cross, a modification that   *)
(* was put off waits for something under way, and re-INVITEs are refused   *)
(* for lack of an answer only while an ACK that brings one is outstanding. *)
THEOREM OffersKeepOrder == Spec => []OffersInOrder
<1>1. Inv => OffersInOrder
  <2> SUFFICES ASSUME Inv PROVE OffersInOrder
    OBVIOUS
  <2>1. NoGlare
    BY DEF Inv, Ok, Rest, NoGlare
  <2>2. sess.alive /\ sess.terminated = 0 => Live(sess)
    BY DEF Inv, Ok, Dead, Counted
  <2>3. (\E i \in DOMAIN sess.replyl : sess.replyl[i]) <=> TRUE \in ToSet(sess.replyl)
    <3>1. sess.replyl \in Seq(BOOLEAN)
      BY DEF Inv, Ok, Rest, Record, Replies
    <3>2. \A i \in DOMAIN sess.replyl : sess.replyl[i] \in BOOLEAN
      BY <3>1
    <3> QED
      BY <3>2 DEF ToSet
  <2> QED
    BY <2>1, <2>2, <2>3
    DEF OffersInOrder, Live, Due, Modifies, ModifyGoesOn, AnswerDue
<1> QED
  BY <1>1, InvAlways, PTL

(* A session its holder has heard nothing of waits for an answer, for its  *)
(* holder, for an ACK or for a timer, unless its INVITE was refused.       *)
THEOREM NeverInLimbo == Spec => []NoLimbo
<1>1. Inv => NoLimbo
  <2> SUFFICES ASSUME Inv, sess.alive, sess.told = <<>>, sess.terminated = 0
               PROVE  sess.st \/ Waits(sess) # {} \/ sess.tmr \/ sess.gaveup
    BY DEF NoLimbo
  <2>1. Known(sess)
    BY DEF Inv, Ok, Dead, Counted, Live
  <2>a. <<"up">> # <<>>
    BY ONLY Len(<<"up">>) = 1, Len(<<>>) = 0
  <2>b. ~sess.established
    BY <2>1, <2>a DEF Known
  <2>2. sess.st \/ sess.gaveup \/ sess.req # "none" \/ sess.replyl # <<>>
    BY <2>1, <2>b DEF Known
  <2> QED
    BY <2>2, OwedIs
<1> QED
  BY <1>1, InvAlways, PTL

(* Every step of the session is one its holder was promised: told to be up *)
(* at most once and closed at most once, nothing once it is given up, and  *)
(* freed only then (SessContract without its fairness).                    *)
THEOREM KeepsContract == Spec => Contract!Init /\ [][Contract!Next]_(Contract!vars)
<1>1. Init => Contract!Init
  BY InvInit
<1>2. Inv /\ [Next]_vars => [Contract!Next]_(Contract!vars)
  BY InvNext DEF SessStep
<1> QED
  BY <1>1, <1>2, InvAlways, PTL DEF Spec
=============================================================================
