---------------------------- MODULE SipRegProofs ----------------------------
(***************************************************************************)
(* Proofs about SipReg, for every set of intervals, every width of the     *)
(* wait computation and all limits on failures.                            *)
(***************************************************************************)
EXTENDS SipReg, TLAPS

Waits == 0..(10 * FailMost + 2^Width)

Record ==
    [alive : BOOLEAN, held : BOOLEAN, used : BOOLEAN, refs : {0, 1},
     req : BOOLEAN, tmr : {Off} \cup Waits, ka : BOOLEAN,
     expires : Expires \cup {0}, failc : 0..FailShift, loop : 0..MaxFail,
     last : {"none", "2xx", "auth", "brief", "other"},
     registered : BOOLEAN, terminated : BOOLEAN]

(* What a sipreg looks like between two calls.                             *)
Shape(r) ==
    /\ r \in Record
    /\ r.alive <=> r.held \/ r.req
    /\ r.alive <=> r.refs = 1
    /\ r.used => (r.held <=> ~r.terminated)
    /\ ~r.used => ~r.held /\ ~r.req /\ ~r.terminated /\ ~r.registered
    /\ ~r.terminated => r.expires # 0
    /\ r.held => (r.req <=> r.tmr = Off)
    /\ ~r.held => r.tmr = Off
    /\ r.req => r.loop < MaxFail
    /\ r.ka => r.alive

(* What one looks like at the end of response_handler: nothing is under    *)
(* way.                                                                    *)
Ending(r) ==
    /\ r \in Record
    /\ r.alive /\ r.refs = 1 /\ r.used /\ ~r.req /\ r.tmr = Off
    /\ r.held <=> ~r.terminated
    /\ ~r.terminated => r.expires # 0

(* The inductive invariant: besides the shape, what the registrar may      *)
(* still keep.                                                             *)
Inv ==
    /\ Shape(reg)
    /\ lease \in Nat /\ failed \in BOOLEAN
    /\ ~reg.registered => lease = 0 \/ failed
    /\ NothingLeft
    /\ RefreshedInTime

(* A step of the contract, or none.                                        *)
RegStep == Contract!Next \/ RegState(reg') = RegState(reg)
-----------------------------------------------------------------------------
(* The operators.                                                          *)

LEMMA WaitsType == 10 * FailMost \in Nat /\ 2^Width \in Nat \ {0}
<1>1. 2^Width \in Int /\ 2^Width > 0
  BY WidthAssumption, PowerAssumption
<1> QED
  BY <1>1, FailAssumption

(* A wait after a failure is positive and bounded.                         *)
LEMMA FailWait ==
    ASSUME NEW n \in Nat, NEW w \in failwait(n)
    PROVE  w \in Waits \ {0}
<1>1. Min2(n, FailShift) \in 0..FailShift
  BY FailAssumption DEF Min2
<1> DEFINE p == 2^Min2(n, FailShift)
<1>2. p \in Int /\ p > 0
  BY <1>1, FailAssumption, PowerAssumption
<1> HIDE DEF p
<1>3. FailBase * p \in Int /\ FailBase * p > 0
  BY <1>2, FailAssumption, SMTT(30)
<1> DEFINE m == Min2(FailMost, FailBase * p)
<1>4. m \in 1..FailMost
  BY <1>3, FailAssumption DEF Min2
<1>5. w \in {m * f : f \in {5, 10}}
  BY DEF failwait, p
<1> HIDE DEF m
<1> QED
  BY <1>4, <1>5, WaitsType, FailAssumption DEF Waits

(* The refresh is due before what was granted has passed, however wide     *)
(* the computation is.                                                     *)
LEMMA Refresh ==
    ASSUME NEW g \in Nat
    PROVE  /\ RefreshWait(g) \in Waits
           /\ RefreshWait(g) > 0 => RefreshWait(g) < g * 10
<1>1. g * 9 \in Nat
  OBVIOUS
<1> DEFINE m == 2^Width
<1>2. m \in Nat \ {0}
  BY WaitsType
<1> HIDE DEF m
<1>3. (g * 9) % m \in 0..(m - 1) /\ (g * 9) % m <= g * 9
  BY <1>1, <1>2
<1> QED
  BY <1>3, <1>2, WaitsType, FailAssumption DEF RefreshWait, Waits, m

LEMMA FailuresType == ASSUME NEW r \in Record PROVE Failures(r) \in 0..FailShift
  BY FailAssumption DEF Record, Failures, Min2

LEMMA WaitsNat == Waits \subseteq Nat
  BY WaitsType DEF Waits

(* The end of response_handler leaves a sipreg in shape; it is freed only  *)
(* when it was given up and has nothing to register away, or cannot.       *)
LEMMA OutShape ==
    ASSUME NEW r, Ending(r), NEW w \in Waits, NEW ok \in BOOLEAN
    PROVE  LET o == Out(r, w, ok) IN
           /\ Shape(o)
           /\ o.used /\ o.held = r.held /\ o.registered = r.registered
           /\ o.held => o.alive /\ ~o.req /\ o.tmr = w
           /\ ~o.held /\ o.alive => /\ o.req /\ o.expires = 0 
                                    /\ r.registered /\ r.expires # 0
           /\ ~o.alive => r.terminated /\ (r.expires = 0 \/ ~r.registered \/ ~ok)
<1> DEFINE o == Out(r, w, ok)
<1> USE FailAssumption, WaitsNat
<1>0. r \in Record
  BY DEF Ending
<1>1. CASE ~r.terminated
  <2>1. o = [r EXCEPT !.tmr = w]
    BY <1>1 DEF Out, Ending
  <2>2. o \in Record
    BY <1>0, <2>1 DEF Record
  <2>3. /\ o.tmr = w
        /\ o.alive = r.alive /\ o.held = r.held /\ o.used = r.used
        /\ o.refs = r.refs /\ o.req = r.req /\ o.expires = r.expires
        /\ o.registered = r.registered /\ o.terminated = r.terminated
    BY <1>0, <2>1 DEF Record
  <2> HIDE DEF o
  <2> QED
    BY <1>1, <2>2, <2>3 DEF Shape, Off, o, Ending
<1>2. CASE r.terminated /\ r.registered /\ ok /\ r.expires # 0
  <2>1. o = [r EXCEPT !.expires = 0, !.loop = 0, !.last = "none", !.req = TRUE]
    BY <1>2 DEF Out, request
  <2>2. o \in Record
    <3>1. 0 \in 0..MaxFail /\ 0 \in Expires \cup {0}
      OBVIOUS
    <3> QED
      BY ONLY <1>0, <2>1, <3>1 DEF Record
  <2>3. /\ o.req = TRUE /\ o.expires = 0 /\ o.loop = 0
        /\ o.alive = r.alive /\ o.held = r.held /\ o.used = r.used
        /\ o.refs = r.refs /\ o.tmr = r.tmr
        /\ o.registered = r.registered /\ o.terminated = r.terminated
    BY <1>0, <2>1 DEF Record
  <2> HIDE DEF o
  <2>4. Shape(o)
    BY <1>2, <2>2, <2>3 DEF Shape, Off, Ending
  <2> QED
    BY <1>2, <2>2, <2>3, <2>4 DEF o, Ending
<1>3. CASE r.terminated /\ ~(r.registered /\ ok /\ r.expires # 0)
  <2>1. o = Free([r EXCEPT !.tmr = Off, !.terminated = TRUE])
    BY <1>3 DEF Out, mem_deref, destructor, Ending
  <2>2. o \in Record
    BY <1>0, <2>1 DEF Record, Free
  <2>3. /\ o.tmr = Off /\ o.alive = FALSE /\ o.refs = 0 /\ o.ka = FALSE
        /\ o.held = r.held /\ o.used = r.used
        /\ o.req = r.req /\ o.expires = r.expires
        /\ o.registered = r.registered /\ o.terminated = TRUE
    BY <1>0, <2>1 DEF Record, Free
  <2> HIDE DEF o
  <2>4. Shape(o)
    BY <1>3, <2>2, <2>3 DEF Shape, Off, Ending
  <2> QED
    BY <1>3, <2>2, <2>3, <2>4 DEF o, Ending
<1> QED
  BY <1>1, <1>2, <1>3
-----------------------------------------------------------------------------
LEMMA InvInit == Init => Inv
<1> SUFFICES ASSUME Init PROVE Inv
  OBVIOUS
<1> USE ExpiresAssumption, FailAssumption DEF Init, Nothing
<1>1. reg \in Record
  BY DEF Record
<1>2. Shape(reg)
  BY <1>1 DEF Shape, Off
<1> QED
  BY <1>2 DEF Inv, NothingLeft, RefreshedInTime, Off

(* The actions.                                                            *)

LEMMA RegisterInv == ASSUME Inv, sipreg_register PROVE Inv' /\ RegStep
<1> USE FailAssumption DEF Inv, Shape
<1>1. reg' = [reg EXCEPT !.alive = TRUE, !.refs = 1, !.held = TRUE, !.used = TRUE,
                         !.loop = 0, !.last = "none", !.req = TRUE]
  BY DEF sipreg_register, request, Record
<1>2. reg' \in Record
  <2>1. 0 \in 0..MaxFail
    OBVIOUS
  <2> QED
    BY <1>1, <2>1 DEF Record
<1>3. /\ reg'.alive /\ reg'.refs = 1 /\ reg'.held /\ reg'.used /\ reg'.loop = 0
      /\ reg'.req /\ reg'.tmr = reg.tmr /\ reg'.expires = reg.expires
      /\ reg'.registered = reg.registered /\ reg'.terminated = reg.terminated
      /\ reg.used = FALSE /\ lease' = lease /\ failed' = failed
  BY <1>1 DEF Record, sipreg_register
<1>4. Shape(reg)'
  BY <1>2, <1>3 DEF Off
<1>5. RegStep
  BY <1>3 DEF RegStep, RegState, Contract!Next, Contract!Register
<1> QED
  BY <1>3, <1>4, <1>5 DEF NothingLeft, RefreshedInTime, Off

LEMMA DropInv == ASSUME Inv, NEW ok \in BOOLEAN, Drop(ok) PROVE Inv' /\ RegStep
<1> USE FailAssumption, WaitsNat DEF Inv, Shape
<1>0. /\ reg \in Record /\ reg.held /\ reg.alive /\ reg.refs = 1 /\ reg.used
      /\ ~reg.terminated /\ reg.expires # 0
  BY DEF Drop
<1> DEFINE u == [reg EXCEPT !.held = FALSE]
<1>a. u \in Record /\ u.refs = 1 /\ u.terminated = FALSE
      /\ u.req = reg.req /\ u.registered = reg.registered
  BY <1>0 DEF Record
<1>b. reg' = destructor(u, ok)
  BY <1>a DEF Drop, mem_deref
<1>c. lease' = lease /\ failed' = (failed \/ (reg.registered /\ ~reg.req /\ ~ok))
  BY DEF Drop
<1>1. CASE reg.req
  <2>1. reg' = [reg EXCEPT !.held = FALSE, !.tmr = Off, !.terminated = TRUE]
    BY <1>a, <1>b, <1>1 DEF destructor, Record
  <2>2. reg' \in Record
    BY <1>0, <2>1 DEF Record
  <2>3. /\ reg'.alive = reg.alive /\ reg'.refs = 1 /\ reg'.held = FALSE
        /\ reg'.used = reg.used /\ reg'.loop = reg.loop /\ reg'.tmr = Off
        /\ reg'.req = reg.req /\ reg'.expires = reg.expires
        /\ reg'.registered = reg.registered /\ reg'.terminated = TRUE
    BY <1>0, <2>1 DEF Record
  <2>4. Shape(reg)'
    BY <1>0, <1>1, <2>2, <2>3 DEF Off
  <2>5. RegStep
    BY <1>0, <1>1, <2>3 DEF RegStep, RegState, Contract!Next, Contract!GiveUp
  <2> QED
    BY <1>0, <1>1, <1>c, <2>3, <2>4, <2>5 DEF NothingLeft, RefreshedInTime
<1>2. CASE ~reg.req /\ reg.registered /\ ok
  <2>1. reg' = [reg EXCEPT !.held = FALSE, !.tmr = Off, !.terminated = TRUE,
                           !.expires = 0, !.loop = 0, !.last = "none", !.req = TRUE]
    BY <1>a, <1>b, <1>0, <1>2 DEF destructor, request, Record
  <2>2. reg' \in Record
    <3>1. 0 \in 0..MaxFail /\ 0 \in Expires \cup {0}
      OBVIOUS
    <3> QED
      BY ONLY <1>0, <2>1, <3>1 DEF Record
  <2>3. /\ reg'.alive = reg.alive /\ reg'.refs = 1 /\ reg'.held = FALSE
        /\ reg'.used = reg.used /\ reg'.loop = 0 /\ reg'.tmr = Off
        /\ reg'.req = TRUE /\ reg'.expires = 0
        /\ reg'.registered = reg.registered /\ reg'.terminated = TRUE
    BY <1>0, <2>1 DEF Record
  <2>4. Shape(reg)'
    BY <1>0, <1>2, <2>2, <2>3 DEF Off
  <2>5. RegStep
    BY <1>0, <1>2, <2>3 DEF RegStep, RegState, Contract!Next, Contract!GiveUp
  <2> QED
    BY <1>0, <1>2, <1>c, <2>3, <2>4, <2>5 DEF NothingLeft, RefreshedInTime
<1>3. CASE ~reg.req /\ ~(reg.registered /\ ok)
  <2>1. reg' = [reg EXCEPT !.held = FALSE, !.tmr = Off, !.terminated = TRUE,
                           !.alive = FALSE, !.refs = 0, !.ka = FALSE]
    BY <1>a, <1>b, <1>0, <1>3 DEF destructor, Free, Record
  <2>2. reg' \in Record
    BY <1>0, <2>1 DEF Record
  <2>3. /\ reg'.alive = FALSE /\ reg'.refs = 0 /\ reg'.held = FALSE
        /\ reg'.used = reg.used /\ reg'.tmr = Off /\ reg'.ka = FALSE
        /\ reg'.req = reg.req
        /\ reg'.registered = reg.registered /\ reg'.terminated = TRUE
    BY <1>0, <2>1 DEF Record
  <2>4. Shape(reg)'
    BY <1>0, <1>3, <2>2, <2>3 DEF Off
  <2>5. RegStep
    BY <1>0, <1>3, <2>3 DEF RegStep, RegState, Contract!Next, Contract!GiveUp
  <2>6. failed' \in BOOLEAN /\ (failed \/ reg.registered => failed')
    BY <1>3, <1>c
  <2> QED
    BY <1>0, <1>c, <2>3, <2>4, <2>5, <2>6 DEF NothingLeft, RefreshedInTime
<1> QED
  BY <1>1, <1>2, <1>3

LEMMA TmrInv == ASSUME Inv, NEW ok \in BOOLEAN, tmr_handler(ok) PROVE Inv' /\ RegStep
<1> USE FailAssumption, WaitsNat DEF Inv, Shape
<1>0. /\ reg \in Record /\ reg.held /\ reg.alive /\ reg.used
      /\ ~reg.terminated /\ reg.req = FALSE
  <2>1. reg.tmr = 0 /\ reg \in Record
    BY DEF tmr_handler
  <2>2. reg.req \in BOOLEAN
    BY <2>1 DEF Record
  <2> QED
    BY <2>1, <2>2 DEF Off
<1>a. lease' = lease /\ failed' = (failed \/ ~ok)
  BY DEF tmr_handler
<1> DEFINE q == [reg EXCEPT !.tmr = Off, !.loop = 0, !.last = "none", !.req = ok]
<1>b. request([reg EXCEPT !.tmr = Off], TRUE, ok) = q
  BY <1>0 DEF request, Record
<1>c. q \in Record
  <2>1. 0 \in 0..MaxFail /\ Off \in {Off} \cup Waits
    OBVIOUS
  <2> QED
    BY ONLY <1>0, <2>1, ok \in BOOLEAN DEF Record
<1>1. CASE ok
  <2>1. reg' = q
    BY <1>b, <1>1 DEF tmr_handler
  <2>3. /\ reg'.alive = reg.alive /\ reg'.refs = reg.refs /\ reg'.held = reg.held
        /\ reg'.used = reg.used /\ reg'.loop = 0 /\ reg'.tmr = Off
        /\ reg'.req = TRUE /\ reg'.expires = reg.expires
        /\ reg'.registered = reg.registered /\ reg'.terminated = reg.terminated
    BY <1>0, <1>1, <2>1 DEF Record
  <2>4. Shape(reg)'
    <3> HIDE DEF q
    <3> QED
      BY <1>0, <1>c, <2>1, <2>3 DEF Off
  <2>5. RegStep
    BY <1>0, <2>3 DEF RegStep, RegState, Contract!Next, Contract!Again
  <2> QED
    BY <1>0, <1>1, <1>a, <2>3, <2>4, <2>5 DEF NothingLeft, RefreshedInTime, Off
<1>2. CASE ~ok
  <2>1. PICK w \in failwait(Failures(q)) :
             reg' = [q EXCEPT !.failc = Failures(q), !.tmr = w]
    BY <1>b, <1>2 DEF tmr_handler
  <2>2. Failures(q) \in 0..FailShift /\ w \in Waits \ {0}
    BY <1>c, FailuresType, FailWait
  <2> HIDE DEF q
  <2>3. reg' \in Record
    BY <1>c, <2>1, <2>2 DEF Record
  <2>4. reg'.tmr = w /\ reg'.req = q.req /\ reg'.alive = q.alive
        /\ reg'.refs = q.refs /\ reg'.held = q.held
        /\ reg'.used = q.used /\ reg'.expires = q.expires
        /\ reg'.registered = q.registered /\ reg'.terminated = q.terminated
        /\ reg'.ka = q.ka
    BY <1>c, <2>1 DEF Record
  <2>5. /\ q.alive = reg.alive /\ q.refs = reg.refs /\ q.held = reg.held
        /\ q.used = reg.used /\ q.req = FALSE /\ q.expires = reg.expires
        /\ q.registered = reg.registered /\ q.terminated = reg.terminated
        /\ q.ka = reg.ka
    BY <1>0, <1>2 DEF Record, q
  <2>6. Shape(reg)'
    BY <1>0, <2>2, <2>3, <2>4, <2>5 DEF Off
  <2>7. RegStep
    BY <1>0, <2>4, <2>5 DEF RegStep, RegState
  <2>8. failed' = TRUE
    BY <1>a, <1>2
  <2> QED
    BY <1>0, <1>a, <2>4, <2>5, <2>6, <2>7, <2>8 DEF NothingLeft, RefreshedInTime
<1> QED
  BY <1>1, <1>2

LEMMA KeepaliveInv == ASSUME Inv, keepalive_handler PROVE Inv' /\ RegStep
<1> USE FailAssumption, WaitsNat DEF Inv, Shape
<1> DEFINE k == [reg EXCEPT !.ka = FALSE]
<1>0. /\ k \in Record /\ k.ka = FALSE
      /\ k.alive = reg.alive /\ k.refs = reg.refs /\ k.held = reg.held
      /\ k.used = reg.used /\ k.req = reg.req /\ k.expires = reg.expires
      /\ k.registered = reg.registered /\ k.terminated = reg.terminated
      /\ k.tmr = reg.tmr /\ k.loop = reg.loop
  BY DEF Record
<1>a. lease' = lease /\ failed' = (failed \/ ~(reg.req \/ reg.terminated))
  BY DEF keepalive_handler
<1>1. CASE reg.req \/ reg.terminated
  <2>1. reg' = k
    BY <1>0, <1>1 DEF keepalive_handler
  <2> HIDE DEF k
  <2>2. Shape(reg)'
    BY <1>0, <2>1
  <2>3. RegStep
    BY <1>0, <2>1 DEF RegStep, RegState
  <2>4. failed' = failed
    BY <1>a, <1>1
  <2> QED
    BY <1>0, <1>a, <2>1, <2>2, <2>3, <2>4 DEF NothingLeft, RefreshedInTime
<1>2. CASE ~(reg.req \/ reg.terminated)
  <2>0. reg.ka
    BY DEF keepalive_handler
  <2>1. PICK w \in failwait(Failures(k)) :
             reg' = [k EXCEPT !.failc = Failures(k), !.tmr = w]
    BY <1>0, <1>2 DEF keepalive_handler
  <2>2. Failures(k) \in 0..FailShift /\ w \in Waits \ {0}
    BY <1>0, FailuresType, FailWait
  <2> HIDE DEF k
  <2>3. reg' \in Record
    BY <1>0, <2>1, <2>2 DEF Record
  <2>4. reg'.tmr = w /\ reg'.req = k.req /\ reg'.alive = k.alive
        /\ reg'.refs = k.refs /\ reg'.held = k.held
        /\ reg'.used = k.used /\ reg'.expires = k.expires
        /\ reg'.registered = k.registered /\ reg'.terminated = k.terminated
        /\ reg'.ka = k.ka
    BY <1>0, <2>1 DEF Record
  <2>5. Shape(reg)'
    BY <1>0, <1>2, <2>0, <2>2, <2>3, <2>4 DEF Off
  <2>6. RegStep
    BY <1>0, <2>4 DEF RegStep, RegState
  <2>7. failed' = TRUE
    BY <1>a, <1>2
  <2> QED
    BY <1>0, <1>a, <2>4, <2>5, <2>6, <2>7 DEF NothingLeft, RefreshedInTime
<1> QED
  BY <1>1, <1>2

LEMMA TickInv == ASSUME Inv, Tick PROVE Inv' /\ RegStep
<1> USE FailAssumption, WaitsNat DEF Inv, Shape
<1> DEFINE t == IF reg.tmr = Off THEN Off ELSE reg.tmr - 1
<1>0. reg.tmr \in {Off} \cup Waits /\ reg \in Record /\ reg.tmr # 0
  BY DEF Record, Tick
<1>1. t \in {Off} \cup Waits /\ (t = Off <=> reg.tmr = Off)
  BY <1>0, WaitsType DEF Off, Waits
<1>2. reg' = [reg EXCEPT !.tmr = t] /\ failed' = failed
      /\ lease' = IF lease = 0 THEN 0 ELSE lease - 1
  BY DEF Tick
<1>3. lease' \in Nat /\ lease' <= lease /\ (lease > 0 => lease' = lease - 1)
  BY <1>2
<1>4. reg.tmr > 0 /\ t > 0 => t = reg.tmr - 1
  BY <1>0 DEF Off
<1>5. reg.tmr = Off => t = Off
  OBVIOUS
<1>6. reg.tmr # Off => reg.tmr > 0 /\ reg.tmr \in Nat
  <2>1. reg.tmr # Off => reg.tmr \in Nat
    BY ONLY <1>0, WaitsNat
  <2> QED
    BY ONLY <1>0, <2>1
<1> HIDE DEF t
<1>7. reg' \in Record
  BY <1>0, <1>1, <1>2 DEF Record
<1>8. /\ reg'.tmr = t /\ reg'.req = reg.req /\ reg'.alive = reg.alive
      /\ reg'.refs = reg.refs /\ reg'.held = reg.held
      /\ reg'.used = reg.used /\ reg'.expires = reg.expires
      /\ reg'.registered = reg.registered /\ reg'.terminated = reg.terminated
      /\ reg'.ka = reg.ka /\ reg'.loop = reg.loop
  BY <1>0, <1>2 DEF Record
<1>9. Shape(reg)'
  BY <1>1, <1>7, <1>8
<1>10. RegStep
  BY <1>8 DEF RegStep, RegState
<1>11. RefreshedInTime'
  BY <1>2, <1>3, <1>4, <1>5, <1>6, <1>8 DEF RefreshedInTime, Off
<1> QED
  BY <1>2, <1>3, <1>8, <1>9, <1>10, <1>11 DEF NothingLeft

(* A sipreg in response_handler, its answer noted in the other fields.     *)
Answering(r) ==
    /\ r \in Record
    /\ r.alive = reg.alive /\ r.refs = reg.refs /\ r.held = reg.held
    /\ r.used = reg.used /\ r.req = FALSE /\ r.tmr = reg.tmr
    /\ r.terminated = reg.terminated
    /\ reg.expires = 0 => r.expires = 0
    /\ ~reg.terminated => r.expires # 0
    /\ reg.registered => r.registered

(* What the end of response_handler does to a sipreg that had a request    *)
(* under way.                                                              *)
LEMMA OutStep ==
    ASSUME Inv, reg.req, NEW r, Answering(r), NEW w \in Waits, NEW ok \in BOOLEAN,
           reg' = Out(r, w, ok)
    PROVE  /\ Shape(reg)' /\ RegStep
           /\ reg'.held = reg.held /\ reg'.registered = r.registered
           /\ reg'.held => reg'.alive /\ reg'.tmr = w
           /\ ~reg'.alive => /\ reg.terminated
                             /\ r.expires = 0 \/ ~r.registered \/ ~ok
<1> USE DEF Inv, Shape
<1>1. Ending(r)
  BY DEF Answering, Ending
<1> DEFINE o == Out(r, w, ok)
<1>2. /\ Shape(o)
      /\ o.used /\ o.held = r.held /\ o.registered = r.registered
      /\ o.held => o.alive /\ ~o.req /\ o.tmr = w
      /\ ~o.held /\ o.alive => /\ o.req /\ o.expires = 0
                               /\ r.registered /\ r.expires # 0
      /\ ~o.alive => r.terminated /\ (r.expires = 0 \/ ~r.registered \/ ~ok)
  BY <1>1, OutShape
<1> HIDE DEF o
<1>3. reg' = o
  BY DEF o
<1>4. RegStep
  <2>1. CASE reg.held
    BY <1>2, <1>3, <2>1
    DEF RegStep, RegState, Answering, Contract!Next, Contract!Fails, Contract!Succeeds
  <2>2. CASE ~reg.held
    BY <1>2, <1>3, <2>2
    DEF RegStep, RegState, Answering, Contract!Next, Contract!Last,
        Contract!Unregistered
  <2> QED
    BY <2>1, <2>2
<1> QED
  BY <1>2, <1>3, <1>4 DEF Answering

LEMMA ErrorInv ==
    ASSUME Inv, NEW ok \in BOOLEAN, response_error(ok) PROVE Inv' /\ RegStep
<1> DEFINE r == [Answered EXCEPT !.failc = Failures(reg)]
<1>0. /\ reg \in Record /\ reg.req /\ failed' = TRUE
  BY DEF Inv, Shape, response_error
<1>1. PICK w \in failwait(reg.failc + 1), g \in Expires :
         /\ reg' = Out(r, w, ok)
         /\ lease' \in {lease, IF reg.expires = 0 THEN 0 ELSE g * 10}
  BY DEF response_error
<1>2. Failures(reg) \in 0..FailShift /\ w \in Waits
  <2>1. reg.failc + 1 \in Nat
    BY <1>0, FailAssumption DEF Record
  <2> QED
    BY <1>0, <2>1, FailuresType, FailWait
<1>3. Answering(r) /\ r.registered = reg.registered
  <2>1. r \in Record
    BY <1>0, <1>2 DEF Answered, Record
  <2> QED
    BY <1>0, <2>1 DEF Answering, Answered, Record, Inv, Shape
<1>4. lease' \in Nat
  BY <1>1, ExpiresAssumption DEF Inv
<1> HIDE DEF r
<1>5. Shape(reg)' /\ RegStep
  BY <1>0, <1>1, <1>2, <1>3, OutStep
<1> QED
  BY <1>0, <1>4, <1>5 DEF Inv, NothingLeft, RefreshedInTime

LEMMA SuccessInv ==
    ASSUME Inv, NEW g \in Expires, NEW stated \in Stated, NEW ok \in BOOLEAN,
           response_2xx(g, stated, ok)
    PROVE  Inv' /\ RegStep
<1> DEFINE r == [Looped(Answered, "2xx") EXCEPT !.registered = TRUE, !.failc = 0]
           k == [r EXCEPT !.ka = @ \/ (Outbound /\ ~r.terminated)]
           n == contact_handler(g, stated)
           w == RefreshWait(n)
<1>0. /\ reg \in Record /\ reg.req /\ g \in Nat
      /\ failed' = (reg.expires # 0 /\ (g < n \/ (~ok /\ reg.terminated)))
      /\ lease' = IF reg.expires = 0 THEN 0 ELSE g * 10
  BY ExpiresAssumption DEF Inv, Shape, response_2xx
<1>1. reg' \in {Out(r, w, ok), Out(k, w, ok)}
  BY DEF response_2xx
<1>2. n \in Nat
  <2>1. reg.expires \in Expires \cup {0}
    BY <1>0 DEF Record
  <2>2. reg.expires \in Nat
    <3>1. Expires \cup {0} \subseteq Nat
      BY ExpiresAssumption
    <3> QED
      BY ONLY <2>1, <3>1
  <2> QED
    BY <1>0, <2>2, ExpiresAssumption DEF contact_handler, Stated
<1>3. w \in Waits /\ (w > 0 => w < n * 10)
  BY <1>2, Refresh
<1>4. Answering(r) /\ r.registered = TRUE /\ r.expires = reg.expires
  <2>1. 0 \in 0..MaxFail /\ 0 \in 0..FailShift
    BY FailAssumption
  <2>2. r = [reg EXCEPT !.req = FALSE, !.loop = 0, !.last = "2xx",
                        !.registered = TRUE, !.failc = 0]
    BY <1>0 DEF Looped, Answered, Record
  <2> HIDE DEF r
  <2>3. r \in Record
    BY <1>0, <2>1, <2>2 DEF Record
  <2> QED
    BY <1>0, <2>2, <2>3 DEF Answering, Record, Inv, Shape
<1> HIDE DEF r
<1>5. Answering(k) /\ k.registered = TRUE /\ k.expires = reg.expires
  <2>1. r \in Record /\ (r.ka \/ (Outbound /\ ~r.terminated)) \in BOOLEAN
    BY <1>4 DEF Answering
  <2>2. k \in Record
    BY <2>1 DEF Record
  <2> QED
    BY <1>4, <2>1, <2>2 DEF Answering, Record
<1> HIDE DEF k, w, n
<1>6. /\ Shape(reg)' /\ RegStep
      /\ reg'.held = reg.held /\ reg'.registered
      /\ reg'.held => reg'.tmr = w
      /\ ~reg'.alive => reg.terminated /\ (reg.expires = 0 \/ ~ok)
  <2>1. CASE reg' = Out(r, w, ok)
    BY <1>0, <1>3, <1>4, <2>1, OutStep
  <2>2. CASE reg' = Out(k, w, ok)
    BY <1>0, <1>3, <1>5, <2>2, OutStep
  <2> QED
    BY <1>1, <2>1, <2>2
<1>7. lease' \in Nat /\ failed' \in BOOLEAN
  BY <1>0
<1>8. NothingLeft'
  <2>1. CASE reg.expires = 0
    BY <1>0, <2>1 DEF NothingLeft
  <2>2. CASE reg.expires # 0 /\ ~reg'.alive
    BY <1>0, <1>6, <2>2 DEF NothingLeft
  <2> QED
    BY <2>1, <2>2 DEF NothingLeft
<1>9. RefreshedInTime'
  <2> SUFFICES ASSUME reg'.held, reg'.tmr > 0, ~failed' PROVE lease' > reg'.tmr
    BY DEF RefreshedInTime
  <2>1. reg.expires # 0
    BY <1>6 DEF Inv, Shape
  <2>2. ~(g < n)
    BY <1>0, <2>1, Zenon
  <2> QED
    BY <1>0, <1>2, <1>3, <1>6, <2>1, <2>2, WaitsNat
<1> QED
  BY <1>6, <1>7, <1>8, <1>9 DEF Inv

(* The same request again, after 401, 407 or 423.                          *)
LEMMA RetryStep ==
    ASSUME Inv, reg.req, NEW r, Answering(r), r.loop < MaxFail,
           r.registered = reg.registered, reg.terminated => reg.registered,
           reg' = request(r, FALSE, TRUE)
    PROVE  Shape(reg)' /\ RegStep
<1> USE DEF Inv, Shape
<1> DEFINE e == IF r.terminated THEN 0 ELSE r.expires
<1>1. reg' = [r EXCEPT !.expires = e, !.req = TRUE]
  BY DEF request, Answering, Record
<1>2. e \in Expires \cup {0} /\ r \in Record
  BY DEF Answering, Record
<1>3. r.terminated => e = 0
  OBVIOUS
<1>4. ~r.terminated => e = r.expires
  OBVIOUS
<1> HIDE DEF e
<1>5. reg' \in Record
  BY <1>1, <1>2 DEF Record
<1>6. /\ reg'.tmr = r.tmr /\ reg'.req = TRUE /\ reg'.alive = r.alive
      /\ reg'.refs = r.refs /\ reg'.held = r.held
      /\ reg'.used = r.used /\ reg'.expires = e
      /\ reg'.registered = r.registered /\ reg'.terminated = r.terminated
      /\ reg'.ka = r.ka /\ reg'.loop = r.loop
  BY <1>1, <1>2 DEF Record
<1>7. Shape(reg)'
  BY <1>3, <1>4, <1>5, <1>6 DEF Answering
<1>8. RegStep
  <2>1. CASE reg.held
    BY <1>6, <2>1 DEF RegStep, RegState, Answering
  <2>2. CASE ~reg.held
    BY <1>3, <1>6, <2>2
    DEF RegStep, RegState, Answering, Contract!Next, Contract!Last
  <2> QED
    BY <2>1, <2>2
<1> QED
  BY <1>7, <1>8

LEMMA FailureInv ==
    ASSUME Inv, NEW c \in {"auth", "brief", "other"}, NEW e \in Expires,
           NEW retry \in BOOLEAN, NEW ok \in BOOLEAN,
           response_failure(c, e, retry, ok)
    PROVE  Inv' /\ RegStep
<1> DEFINE r == Looped(Answered, c)
           f == [r EXCEPT !.failc = Failures(r)]
           brief == c = "brief" /\ e # 0 /\ reg.expires # 0
           n == IF brief THEN e ELSE r.expires
           q == request([f EXCEPT !.expires = n], FALSE, FALSE)
<1>0. /\ reg \in Record /\ reg.req /\ failed' = TRUE /\ lease' = lease
      /\ reg.loop \in 0..(MaxFail - 1) /\ lease \in Nat
  <2>1. reg \in Record /\ reg.req /\ reg.loop < MaxFail
    BY DEF Inv, Shape, response_failure
  <2>2. reg.loop \in 0..MaxFail
    BY <2>1 DEF Record
  <2> QED
    BY <2>1, <2>2, FailAssumption DEF Inv, response_failure
<1>1. r = [reg EXCEPT !.req = FALSE, !.loop = reg.loop + 1, !.last = c]
  BY <1>0 DEF Looped, Answered, Record
<1>2. PICK w \in failwait(reg.failc + 1) :
           \/ /\ Loops(Answered, c)
              /\ reg' = Out(f, w, ok)
           \/ /\ ~Loops(Answered, c) /\ r.terminated /\ ~r.registered
              /\ reg' = Out(r, w, ok)
           \/ /\ ~Loops(Answered, c) /\ ~(r.terminated /\ ~r.registered)
              /\ \/ c = "auth" /\ retry /\ reg' = request(r, FALSE, TRUE)
                 \/ /\ brief /\ retry
                    /\ reg' = request([r EXCEPT !.expires = e], FALSE, TRUE)
                 \/ reg' = Out(q, w, ok)
                 \/ reg' = Out(f, w, ok)
  BY DEF response_failure
<1>3. w \in Waits
  <2>1. reg.failc + 1 \in Nat
    BY <1>0, FailAssumption DEF Record
  <2> QED
    BY <2>1, FailWait
<1>4. ~Loops(Answered, c) => reg.loop + 1 < MaxFail
  <2>1. Answered.loop = reg.loop
    BY <1>0 DEF Answered, Record
  <2> QED
    BY <1>0, <2>1, FailAssumption DEF Loops
<1> HIDE DEF r
<1>5. Answering(r) /\ r.registered = reg.registered /\ r.loop = reg.loop + 1
  <2>1. reg.loop + 1 \in 0..MaxFail /\ c \in {"none", "2xx", "auth", "brief", "other"}
    BY <1>0, FailAssumption
  <2>2. r \in Record
    BY <1>0, <1>1, <2>1 DEF Record
  <2> QED
    BY <1>0, <1>1, <2>2 DEF Answering, Record, Inv, Shape
<1>6. Answering(f) /\ f.registered = reg.registered
  <2>1. Failures(r) \in 0..FailShift /\ r \in Record
    BY <1>5, FailuresType DEF Answering
  <2>2. f \in Record
    BY <2>1 DEF Record
  <2> QED
    BY <1>5, <2>1, <2>2 DEF Answering, Record
<1> HIDE DEF f
<1>7. ASSUME brief
      PROVE  LET b == [r EXCEPT !.expires = e]
             IN  Answering(b) /\ b.registered = reg.registered
                 /\ b.loop = reg.loop + 1
  <2> DEFINE b == [r EXCEPT !.expires = e]
  <2>1. b \in Record
    BY <1>5 DEF Answering, Record
  <2> QED
    BY <1>5, <1>7, <2>1 DEF Answering, Record
<1>8. Answering(q) /\ q.registered = reg.registered
  <2>1. /\ n \in Expires \cup {0}
        /\ reg.expires = 0 => n = 0
        /\ ~reg.terminated => n # 0
    <3>1. r.expires \in Expires \cup {0}
      BY <1>5 DEF Answering, Record
    <3>2. CASE brief
      BY <3>2
    <3>3. CASE ~brief
      BY <1>5, <3>1, <3>3 DEF Answering
    <3> QED
      BY <3>2, <3>3
  <2> HIDE DEF n
  <2> DEFINE z == IF f.terminated THEN 0 ELSE n
  <2>2. z \in Expires \cup {0}
    BY <2>1
  <2>3. (~f.terminated => z = n) /\ (n = 0 => z = 0)
    OBVIOUS
  <2>4. q = [f EXCEPT !.expires = z, !.req = FALSE]
    BY <1>6 DEF request, Answering, Record
  <2> HIDE DEF q, z
  <2>5. q \in Record
    BY <1>6, <2>2, <2>4 DEF Answering, Record
  <2> QED
    BY <1>6, <2>1, <2>3, <2>4, <2>5 DEF Answering, Record
<1> HIDE DEF q, n
<1>9. Shape(reg)' /\ RegStep
  <2>1. CASE reg' = Out(f, w, ok)
    BY <1>0, <1>3, <1>6, <2>1, OutStep
  <2>2. CASE reg' = Out(r, w, ok)
    BY <1>0, <1>3, <1>5, <2>2, OutStep
  <2>3. CASE reg' = Out(q, w, ok)
    BY <1>0, <1>3, <1>8, <2>3, OutStep
  <2>4. CASE /\ ~Loops(Answered, c) /\ ~(r.terminated /\ ~r.registered)
             /\ reg' = request(r, FALSE, TRUE)
    <3>1. r.loop < MaxFail /\ (reg.terminated => reg.registered)
      BY <1>4, <1>5, <2>4 DEF Answering
    <3> QED
      BY <1>0, <1>5, <2>4, <3>1, RetryStep
  <2>5. CASE /\ ~Loops(Answered, c) /\ ~(r.terminated /\ ~r.registered) /\ brief
             /\ reg' = request([r EXCEPT !.expires = e], FALSE, TRUE)
    <3> DEFINE b == [r EXCEPT !.expires = e]
    <3>1. Answering(b) /\ b.registered = reg.registered /\ b.loop = reg.loop + 1
      BY <1>7, <2>5
    <3> HIDE DEF b
    <3>2. b.loop < MaxFail /\ (reg.terminated => reg.registered)
      BY <1>4, <1>5, <2>5, <3>1 DEF Answering
    <3>3. reg' = request(b, FALSE, TRUE)
      BY <2>5 DEF b
    <3> QED
      BY <1>0, <3>1, <3>2, <3>3, RetryStep
  <2> QED
    BY <1>2, <2>1, <2>2, <2>3, <2>4, <2>5
<1> QED
  BY <1>0, <1>9 DEF Inv, NothingLeft, RefreshedInTime
-----------------------------------------------------------------------------
(* Every step keeps the invariant and is one of the contract's.            *)
LEMMA InvNext == Inv /\ [Next]_vars => Inv' /\ RegStep
<1> SUFFICES ASSUME Inv, [Next]_vars PROVE Inv' /\ RegStep
  OBVIOUS
<1>1. CASE sipreg_register
  BY <1>1, RegisterInv
<1>2. ASSUME NEW ok \in BOOLEAN, Drop(ok) PROVE Inv' /\ RegStep
  BY <1>2, DropInv
<1>3. ASSUME NEW ok \in BOOLEAN, tmr_handler(ok) PROVE Inv' /\ RegStep
  BY <1>3, TmrInv
<1>4. CASE keepalive_handler
  BY <1>4, KeepaliveInv
<1>5. ASSUME NEW ok \in BOOLEAN, response_error(ok) PROVE Inv' /\ RegStep
  BY <1>5, ErrorInv
<1>6. ASSUME NEW ok \in BOOLEAN, NEW g \in Expires, NEW stated \in Stated,
             response_2xx(g, stated, ok)
      PROVE  Inv' /\ RegStep
  BY <1>6, SuccessInv
<1>7. ASSUME NEW ok \in BOOLEAN, NEW c \in {"auth", "brief", "other"},
             NEW e \in Expires, NEW retry \in BOOLEAN,
             response_failure(c, e, retry, ok)
      PROVE  Inv' /\ RegStep
  BY <1>7, FailureInv
<1>8. CASE Tick
  BY <1>8, TickInv
<1>9. CASE UNCHANGED vars
  BY <1>9 DEF vars, Inv, RegStep, NothingLeft, RefreshedInTime
<1> QED
  BY <1>1, <1>2, <1>3, <1>4, <1>5, <1>6, <1>7, <1>8, <1>9 DEF Next, Ends

LEMMA InvAlways == Spec => []Inv
  BY InvInit, InvNext, PTL DEF Spec

LEMMA InvType == Inv => TypeOK
<1> SUFFICES ASSUME Inv PROVE TypeOK
  OBVIOUS
<1>1. reg \in Record
  BY DEF Inv, Shape
<1>2. reg.tmr \in {Off} \cup Waits
  BY <1>1 DEF Record
<1>3. reg.tmr \in -1..(10 * FailMost + 2^Width)
  BY <1>2, WaitsType DEF Waits, Off
<1> QED
  BY <1>1, <1>3 DEF TypeOK, Inv, Record

(* Every libre registration is never idle and never has two requests       *)
(* coming, whatever the registrar grants, demands or does not answer, and  *)
(* it exists exactly as long as somebody needs it (response_handler,       *)
(* tmr_handler, keepalive_handler and destructor of reg.c).                *)
THEOREM NeverTwoRequests == Spec => []OneAtATime
<1>1. Inv => OneAtATime
  BY InvType DEF Inv, Shape, OneAtATime
<1> QED
  BY <1>1, InvAlways, PTL

(* A registration that is gone has left no contact at the registrar,       *)
(* unless its last request failed (destructor and the end of               *)
(* response_handler).                                                      *)
THEOREM RegisteredAway == Spec => []NothingLeft
<1>1. Inv => NothingLeft
  BY DEF Inv
<1> QED
  BY <1>1, InvAlways, PTL

(* For every interval a registrar can grant, wherever its answer states    *)
(* it, whatever the default and however narrow the integer wait is         *)
(* computed in, the refresh begins while the contact is still kept, if the *)
(* registrar grants no less than contact_handler reads from its answer     *)
(* (wait in response_handler).                                             *)
THEOREM RefreshInTime == Spec => []RefreshedInTime
<1>1. Inv => RefreshedInTime
  BY DEF Inv
<1> QED
  BY <1>1, InvAlways, PTL

(* The safety part of ContractSpec: a sipreg goes through the states of    *)
(* RegContract, by the steps the rest of the program relies on.            *)
THEOREM KeepsContract ==
    Spec => Contract!Init /\ [][Contract!Next]_(RegState(reg))
<1>1. Init => Contract!Init
  BY DEF Init, Nothing, Contract!Init, RegState
<1>2. Inv /\ [Next]_vars => [Contract!Next]_(RegState(reg))
  BY InvNext DEF RegStep
<1> QED
  BY <1>1, <1>2, InvAlways, PTL DEF Spec
=============================================================================
