---------------------------- MODULE StacksProofs ----------------------------
(***************************************************************************)
(* Proofs about Stacks, for every number of stacks, UEs and sessions: the  *)
(* reference counts of the stacks add up whatever happens in whatever      *)
(* order, so that each is destroyed and reports its exit when it should.   *)
(***************************************************************************)
EXTENDS Stacks, FiniteSetTheorems, TLAPS

StackRec == [nrefs : Nat, closing : BOOLEAN, exits : Nat]

(* The count of a stack with h holders.  Before Cleanup has closed and     *)
(* freed it, sip_stacks[s].first is one reference more.  Afterwards it is  *)
(* one short until the exit handler has been called, as the destructor     *)
(* gives back the reference that was taken away to make it run.            *)
Balance(r, h, closed) ==
    \/ ~closed /\ ~r.closing /\ r.exits = 0 /\ r.nrefs = h + 1
    \/ closed /\ r.closing /\ r.exits = 0 /\ r.nrefs = h - 1 /\ h >= 2
    \/ closed /\ ~r.closing /\ r.exits = 1 /\ r.nrefs = h

(* The stacks that have not reported their exit.                           *)
Unreported(f) == {s \in Stack : f[s].exits = 0}

(* The inductive invariant.                                                *)
Balanced == \A s \in Stack : Balance(sip[s], Holders(s), Closed)

Socks == \A s \in Stack : sock[s] = nsess[s] + (IF Closed THEN 0 ELSE 1)

Reports ==
    /\ active = Cardinality(Unreported(sip))
    /\ ~polling /\ times <= CancelAt => active = 0

Order ==
    /\ stage = "run" => times = 0
    /\ \A u \in UE : u > sent => reg[u] = "null"

Inv == TypeOK /\ Balanced /\ Socks /\ Reports /\ Order
-----------------------------------------------------------------------------
(* The operators on one stack.                                             *)

LEMMA RefBalance ==
    ASSUME NEW r \in StackRec, NEW h \in Nat, NEW c \in BOOLEAN,
           Balance(r, h, c)
    PROVE  /\ mem_ref(r) \in StackRec /\ Balance(mem_ref(r), h + 1, c)
           /\ mem_ref(r).exits = r.exits
  BY DEF mem_ref, Balance, StackRec

(* What mem_deref does to the fields.                                      *)
LEMMA DerefFacts ==
    ASSUME NEW r \in StackRec, r.nrefs > 0
    PROVE  /\ mem_deref(r) \in StackRec
           /\ r.nrefs # 1 => /\ mem_deref(r).nrefs = r.nrefs - 1
                             /\ mem_deref(r).closing = r.closing
                             /\ mem_deref(r).exits = r.exits
           /\ r.nrefs = 1 /\ r.closing => /\ mem_deref(r).nrefs = 1
                                          /\ ~mem_deref(r).closing
                                          /\ mem_deref(r).exits = r.exits + 1
           /\ r.nrefs = 1 /\ ~r.closing => /\ mem_deref(r).nrefs = 0
                                           /\ ~mem_deref(r).closing
                                           /\ mem_deref(r).exits = r.exits
<1>1. r.nrefs \in Nat /\ r.closing \in BOOLEAN /\ r.exits \in Nat
  BY DEF StackRec
<1>2. CASE r.nrefs # 1
  <2>1. mem_deref(r) = [r EXCEPT !.nrefs = @ - 1]
    BY <1>2 DEF mem_deref
  <2>2. /\ mem_deref(r).nrefs = r.nrefs - 1
        /\ mem_deref(r).closing = r.closing
        /\ mem_deref(r).exits = r.exits
    BY <2>1 DEF StackRec
  <2>3. mem_deref(r) \in StackRec
    BY <1>1, <2>1 DEF StackRec
  <2> QED
    BY <1>2, <2>2, <2>3
<1>3. CASE r.nrefs = 1 /\ r.closing
  <2>1. mem_deref(r) = [r EXCEPT !.closing = FALSE, !.exits = @ + 1]
    BY <1>3 DEF mem_deref
  <2>2. /\ mem_deref(r).nrefs = r.nrefs
        /\ ~mem_deref(r).closing
        /\ mem_deref(r).exits = r.exits + 1
    BY <2>1 DEF StackRec
  <2>3. r.exits + 1 \in Nat
    BY <1>1
  <2>4. [r EXCEPT !.closing = FALSE, !.exits = r.exits + 1] \in StackRec
    BY <2>3 DEF StackRec
  <2> QED
    BY <1>3, <2>1, <2>2, <2>4
<1>4. CASE r.nrefs = 1 /\ ~r.closing
  <2>1. mem_deref(r) = [r EXCEPT !.nrefs = 0]
    BY <1>4 DEF mem_deref
  <2> QED
    BY <1>1, <1>4, <2>1 DEF StackRec
<1> QED
  BY <1>1, <1>2, <1>3, <1>4

(* A holder lets go: the count stays right, whether or not this makes the  *)
(* exit handler run, which it does at most once.                           *)
LEMMA DerefBalance ==
    ASSUME NEW r \in StackRec, NEW h \in Nat, NEW c \in BOOLEAN,
           Balance(r, h + 1, c)
    PROVE  /\ mem_deref(r) \in StackRec /\ Balance(mem_deref(r), h, c)
           /\ \/ mem_deref(r).exits = r.exits
              \/ r.exits = 0 /\ mem_deref(r).exits = 1
<1>1. r.nrefs \in Nat /\ r.closing \in BOOLEAN /\ r.exits \in Nat
  BY DEF StackRec
<1>2. r.nrefs > 0
  BY <1>1 DEF Balance
<1> DEFINE q == mem_deref(r)
<1>3. /\ q \in StackRec
      /\ r.nrefs # 1 => q.nrefs = r.nrefs - 1 /\ q.closing = r.closing
                        /\ q.exits = r.exits
      /\ r.nrefs = 1 /\ r.closing => q.nrefs = 1 /\ ~q.closing
                                     /\ q.exits = r.exits + 1
      /\ r.nrefs = 1 /\ ~r.closing => q.nrefs = 0 /\ ~q.closing
                                      /\ q.exits = r.exits
  BY <1>2, DerefFacts
<1> HIDE DEF q
<1>4. Balance(q, h, c) /\ (q.exits = r.exits \/ (r.exits = 0 /\ q.exits = 1))
  BY <1>1, <1>3 DEF Balance
<1> QED
  BY <1>3, <1>4 DEF q

(* Several holders let go before the stacks are closed.                    *)
LEMMA DerefNBalance ==
    ASSUME NEW r \in StackRec, NEW h \in Nat, NEW n \in Nat,
           Balance(r, h + n, FALSE)
    PROVE  /\ mem_deref_n(r, n) \in StackRec
           /\ Balance(mem_deref_n(r, n), h, FALSE)
           /\ mem_deref_n(r, n).exits = r.exits
<1>1. r.nrefs = h + n + 1 /\ ~r.closing /\ r.exits = 0
  BY DEF Balance
<1>2. CASE n = 0
  <2>1. mem_deref_n(r, n) = r
    BY <1>2 DEF mem_deref_n
  <2> QED
    BY <1>1, <1>2, <2>1 DEF Balance
<1>3. CASE n # 0
  <2> DEFINE o == [r EXCEPT !.nrefs = @ - (n - 1)]
  <2>1. /\ o \in StackRec /\ o.nrefs = h + 2 /\ ~o.closing /\ o.exits = 0
    BY <1>1, <1>3 DEF StackRec
  <2>2. mem_deref_n(r, n) = mem_deref(o)
    BY <1>3 DEF mem_deref_n
  <2> HIDE DEF o
  <2>3. /\ mem_deref(o) \in StackRec /\ mem_deref(o).nrefs = h + 1
        /\ ~mem_deref(o).closing /\ mem_deref(o).exits = 0
    BY <2>1, DerefFacts
  <2> QED
    BY <1>1, <2>2, <2>3 DEF Balance
<1> QED
  BY <1>2, <1>3

(* Closing and freeing a stack: two references are taken away, but one is  *)
(* given back as soon as nobody or only one holder is left.                *)
LEMMA CloseBalance ==
    ASSUME NEW r \in StackRec, NEW h \in Nat, Balance(r, h, FALSE)
    PROVE  LET q == mem_deref(sip_close(r))
           IN  /\ q \in StackRec /\ Balance(q, h, TRUE)
               /\ \/ q.exits = r.exits
                  \/ r.exits = 0 /\ q.exits = 1
<1> DEFINE o == [r EXCEPT !.closing = TRUE]
<1>1. o \in StackRec /\ o.nrefs = h + 1 /\ o.closing /\ o.exits = 0
      /\ r.exits = 0
  BY DEF Balance, StackRec
<1>2. sip_close(r) = mem_deref(o)
  BY DEF sip_close, Balance
<1> DEFINE p == mem_deref(o)
<1> HIDE DEF o
<1>3. p \in StackRec
      /\ \/ h = 0 /\ p.nrefs = 1 /\ ~p.closing /\ p.exits = 1
         \/ h # 0 /\ p.nrefs = h /\ p.closing /\ p.exits = 0
  <2>1. CASE h = 0
    BY <1>1, <2>1, DerefFacts
  <2>2. CASE h # 0
    BY <1>1, <2>2, DerefFacts
  <2> QED
    BY <2>1, <2>2
<1> HIDE DEF p
<1> DEFINE q == mem_deref(p)
<1>5. /\ q \in StackRec
      /\ \/ h = 0 /\ q.nrefs = 0 /\ ~q.closing /\ q.exits = 1
         \/ h = 1 /\ q.nrefs = 1 /\ ~q.closing /\ q.exits = 1
         \/ h >= 2 /\ q.nrefs = h - 1 /\ q.closing /\ q.exits = 0
  <2>1. CASE h = 0
    BY <1>3, <2>1, DerefFacts
  <2>2. CASE h = 1
    BY <1>3, <2>2, DerefFacts
  <2>3. CASE h >= 2
    BY <1>3, <2>3, DerefFacts
  <2> QED
    BY <2>1, <2>2, <2>3
<1> HIDE DEF q
<1>4. q \in StackRec /\ Balance(q, h, TRUE) /\ q.exits \in {0, 1}
  BY <1>5 DEF Balance
<1> QED
  BY <1>1, <1>2, <1>4 DEF p, q
-----------------------------------------------------------------------------
LEMMA StackOf == \A u \in UE : get_sip_stack(u) \in Stack
  BY StacksAssumption, SizeAssumption DEF get_sip_stack, Stack, UE

LEMMA FiniteUE ==
    /\ IsFiniteSet(UE) /\ IsFiniteSet(Stack)
    /\ \A S \in SUBSET UE : IsFiniteSet(S) /\ Cardinality(S) \in Nat
    /\ \A f : IsFiniteSet(Unreported(f)) /\ Cardinality(Unreported(f)) \in Nat
<1>1. IsFiniteSet(UE) /\ IsFiniteSet(Stack)
  BY StacksAssumption, SizeAssumption, FS_Interval DEF UE, Stack
<1>2. ASSUME NEW S \in SUBSET UE
      PROVE  IsFiniteSet(S) /\ Cardinality(S) \in Nat
  <2>1. IsFiniteSet(S)
    BY <1>1, FS_Subset
  <2> QED
    BY <2>1, FS_CardinalityType
<1>3. ASSUME NEW f
      PROVE  IsFiniteSet(Unreported(f)) /\ Cardinality(Unreported(f)) \in Nat
  <2>1. Unreported(f) \in SUBSET Stack
    BY DEF Unreported
  <2>2. IsFiniteSet(Unreported(f))
    BY <1>1, <2>1, FS_Subset
  <2> QED
    BY <2>2, FS_CardinalityType
<1> QED
  BY <1>1, <1>2, <1>3

(* The exit handler runs for the stacks that report now: active_sip_stacks *)
(* stays the number of those that have not, and the loop is cancelled with *)
(* the last.                                                               *)
LEMMA ExitsCounted ==
    ASSUME TypeOK, active = Cardinality(Unreported(sip)),
           NEW f \in [Stack -> StackRec], SetStacks(f),
           \A s \in Stack : \/ f[s].exits = sip[s].exits
                            \/ sip[s].exits = 0 /\ f[s].exits = 1
    PROVE  /\ active' = Cardinality(Unreported(sip'))
           /\ active' \in 0..NumStacks
           /\ polling' \in BOOLEAN
           /\ (~polling => active = 0) => (~polling' => active' = 0)
<1> DEFINE now == {s \in Stack : f[s].exits > sip[s].exits}
           n == Cardinality(now)
<1>1. sip \in [Stack -> StackRec] /\ active \in 0..NumStacks /\ polling \in BOOLEAN
  BY DEF TypeOK, StackRec
<1>2. \A s \in Stack : sip[s].exits \in Nat /\ f[s].exits \in Nat
  BY <1>1 DEF StackRec
<1>3. now = Unreported(sip) \ Unreported(f)
      /\ Unreported(f) = Unreported(sip) \ now
      /\ Unreported(sip) \cap now = now
  BY <1>2 DEF Unreported
<1>4. /\ IsFiniteSet(Unreported(sip)) /\ Cardinality(Unreported(f)) \in Nat
      /\ Cardinality(Unreported(sip)) \in Nat
  BY FiniteUE
<1>5. now \in SUBSET Unreported(sip)
  BY <1>3
<1>6. IsFiniteSet(now) /\ n \in Nat
  <2>1. IsFiniteSet(now)
    BY <1>4, <1>5, FS_Subset
  <2> QED
    BY <2>1, FS_CardinalityType
<1>7. Cardinality(Unreported(f)) = Cardinality(Unreported(sip)) - n
  <2>1. Cardinality(Unreported(sip) \ now)
          = Cardinality(Unreported(sip)) - Cardinality(Unreported(sip) \cap now)
    BY <1>4, FS_Difference
  <2> QED
    BY <1>3, <2>1
<1>8. /\ sip' = f /\ active' = active - n
      /\ polling' = (polling /\ ~(active > 0 /\ active - n = 0))
  BY DEF SetStacks, exit_handler
<1> HIDE DEF n
<1>9. active' = Cardinality(Unreported(sip')) /\ active' \in 0..NumStacks
  BY <1>1, <1>4, <1>6, <1>7, <1>8, StacksAssumption
<1>10. polling' \in BOOLEAN
  BY <1>8
<1>11. ASSUME ~polling => active = 0, ~polling' PROVE active' = 0
  BY <1>1, <1>4, <1>6, <1>7, <1>8, <1>11
<1> QED
  BY <1>9, <1>10, <1>11

(* Registrations come and go.                                              *)
LEMMA RegAdded ==
    ASSUME TypeOK, NEW u \in UE, NEW x \in Holding, reg[u] \notin Holding,
           reg' = [reg EXCEPT ![u] = x]
    PROVE  \A s \in Stack : Cardinality(RegsOf(s))' =
               Cardinality(RegsOf(s)) + (IF s = get_sip_stack(u) THEN 1 ELSE 0)
<1> SUFFICES ASSUME NEW s \in Stack
             PROVE  Cardinality(RegsOf(s))' =
               Cardinality(RegsOf(s)) + (IF s = get_sip_stack(u) THEN 1 ELSE 0)
  OBVIOUS
<1>1. \A v \in UE : reg'[v] = IF v = u THEN x ELSE reg[v]
  BY DEF TypeOK
<1>2. IsFiniteSet(RegsOf(s)) /\ Cardinality(RegsOf(s)) \in Nat
  BY FiniteUE DEF RegsOf
<1>3. CASE s = get_sip_stack(u)
  <2>1. RegsOf(s)' = RegsOf(s) \cup {u} /\ u \notin RegsOf(s)
    BY <1>1, <1>3 DEF RegsOf
  <2> QED
    BY <1>2, <1>3, <2>1, FS_AddElement
<1>4. CASE s # get_sip_stack(u)
  <2>1. RegsOf(s)' = RegsOf(s)
    BY <1>1, <1>4 DEF RegsOf
  <2> QED
    BY <1>2, <1>4, <2>1
<1> QED
  BY <1>3, <1>4

LEMMA RegFreed ==
    ASSUME TypeOK, NEW u \in UE, reg[u] \in Holding,
           reg' = [reg EXCEPT ![u] = "gone"]
    PROVE  \A s \in Stack : Cardinality(RegsOf(s)) =
               Cardinality(RegsOf(s))' + (IF s = get_sip_stack(u) THEN 1 ELSE 0)
<1> SUFFICES ASSUME NEW s \in Stack
             PROVE  Cardinality(RegsOf(s)) =
               Cardinality(RegsOf(s))' + (IF s = get_sip_stack(u) THEN 1 ELSE 0)
  OBVIOUS
<1>1. \A v \in UE : reg'[v] = IF v = u THEN "gone" ELSE reg[v]
  BY DEF TypeOK
<1>2. IsFiniteSet(RegsOf(s)) /\ Cardinality(RegsOf(s)) \in Nat
  BY FiniteUE DEF RegsOf
<1>3. CASE s = get_sip_stack(u)
  <2>1. RegsOf(s)' = RegsOf(s) \ {u} /\ u \in RegsOf(s)
    BY <1>1, <1>3 DEF RegsOf, Holding
  <2>2. Cardinality(RegsOf(s) \ {u}) = Cardinality(RegsOf(s)) - 1
    BY <1>2, <2>1, FS_RemoveElement
  <2> QED
    BY <1>2, <1>3, <2>1, <2>2
<1>4. CASE s # get_sip_stack(u)
  <2>1. RegsOf(s)' = RegsOf(s)
    BY <1>1, <1>4 DEF RegsOf
  <2> QED
    BY <1>2, <1>4, <2>1
<1> QED
  BY <1>3, <1>4

LEMMA RegKept ==
    ASSUME TypeOK, NEW u \in UE, NEW x \in Holding, reg[u] \in Holding,
           reg' = [reg EXCEPT ![u] = x]
    PROVE  \A s \in Stack : Cardinality(RegsOf(s))' = Cardinality(RegsOf(s))
<1>1. \A v \in UE : reg'[v] = IF v = u THEN x ELSE reg[v]
  BY DEF TypeOK
<1>2. \A s \in Stack : RegsOf(s)' = RegsOf(s)
  BY <1>1 DEF RegsOf
<1> QED
  BY <1>2
-----------------------------------------------------------------------------
(* How a step may change the holders and the counts of the stacks, with    *)
(* the rest of the state as it was.                                        *)
LEMMA Types ==
    ASSUME TypeOK
    PROVE  /\ sip \in [Stack -> StackRec]
           /\ \A s \in Stack : /\ nsess[s] \in Nat /\ sock[s] \in Nat
                               /\ Cardinality(RegsOf(s)) \in Nat
                               /\ Holders(s) \in Nat
                               /\ Holders(s) = Cardinality(RegsOf(s)) + nsess[s]
<1>1. sip \in [Stack -> StackRec]
  BY DEF TypeOK, StackRec
<1>2. \A s \in Stack : nsess[s] \in Nat /\ sock[s] \in Nat
  BY SizeAssumption DEF TypeOK
<1>3. \A s \in Stack : Cardinality(RegsOf(s)) \in Nat
  BY FiniteUE DEF RegsOf
<1> QED
  BY <1>1, <1>2, <1>3 DEF Holders

(* One stack gets one holder more, or one less.                            *)
LEMMA GainStep ==
    ASSUME Inv, NEW s \in Stack, sip' = [sip EXCEPT ![s] = mem_ref(@)],
           UNCHANGED <<times, active, polling>>,
           \A q \in Stack : Holders(q)' = Holders(q) + (IF q = s THEN 1 ELSE 0)
    PROVE  /\ sip' \in [Stack -> StackRec]
           /\ Balanced' /\ Reports'
<1>1. /\ sip \in [Stack -> StackRec] /\ \A q \in Stack : Holders(q) \in Nat
      /\ Closed \in BOOLEAN /\ Closed' = Closed
  BY Types DEF Inv, Closed
<1>2. \A q \in Stack : Balance(sip[q], Holders(q), Closed)
  BY DEF Inv, Balanced
<1>3. /\ mem_ref(sip[s]) \in StackRec
      /\ Balance(mem_ref(sip[s]), Holders(s) + 1, Closed)
      /\ mem_ref(sip[s]).exits = sip[s].exits
  BY <1>1, <1>2, RefBalance
<1>4. \A q \in Stack : sip'[q] = IF q = s THEN mem_ref(sip[s]) ELSE sip[q]
  BY <1>1
<1>5. sip' \in [Stack -> StackRec]
  BY <1>1, <1>3
<1>6. ASSUME NEW q \in Stack PROVE Balance(sip'[q], Holders(q)', Closed)
  <2>1. CASE q = s
    <3>1. Holders(q)' = Holders(s) + 1
      BY <2>1
    <3> QED
      BY <1>3, <1>4, <2>1, <3>1
  <2>2. CASE q # s
    <3>1. Holders(q)' = Holders(q)
      BY <1>1, <2>2
    <3> QED
      BY <1>2, <1>4, <2>2, <3>1
  <2> QED
    BY <2>1, <2>2
<1>7. Balanced'
  BY <1>1, <1>6 DEF Balanced
<1>8. Unreported(sip)' = Unreported(sip)
  BY <1>3, <1>4 DEF Unreported
<1> QED
  BY <1>5, <1>7, <1>8 DEF Inv, Reports

LEMMA LossStep ==
    ASSUME Inv, NEW s \in Stack, SetStacks([sip EXCEPT ![s] = mem_deref(@)]),
           UNCHANGED times, \A q \in Stack : Holders(q)' \in Nat,
           \A q \in Stack : Holders(q) = Holders(q)' + (IF q = s THEN 1 ELSE 0)
    PROVE  /\ sip' \in [Stack -> StackRec]
           /\ active' \in 0..NumStacks /\ polling' \in BOOLEAN
           /\ Balanced' /\ Reports'
<1> DEFINE f == [sip EXCEPT ![s] = mem_deref(@)]
<1>1. /\ sip \in [Stack -> StackRec] /\ Closed \in BOOLEAN /\ Closed' = Closed
  BY Types DEF Inv, Closed
<1>2. \A q \in Stack : Balance(sip[q], Holders(q), Closed)
  BY DEF Inv, Balanced
<1>3. Holders(s) = Holders(s)' + 1
  OBVIOUS
<1>4. /\ mem_deref(sip[s]) \in StackRec
      /\ Balance(mem_deref(sip[s]), Holders(s)', Closed)
      /\ \/ mem_deref(sip[s]).exits = sip[s].exits
         \/ sip[s].exits = 0 /\ mem_deref(sip[s]).exits = 1
  BY <1>1, <1>2, <1>3, DerefBalance
<1>5. \A q \in Stack : f[q] = IF q = s THEN mem_deref(sip[s]) ELSE sip[q]
  BY <1>1
<1>6. f \in [Stack -> StackRec] /\ sip' = f
  BY <1>1, <1>4 DEF SetStacks
<1>7. ASSUME NEW q \in Stack PROVE Balance(f[q], Holders(q)', Closed)
  <2>1. CASE q = s
    BY <1>4, <1>5, <2>1
  <2>2. CASE q # s
    <3>1. Holders(q)' = Holders(q)
      BY <2>2
    <3> QED
      BY <1>2, <1>5, <2>2, <3>1
  <2> QED
    BY <2>1, <2>2
<1> HIDE DEF f
<1>8. Balanced'
  BY <1>1, <1>6, <1>7 DEF Balanced
<1>9. \A q \in Stack : \/ f[q].exits = sip[q].exits
                       \/ sip[q].exits = 0 /\ f[q].exits = 1
  BY <1>4, <1>5
<1>10. SetStacks(f) /\ TypeOK /\ active = Cardinality(Unreported(sip))
  BY DEF f, Inv, Reports
<1>11. /\ active' = Cardinality(Unreported(sip')) /\ active' \in 0..NumStacks
       /\ polling' \in BOOLEAN
       /\ (~polling => active = 0) => (~polling' => active' = 0)
  BY <1>6, <1>9, <1>10, ExitsCounted
<1>12. Reports'
  BY <1>11 DEF Inv, Reports
<1> QED
  BY <1>6, <1>8, <1>11, <1>12

(* A registration moves on without a change of holders.                    *)
LEMMA KeptStep ==
    ASSUME Inv, NEW u \in UE, NEW x \in Holding, reg[u] \in Holding,
           reg' = [reg EXCEPT ![u] = x],
           UNCHANGED <<stage, times, sent, calls, sip, sock, nsess, active,
                       polling, ended>>
    PROVE  Inv'
<1>1. \A s \in Stack : Cardinality(RegsOf(s))' = Cardinality(RegsOf(s))
  BY RegKept DEF Inv
<1>2. TypeOK'
  BY DEF Inv, TypeOK, RegState
<1>3. \A s \in Stack : Holders(s)' = Holders(s)
  BY <1>1 DEF Holders
<1>4. Balanced' /\ Socks' /\ Reports'
  BY <1>3 DEF Inv, Balanced, Socks, Reports, Closed
<1>5. Order'
  <2>1. "null" \notin Holding /\ reg \in [UE -> RegState]
    BY DEF Holding, Inv, TypeOK
  <2> QED
    BY <2>1 DEF Inv, Order
<1> QED
  BY <1>2, <1>4, <1>5 DEF Inv

LEMMA FreedStep ==
    ASSUME Inv, NEW u \in UE, reg[u] \in Holding, FreeReg(u),
           UNCHANGED <<stage, times, sent, calls, sock, nsess, ended>>
    PROVE  Inv'
<1> DEFINE s == get_sip_stack(u)
<1>1. s \in Stack /\ reg' = [reg EXCEPT ![u] = "gone"]
      /\ SetStacks([sip EXCEPT ![s] = mem_deref(@)])
  BY StackOf DEF FreeReg
<1>2. \A q \in Stack : Cardinality(RegsOf(q)) =
               Cardinality(RegsOf(q))' + (IF q = s THEN 1 ELSE 0)
  BY <1>1, RegFreed DEF Inv
<1>3. reg' \in [UE -> RegState]
  BY <1>1 DEF Inv, TypeOK, RegState
<1>4. \A q \in Stack : Cardinality(RegsOf(q))' \in Nat
  BY FiniteUE DEF RegsOf
<1> HIDE DEF s
<1>5. \A q \in Stack : /\ Holders(q)' \in Nat
                       /\ Holders(q) = Holders(q)' + (IF q = s THEN 1 ELSE 0)
  <2>1. \A q \in Stack : nsess[q] \in Nat /\ Cardinality(RegsOf(q)) \in Nat
    BY Types DEF Inv
  <2> QED
    BY <1>2, <1>4, <2>1 DEF Holders
<1>6. /\ sip' \in [Stack -> StackRec]
      /\ active' \in 0..NumStacks /\ polling' \in BOOLEAN
      /\ Balanced' /\ Reports'
  BY <1>1, <1>5, LossStep
<1>7. TypeOK'
  BY <1>3, <1>6 DEF Inv, TypeOK, StackRec
<1>8. Socks'
  BY DEF Inv, Socks, Closed
<1>9. Order'
  <2>1. "null" \notin Holding /\ reg \in [UE -> RegState]
    BY DEF Holding, Inv, TypeOK
  <2> QED
    BY <1>1, <2>1 DEF Inv, Order
<1> QED
  BY <1>6, <1>7, <1>8, <1>9 DEF Inv
-----------------------------------------------------------------------------
(* The actions.                                                            *)

LEMMA RegisterInv == ASSUME Inv, register_ue PROVE Inv'
<1> DEFINE u == sent + 1
           s == get_sip_stack(u)
<1>1. /\ sent' = u /\ u \in UE /\ sent \in 0..NumUE /\ u \in 0..NumUE
      /\ stage = "run" /\ times = 0
      /\ UNCHANGED <<stage, times, calls, sock, nsess, active, polling,
                     ended>>
  BY SizeAssumption DEF register_ue, Inv, TypeOK, UE, Order
<1>2. s \in Stack
  BY <1>1, StackOf
<1>3. \A v \in UE : v \in Int
  BY DEF UE
<1>4. reg[u] = "null" /\ reg \in [UE -> RegState]
  <2>1. u > sent
    BY <1>1
  <2> QED
    BY <1>1, <2>1 DEF Inv, Order, TypeOK
<1>5. \A v \in UE : v > u => v > sent /\ v # u
  BY <1>1, <1>3
<1>6. CASE /\ reg' = [reg EXCEPT ![u] = "pending"]
           /\ sip' = [sip EXCEPT ![s] = mem_ref(@)]
  <2>1. "pending" \in Holding /\ "null" \notin Holding
    BY DEF Holding
  <2> HIDE DEF u
  <2>2. \A q \in Stack : Cardinality(RegsOf(q))' =
               Cardinality(RegsOf(q)) + (IF q = s THEN 1 ELSE 0)
    BY <1>1, <1>4, <1>6, <2>1, RegAdded DEF Inv
  <2> HIDE DEF s
  <2>3. \A q \in Stack : Holders(q)' = Holders(q) + (IF q = s THEN 1 ELSE 0)
    <3>1. \A q \in Stack : nsess[q] \in Nat /\ Cardinality(RegsOf(q)) \in Nat
      BY Types DEF Inv
    <3> QED
      BY <1>1, <2>2, <3>1 DEF Holders
  <2>4. sip' \in [Stack -> StackRec] /\ Balanced' /\ Reports'
    BY <1>1, <1>2, <1>6, <2>3, GainStep
  <2>5. TypeOK'
    BY <1>1, <1>4, <1>6, <2>1, <2>4 DEF Inv, TypeOK, StackRec, RegState
  <2>6. Socks'
    BY <1>1 DEF Inv, Socks, Closed
  <2>7. Order'
    BY <1>1, <1>4, <1>5, <1>6 DEF Inv, Order
  <2> QED
    BY <2>4, <2>5, <2>6, <2>7 DEF Inv
<1>7. CASE UNCHANGED <<reg, sip>>
  <2> HIDE DEF u, s
  <2>1. TypeOK'
    BY <1>1, <1>7 DEF Inv, TypeOK
  <2>2. Balanced' /\ Socks' /\ Reports'
    BY <1>1, <1>7 DEF Inv, Balanced, Socks, Reports, Closed, Holders, RegsOf
  <2>3. Order'
    BY <1>1, <1>5, <1>7 DEF Inv, Order
  <2> QED
    BY <2>1, <2>2, <2>3 DEF Inv
<1> QED
  BY <1>6, <1>7 DEF register_ue

LEMMA ResponseInv ==
    ASSUME Inv, NEW u \in UE, NEW ok \in BOOLEAN, response_handler(u, ok)
    PROVE  Inv'
<1>1. UNCHANGED <<stage, times, sent, calls, sock, nsess, ended>>
  BY DEF response_handler
<1>2. \/ /\ reg[u] \in Holding /\ FreeReg(u)
      \/ /\ reg[u] \in Holding /\ UNCHANGED <<sip, active, polling>>
         /\ \E x \in Holding : reg' = [reg EXCEPT ![u] = x]
  <2>1. CASE /\ reg[u] \in {"pending", "refreshing"}
             /\ reg' = [reg EXCEPT ![u] = IF ok \/ @ = "refreshing"
                                       THEN "registered" ELSE "waiting"]
             /\ UNCHANGED <<sip, active, polling>>
    <3>1. (IF ok \/ reg[u] = "refreshing" THEN "registered" ELSE "waiting")
            \in Holding
      BY DEF Holding
    <3> QED
      BY <2>1, <3>1 DEF Holding
  <2>2. CASE /\ reg[u] \in {"lastrefresh", "lastpending"}
             /\ reg' = [reg EXCEPT ![u] = "unregistering"]
             /\ UNCHANGED <<sip, active, polling>>
    BY <2>2 DEF Holding
  <2>3. CASE /\ reg[u] \in {"lastrefresh", "lastpending", "unregistering"}
             /\ FreeReg(u)
    BY <2>3 DEF Holding
  <2> QED
    BY <2>1, <2>2, <2>3 DEF response_handler
<1> QED
  BY <1>1, <1>2, FreedStep, KeptStep

LEMMA TimerInv == ASSUME Inv, NEW u \in UE, tmr_handler(u) PROVE Inv'
<1>1. \E x \in Holding : reg' = [reg EXCEPT ![u] = x]
  BY DEF tmr_handler, Holding
<1>2. reg[u] \in Holding
      /\ UNCHANGED <<stage, times, sent, calls, sip, sock, nsess, active,
                     polling, ended>>
  BY DEF tmr_handler, Holding
<1> QED
  BY <1>1, <1>2, KeptStep

(* A session is allocated, for an INVITE or for a call.                    *)
LEMMA AllocInv ==
    ASSUME Inv, NEW s \in Stack, sipsess_alloc(s),
           stage' \in {stage, "cleanup"}, calls' \in Nat,
           UNCHANGED <<times, sent, reg, active, polling, ended>>
    PROVE  Inv'
<1>1. /\ nsess' = [nsess EXCEPT ![s] = @ + 1] /\ nsess[s] < MaxSess
      /\ sock' = [sock EXCEPT ![s] = @ + 1]
      /\ sip' = [sip EXCEPT ![s] = mem_ref(@)]
      /\ UNCHANGED <<times, sent, reg, active, polling, ended>>
      /\ stage' \in {stage, "cleanup"} /\ calls' \in Nat
  BY DEF sipsess_alloc
<1>2. /\ nsess \in [Stack -> 0..MaxSess] /\ sock \in [Stack -> Nat]
      /\ MaxSess \in Nat
  BY SizeAssumption DEF Inv, TypeOK
<1>3. /\ nsess' \in [Stack -> 0..MaxSess] /\ sock' \in [Stack -> Nat]
      /\ \A q \in Stack : /\ nsess'[q] = nsess[q] + (IF q = s THEN 1 ELSE 0)
                          /\ sock'[q] = sock[q] + (IF q = s THEN 1 ELSE 0)
  BY <1>1, <1>2
<1>4. \A q \in Stack : Holders(q)' = Holders(q) + (IF q = s THEN 1 ELSE 0)
  <2>1. \A q \in Stack : nsess[q] \in Nat /\ Cardinality(RegsOf(q)) \in Nat
    BY Types DEF Inv
  <2>2. \A q \in Stack : RegsOf(q)' = RegsOf(q)
    BY <1>1 DEF RegsOf
  <2> QED
    BY <1>3, <2>1, <2>2 DEF Holders
<1>5. sip' \in [Stack -> StackRec] /\ Balanced' /\ Reports'
  BY <1>1, <1>4, GainStep
<1>6. TypeOK'
  BY <1>1, <1>3, <1>5 DEF Inv, TypeOK, StackRec
<1>7. Socks'
  BY <1>1, <1>2, <1>3 DEF Inv, Socks, Closed
<1>8. Order'
  BY <1>1 DEF Inv, Order
<1> QED
  BY <1>5, <1>6, <1>7, <1>8 DEF Inv

(* The references are left alone.                                          *)
LEMMA SameInv ==
    ASSUME Inv,
           UNCHANGED <<times, sent, reg, sip, sock, nsess, active, polling>>,
           stage' \in {stage, "cleanup"}, calls' \in Nat, ended' \in BOOLEAN
    PROVE  Inv'
<1>1. TypeOK'
  BY DEF Inv, TypeOK
<1>2. Balanced' /\ Socks' /\ Reports'
  BY DEF Inv, Balanced, Socks, Reports, Closed, Holders, RegsOf
<1>3. Order'
  BY DEF Inv, Order
<1> QED
  BY <1>1, <1>2, <1>3 DEF Inv

LEMMA CallInv == ASSUME Inv, CallScheduler_act PROVE Inv'
<1>1. /\ stage = "run" /\ stage' \in {stage, "cleanup"}
      /\ UNCHANGED <<times, sent, reg, active, polling, ended>>
  BY DEF CallScheduler_act
<1>2. calls \in Nat /\ ended \in BOOLEAN
  BY DEF Inv, TypeOK
<1>3. CASE call
  <2>1. PICK u \in UE : sipsess_alloc(get_sip_stack(u))
    BY <1>3 DEF call
  <2>2. calls' \in Nat
    BY <1>2, <1>3 DEF call
  <2> QED
    BY <1>1, <2>1, <2>2, StackOf, AllocInv
<1>4. CASE call_fails \/ UNCHANGED <<calls, sip, sock, nsess>>
  <2>1. calls' \in Nat /\ UNCHANGED <<sip, sock, nsess>>
    BY <1>2, <1>4 DEF call_fails
  <2> QED
    BY <1>1, <1>2, <2>1, SameInv
<1> QED
  BY <1>3, <1>4 DEF CallScheduler_act

LEMMA SessionEndsInv ==
    ASSUME Inv, NEW s \in Stack, SessionEnds(s) PROVE Inv'
<1>1. /\ nsess' = [nsess EXCEPT ![s] = @ - 1] /\ nsess[s] > 0
      /\ sock' = [sock EXCEPT ![s] = @ - 1]
      /\ SetStacks([sip EXCEPT ![s] = mem_deref(@)])
      /\ UNCHANGED <<stage, times, sent, calls, reg, ended>>
  BY DEF SessionEnds
<1>2. /\ nsess \in [Stack -> 0..MaxSess] /\ sock \in [Stack -> Nat]
      /\ MaxSess \in Nat /\ sock[s] >= nsess[s]
  BY SizeAssumption DEF Inv, TypeOK, Socks
<1>3. /\ nsess' \in [Stack -> 0..MaxSess] /\ sock' \in [Stack -> Nat]
      /\ \A q \in Stack : /\ nsess[q] = nsess'[q] + (IF q = s THEN 1 ELSE 0)
                          /\ sock[q] = sock'[q] + (IF q = s THEN 1 ELSE 0)
  BY <1>1, <1>2
<1>4. \A q \in Stack : /\ Holders(q)' \in Nat
                       /\ Holders(q) = Holders(q)' + (IF q = s THEN 1 ELSE 0)
  <2>1. \A q \in Stack : nsess'[q] \in Nat /\ Cardinality(RegsOf(q)) \in Nat
    BY <1>2, <1>3, Types DEF Inv
  <2>2. \A q \in Stack : RegsOf(q)' = RegsOf(q)
    BY <1>1 DEF RegsOf
  <2> QED
    BY <1>3, <2>1, <2>2 DEF Holders
<1>5. /\ sip' \in [Stack -> StackRec]
      /\ active' \in 0..NumStacks /\ polling' \in BOOLEAN
      /\ Balanced' /\ Reports'
  BY <1>1, <1>4, LossStep
<1>6. TypeOK'
  BY <1>1, <1>3, <1>5 DEF Inv, TypeOK, StackRec
<1>7. Socks'
  BY <1>1, <1>2, <1>3 DEF Inv, Socks, Closed
<1>8. Order'
  BY <1>1 DEF Inv, Order
<1> QED
  BY <1>5, <1>6, <1>7, <1>8 DEF Inv

(* Cleanup::act unregisters every UE: the stacks lose exactly the holders  *)
(* that are freed at once.                                                 *)
LEMMA UnregisterInv ==
    ASSUME Inv, Unregister, times = UnregisterAt, times' = times + 1,
           UNCHANGED <<stage, sent, calls, ended>>, stage = "cleanup"
    PROVE  Inv'
<1>1. PICK bad \in SUBSET {u \in UE : Faults /\ reg[u] = "registered"} :
       LET freed == bad \cup {u \in UE : reg[u] = "waiting"}
           count(s) == Cardinality({u \in freed : get_sip_stack(u) = s})
       IN
       /\ reg' = [u \in UE |->
             CASE u \in freed           -> "gone"
               [] reg[u] = "pending"    -> "lastpending"
               [] reg[u] = "refreshing" -> "lastrefresh"
               [] reg[u] = "registered" /\ u \notin bad -> "unregistering"
               [] OTHER                 -> reg[u]]
       /\ SetStacks([s \in Stack |-> mem_deref_n(sip[s], count(s))])
  BY DEF Unregister
<1> DEFINE freed == bad \cup {u \in UE : reg[u] = "waiting"}
           Lost(s) == {u \in freed : get_sip_stack(u) = s}
           f == [s \in Stack |-> mem_deref_n(sip[s], Cardinality(Lost(s)))]
<1>2. /\ sip \in [Stack -> StackRec] /\ reg \in [UE -> RegState]
      /\ times = 1 /\ times' = 2 /\ ~Closed /\ ~Closed'
      /\ UNCHANGED <<sock, nsess>>
  BY Types DEF Inv, Closed, UnregisterAt, CloseAt, TypeOK, Unregister
<1>3. \A u \in UE :
         /\ reg'[u] \in RegState
         /\ u \in freed => reg[u] \in Holding /\ reg'[u] \notin Holding
         /\ u \notin freed => (reg'[u] \in Holding <=> reg[u] \in Holding)
         /\ reg[u] = "null" => reg'[u] = "null"
  <2> SUFFICES ASSUME NEW u \in UE
               PROVE
         /\ reg'[u] \in RegState
         /\ u \in freed => reg[u] \in Holding /\ reg'[u] \notin Holding
         /\ u \notin freed => (reg'[u] \in Holding <=> reg[u] \in Holding)
         /\ reg[u] = "null" => reg'[u] = "null"
    OBVIOUS
  <2>1. u \in freed => reg[u] \in {"registered", "waiting"}
    OBVIOUS
  <2>2. reg'[u] = CASE u \in freed           -> "gone"
               [] reg[u] = "pending"    -> "lastpending"
               [] reg[u] = "refreshing" -> "lastrefresh"
               [] reg[u] = "registered" /\ u \notin bad -> "unregistering"
               [] OTHER                 -> reg[u]
    BY <1>1
  <2>3. reg[u] = "registered" => (u \in freed <=> u \in bad)
    OBVIOUS
  <2>4. reg[u] \in RegState
    BY <1>2
  <2> HIDE DEF freed
  <2>5. CASE u \in freed
    <3>1. reg'[u] = "gone"
      BY <2>1, <2>2, <2>3, <2>5
    <3> QED
      BY <2>1, <2>5, <3>1 DEF RegState, Holding
  <2>6. CASE u \notin freed /\ reg[u] \in {"pending", "refreshing", "registered"}
    <3>1. reg'[u] \in {"lastpending", "lastrefresh", "unregistering"}
      BY <2>2, <2>3, <2>6
    <3> QED
      BY <2>6, <3>1 DEF RegState, Holding
  <2>7. CASE u \notin freed /\ reg[u] \notin {"pending", "refreshing", "registered"}
    <3>1. reg'[u] = reg[u]
      BY <2>2, <2>7
    <3> QED
      BY <2>4, <2>7, <3>1
  <2> QED
    BY <2>5, <2>6, <2>7
<1>4. reg' \in [UE -> RegState]
  <2>1. \E g : reg' = [u \in UE |-> g[u]]
    <3> DEFINE g == [u \in UE |->
             CASE u \in freed           -> "gone"
               [] reg[u] = "pending"    -> "lastpending"
               [] reg[u] = "refreshing" -> "lastrefresh"
               [] reg[u] = "registered" /\ u \notin bad -> "unregistering"
               [] OTHER                 -> reg[u]]
    <3>1. reg' = [u \in UE |-> g[u]]
      BY <1>1
    <3> QED
      BY <3>1
  <2> QED
    BY <1>3, <2>1
<1>5. SetStacks(f)
  BY <1>1
<1>6. freed \in SUBSET UE
  OBVIOUS
<1> HIDE DEF freed
<1>7. ASSUME NEW s \in Stack
      PROVE  /\ Cardinality(Lost(s)) \in Nat /\ Holders(s)' \in Nat
             /\ Holders(s) = Holders(s)' + Cardinality(Lost(s))
  <2>1. Lost(s) \in SUBSET UE /\ RegsOf(s) \in SUBSET UE
        /\ RegsOf(s)' \in SUBSET UE
    BY <1>6 DEF RegsOf
  <2>2. /\ IsFiniteSet(RegsOf(s)) /\ Cardinality(RegsOf(s)) \in Nat
        /\ Cardinality(Lost(s)) \in Nat /\ Cardinality(RegsOf(s)') \in Nat
    BY <2>1, FiniteUE
  <2>3. RegsOf(s)' = RegsOf(s) \ Lost(s) /\ RegsOf(s) \cap Lost(s) = Lost(s)
    BY <1>3, <1>6 DEF RegsOf
  <2>4. Cardinality(RegsOf(s) \ Lost(s))
          = Cardinality(RegsOf(s)) - Cardinality(RegsOf(s) \cap Lost(s))
    BY <2>2, FS_Difference
  <2>5. nsess[s] \in Nat /\ nsess'[s] = nsess[s]
    BY <1>2, Types DEF Inv
  <2>6. /\ Holders(s) = Cardinality(RegsOf(s)) + nsess[s]
        /\ Holders(s)' = Cardinality(RegsOf(s)') + nsess'[s]
    BY DEF Holders
  <2> HIDE DEF Lost
  <2>7. Cardinality(RegsOf(s)') = Cardinality(RegsOf(s)) - Cardinality(Lost(s))
    BY <2>3, <2>4
  <2> QED
    BY <2>2, <2>5, <2>6, <2>7
<1>8. ASSUME NEW s \in Stack
      PROVE  /\ f[s] \in StackRec /\ Balance(f[s], Holders(s)', FALSE)
             /\ f[s].exits = sip[s].exits
  <2>1. Balance(sip[s], Holders(s)' + Cardinality(Lost(s)), FALSE)
    BY <1>2, <1>7 DEF Inv, Balanced, Balance
  <2>2. f[s] = mem_deref_n(sip[s], Cardinality(Lost(s)))
    OBVIOUS
  <2> QED
    BY <1>2, <1>7, <2>1, <2>2, DerefNBalance
<1>9. f \in [Stack -> StackRec]
  BY <1>8
<1> HIDE DEF f
<1>10. TypeOK /\ active = Cardinality(Unreported(sip)) /\ sip' = f
  BY <1>5 DEF Inv, Reports, SetStacks
<1>11. /\ active' = Cardinality(Unreported(sip')) /\ active' \in 0..NumStacks
       /\ polling' \in BOOLEAN
       /\ (~polling => active = 0) => (~polling' => active' = 0)
  BY <1>5, <1>8, <1>9, <1>10, ExitsCounted
<1>12. Reports'
  BY <1>2, <1>11 DEF Inv, Reports, CancelAt
<1>13. Balanced'
  BY <1>2, <1>8, <1>10 DEF Balanced, Balance
<1>14. Socks'
  BY <1>2 DEF Inv, Socks
<1>15. Order'
  BY <1>3 DEF Inv, Order
<1>16. TypeOK'
  BY <1>2, <1>4, <1>9, <1>10, <1>11 DEF Inv, TypeOK, StackRec, CancelAt
<1> QED
  BY <1>12, <1>13, <1>14, <1>15, <1>16 DEF Inv

LEMMA CloseInv ==
    ASSUME Inv, CloseAndFree, times = CloseAt, times' = times + 1,
           UNCHANGED <<stage, sent, calls, ended>>, stage = "cleanup"
    PROVE  Inv'
<1> DEFINE f == [s \in Stack |-> mem_deref(sip_close(sip[s]))]
<1>1. /\ SetStacks(f) /\ sip' = f /\ UNCHANGED <<reg, nsess>>
      /\ sock' = [s \in Stack |-> sock[s] - 1]
  BY DEF CloseAndFree, SetStacks
<1>2. /\ sip \in [Stack -> StackRec] /\ times = 12 /\ times' = 13
      /\ ~Closed /\ Closed'
      /\ \A s \in Stack : Holders(s) \in Nat
  BY Types DEF Inv, Closed, CloseAt
<1>3. ASSUME NEW s \in Stack
      PROVE  /\ f[s] \in StackRec /\ Balance(f[s], Holders(s), TRUE)
             /\ \/ f[s].exits = sip[s].exits
                \/ sip[s].exits = 0 /\ f[s].exits = 1
  <2>1. Balance(sip[s], Holders(s), FALSE)
    BY <1>2 DEF Inv, Balanced, Balance
  <2>2. f[s] = mem_deref(sip_close(sip[s]))
    OBVIOUS
  <2> QED
    BY <1>2, <2>1, <2>2, CloseBalance
<1>4. f \in [Stack -> StackRec]
  BY <1>3
<1> HIDE DEF f
<1>5. \A s \in Stack : Holders(s)' = Holders(s)
  BY <1>1 DEF Holders, RegsOf
<1>6. Balanced'
  BY <1>1, <1>2, <1>3, <1>5 DEF Balanced, Balance
<1>7. TypeOK /\ active = Cardinality(Unreported(sip))
  BY DEF Inv, Reports
<1>8. /\ active' = Cardinality(Unreported(sip')) /\ active' \in 0..NumStacks
      /\ polling' \in BOOLEAN
      /\ (~polling => active = 0) => (~polling' => active' = 0)
  BY <1>1, <1>3, <1>4, <1>7, ExitsCounted
<1>9. Reports'
  BY <1>2, <1>8 DEF Inv, Reports, CancelAt
<1>10. \A s \in Stack : sock'[s] = nsess'[s] /\ sock'[s] \in Nat
  <2>1. \A s \in Stack : sock[s] = nsess[s] + 1 /\ nsess[s] \in Nat
    BY <1>2, Types DEF Inv, Socks
  <2> QED
    BY <1>1, <2>1
<1>11. Socks'
  <2>1. \A s \in Stack : nsess'[s] \in Nat
    BY <1>1, Types DEF Inv
  <2> QED
    BY <1>2, <1>10, <2>1 DEF Socks
<1>12. sock' \in [Stack -> Nat]
  BY <1>1, <1>10
<1>13. TypeOK'
  BY <1>1, <1>2, <1>4, <1>8, <1>12 DEF Inv, TypeOK, StackRec, CancelAt
<1>14. Order'
  BY <1>1 DEF Inv, Order
<1> QED
  BY <1>6, <1>9, <1>11, <1>13, <1>14 DEF Inv

LEMMA CleanupInv == ASSUME Inv, Cleanup_act PROVE Inv'
<1>1. /\ stage = "cleanup" /\ times' = times + 1 /\ times <= 30
      /\ times \in 0..31 /\ UNCHANGED <<stage, sent, calls, ended>>
  BY DEF Cleanup_act, CancelAt, Inv, TypeOK
<1>2. CASE times = UnregisterAt /\ Unregister
  BY <1>1, <1>2, UnregisterInv
<1>3. CASE times = CloseAt /\ CloseAndFree
  BY <1>1, <1>3, CloseInv
<1>4. CASE /\ times \notin {UnregisterAt, CloseAt}
           /\ UNCHANGED <<reg, sip, sock, nsess, active>>
           /\ polling' \in BOOLEAN
           /\ times # CancelAt => UNCHANGED polling
  <2>1. Closed' = Closed
    BY <1>1, <1>4 DEF Closed, CloseAt
  <2>2. \A s \in Stack : Holders(s)' = Holders(s)
    BY <1>4 DEF Holders, RegsOf
  <2>3. Balanced' /\ Socks'
    BY <1>4, <2>1, <2>2 DEF Inv, Balanced, Socks
  <2>4. Reports'
    BY <1>1, <1>4 DEF Inv, Reports, CancelAt
  <2>5. Order'
    BY <1>1, <1>4 DEF Inv, Order
  <2>6. TypeOK'
    BY <1>1, <1>4 DEF Inv, TypeOK, CancelAt
  <2> QED
    BY <2>3, <2>4, <2>5, <2>6 DEF Inv
<1>5. CASE times = CancelAt /\ re_cancel
  <2>1. times \notin {UnregisterAt, CloseAt}
    BY <1>5 DEF CancelAt, UnregisterAt, CloseAt
  <2>2. UNCHANGED <<reg, sip, sock, nsess, active>> /\ polling' \in BOOLEAN
    BY <1>5 DEF re_cancel
  <2> QED
    BY <1>4, <1>5, <2>1, <2>2
<1>6. CASE /\ times \notin {UnregisterAt, CloseAt, CancelAt}
           /\ UNCHANGED <<reg, sip, sock, nsess, active, polling>>
  BY <1>4, <1>6 DEF Inv, TypeOK
<1> QED
  BY <1>2, <1>3, <1>5, <1>6 DEF Cleanup_act

LEMMA InvInit == Init => Inv
<1> SUFFICES ASSUME Init PROVE Inv
  OBVIOUS
<1>1. /\ NumStacks \in Nat /\ NumStacks > 0 /\ NumUE \in Nat /\ MaxSess \in Nat
  BY StacksAssumption, SizeAssumption
<1>2. TypeOK
  <2>1. /\ stage \in {"run", "cleanup"} /\ times \in 0..(CancelAt + 1)
        /\ sent \in 0..NumUE /\ active \in 0..NumStacks
    BY <1>1 DEF Init, CancelAt
  <2>6. calls \in Nat
    BY DEF Init
  <2>5. polling \in BOOLEAN /\ ended \in BOOLEAN
    BY DEF Init
  <2>2. reg \in [UE -> RegState]
    BY DEF Init, RegState
  <2>3. sip \in [Stack -> [nrefs : Nat, closing : BOOLEAN, exits : Nat]]
    BY DEF Init
  <2>4. sock \in [Stack -> Nat] /\ nsess \in [Stack -> 0..MaxSess]
    BY <1>1 DEF Init
  <2> QED
    BY <2>1, <2>2, <2>3, <2>4, <2>5, <2>6 DEF TypeOK
<1>3. \A s \in Stack : RegsOf(s) = {}
  BY DEF Init, RegsOf, Holding
<1>4. ASSUME NEW s \in Stack PROVE Holders(s) = 0
  <2>1. Cardinality(RegsOf(s)) = 0
    BY <1>3, FS_EmptySet
  <2>2. nsess[s] = 0
    BY DEF Init
  <2> QED
    BY <2>1, <2>2 DEF Holders
<1>5. ~Closed
  BY DEF Init, Closed, CloseAt
<1>6. Balanced /\ Socks
  BY <1>4, <1>5 DEF Balanced, Balance, Socks, Init
<1>7. Unreported(sip) = Stack
  BY DEF Unreported, Init
<1>8. Cardinality(Stack) = NumStacks
  BY <1>1, FS_Interval DEF Stack
<1>9. Reports /\ Order
  BY <1>7, <1>8 DEF Reports, Order, Init
<1> QED
  BY <1>2, <1>6, <1>9 DEF Inv

LEMMA InvNext == Inv /\ [Next]_vars => Inv'
<1> SUFFICES ASSUME Inv, [Next]_vars PROVE Inv'
  OBVIOUS
<1>1. CASE register_ue
  BY <1>1, RegisterInv
<1>2. ASSUME NEW u \in UE, NEW ok \in BOOLEAN, response_handler(u, ok)
      PROVE  Inv'
  BY <1>2, ResponseInv
<1>3. ASSUME NEW u \in UE, tmr_handler(u) PROVE Inv'
  BY <1>3, TimerInv
<1>4. ASSUME NEW s \in Stack, SessionStarts(s) PROVE Inv'
  <2>1. /\ sipsess_alloc(s)
        /\ UNCHANGED <<stage, times, sent, calls, reg, active, polling, ended>>
    BY <1>4 DEF SessionStarts
  <2>2. calls' \in Nat
    BY <2>1 DEF Inv, TypeOK
  <2> QED
    BY <2>1, <2>2, AllocInv
<1>5. ASSUME NEW s \in Stack, SessionEnds(s) PROVE Inv'
  BY <1>5, SessionEndsInv
<1>6. CASE Cleanup_act
  BY <1>6, CleanupInv
<1>7. CASE CallScheduler_act
  BY <1>7, CallInv
<1>8. CASE EndOfLoop \/ Done \/ UNCHANGED vars
  <2>1. /\ UNCHANGED <<times, sent, reg, sip, sock, nsess, active, polling>>
        /\ stage' = stage /\ calls' \in Nat /\ ended' \in BOOLEAN
    BY <1>8 DEF EndOfLoop, Done, vars, Inv, TypeOK
  <2> QED
    BY <2>1, SameInv
<1> QED
  BY <1>1, <1>2, <1>3, <1>4, <1>5, <1>6, <1>7, <1>8 DEF Next

LEMMA InvAlways == Spec => []Inv
  BY InvInit, InvNext, PTL DEF Spec

(* The two references that closing and freeing a stack take away make no   *)
(* difference in the end: it is destroyed when its last holder is gone and *)
(* not before, and no count ever gets below zero.                          *)
THEOREM StacksFreedWhenUnused == Spec => []FreedWhenUnused
<1>1. Inv => FreedWhenUnused
  <2> SUFFICES ASSUME Inv PROVE FreedWhenUnused
    OBVIOUS
  <2>1. \A s \in Stack : Holders(s) \in Nat /\ Balance(sip[s], Holders(s), Closed)
    BY Types DEF Inv, Balanced
  <2>2. \A s \in Stack : sip[s].nrefs = 0 <=> Closed /\ Holders(s) = 0
    BY <2>1 DEF Balance
  <2> QED
    BY <2>2 DEF Inv, FreedWhenUnused
<1> QED
  BY <1>1, InvAlways, PTL

(* A session socket never outlives its stack, whose reference it does not  *)
(* hold: an INVITE that comes in late finds the stack alive.               *)
THEOREM SocketsOnLiveStacks == Spec => []SockOnLiveStack
<1>1. Inv => SockOnLiveStack
  <2> SUFFICES ASSUME Inv, NEW s \in Stack, sock[s] > 0
               PROVE  sip[s].nrefs > 0
    BY DEF SockOnLiveStack
  <2>1. /\ Holders(s) = Cardinality(RegsOf(s)) + nsess[s]
        /\ Cardinality(RegsOf(s)) \in Nat /\ nsess[s] \in Nat
        /\ Holders(s) \in Nat
    BY Types DEF Inv
  <2>2. Balance(sip[s], Holders(s), Closed)
        /\ sock[s] = nsess[s] + (IF Closed THEN 0 ELSE 1)
    BY DEF Inv, Balanced, Socks
  <2>3. CASE Closed
    <3>1. Holders(s) > 0
      BY <2>1, <2>2, <2>3
    <3> QED
      BY <2>1, <2>2, <2>3, <3>1 DEF Balance
  <2>4. CASE ~Closed
    BY <2>1, <2>2, <2>4 DEF Balance
  <2> QED
    BY <2>3, <2>4
<1> QED
  BY <1>1, InvAlways, PTL

(* Every stack reports its exit once, after it was closed and at the       *)
(* latest when its last holder is gone; the exit handler's counter is      *)
(* exact, and before the hard shutdown only the last report cancels the    *)
(* loop.                                                                   *)
THEOREM ExitsReportedOnce == Spec => []ExitOnce
<1>1. Inv => ExitOnce
  <2> SUFFICES ASSUME Inv PROVE ExitOnce
    OBVIOUS
  <2>1. \A s \in Stack : Holders(s) \in Nat /\ Balance(sip[s], Holders(s), Closed)
    BY Types DEF Inv, Balanced
  <2>2. \A s \in Stack :
          /\ sip[s].exits <= 1
          /\ sip[s].exits = 1 => Closed
          /\ Closed /\ Holders(s) = 0 => sip[s].exits = 1
    BY <2>1 DEF Balance
  <2>3. /\ active = Cardinality({s \in Stack : sip[s].exits = 0})
        /\ ~polling /\ times <= CancelAt => active = 0
    BY DEF Inv, Reports, Unreported
  <2> QED
    BY <2>2, <2>3 DEF ExitOnce
<1> QED
  BY <1>1, InvAlways, PTL
-----------------------------------------------------------------------------
(* A registration that moves, if it moves, by a step of RegContract.       *)
RegMoves(u) ==
    \/ reg'[u] = reg[u]
    \/ <<reg[u], reg'[u]>> \in
         {<<"null", "pending">>, <<"pending", "waiting">>,
          <<"pending", "registered">>, <<"refreshing", "registered">>,
          <<"waiting", "pending">>, <<"registered", "refreshing">>,
          <<"pending", "lastpending">>, <<"refreshing", "lastrefresh">>,
          <<"waiting", "gone">>, <<"registered", "unregistering">>,
          <<"registered", "gone">>, <<"lastpending", "unregistering">>,
          <<"lastpending", "gone">>, <<"lastrefresh", "unregistering">>,
          <<"lastrefresh", "gone">>, <<"unregistering", "gone">>}

LEMMA RegSteps ==
    ASSUME Inv, [Next]_vars, NEW u \in UE PROVE RegMoves(u)
<1>1. reg \in [UE -> RegState]
  BY DEF Inv, TypeOK
<1>2. CASE register_ue
  <2>1. sent + 1 \in UE /\ sent + 1 > sent
    BY <1>2, SizeAssumption DEF register_ue, Inv, TypeOK, UE
  <2>2. reg[sent + 1] = "null"
    BY <2>1 DEF Inv, Order
  <2>3. reg' = reg \/ reg' = [reg EXCEPT ![sent + 1] = "pending"]
    BY <1>2 DEF register_ue
  <2> QED
    BY <1>1, <2>1, <2>2, <2>3 DEF RegMoves
<1>3. ASSUME NEW v \in UE, NEW ok \in BOOLEAN, response_handler(v, ok)
      PROVE  RegMoves(u)
  <2>1. CASE /\ reg[v] \in {"pending", "refreshing"}
             /\ reg' = [reg EXCEPT ![v] = IF ok \/ @ = "refreshing"
                                          THEN "registered" ELSE "waiting"]
    BY <1>1, <2>1 DEF RegMoves
  <2>2. CASE /\ reg[v] \in {"lastrefresh", "lastpending"}
             /\ reg' = [reg EXCEPT ![v] = "unregistering"]
    BY <1>1, <2>2 DEF RegMoves
  <2>3. CASE /\ reg[v] \in {"lastrefresh", "lastpending", "unregistering"}
             /\ reg' = [reg EXCEPT ![v] = "gone"]
    BY <1>1, <2>3 DEF RegMoves
  <2> QED
    BY <1>3, <2>1, <2>2, <2>3 DEF response_handler, FreeReg
<1>4. ASSUME NEW v \in UE, tmr_handler(v) PROVE RegMoves(u)
  BY <1>1, <1>4 DEF tmr_handler, RegMoves
<1>5. CASE Cleanup_act
  <2>1. CASE reg' = reg
    BY <2>1 DEF RegMoves
  <2>2. CASE Unregister
    <3>1. PICK bad \in SUBSET {v \in UE : Faults /\ reg[v] = "registered"} :
          LET freed == bad \cup {v \in UE : reg[v] = "waiting"} IN
          reg' = [v \in UE |->
             CASE v \in freed           -> "gone"
               [] reg[v] = "pending"    -> "lastpending"
               [] reg[v] = "refreshing" -> "lastrefresh"
               [] reg[v] = "registered" /\ v \notin bad -> "unregistering"
               [] OTHER                 -> reg[v]]
      BY <2>2 DEF Unregister
    <3>2. reg'[u] =
             CASE u \in bad \cup {v \in UE : reg[v] = "waiting"} -> "gone"
               [] reg[u] = "pending"    -> "lastpending"
               [] reg[u] = "refreshing" -> "lastrefresh"
               [] reg[u] = "registered" /\ u \notin bad -> "unregistering"
               [] OTHER                 -> reg[u]
      BY <3>1
    <3>3. u \in bad => reg[u] = "registered"
      BY <3>1
    <3>4. CASE reg[u] = "waiting" \/ u \in bad
      <4>1. reg'[u] = "gone"
        BY <3>2, <3>3, <3>4
      <4> QED
        BY <3>3, <3>4, <4>1 DEF RegMoves
    <3>5. CASE reg[u] = "pending"
      <4>1. reg'[u] = "lastpending"
        BY <3>2, <3>3, <3>5
      <4> QED
        BY <3>5, <4>1 DEF RegMoves
    <3>6. CASE reg[u] = "refreshing"
      <4>1. reg'[u] = "lastrefresh"
        BY <3>2, <3>3, <3>6
      <4> QED
        BY <3>6, <4>1 DEF RegMoves
    <3>7. CASE reg[u] = "registered" /\ u \notin bad
      <4>1. reg'[u] = "unregistering"
        BY <3>2, <3>7
      <4> QED
        BY <3>7, <4>1 DEF RegMoves
    <3>8. CASE reg[u] \notin {"waiting", "pending", "refreshing", "registered"}
      <4>1. reg'[u] = reg[u]
        BY <3>2, <3>3, <3>8
      <4> QED
        BY <4>1 DEF RegMoves
    <3> QED
      BY <3>4, <3>5, <3>6, <3>7, <3>8
  <2> QED
    BY <1>5, <2>1, <2>2 DEF Cleanup_act, CloseAndFree, re_cancel
<1>6. CASE reg' = reg
  BY <1>6 DEF RegMoves
<1>7. ASSUME NEW s \in Stack, SessionStarts(s) \/ SessionEnds(s)
      PROVE  reg' = reg
  BY <1>7 DEF SessionStarts, SessionEnds
<1>8. ASSUME CallScheduler_act \/ EndOfLoop \/ Done \/ UNCHANGED vars
      PROVE  reg' = reg
  BY <1>8 DEF CallScheduler_act, EndOfLoop, Done, vars
<1> QED
  BY <1>2, <1>3, <1>4, <1>5, <1>6, <1>7, <1>8 DEF Next

(* The registrations this module assumes are those that sipreg implements  *)
(* (SipReg): each goes through the states of RegContract by its steps,     *)
(* also when Cleanup gives up all of them at once.                         *)
THEOREM RegistrationsKeepContract == Spec => RegistrationsSteps
<1>1. Init => \A u \in UE : Registration(u)!Init
  BY DEF Init, Registration!Init
<1>2. Inv /\ [Next]_vars =>
        [\A u \in UE : [Registration(u)!Next]_(reg[u])]_vars
  <2> SUFFICES ASSUME Inv, [Next]_vars, NEW u \in UE
               PROVE  [Registration(u)!Next]_(reg[u])
    OBVIOUS
  <2>1. RegMoves(u)
    BY RegSteps
  <2> QED
    BY <2>1 DEF RegMoves, Registration!Next, Registration!Register,
                Registration!Fails, Registration!Succeeds,
                Registration!Again, Registration!GiveUp, Registration!Last,
                Registration!Unregistered
<1> QED
  BY <1>1, <1>2, InvAlways, PTL DEF Spec, RegistrationsSteps
=============================================================================
