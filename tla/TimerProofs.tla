----------------------------- MODULE TimerProofs -----------------------------
(***************************************************************************)
(* Proofs about TmrHeap, for every number of timers, any capacity to begin *)
(* with and any bounds on delays and time: the timers are where they       *)
(* believe to be, the heap is in order whenever nothing is being sifted,   *)
(* and the whole implements the abstract queue.  Then, about               *)
(* RepeatingTimer, which keeps one such timer going.                       *)
(***************************************************************************)
EXTENDS TmrHeap, RepeatingTimer, FiniteSetTheorems, WellFoundedInduction, TLAPS

(* Heaps of n keys: in order; in order but for the key at a and its        *)
(* parent; in order but for the key at a and its children.                 *)
Ordered(k, n) == \A i \in 1..(n - 1) : k[__parent(i)] <= k[i]

(* The children of a are not less than its parent.                         *)
Spans(k, n, a) ==
    a # 0 => \A i \in 1..(n - 1) : __parent(i) = a => k[__parent(a)] <= k[i]

UpOrder(k, n, a) ==
    /\ a \in 0..(n - 1)
    /\ \A i \in 1..(n - 1) : i # a => k[__parent(i)] <= k[i]
    /\ Spans(k, n, a)

DownOrder(k, n, a) ==
    /\ a \in 0..(n - 1)
    /\ \A i \in 1..(n - 1) : __parent(i) # a => k[__parent(i)] <= k[i]
    /\ Spans(k, n, a)

(* Each entry knows its place.                                             *)
Placed == \A i \in 0..(count - 1) : array[i] \in Timer /\ idx[array[i]] = i

Held == {array[i] : i \in 0..(count - 1)}

(* The timer that is being restarted is out of the heap.                   *)
Starting == IF item = None THEN {} ELSE {item[1]}

keys == [i \in 0..(count - 1) |-> key(i)]

Sifting ==
    /\ pc \in {"ready", "offer"} => Ordered(keys, count)
    /\ pc = "up" => UpOrder(keys, count, at)
    /\ pc = "down" => DownOrder(keys, count, at)
    /\ pc = "ready" => item = None
    /\ pc = "offer" => item # None

Polling == loop \in {"poll", "handler"} <=> poll_jfs # Never

(* A heap is only sifted on behalf of a handler, or of the timer whose     *)
(* handler is called next.                                                 *)
Calling == pc # "ready" => loop \in {"fds", "handler"}

Inv ==
    /\ TypeOK
    /\ count <= size
    /\ Placed
    /\ Held = running \ Starting
    /\ Sifting
    /\ Polling
-----------------------------------------------------------------------------
(* The shape of a heap.                                                    *)

LEMMA ParentFacts ==
    /\ __parent(0) = 0
    /\ \A i \in Nat \ {0} :
          /\ __parent(i) \in Nat /\ __parent(i) < i
          /\ \A a \in Nat : __parent(i) = a <=> i = 2 * a + 1 \/ i = 2 * a + 2
<1>1. ASSUME NEW i \in Nat \ {0}
      PROVE  /\ __parent(i) \in Nat /\ __parent(i) < i
             /\ \A a \in Nat :
                   __parent(i) = a <=> i = 2 * a + 1 \/ i = 2 * a + 2
  BY DEF __parent
<1> QED
  BY <1>1 DEF __parent

(* Every non-empty set of numbers has a least one.                         *)
LEMMA Least ==
    ASSUME NEW S \in SUBSET Nat, S # {}
    PROVE  \E m \in S : \A i \in S : m <= i
<1>1. PICK m \in S : \A i \in S : ~(<<i, m>> \in OpToRel(<, Nat))
  BY NatLessThanWellFounded, WFMin
<1>2. \A i \in S : ~(i < m)
  BY <1>1 DEF OpToRel
<1> QED
  BY <1>2

(* No key of a heap in order is less than its root.                        *)
LEMMA RootLeast ==
    ASSUME NEW n \in Nat, NEW k, \A i \in 0..(n - 1) : k[i] \in Int,
           Ordered(k, n)
    PROVE  \A i \in 0..(n - 1) : k[0] <= k[i]
<1> DEFINE S == {i \in 0..(n - 1) : k[i] < k[0]}
<1> SUFFICES ASSUME S # {} PROVE FALSE
  OBVIOUS
<1>1. S \in SUBSET Nat
  OBVIOUS
<1>2. PICK m \in S : \A i \in S : m <= i
  BY <1>1, Least
<1>3. m \in 0..(n - 1) /\ k[m] < k[0] /\ m # 0
  BY <1>2
<1>4. __parent(m) \in 0..(n - 1) /\ __parent(m) < m
  BY <1>3, ParentFacts
<1>5. k[__parent(m)] <= k[m]
  BY <1>3 DEF Ordered
<1>6. __parent(m) \in S
  BY <1>3, <1>4, <1>5
<1> QED
  BY <1>2, <1>3, <1>4, <1>6

(* g is k with the keys at a and b exchanged.                              *)
Swapped(g, k, n, a, b) ==
    /\ \A i \in 0..(n - 1) : i # a /\ i # b => g[i] = k[i]
    /\ g[a] = k[b] /\ g[b] = k[a]

LEMMA UpSwap ==
    ASSUME NEW n \in Nat, NEW k, NEW g, \A i \in 0..(n - 1) : k[i] \in Int,
           NEW a, UpOrder(k, n, a), a # 0, k[a] <= k[__parent(a)],
           Swapped(g, k, n, a, __parent(a))
    PROVE  UpOrder(g, n, __parent(a))
<1> DEFINE p == __parent(a)
<1>1. a \in 1..(n - 1) /\ p \in 0..(n - 1) /\ p < a
  BY ParentFacts DEF UpOrder
<1>2. /\ \A i \in 0..(n - 1) : i # a /\ i # p => g[i] = k[i]
      /\ g[a] = k[p] /\ g[p] = k[a]
  BY DEF Swapped
<1>3. k[a] <= k[p]
  OBVIOUS
<1>4. \A i \in 1..(n - 1) : __parent(i) \in 0..(n - 1) /\ __parent(i) < i
  BY ParentFacts
<1> HIDE DEF p
<1>5. ASSUME NEW i \in 1..(n - 1), i # p PROVE g[__parent(i)] <= g[i]
  <2>1. CASE i = a
    BY <1>1, <1>2, <1>3, <2>1 DEF p
  <2>2. CASE i # a /\ __parent(i) = p
    <3>1. k[p] <= k[i] /\ g[i] = k[i]
      BY <1>2, <1>5, <2>2 DEF UpOrder
    <3>2. g[p] = k[a] /\ k[a] \in Int /\ k[p] \in Int /\ k[i] \in Int
      BY <1>1, <1>2
    <3> QED
      BY <1>3, <2>2, <3>1, <3>2
  <2>3. CASE i # a /\ __parent(i) = a
    <3>1. k[p] <= k[i]
      BY <1>1, <2>3 DEF UpOrder, Spans, p
    <3> QED
      BY <1>2, <1>5, <2>3, <3>1
  <2>4. CASE i # a /\ __parent(i) # p /\ __parent(i) # a
    <3>1. g[__parent(i)] = k[__parent(i)] /\ g[i] = k[i]
      BY <1>2, <1>4, <1>5, <2>4
    <3> QED
      BY <2>4, <3>1 DEF UpOrder
  <2> QED
    BY <2>1, <2>2, <2>3, <2>4
<1>6. ASSUME p # 0, NEW i \in 1..(n - 1), __parent(i) = p
      PROVE  g[__parent(p)] <= g[i]
  <2>1. /\ p \in 1..(n - 1) /\ p # a /\ __parent(p) \in 0..(n - 1)
        /\ __parent(p) < p /\ i # p
    BY <1>1, <1>4, <1>6
  <2>2. k[__parent(p)] <= k[p] /\ g[__parent(p)] = k[__parent(p)]
    BY <1>1, <1>2, <2>1 DEF UpOrder
  <2>3. CASE i = a
    BY <1>2, <2>2, <2>3
  <2>4. CASE i # a
    <3>1. k[p] <= k[i] /\ g[i] = k[i]
      BY <1>2, <1>6, <2>1, <2>4 DEF UpOrder
    <3>2. k[__parent(p)] \in Int /\ k[p] \in Int /\ k[i] \in Int
      BY <1>1, <2>1
    <3> QED
      BY <2>2, <3>1, <3>2
  <2> QED
    BY <2>3, <2>4
<1> QED
  BY <1>1, <1>5, <1>6 DEF UpOrder, Spans, p

LEMMA UpDone ==
    ASSUME NEW n \in Nat, NEW k, \A i \in 0..(n - 1) : k[i] \in Int,
           NEW a, UpOrder(k, n, a), a = 0 \/ k[a] > k[__parent(a)]
    PROVE  Ordered(k, n)
<1> SUFFICES ASSUME NEW i \in 1..(n - 1) PROVE k[__parent(i)] <= k[i]
  BY DEF Ordered
<1>1. CASE i # a
  BY <1>1 DEF UpOrder
<1>2. CASE i = a
  <2>1. __parent(a) \in 0..(n - 1)
    BY <1>2, ParentFacts
  <2> QED
    BY <1>2, <2>1
<1> QED
  BY <1>1, <1>2

(* c is the lesser child of a.                                             *)
Lesser(k, n, a, c) ==
    /\ c \in 1..(n - 1) /\ __parent(c) = a
    /\ \A i \in 1..(n - 1) : __parent(i) = a => k[c] <= k[i]

LEMMA DownSwap ==
    ASSUME NEW n \in Nat, NEW k, NEW g, \A i \in 0..(n - 1) : k[i] \in Int,
           NEW a, NEW c, DownOrder(k, n, a), Lesser(k, n, a, c), k[a] > k[c],
           Swapped(g, k, n, a, c)
    PROVE  DownOrder(g, n, c)
<1>1. a \in 0..(n - 1) /\ c \in 1..(n - 1) /\ __parent(c) = a /\ a < c
  BY ParentFacts DEF DownOrder, Lesser
<1>2. /\ \A i \in 0..(n - 1) : i # a /\ i # c => g[i] = k[i]
      /\ g[a] = k[c] /\ g[c] = k[a]
  BY DEF Swapped
<1>3. \A i \in 1..(n - 1) : __parent(i) \in 0..(n - 1) /\ __parent(i) < i
  BY ParentFacts
<1>4. ASSUME NEW i \in 1..(n - 1), __parent(i) # c PROVE g[__parent(i)] <= g[i]
  <2>1. CASE i = c
    BY <1>1, <1>2, <2>1
  <2>2. CASE i # c /\ __parent(i) = a
    <3>1. i # a /\ g[i] = k[i]
      BY <1>2, <1>3, <1>4, <2>2
    <3> QED
      BY <1>2, <1>4, <2>2, <3>1 DEF Lesser
  <2>3. CASE i = a
    <3>1. k[__parent(a)] <= k[c]
      BY <1>1, <1>4, <2>3 DEF DownOrder, Spans
    <3>2. __parent(a) # a /\ g[__parent(a)] = k[__parent(a)]
      BY <1>2, <1>3, <1>4, <2>3
    <3> QED
      BY <1>2, <2>3, <3>1, <3>2
  <2>4. CASE i # c /\ i # a /\ __parent(i) # a
    <3>1. g[__parent(i)] = k[__parent(i)] /\ g[i] = k[i]
      BY <1>2, <1>3, <1>4, <2>4
    <3> QED
      BY <2>4, <3>1 DEF DownOrder
  <2> QED
    BY <2>1, <2>2, <2>3, <2>4
<1>5. ASSUME NEW i \in 1..(n - 1), __parent(i) = c
      PROVE  g[__parent(c)] <= g[i]
  <2>1. i # a /\ i # c /\ __parent(i) # a
    BY <1>1, <1>3, <1>5
  <2>2. k[c] <= k[i] /\ g[i] = k[i]
    BY <1>2, <1>5, <2>1 DEF DownOrder
  <2> QED
    BY <1>1, <1>2, <2>2
<1> QED
  BY <1>1, <1>4, <1>5 DEF DownOrder, Spans

LEMMA DownDone ==
    ASSUME NEW n \in Nat, NEW k, NEW a, DownOrder(k, n, a),
           \A i \in 1..(n - 1) : __parent(i) = a => k[a] <= k[i]
    PROVE  Ordered(k, n)
  BY DEF Ordered, DownOrder

(* The last of n keys takes the place of the one at p.                     *)
LEMMA Removed ==
    ASSUME NEW n \in Nat, NEW k, NEW g, \A i \in 0..(n - 1) : k[i] \in Int,
           Ordered(k, n), NEW p \in 0..(n - 2), g[p] = k[n - 1],
           \A i \in 0..(n - 2) : i # p => g[i] = k[i]
    PROVE  /\ p = 0 \/ k[n - 1] >= k[__parent(p)] => DownOrder(g, n - 1, p)
           /\ ~(p = 0 \/ k[n - 1] >= k[__parent(p)]) => UpOrder(g, n - 1, p)
<1>1. \A i \in 1..(n - 1) : __parent(i) \in 0..(n - 1) /\ __parent(i) < i
  BY ParentFacts
<1>2. \A i \in 1..((n - 1) - 1) : i \in 0..(n - 2) /\ i \in 1..(n - 1)
                                  /\ __parent(i) \in 0..(n - 2)
  BY <1>1
<1>3. p \in 0..((n - 1) - 1) /\ k[n - 1] \in Int
  OBVIOUS
<1>4. Spans(g, n - 1, p)
  <2> SUFFICES ASSUME p # 0, NEW i \in 1..((n - 1) - 1), __parent(i) = p
               PROVE  g[__parent(p)] <= g[i]
    BY DEF Spans
  <2>1. /\ p \in 1..(n - 1) /\ __parent(p) \in 0..(n - 2) /\ __parent(p) # p
        /\ i # p /\ i \in 1..(n - 1)
    BY <1>1, <1>2
  <2>2. k[__parent(p)] <= k[p] /\ k[p] <= k[i]
    BY <2>1 DEF Ordered
  <2>3. k[__parent(p)] \in Int /\ k[p] \in Int /\ k[i] \in Int
    BY <1>2, <2>1
  <2>4. g[__parent(p)] = k[__parent(p)] /\ g[i] = k[i]
    BY <1>2, <2>1
  <2> QED
    BY <2>2, <2>3, <2>4
<1>5. ASSUME NEW i \in 1..((n - 1) - 1), i # p, __parent(i) # p
      PROVE  g[__parent(i)] <= g[i]
  BY <1>2, <1>5 DEF Ordered
<1>6. ASSUME p = 0 \/ k[n - 1] >= k[__parent(p)] PROVE DownOrder(g, n - 1, p)
  <2>1. ASSUME p # 0 PROVE g[__parent(p)] <= g[p]
    <3>1. __parent(p) \in 0..(n - 2) /\ __parent(p) # p
      BY <1>1, <2>1
    <3> QED
      BY <1>3, <1>6, <2>1, <3>1
  <2> QED
    BY <1>3, <1>4, <1>5, <2>1 DEF DownOrder
<1>7. ASSUME ~(p = 0 \/ k[n - 1] >= k[__parent(p)]) PROVE UpOrder(g, n - 1, p)
  <2>1. ASSUME NEW i \in 1..((n - 1) - 1), __parent(i) = p
        PROVE  g[__parent(i)] <= g[i]
    <3>1. /\ p \in 1..(n - 1) /\ __parent(p) \in 0..(n - 1)
          /\ i # p /\ i \in 1..(n - 1)
      BY <1>1, <1>2, <1>7, <2>1
    <3>2. k[__parent(p)] <= k[p] /\ k[p] <= k[i]
      BY <2>1, <3>1 DEF Ordered
    <3>3. k[__parent(p)] \in Int /\ k[p] \in Int /\ k[i] \in Int
      BY <1>2, <3>1
    <3>4. g[i] = k[i] /\ g[p] = k[n - 1]
      BY <1>2, <3>1
    <3> QED
      BY <1>3, <1>7, <2>1, <3>2, <3>3, <3>4
  <2> QED
    BY <1>3, <1>4, <1>5, <2>1 DEF UpOrder
<1> QED
  BY <1>6, <1>7
-----------------------------------------------------------------------------
(* The heap of the program.                                                *)

Time == 0..(MaxTime + MaxDelay)

LEMMA TimerFacts == Cardinality(Timer) \in Nat /\ IsFiniteSet(Timer)
  BY TimerAssumption, FS_CardinalityType

LEMMA TimeFacts == Time \subseteq Int /\ 0 \in Time
  BY TimeAssumption DEF Time

LEMMA HeapFacts ==
    ASSUME Inv
    PROVE  /\ count \in Nat
           /\ \A i \in 0..(count - 1) :
                 /\ i \in Place /\ array[i] \in Timer /\ idx[array[i]] = i
                 /\ keys[i] = jfs[array[i]] /\ keys[i] \in Int
                 /\ array[i] \in running \ Starting
           /\ \A i, j \in 0..(count - 1) : array[i] = array[j] => i = j
<1>1. count \in 0..Cardinality(Timer) /\ jfs \in [Timer -> Time]
  BY DEF Inv, TypeOK, Time
<1>2. count \in Nat
  BY <1>1, TimerFacts
<1>3. ASSUME NEW i \in 0..(count - 1)
      PROVE  /\ i \in Place /\ array[i] \in Timer /\ idx[array[i]] = i
             /\ keys[i] = jfs[array[i]] /\ keys[i] \in Int
             /\ array[i] \in running \ Starting
  <2>1. i \in Place
    BY <1>1, <1>3, TimerFacts DEF Place
  <2>2. array[i] \in Timer /\ idx[array[i]] = i
    BY <1>3 DEF Inv, Placed
  <2>3. keys[i] = jfs[array[i]]
    BY <1>3 DEF keys, key
  <2>4. jfs[array[i]] \in Time
    BY <1>1, <2>2
  <2>5. array[i] \in Held
    BY <1>3 DEF Held
  <2> QED
    BY <2>1, <2>2, <2>3, <2>4, <2>5, TimeFacts DEF Inv
<1>4. \A i, j \in 0..(count - 1) : array[i] = array[j] => i = j
  BY <1>3
<1> QED
  BY <1>2, <1>3, <1>4

(* Two entries change places.                                              *)
LEMMA SwapStep ==
    ASSUME Inv, NEW i \in 0..(count - 1), NEW j \in 0..(count - 1), i # j,
           __swap(i, j), jfs' = jfs, count' = count
    PROVE  /\ array' \in [Place -> Timer \cup {None}]
           /\ idx' \in [Timer -> Place \cup {-1}]
           /\ Placed' /\ Held' = Held
           /\ Swapped(keys', keys, count, i, j)
<1>1. /\ array \in [Place -> Timer \cup {None}]
      /\ idx \in [Timer -> Place \cup {-1}]
  BY DEF Inv, TypeOK
<1>2. /\ i \in Place /\ j \in Place /\ array[i] \in Timer /\ array[j] \in Timer
      /\ array[i] # array[j]
  BY HeapFacts
<1>3. /\ array' = [array EXCEPT ![i] = array[j], ![j] = array[i]]
      /\ idx' = [idx EXCEPT ![array[j]] = i, ![array[i]] = j]
  BY DEF __swap
<1>4. /\ array' \in [Place -> Timer \cup {None}]
      /\ idx' \in [Timer -> Place \cup {-1}]
  BY <1>1, <1>2, <1>3
<1>5. /\ array'[i] = array[j] /\ array'[j] = array[i]
      /\ \A m \in Place : m # i /\ m # j => array'[m] = array[m]
      /\ idx'[array[j]] = i /\ idx'[array[i]] = j
      /\ \A t \in Timer : t # array[i] /\ t # array[j] => idx'[t] = idx[t]
  BY <1>1, <1>2, <1>3
<1>6. ASSUME NEW m \in 0..(count - 1)
      PROVE  array'[m] \in Timer /\ idx'[array'[m]] = m
  <2>1. CASE m = i \/ m = j
    BY <1>2, <1>5, <2>1
  <2>2. CASE m # i /\ m # j
    <3>1. m \in Place /\ array[m] \in Timer /\ idx[array[m]] = m
      BY <1>6, HeapFacts
    <3>2. array[m] # array[i] /\ array[m] # array[j]
      BY <1>6, <2>2, HeapFacts
    <3> QED
      BY <1>5, <2>2, <3>1, <3>2
  <2> QED
    BY <2>1, <2>2
<1>7. Held' = Held
  <2>1. ASSUME NEW m \in 0..(count - 1) PROVE array'[m] \in Held
    BY <1>5, <2>1, HeapFacts DEF Held
  <2>2. ASSUME NEW m \in 0..(count - 1) PROVE array[m] \in Held'
    <3>1. CASE m = i
      BY <1>5, <3>1 DEF Held
    <3>2. CASE m = j
      BY <1>5, <3>2 DEF Held
    <3>3. CASE m # i /\ m # j
      BY <1>5, <2>2, <3>3, HeapFacts DEF Held
    <3> QED
      BY <3>1, <3>2, <3>3
  <2> QED
    BY <2>1, <2>2 DEF Held
<1>8. Swapped(keys', keys, count, i, j)
  <2>1. \A m \in 0..(count - 1) : keys'[m] = jfs[array'[m]]
    BY DEF keys, key
  <2>2. \A m \in 0..(count - 1) : keys[m] = jfs[array[m]] /\ m \in Place
    BY HeapFacts
  <2> QED
    BY <1>5, <2>1, <2>2 DEF Swapped
<1> QED
  BY <1>4, <1>6, <1>7, <1>8 DEF Placed

(* heap_remove_item, whatever becomes of the timer's own jfs.              *)
LEMMA RemoveStep ==
    ASSUME Inv, pc = "ready", NEW t \in running, NEW w,
           heap_remove_item(t, w), \A u \in Timer \ {t} : jfs'[u] = jfs[u]
    PROVE  /\ array' \in [Place -> Timer \cup {None}]
           /\ idx' \in [Timer -> Place \cup {-1}]
           /\ count' \in 0..Cardinality(Timer) /\ count' <= count
           /\ at' \in Place \cup {0} /\ size' = size
           /\ Placed' /\ Held' = running \ {t}
           /\ \/ pc' = Return(w) /\ Ordered(keys', count')
              \/ pc' = "up" /\ UpOrder(keys', count', at')
              \/ pc' = "down" /\ DownOrder(keys', count', at')
<1> DEFINE p == idx[t]
           c == count - 1
           last == array[c]
<1>1. /\ array \in [Place -> Timer \cup {None}]
      /\ idx \in [Timer -> Place \cup {-1}]
      /\ count \in 0..Cardinality(Timer)
  BY DEF Inv, TypeOK
<1>2. item = None /\ Held = running /\ Ordered(keys, count)
  BY DEF Inv, Sifting, Starting
<1>3. PICK m \in 0..(count - 1) : array[m] = t
  BY <1>2 DEF Held
<1>4. p = m /\ t \in Timer
  BY <1>3, HeapFacts
<1>5. /\ c \in 0..(count - 1) /\ c \in Nat /\ p \in 0..(count - 1)
      /\ p \in Place /\ c \in Place /\ array[p] = t /\ last \in Timer
      /\ (p = c => last = t) /\ (p # c => last # t)
  BY <1>3, <1>4, HeapFacts
<1>6. /\ array' = [array EXCEPT ![p] = last, ![c] = None]
      /\ idx' = [idx EXCEPT ![t] = -1, ![last] = p]
      /\ count' = c
      /\ \/ p = c /\ at' = 0 /\ pc' = Return(w)
         \/ /\ p # c /\ at' = p
            /\ pc' = IF p = 0 \/ jfs[last] >= key(__parent(p))
                     THEN "down" ELSE "up"
      /\ size' = size
  BY DEF heap_remove_item
<1>7. /\ \A i \in 0..(count - 1) :
            /\ i \in Place /\ array[i] \in Timer /\ idx[array[i]] = i
            /\ keys[i] = jfs[array[i]] /\ keys[i] \in Int
      /\ \A i, j \in 0..(count - 1) : array[i] = array[j] => i = j
  BY HeapFacts
<1>8. keys[c] = jfs[last]
  BY <1>5, <1>7
<1>9. count \in Nat
  BY HeapFacts
<1> HIDE DEF p, c, last
<1>10. c = count - 1
  BY DEF c
<1>11. /\ array' \in [Place -> Timer \cup {None}]
       /\ idx' \in [Timer -> Place \cup {-1}]
       /\ count' \in 0..Cardinality(Timer) /\ count' <= count
       /\ at' \in Place \cup {0} /\ size' = size
  BY <1>1, <1>4, <1>5, <1>6, <1>9, <1>10, TimerFacts
<1>12. /\ p # c => array'[p] = last
       /\ \A i \in Place : i # p /\ i # c => array'[i] = array[i]
       /\ idx'[last] = p
       /\ \A u \in Timer : u # t /\ u # last => idx'[u] = idx[u]
  BY <1>1, <1>4, <1>5, <1>6
<1>13. ASSUME NEW i \in 0..(c - 1)
       PROVE  /\ array'[i] = IF i = p THEN last ELSE array[i]
              /\ i \in 0..(count - 1) /\ i # c
  BY <1>5, <1>7, <1>10, <1>12, <1>13
<1>14. ASSUME NEW i \in 0..(c - 1)
       PROVE  array'[i] \in Timer /\ idx'[array'[i]] = i /\ array'[i] # t
  <2>1. CASE i = p
    BY <1>5, <1>12, <1>13, <1>14, <2>1
  <2>2. CASE i # p
    <3>1. array'[i] = array[i] /\ array[i] \in Timer /\ idx[array[i]] = i
      BY <1>7, <1>13, <1>14, <2>2
    <3>2. array[i] # t
      BY <1>5, <1>7, <1>13, <1>14, <2>2
    <3>3. array[i] # last
      BY <1>5, <1>7, <1>13, <1>14 DEF last
    <3> QED
      BY <1>12, <3>1, <3>2, <3>3
  <2> QED
    BY <2>1, <2>2
<1>15. Placed'
  BY <1>6, <1>14 DEF Placed
<1>16. Held' = running \ {t}
  <2>1. Held' = {array'[i] : i \in 0..(c - 1)}
    BY <1>6 DEF Held
  <2>2. ASSUME NEW i \in 0..(c - 1) PROVE array'[i] \in running \ {t}
    <3>1. last \in Held /\ array[i] \in Held
      BY <1>5, <1>13, <2>2 DEF Held, last
    <3> QED
      BY <1>2, <1>13, <1>14, <2>2, <3>1
  <2>3. ASSUME NEW u \in running, u # t
        PROVE  \E i \in 0..(c - 1) : array'[i] = u
    <3>1. PICK i \in 0..(count - 1) : array[i] = u
      BY <1>2, <2>3 DEF Held
    <3>2. i # p
      BY <1>5, <2>3, <3>1
    <3>3. CASE i = c
      <4>1. p # c /\ p \in 0..(c - 1)
        BY <1>5, <1>10, <3>2, <3>3
      <4>2. array'[p] = u
        BY <1>12, <3>1, <3>3, <4>1 DEF last
      <4> QED
        BY <4>1, <4>2
    <3>4. CASE i # c
      <4>1. i \in 0..(c - 1)
        BY <1>9, <1>10, <3>4
      <4> QED
        BY <1>13, <3>1, <3>2, <4>1
    <3> QED
      BY <3>3, <3>4
  <2> QED
    BY <2>1, <2>2, <2>3
<1>17. \A i \in 0..(c - 1) : keys'[i] = IF i = p THEN keys[c] ELSE keys[i]
  <2>1. \A i \in 0..(c - 1) : keys'[i] = jfs'[array'[i]]
    BY <1>6 DEF keys, key
  <2>2. \A i \in 0..(c - 1) : jfs'[array'[i]] = jfs[array'[i]]
    BY <1>14
  <2> QED
    BY <1>7, <1>8, <1>13, <2>1, <2>2
<1>18. CASE p = c
  <2>1. \A i \in 0..(c - 1) : keys'[i] = keys[i]
    BY <1>5, <1>17, <1>18
  <2>2. \A i \in 1..(c - 1) : i \in 1..(count - 1) /\ __parent(i) \in 0..(c - 1)
    BY <1>5, <1>10, ParentFacts
  <2>3. Ordered(keys', c)
    BY <1>2, <2>1, <2>2 DEF Ordered
  <2> QED
    BY <1>6, <1>11, <1>15, <1>16, <1>18, <2>3
<1>19. CASE p # c
  <2>1. p \in 0..(count - 2) /\ count - 1 = c /\ count - 2 = c - 1
    BY <1>5, <1>9, <1>10, <1>19
  <2>2. /\ keys'[p] = keys[count - 1]
        /\ \A i \in 0..(count - 2) : i # p => keys'[i] = keys[i]
    BY <1>17, <2>1
  <2>3. /\ p = 0 \/ keys[count - 1] >= keys[__parent(p)]
              => DownOrder(keys', count - 1, p)
        /\ ~(p = 0 \/ keys[count - 1] >= keys[__parent(p)])
              => UpOrder(keys', count - 1, p)
    BY <1>2, <1>7, <1>9, <2>1, <2>2, Removed
  <2>4. p # 0 => keys[__parent(p)] = key(__parent(p))
    <3>1. p # 0 => p \in Nat \ {0} /\ p < count
      BY <1>5, <1>9
    <3>2. p # 0 => __parent(p) \in 0..(count - 1)
      BY <1>9, <3>1, ParentFacts
    <3> QED
      BY <3>2 DEF keys
  <2> QED
    BY <1>6, <1>8, <1>11, <1>15, <1>16, <1>19, <2>1, <2>3, <2>4
<1> QED
  BY <1>18, <1>19

(* There is a place for the timer that is about to be entered.             *)
LEMMA RoomLeft ==
    ASSUME Inv, NEW t \in Timer, t \notin Held
    PROVE  count < Cardinality(Timer)
<1> DEFINE f == [i \in 0..(count - 1) |-> array[i]]
           S == 0..(count - 1)
           T == Timer \ {t}
<1>1. IsFiniteSet(T) /\ Cardinality(T) = Cardinality(Timer) - 1
  BY TimerFacts, FS_RemoveElement
<1>2. \A i \in S : f[i] \in T
  BY HeapFacts DEF Held
<1>3. \A i, j \in S : f[i] = f[j] => i = j
  BY HeapFacts
<1>4. f \in [S -> T]
  BY <1>2
<1> HIDE DEF f
<1>5. f \in Injection(S, T)
  BY <1>3, <1>4 DEF Injection, IsInjective
<1>6. Cardinality(S) <= Cardinality(T)
  BY <1>1, <1>5, FS_Injection
<1>7. Cardinality(S) = count
  <2>1. 0 \in Int /\ count - 1 \in Int /\ count \in Nat
    BY HeapFacts
  <2>2. Cardinality(S) = IF 0 > count - 1 THEN 0 ELSE (count - 1) - 0 + 1
    BY <2>1, FS_Interval
  <2> QED
    BY <2>1, <2>2
<1> QED
  BY <1>1, <1>6, <1>7, TimerFacts, HeapFacts
-----------------------------------------------------------------------------
(* The steps.                                                              *)

LEMMA PushUp ==
    ASSUME Inv, __pushup
    PROVE  Inv'
<1>1. /\ pc = "up" /\ UpOrder(keys, count, at) /\ at \in 0..(count - 1)
  BY DEF Inv, Sifting, UpOrder, __pushup
<1>2. UNCHANGED <<now, running, jfs, count, size, item, loop, poll_jfs, wake>>
  BY DEF __pushup
<1>3. /\ count \in Nat
      /\ \A i \in 0..(count - 1) : keys[i] = key(i) /\ keys[i] \in Int
                                   /\ i \in Place
  BY HeapFacts DEF key
<1>4. CASE /\ at # 0 /\ key(at) <= key(__parent(at))
           /\ __swap(at, __parent(at))
           /\ at' = __parent(at)
           /\ pc' = pc
  <2>1. at \in 1..(count - 1) /\ __parent(at) \in 0..(count - 1) /\ __parent(at) # at
    BY <1>1, <1>3, <1>4, ParentFacts
  <2>2. /\ array' \in [Place -> Timer \cup {None}]
        /\ idx' \in [Timer -> Place \cup {-1}]
        /\ Placed' /\ Held' = Held
        /\ Swapped(keys', keys, count, at, __parent(at))
    BY <1>1, <1>2, <1>4, <2>1, SwapStep
  <2>3. keys[at] <= keys[__parent(at)]
    BY <1>1, <1>3, <1>4, <2>1
  <2>4. UpOrder(keys', count, __parent(at))
    BY <1>1, <1>3, <1>4, <2>2, <2>3, UpSwap
  <2>5. TypeOK'
    BY <1>2, <1>3, <1>4, <2>1, <2>2 DEF Inv, TypeOK
  <2>6. Sifting'
    BY <1>1, <1>2, <1>4, <2>4 DEF Sifting
  <2> QED
    BY <1>2, <2>2, <2>5, <2>6 DEF Inv, Starting, Polling
<1>5. CASE /\ at = 0 \/ key(at) > key(__parent(at))
           /\ pc' = Return(item)
           /\ at' = 0
           /\ idx' = idx /\ array' = array
  <2>1. at = 0 \/ keys[at] > keys[__parent(at)]
    <3>1. at # 0 => __parent(at) \in 0..(count - 1)
      BY <1>1, <1>3, ParentFacts
    <3> QED
      BY <1>1, <1>3, <1>5, <3>1
  <2>2. Ordered(keys, count)
    BY <1>1, <1>3, <2>1, UpDone
  <2>3. keys' = keys /\ Placed' /\ Held' = Held
    BY <1>2, <1>5 DEF keys, key, Placed, Held, Inv
  <2>4. TypeOK'
    BY <1>2, <1>5 DEF Inv, TypeOK, Return
  <2>5. Sifting'
    BY <1>2, <1>5, <2>2, <2>3 DEF Sifting, Return
  <2> QED
    BY <1>2, <2>3, <2>4, <2>5 DEF Inv, Starting, Polling
<1> QED
  BY <1>4, <1>5 DEF __pushup

(* biggest_child is the child with the lesser key.                         *)
LEMMA BiggestChild ==
    ASSUME Inv, NEW a \in 0..(count - 1), __child_left(a) < count
    PROVE  Lesser(keys, count, a, biggest_child(a))
<1> DEFINE l == 2 * a + 1
           r == 2 * a + 2
<1>1. /\ count \in Nat
      /\ \A i \in 0..(count - 1) : keys[i] = key(i) /\ keys[i] \in Int
  BY HeapFacts DEF key
<1>2. /\ __child_left(a) = l /\ __child_right(a) = r /\ a \in Nat
      /\ l \in 1..(count - 1) /\ r \in Nat \ {0}
  BY <1>1 DEF __child_left, __child_right
<1>3. __parent(l) = a /\ __parent(r) = a
  BY <1>2, ParentFacts
<1>4. \A i \in 1..(count - 1) : __parent(i) = a => i = l \/ i = r
  BY <1>1, <1>2, ParentFacts
<1>5. biggest_child(a) = IF r < count /\ key(l) > key(r) THEN r ELSE l
  BY <1>2 DEF biggest_child
<1> HIDE DEF l, r
<1>6. r < count => r \in 1..(count - 1)
  BY <1>1, <1>2
<1>7. /\ keys[l] = key(l) /\ keys[l] \in Int
      /\ r < count => keys[r] = key(r) /\ keys[r] \in Int
  BY <1>1, <1>2, <1>6
<1>8. CASE r < count /\ key(l) > key(r)
  <2>1. \A i \in 1..(count - 1) : __parent(i) = a => keys[r] <= keys[i]
    BY <1>4, <1>7, <1>8
  <2> QED
    BY <1>3, <1>5, <1>6, <1>8, <2>1 DEF Lesser
<1>9. CASE ~(r < count /\ key(l) > key(r))
  <2>1. ASSUME NEW i \in 1..(count - 1), __parent(i) = a
        PROVE  keys[l] <= keys[i]
    <3>1. CASE i = l
      BY <1>7, <3>1
    <3>2. CASE i = r
      <4>1. r < count
        BY <1>1, <2>1, <3>2
      <4> QED
        BY <1>7, <1>9, <3>2, <4>1
    <3> QED
      BY <1>4, <2>1, <3>1, <3>2
  <2> QED
    BY <1>2, <1>3, <1>5, <1>9, <2>1 DEF Lesser
<1> QED
  BY <1>8, <1>9

LEMMA PushDown ==
    ASSUME Inv, __pushdown
    PROVE  Inv'
<1> DEFINE c == biggest_child(at)
<1>1. pc = "down" /\ DownOrder(keys, count, at) /\ at \in 0..(count - 1)
  BY DEF Inv, Sifting, DownOrder, __pushdown
<1>2. UNCHANGED <<now, running, jfs, count, size, item, loop, poll_jfs, wake>>
  BY DEF __pushdown
<1>3. /\ count \in Nat
      /\ \A i \in 0..(count - 1) : keys[i] = key(i) /\ keys[i] \in Int
                                   /\ i \in Place
  BY HeapFacts DEF key
<1>4. __child_left(at) < count => Lesser(keys, count, at, c)
  BY <1>1, BiggestChild
<1>5. \/ /\ __child_left(at) < count /\ key(at) > key(c)
         /\ __swap(at, c) /\ at' = c /\ pc' = pc
      \/ /\ __child_left(at) < count => key(at) <= key(c)
         /\ pc' = Return(item) /\ at' = 0 /\ idx' = idx /\ array' = array
  BY DEF __pushdown
<1> HIDE DEF c
<1>6. CASE /\ __child_left(at) < count /\ key(at) > key(c)
           /\ __swap(at, c) /\ at' = c /\ pc' = pc
  <2>1. c \in 1..(count - 1) /\ __parent(c) = at /\ c # at
    BY <1>4, <1>6, ParentFacts DEF Lesser
  <2>2. c \in 0..(count - 1)
    BY <2>1
  <2>3. /\ array' \in [Place -> Timer \cup {None}]
        /\ idx' \in [Timer -> Place \cup {-1}]
        /\ Placed' /\ Held' = Held
        /\ Swapped(keys', keys, count, at, c)
    BY <1>1, <1>2, <1>6, <2>1, <2>2, SwapStep
  <2>4. keys[at] > keys[c]
    BY <1>1, <1>3, <1>6, <2>2
  <2>5. DownOrder(keys', count, c)
    BY <1>1, <1>3, <1>4, <1>6, <2>3, <2>4, DownSwap
  <2>6. TypeOK'
    BY <1>2, <1>3, <1>6, <2>2, <2>3 DEF Inv, TypeOK
  <2>7. Sifting'
    BY <1>1, <1>2, <1>6, <2>5 DEF Sifting
  <2> QED
    BY <1>2, <2>3, <2>6, <2>7 DEF Inv, Starting, Polling
<1>7. CASE /\ __child_left(at) < count => key(at) <= key(c)
           /\ pc' = Return(item) /\ at' = 0 /\ idx' = idx /\ array' = array
  <2>1. ASSUME NEW i \in 1..(count - 1), __parent(i) = at
        PROVE  keys[at] <= keys[i]
    <3>1. __child_left(at) < count
      BY <1>1, <1>3, <2>1, ParentFacts DEF __child_left
    <3>2. c \in 0..(count - 1) /\ keys[c] <= keys[i]
      BY <1>4, <2>1, <3>1 DEF Lesser
    <3>3. keys[at] <= keys[c]
      BY <1>1, <1>3, <1>7, <3>1, <3>2
    <3>4. keys[at] \in Int /\ keys[c] \in Int /\ keys[i] \in Int
      BY <1>1, <1>3, <2>1, <3>2
    <3> QED
      BY <3>2, <3>3, <3>4
  <2>2. Ordered(keys, count)
    BY <1>1, <1>3, <2>1, DownDone
  <2>3. keys' = keys /\ Placed' /\ Held' = Held
    BY <1>2, <1>7 DEF keys, key, Placed, Held, Inv
  <2>4. TypeOK'
    BY <1>2, <1>7 DEF Inv, TypeOK, Return
  <2>5. Sifting'
    BY <1>2, <1>7, <2>2, <2>3 DEF Sifting, Return
  <2> QED
    BY <1>2, <2>3, <2>4, <2>5 DEF Inv, Starting, Polling
<1> QED
  BY <1>5, <1>6, <1>7

(* A running timer is taken out first, to be entered again.                *)
LEMMA Start ==
    ASSUME Inv, NEW t \in Timer, NEW d \in 0..MaxDelay, tmr_start(t, d)
    PROVE  Inv'
<1>1. /\ pc = "ready" /\ item' = <<t, d>> /\ item = None
      /\ UNCHANGED <<now, running, jfs, loop, poll_jfs, wake>>
  BY DEF tmr_start, InHandler, Inv, Sifting
<1>2. item' # None /\ item'[1] = t
  BY <1>1, NoneAssumption
<1>3. Starting' = {t} /\ Return(item') = "offer" /\ Held = running
  BY <1>1, <1>2 DEF Starting, Return, Inv
<1>4. CASE t \in running /\ heap_remove_item(t, item')
  <2>1. /\ array' \in [Place -> Timer \cup {None}]
        /\ idx' \in [Timer -> Place \cup {-1}]
        /\ count' \in 0..Cardinality(Timer) /\ count' <= count
        /\ at' \in Place \cup {0} /\ size' = size
        /\ Placed' /\ Held' = running \ {t}
        /\ \/ pc' = Return(item') /\ Ordered(keys', count')
           \/ pc' = "up" /\ UpOrder(keys', count', at')
           \/ pc' = "down" /\ DownOrder(keys', count', at')
    BY <1>1, <1>4, RemoveStep
  <2>2. TypeOK'
    BY <1>1, <1>3, <2>1 DEF Inv, TypeOK
  <2>3. Sifting'
    BY <1>1, <1>2, <1>3, <2>1 DEF Sifting
  <2>4. count' <= size'
    BY <2>1, TimerFacts, HeapFacts DEF Inv, TypeOK
  <2> QED
    BY <1>1, <1>3, <2>1, <2>2, <2>3, <2>4 DEF Inv, Polling
<1>5. CASE t \notin running /\ pc' = "offer" /\ UNCHANGED <<heap, at>>
  <2>1. keys' = keys /\ Placed' /\ Held' = Held /\ count' = count
        /\ size' = size /\ at' = at /\ array' = array /\ idx' = idx
    BY <1>1, <1>5 DEF heap, keys, key, Placed, Held, Inv
  <2>2. TypeOK'
    BY <1>1, <1>5, <2>1 DEF Inv, TypeOK
  <2>3. Sifting'
    BY <1>1, <1>2, <1>5, <2>1 DEF Inv, Sifting
  <2> QED
    BY <1>1, <1>3, <1>5, <2>1, <2>2, <2>3 DEF Inv, Polling
<1> QED
  BY <1>4, <1>5 DEF tmr_start

LEMMA Entered ==
    ASSUME Inv, tmr_start_end
    PROVE  Inv'
<1> DEFINE t == item[1]
           d == item[2]
           n == count + 1
<1>1. /\ pc = "offer" /\ item # None /\ item \in Timer \X (0..MaxDelay)
  BY DEF tmr_start_end, Inv, Sifting, TypeOK
<1>2. t \in Timer /\ d \in 0..MaxDelay
  BY <1>1
<1>3. /\ running' = running \cup {t}
      /\ jfs' = [jfs EXCEPT ![t] = d + now]
      /\ size' = __ensurecapacity
      /\ idx' = [idx EXCEPT ![t] = count]
      /\ array' = [array EXCEPT ![count] = t]
      /\ count' = n /\ at' = count /\ pc' = "up"
      /\ item' = None
      /\ UNCHANGED <<now, loop, poll_jfs, wake>>
  BY DEF tmr_start_end, heap_offer
<1> HIDE DEF t, d
<1>4. Held = running \ {t} /\ Ordered(keys, count)
  BY <1>1 DEF Inv, Starting, Sifting, t
<1>5. count \in Nat /\ count < Cardinality(Timer)
  BY <1>2, <1>4, RoomLeft, HeapFacts
<1>6. count \in Place
  BY <1>5, TimerFacts DEF Place
<1>7. /\ array \in [Place -> Timer \cup {None}]
      /\ idx \in [Timer -> Place \cup {-1}]
      /\ jfs \in [Timer -> Time] /\ now \in 0..MaxTime /\ size \in Nat \ {0}
      /\ count <= size
  BY DEF Inv, TypeOK, Time
<1>8. size' \in Nat \ {0} /\ count' <= size'
  BY <1>3, <1>5, <1>7 DEF __ensurecapacity
<1>9. d + now \in Time
  BY <1>2, <1>7, TimeAssumption DEF Time
<1>10. /\ array' \in [Place -> Timer \cup {None}]
       /\ idx' \in [Timer -> Place \cup {-1}]
       /\ jfs' \in [Timer -> Time]
  BY <1>2, <1>3, <1>6, <1>7, <1>9
<1>11. /\ array'[count] = t /\ idx'[t] = count
       /\ \A i \in Place : i # count => array'[i] = array[i]
       /\ \A u \in Timer : u # t => idx'[u] = idx[u] /\ jfs'[u] = jfs[u]
  BY <1>2, <1>3, <1>6, <1>7
<1>12. ASSUME NEW i \in 0..(n - 1), i # count
       PROVE  /\ i \in 0..(count - 1) /\ array'[i] = array[i] /\ array[i] # t
              /\ array[i] \in Timer /\ idx'[array[i]] = i
              /\ keys[i] = jfs[array[i]]
  <2>1. i \in 0..(count - 1)
    BY <1>5, <1>12
  <2>2. i \in Place /\ array[i] \in Timer /\ idx[array[i]] = i
        /\ keys[i] = jfs[array[i]]
    BY <2>1, HeapFacts
  <2>3. array[i] # t
    BY <1>4, <2>1 DEF Held
  <2> QED
    BY <1>11, <1>12, <2>1, <2>2, <2>3
<1>13. Placed'
  <2>1. ASSUME NEW i \in 0..(n - 1) PROVE array'[i] \in Timer /\ idx'[array'[i]] = i
    BY <1>2, <1>11, <1>12, <2>1
  <2> QED
    BY <1>3, <2>1 DEF Placed
<1>14. Held' = running' \ Starting'
  <2>1. Held' = {array'[i] : i \in 0..(n - 1)}
    BY <1>3 DEF Held
  <2>2. ASSUME NEW i \in 0..(n - 1) PROVE array'[i] \in Held \cup {t}
    BY <1>11, <1>12, <2>2 DEF Held
  <2>3. ASSUME NEW u \in Held PROVE \E i \in 0..(n - 1) : array'[i] = u
    <3>1. PICK i \in 0..(count - 1) : array[i] = u
      BY <2>3 DEF Held
    <3>2. i \in 0..(n - 1) /\ i # count
      BY <1>5
    <3> QED
      BY <1>12, <3>1, <3>2
  <2>4. count \in 0..(n - 1)
    BY <1>5
  <2>5. Held' = Held \cup {t}
    BY <1>11, <2>1, <2>2, <2>3, <2>4
  <2>6. Starting' = {}
    BY <1>3 DEF Starting
  <2> QED
    BY <1>3, <1>4, <2>5, <2>6
<1>15. \A i \in 0..(count - 1) : keys'[i] = keys[i]
  <2> TAKE i \in 0..(count - 1)
  <2>1. i \in 0..(n - 1) /\ i # count
    BY <1>5
  <2>2. keys'[i] = jfs'[array'[i]]
    BY <1>3, <2>1 DEF keys, key
  <2> QED
    BY <1>11, <1>12, <2>1, <2>2
<1>16. UpOrder(keys', n, count)
  <2>1. count \in 0..(n - 1)
    BY <1>5
  <2>2. ASSUME NEW i \in 1..(n - 1), i # count PROVE keys'[__parent(i)] <= keys'[i]
    <3>1. i \in 1..(count - 1) /\ __parent(i) \in 0..(count - 1)
      BY <1>5, <2>2, ParentFacts
    <3> QED
      BY <1>4, <1>15, <3>1 DEF Ordered
  <2>3. \A i \in 1..(n - 1) : __parent(i) # count
    BY <1>5, ParentFacts
  <2> QED
    BY <2>1, <2>2, <2>3 DEF UpOrder, Spans
<1>17. TypeOK'
  <2>1. n \in 0..Cardinality(Timer)
    BY <1>5, TimerFacts
  <2>2. /\ running' \subseteq Timer /\ at' \in Place \cup {0}
        /\ item' \in (Timer \X (0..MaxDelay)) \cup {None}
    BY <1>2, <1>3, <1>6 DEF Inv, TypeOK
  <2> QED
    BY <1>3, <1>8, <1>10, <2>1, <2>2 DEF Inv, TypeOK, Time
<1>18. Sifting'
  BY <1>3, <1>16 DEF Sifting
<1> QED
  BY <1>3, <1>8, <1>13, <1>14, <1>17, <1>18 DEF Inv, Polling

(* A timer leaves the heap for good.                                       *)
LEMMA Stopped ==
    ASSUME Inv, pc = "ready", NEW t \in running, heap_remove_item(t, None),
           running' = running \ {t}, jfs' = [jfs EXCEPT ![t] = 0],
           UNCHANGED <<now, item, poll_jfs, wake>>,
           loop' \in {"wait", "fds", "poll", "handler"}, Polling'
    PROVE  Inv'
<1>1. /\ t \in Timer /\ jfs \in [Timer -> Time] /\ item = None
  BY DEF Inv, TypeOK, Time, Sifting
<1>2. jfs' \in [Timer -> Time] /\ \A u \in Timer \ {t} : jfs'[u] = jfs[u]
  BY <1>1, TimeFacts
<1>3. /\ array' \in [Place -> Timer \cup {None}]
      /\ idx' \in [Timer -> Place \cup {-1}]
      /\ count' \in 0..Cardinality(Timer) /\ count' <= count
      /\ at' \in Place \cup {0} /\ size' = size
      /\ Placed' /\ Held' = running \ {t}
      /\ \/ pc' = Return(None) /\ Ordered(keys', count')
         \/ pc' = "up" /\ UpOrder(keys', count', at')
         \/ pc' = "down" /\ DownOrder(keys', count', at')
  BY <1>2, RemoveStep
<1>4. Return(None) = "ready" /\ Starting' = {}
  BY <1>1 DEF Return, Starting
<1>5. TypeOK'
  BY <1>2, <1>3, <1>4 DEF Inv, TypeOK, Time
<1>6. Sifting'
  BY <1>1, <1>3, <1>4 DEF Sifting
<1>7. count' <= size'
  BY <1>3, TimerFacts, HeapFacts DEF Inv, TypeOK
<1> QED
  BY <1>3, <1>4, <1>5, <1>6, <1>7 DEF Inv

LEMMA CancelStep ==
    ASSUME Inv, NEW t \in Timer, tmr_cancel(t)
    PROVE  Inv'
<1>1. /\ pc = "ready" /\ t \in running /\ heap_remove_item(t, None)
      /\ running' = running \ {t} /\ jfs' = [jfs EXCEPT ![t] = 0]
      /\ UNCHANGED <<now, item, poll_jfs, wake>> /\ loop' = loop
  BY DEF tmr_cancel, InHandler
<1>2. loop' \in {"wait", "fds", "poll", "handler"} /\ Polling'
  BY <1>1 DEF Inv, TypeOK, Polling
<1> QED
  BY <1>1, <1>2, Stopped

(* The root is there to be polled.                                         *)
LEMMA RootRuns ==
    ASSUME Inv, pc = "ready"
    PROVE  /\ Held = running
           /\ count > 0 => array[0] \in running /\ key(0) \in Time
           /\ count > 0 => \A t \in running : key(0) <= jfs[t]
           /\ count = 0 <=> running = {}
<1>1. Held = running /\ Ordered(keys, count)
  BY DEF Inv, Sifting, Starting
<1>2. /\ count \in Nat
      /\ \A i \in 0..(count - 1) : keys[i] = jfs[array[i]] /\ keys[i] \in Int
                                   /\ array[i] \in Timer
  BY HeapFacts
<1>3. count > 0 => array[0] \in running /\ key(0) \in Time
  <2> SUFFICES ASSUME count > 0 PROVE array[0] \in running /\ key(0) \in Time
    OBVIOUS
  <2>1. 0 \in 0..(count - 1)
    BY <1>2
  <2> QED
    BY <1>1, <1>2, <2>1 DEF Held, key, Inv, TypeOK, Time
<1>4. ASSUME count > 0, NEW t \in running PROVE key(0) <= jfs[t]
  <2>1. PICK i \in 0..(count - 1) : array[i] = t
    BY <1>1, <1>4 DEF Held
  <2>2. keys[0] <= keys[i]
    BY <1>1, <1>2, RootLeast
  <2>3. keys[0] = key(0)
    BY <1>2, <1>4 DEF key
  <2> QED
    BY <1>2, <2>1, <2>2, <2>3
<1>5. count = 0 => running = {}
  BY <1>1 DEF Held
<1>6. running = {} => count = 0
  BY <1>2, <1>3
<1> QED
  BY <1>1, <1>3, <1>4, <1>5, <1>6

LEMMA PollStep ==
    ASSUME Inv, tmr_poll
    PROVE  Inv'
<1>1. /\ pc = "ready" /\ loop = "poll" /\ count > 0
      /\ running' = running \ {array[0]} /\ jfs' = [jfs EXCEPT ![array[0]] = 0]
      /\ heap_remove_item(array[0], None) /\ loop' = "handler"
      /\ UNCHANGED <<now, item, poll_jfs, wake>>
  BY DEF tmr_poll
<1>2. array[0] \in running
  BY <1>1, RootRuns
<1>3. Polling'
  BY <1>1 DEF Inv, Polling
<1> QED
  BY <1>1, <1>2, <1>3, Stopped

(* The heap is left alone.                                                 *)
LEMMA LoopStep ==
    ASSUME Inv, UNCHANGED <<running, jfs, heap, pc, at, item>>,
           now' \in 0..MaxTime, loop' \in {"wait", "fds", "poll", "handler"},
           poll_jfs' \in -1..MaxTime, wake' \in -1..(MaxTime + MaxDelay),
           Polling'
    PROVE  Inv'
<1>1. /\ keys' = keys /\ Placed' /\ Held' = Held /\ Starting' = Starting
      /\ count' = count /\ size' = size
  BY DEF Inv, heap, keys, key, Placed, Held, Starting
<1>2. TypeOK'
  BY DEF Inv, TypeOK, heap
<1>3. Sifting'
  BY <1>1 DEF Inv, Sifting
<1> QED
  BY <1>1, <1>2, <1>3 DEF Inv

(* When the loop waits next.                                               *)
LEMMA NextTimeout ==
    ASSUME Inv, pc = "ready"
    PROVE  LET w == IF tmr_next_timeout = 0 THEN Never
                    ELSE now + tmr_next_timeout
           IN  /\ w \in -1..(MaxTime + MaxDelay)
               /\ \/ w = Never /\ running = {}
                  \/ /\ w \in now + 1 .. MaxTime + MaxDelay
                     /\ \A t \in running : w <= jfs[t] \/ w = now + 1
<1> DEFINE w == IF tmr_next_timeout = 0 THEN Never ELSE now + tmr_next_timeout
<1>1. now \in 0..MaxTime /\ count \in Nat /\ jfs \in [Timer -> Time]
      /\ running \subseteq Timer
  BY HeapFacts DEF Inv, TypeOK, Time
<1>2. CASE count = 0
  <2>1. tmr_next_timeout = 0 /\ running = {}
    BY <1>2, RootRuns DEF tmr_next_timeout
  <2>2. w = -1
    BY <2>1 DEF Never
  <2>3. w \in -1..(MaxTime + MaxDelay) /\ w = Never
    BY <2>2, TimeAssumption DEF Never
  <2> QED
    BY <2>1, <2>3
<1>3. CASE count > 0
  <2>1. key(0) \in Time /\ \A t \in running : key(0) <= jfs[t]
    BY <1>3, RootRuns
  <2>2. CASE key(0) <= now
    <3>1. tmr_next_timeout = 1
      BY <1>3, <2>2 DEF tmr_next_timeout
    <3>2. w = now + 1
      BY <3>1
    <3>3. w \in now + 1 .. MaxTime + MaxDelay /\ w \in -1..(MaxTime + MaxDelay)
      BY <1>1, <3>2, TimeAssumption
    <3> QED
      BY <3>2, <3>3
  <2>3. CASE ~(key(0) <= now)
    <3>1. tmr_next_timeout = key(0) - now /\ key(0) \in Int /\ key(0) > now
      <4>1. key(0) \in Int
        BY <2>1, TimeFacts
      <4>2. now \in Int
        BY <1>1
      <4> QED
        BY <1>3, <2>3, <4>1, <4>2 DEF tmr_next_timeout
    <3>2. w = key(0)
      BY <1>1, <3>1
    <3>3. w \in now + 1 .. MaxTime + MaxDelay /\ w \in -1..(MaxTime + MaxDelay)
      BY <1>1, <2>1, <3>1, <3>2, TimeAssumption DEF Time
    <3> QED
      BY <2>1, <3>2, <3>3
  <2> QED
    BY <2>2, <2>3
<1> QED
  BY <1>1, <1>2, <1>3

LEMMA InvInit == Init => Inv
<1> SUFFICES ASSUME Init PROVE Inv
  OBVIOUS
<1>1. count = 0 /\ 0..(count - 1) = {} /\ 1..(count - 1) = {}
  BY DEF Init
<1>2. TypeOK
  <2>1. jfs \in [Timer -> Time] /\ array \in [Place -> Timer \cup {None}]
        /\ idx \in [Timer -> Place \cup {-1}]
    BY TimeFacts DEF Init
  <2>2. count \in 0..Cardinality(Timer)
    BY <1>1, TimerFacts
  <2>3. /\ now \in 0..MaxTime /\ poll_jfs \in -1..MaxTime
        /\ wake \in -1..(MaxTime + MaxDelay)
    BY TimeAssumption DEF Init, Never
  <2> QED
    BY <2>1, <2>2, <2>3, CapacityAssumption DEF Init, TypeOK, Time
<1>3. count <= size
  BY <1>1, CapacityAssumption DEF Init
<1>4. Placed /\ Held = {} /\ Ordered(keys, count)
  BY <1>1 DEF Placed, Held, Ordered
<1> QED
  BY <1>1, <1>2, <1>3, <1>4 DEF Inv, Init, Sifting, Polling, Starting, Never

LEMMA InvNext == Inv /\ [Next]_vars => Inv'
<1> SUFFICES ASSUME Inv, [Next]_vars PROVE Inv'
  OBVIOUS
<1>1. /\ now \in 0..MaxTime /\ loop \in {"wait", "fds", "poll", "handler"}
      /\ poll_jfs \in -1..MaxTime /\ wake \in -1..(MaxTime + MaxDelay)
      /\ Polling
  BY DEF Inv, TypeOK
<1>2. -1 \in -1..MaxTime /\ -1 \in -1..(MaxTime + MaxDelay)
  BY TimeAssumption
<1>3. CASE UNCHANGED vars
  BY <1>1, <1>3, LoopStep DEF vars, Polling
<1>4. CASE tmr_poll_begin
  <2>1. poll_jfs' = now /\ now' = now /\ wake' = wake /\ loop' = "poll"
    BY <1>4 DEF tmr_poll_begin
  <2>2. now \in -1..MaxTime /\ now # Never
    BY <1>1 DEF Never
  <2>3. Polling'
    BY <2>1, <2>2 DEF Polling
  <2> QED
    BY <1>1, <1>4, <2>1, <2>2, <2>3, LoopStep DEF tmr_poll_begin
<1>5. CASE fd_poll
  <2>1. poll_jfs' = Never /\ loop' = "wait" /\ now' = now
    BY <1>5 DEF fd_poll
  <2>2. Polling'
    BY <2>1 DEF Polling
  <2>3. wake' \in -1..(MaxTime + MaxDelay)
    BY <1>5, NextTimeout DEF fd_poll
  <2> QED
    BY <1>1, <1>2, <1>5, <2>1, <2>2, <2>3, LoopStep DEF fd_poll, Never
<1>6. CASE fd_poll_wake
  <2>1. /\ poll_jfs' = poll_jfs /\ loop = "wait" /\ loop' = "fds" /\ now' = now
        /\ wake' = -1
    BY <1>6 DEF fd_poll_wake, Never
  <2>2. Polling'
    BY <1>1, <2>1 DEF Polling
  <2> QED
    BY <1>1, <1>2, <1>6, <2>1, <2>2, LoopStep DEF fd_poll_wake
<1>7. CASE Tick
  <2>1. now' \in 0..MaxTime
    BY <1>1, <1>7, TimeAssumption DEF Tick
  <2>2. Polling' /\ loop' = loop /\ poll_jfs' = poll_jfs /\ wake' = wake
    BY <1>1, <1>7 DEF Tick, Polling
  <2> QED
    BY <1>1, <1>7, <2>1, <2>2, LoopStep DEF Tick
<1>8. CASE tmr_poll_next
  <2>1. /\ loop = "handler" /\ loop' = "poll"
        /\ UNCHANGED <<now, poll_jfs, wake>>
    BY <1>8 DEF tmr_poll_next
  <2>2. Polling'
    BY <1>1, <2>1 DEF Polling
  <2> QED
    BY <1>1, <1>8, <2>1, <2>2, LoopStep DEF tmr_poll_next
<1> QED
  BY <1>3, <1>4, <1>5, <1>6, <1>7, <1>8, Start, Entered, CancelStep, PushUp,
     PushDown, PollStep DEF Next

(* tmr_heap.c: whatever is started, restarted and cancelled, every running *)
(* timer is in the array once, at the place it believes to be at, nothing  *)
(* else is, and the array is long enough.                                  *)
THEOREM TimersInPlace == Spec => []InHeap
<1>1. Inv => InHeap
  <2> SUFFICES ASSUME Inv PROVE InHeap
    OBVIOUS
  <2>1. pc = "ready" => Held = running
    BY RootRuns
  <2> QED
    BY <2>1 DEF Inv, InHeap, Placed, Held
<1> QED
  BY <1>1, InvInit, InvNext, PTL DEF Spec

(* __pushup and __pushdown: when neither is under way the heap is in       *)
(* order.                                                                  *)
THEOREM HeapInOrder == Spec => []HeapOrder
<1>1. Inv => HeapOrder
  <2> SUFFICES ASSUME Inv, pc = "ready", NEW i \in 1..(count - 1)
               PROVE  key(__parent(i)) <= key(i)
    BY DEF HeapOrder
  <2>1. i \in 0..(count - 1) /\ __parent(i) \in 0..(count - 1)
    BY ParentFacts, HeapFacts
  <2>2. keys[__parent(i)] <= keys[i]
    BY DEF Inv, Sifting, Ordered
  <2> QED
    BY <2>1, <2>2 DEF keys
<1> QED
  BY <1>1, InvInit, InvNext, PTL DEF Spec
-----------------------------------------------------------------------------
(* The abstract queue.                                                     *)

due == [t \in running |-> jfs[t]]

LEMMA QueueInit == Init => Queue!Init
<1> SUFFICES ASSUME Init PROVE Queue!Init
  OBVIOUS
<1>1. running = {}
  BY DEF Init
<1>2. [t \in running |-> jfs[t]] = <<>>
  BY <1>1
<1> QED
  BY <1>2 DEF Init, Queue!Init, Never, Queue!Never

LEMMA CallingNext == Calling /\ [Next]_vars => Calling'
<1> SUFFICES ASSUME Calling, [Next]_vars PROVE Calling'
  OBVIOUS
<1>1. CASE \E t \in Timer : \/ \E d \in 0..MaxDelay : tmr_start(t, d)
                           \/ tmr_cancel(t)
  BY <1>1 DEF tmr_start, tmr_cancel, InHandler, Calling
<1>2. CASE tmr_start_end \/ __pushup \/ __pushdown
  BY <1>2 DEF tmr_start_end, __pushup, __pushdown, Calling
<1>3. CASE tmr_poll
  BY <1>3 DEF tmr_poll, Calling
<1>4. CASE tmr_poll_begin \/ tmr_poll_next \/ fd_poll \/ fd_poll_wake \/ Tick
  BY <1>4
  DEF tmr_poll_begin, tmr_poll_next, fd_poll, fd_poll_wake, Tick, Calling
<1>5. CASE UNCHANGED vars
  BY <1>5 DEF vars, Calling
<1> QED
  BY <1>1, <1>2, <1>3, <1>4, <1>5 DEF Next

LEMMA QueueNext ==
    Inv /\ Calling /\ [Next]_vars => [Queue!Next]_(Queue!vars)
<1> SUFFICES ASSUME Inv, Calling, [Next]_vars PROVE [Queue!Next]_(Queue!vars)
  OBVIOUS
<1>1. running \subseteq Timer /\ jfs \in [Timer -> Time] /\ now \in 0..MaxTime
  BY DEF Inv, TypeOK, Time
<1>2. CASE UNCHANGED <<running, jfs, now, poll_jfs, wake, loop>>
  BY <1>2 DEF Queue!vars
<1>3. CASE tmr_start_end
  <2>1. item \in Timer \X (0..MaxDelay)
    BY <1>3 DEF tmr_start_end, Inv, Sifting, TypeOK
  <2>2. PICK t \in Timer, d \in 0..MaxDelay : item = <<t, d>>
    BY <2>1
  <2>3. /\ running' = running \cup {t} /\ jfs' = [jfs EXCEPT ![t] = d + now]
        /\ UNCHANGED <<now, poll_jfs, wake, loop>>
    BY <1>3, <2>2 DEF tmr_start_end
  <2>a. Queue!InHandler
    BY <1>3 DEF tmr_start_end, Calling, Queue!InHandler
  <2>4. d + now = now + d
    BY <1>1, <2>2
  <2>5. /\ jfs'[t] = now + d
        /\ \A u \in running : u # t => jfs'[u] = jfs[u]
    BY <1>1, <2>2, <2>3, <2>4
  <2>6. [u \in running' |-> jfs'[u]] =
        [u \in running \cup {t} |-> IF u = t THEN now + d ELSE jfs[u]]
    BY <2>3, <2>5
  <2>7. [u \in running \cup {t} |-> IF u = t THEN now + d ELSE jfs[u]] =
        [u \in running \cup {t} |-> IF u = t THEN now + d ELSE due[u]]
    BY DEF due
  <2>8. Queue!Start(t, d)
    BY <2>a, <2>3, <2>6, <2>7 DEF Queue!Start, Queue!Running, due
  <2>9. \E u \in Timer : \E e \in 0..MaxDelay : Queue!Start(u, e)
    BY <2>2, <2>8
  <2> QED
    BY <2>9 DEF Queue!Next
<1>4. ASSUME NEW t \in running, running' = running \ {t},
             jfs' = [jfs EXCEPT ![t] = 0]
      PROVE  Queue!Drop(t)
  <2>1. \A u \in running \ {t} : jfs'[u] = jfs[u]
    BY <1>1, <1>4
  <2>2. [u \in running' |-> jfs'[u]] = [u \in running \ {t} |-> due[u]]
    BY <1>4, <2>1 DEF due
  <2> QED
    BY <1>4, <2>2 DEF Queue!Drop, Queue!Running, due
<1>5. ASSUME NEW t \in Timer, tmr_cancel(t) PROVE Queue!Next
  <2>1. /\ t \in running /\ UNCHANGED <<now, poll_jfs, wake, loop>>
        /\ Queue!Drop(t) /\ Queue!InHandler
    BY <1>4, <1>5 DEF tmr_cancel, InHandler, Queue!InHandler
  <2>2. Queue!Cancel(t)
    BY <2>1 DEF Queue!Cancel, Queue!Running
  <2> QED
    BY <2>2 DEF Queue!Next
<1>6. CASE tmr_poll
  <2>0. PICK t : t = array[0]
    OBVIOUS
  <2>1. /\ pc = "ready" /\ loop = "poll" /\ loop' = "handler" /\ count > 0
        /\ key(0) <= poll_jfs
        /\ running' = running \ {t} /\ jfs' = [jfs EXCEPT ![t] = 0]
        /\ UNCHANGED <<now, poll_jfs, wake>>
    BY <1>6, <2>0 DEF tmr_poll
  <2>2. t \in running /\ key(0) = jfs[t] /\ \A u \in running : key(0) <= jfs[u]
    BY <2>0, <2>1, RootRuns DEF key
  <2>4. Queue!Drop(t)
    BY <1>4, <2>1, <2>2
  <2>5. Queue!Fire(t)
    BY <2>1, <2>2, <2>4 DEF Queue!Fire, Queue!Running
  <2>6. t \in Timer
    BY <1>1, <2>2
  <2>7. \E u \in Timer : Queue!Fire(u)
    BY <2>5, <2>6
  <2> QED
    BY <2>7 DEF Queue!Next
<1>7. CASE tmr_poll_begin
  BY <1>7 DEF tmr_poll_begin, Queue!PollBegin, Queue!Next
<1>8. CASE fd_poll
  <2>1. /\ pc = "ready" /\ loop = "poll" /\ loop' = "wait"
        /\ ~(count > 0 /\ key(0) <= poll_jfs) /\ poll_jfs' = Never
        /\ wake' = IF tmr_next_timeout = 0 THEN Never
                   ELSE now + tmr_next_timeout
        /\ UNCHANGED <<now, running, jfs>>
    BY <1>8 DEF fd_poll
  <2>2. Queue!Never = Never
    BY DEF Never, Queue!Never
  <2>3. \A t \in running : jfs[t] > poll_jfs
    <3> TAKE t \in running
    <3>1. count > 0
      BY <2>1, RootRuns, HeapFacts
    <3>2. key(0) \in Time /\ key(0) <= jfs[t]
      BY <2>1, <3>1, RootRuns
    <3>3. jfs[t] \in Time
      BY <1>1
    <3>4. poll_jfs \in -1..MaxTime
      BY DEF Inv, TypeOK
    <3>5. key(0) \in Int /\ jfs[t] \in Int
      BY <3>2, <3>3, TimeFacts
    <3>6. poll_jfs \in Int
      BY <3>4
    <3> QED
      BY <2>1, <3>1, <3>2, <3>5, <3>6
  <2>4. \/ wake' = Never /\ running = {}
        \/ /\ wake' \in now + 1 .. MaxTime + MaxDelay
           /\ \A t \in running : wake' <= jfs[t] \/ wake' = now + 1
    BY <2>1, NextTimeout
  <2>5. Queue!PollEnd
    BY <2>1, <2>2, <2>3, <2>4 DEF Queue!PollEnd, Queue!Running
  <2> QED
    BY <2>5 DEF Queue!Next
<1>9. CASE fd_poll_wake
  BY <1>9 DEF fd_poll_wake, Never, Queue!Wake, Queue!Never, Queue!Next
<1>10. CASE Tick
  BY <1>10 DEF Tick, Queue!Tick, Queue!Next
<1>11. CASE UNCHANGED vars \/ __pushup \/ __pushdown
            \/ \E t \in Timer : \E d \in 0..MaxDelay : tmr_start(t, d)
  <2>1. UNCHANGED <<running, jfs, now, poll_jfs, wake, loop>>
    BY <1>11 DEF vars, __pushup, __pushdown, tmr_start
  <2> QED
    BY <1>2, <2>1
<1>12. CASE tmr_poll_next
  BY <1>12 DEF tmr_poll_next, Queue!Return, Queue!Next
<1> QED
  BY <1>3, <1>5, <1>6, <1>7, <1>8, <1>9, <1>10, <1>11, <1>12 DEF Next

(* tmr.c: the heap and the loop implement the abstract queue of timers:    *)
(* handlers are called for exactly the timers that are due when a poll     *)
(* begins, earliest first, timers are started and cancelled by handlers    *)
(* only, and no wait outlasts the next timer.  A handler is called by no   *)
(* step of the queue but Fire, so that every call of one is a firing.      *)
THEOREM ImplementsQueue == Spec => QueueSpec
<1>1. Init => Calling
  BY DEF Init, Calling
<1> QED
  BY <1>1, CallingNext, QueueInit, QueueNext, InvInit, InvNext, PTL
  DEF Spec, QueueSpec, Queue!Spec

-----------------------------------------------------------------------------
(* RepeatingTimer, which keeps one such timer going: for every interval,   *)
(* width of an int, clock bound, act() duration and stall.                 *)

LEMMA Bounds ==
    /\ Interval \in Nat \ {0} /\ Half \in Nat
    /\ MaxJiffies \in Nat /\ MaxAct \in Nat /\ MaxStall \in Nat
    /\ MaxTick \in Nat /\ Adjust \in BOOLEAN
    /\ Interval < Half
  BY IntervalAssumption, ClockAssumption, WidthAssumption

(* What the conversion to int does: the result is an int, it is exact for  *)
(* what fits into one, and what is too small comes out greater.            *)
LEMMA ToIntFacts ==
    ASSUME NEW x \in Int
    PROVE  /\ ToInt(x) \in -Half..(Half - 1)
           /\ x \in -Half..(Half - 1) => ToInt(x) = x
           /\ x < Half => ToInt(x) >= x
<1> DEFINE m == 2 * Half
           r == (x + Half) % m
<1>0. m \in Nat /\ m > 0 /\ x + Half \in Int
  BY Bounds
<1>1. r \in 0..(m - 1)
  <2>1. ASSUME NEW y \in Int, NEW n \in Nat, n > 0 PROVE y % n \in 0..(n - 1)
    BY <2>1, SMTT(30)
  <2> HIDE DEF m
  <2> QED
    BY <1>0, <2>1
<1>2. x + Half \in 0..(m - 1) => r = x + Half
  <2>1. ASSUME NEW n \in Nat, n > 0, NEW y \in 0..(n - 1) PROVE y % n = y
    BY <2>1, SMTT(30)
  <2> HIDE DEF m
  <2> QED
    BY <1>0, <2>1
<1>3. ToInt(x) = r - Half
  BY DEF ToInt
<1> HIDE DEF r
<1> QED
  BY <1>1, <1>2, <1>3, Bounds

(* next_tick is a time, and moves by one interval with every act().        *)
LEMMA NextTickFacts ==
    ASSUME NEW t \in Nat
    PROVE  /\ Interval * t \in Nat
           /\ Interval * (t + 1) = Interval * t + Interval
           /\ Interval * 0 = 0
  BY Bounds, SMTT(30)

(* The sleep after an act() is what is left of the interval, or nothing.   *)
LEMMA SleepFacts ==
    ASSUME NEW d \in -Half..0
    PROVE  ms_to_sleep(d) = IF d + Interval < 0 THEN 0 ELSE d + Interval
<1>1. ToInt(d + Interval) = d + Interval
  BY ToIntFacts, Bounds
<1> QED
  BY <1>1 DEF ms_to_sleep

(* The inductive invariant of every run, whatever happens to the clock.    *)
TimerInv ==
    /\ TimerTypeOK
    /\ NeverOversleeps
    /\ state = "new" => tick = 0

(* The difference timer_fn computes fits into an int.                      *)
Fits == next_tick - jiffies \in -Half..(Half - 1)

(* What timer_fn computes as diff.                                         *)
LEMMA DiffFacts ==
    ASSUME TimerInv
    PROVE  /\ next_tick \in Nat
           /\ ToInt(next_tick - jiffies) \in -Half..(Half - 1)
           /\ Fits => ToInt(next_tick - jiffies) = next_tick - jiffies
           /\ next_tick - jiffies < Half =>
                 ToInt(next_tick - jiffies) >= next_tick - jiffies
<1>1. next_tick \in Nat
  BY NextTickFacts DEF TimerInv, TimerTypeOK, next_tick
<1>2. next_tick - jiffies \in Int
  BY <1>1 DEF TimerInv, TimerTypeOK
<1> QED
  BY <1>1, <1>2, ToIntFacts DEF Fits

(* The two outcomes of timer_fn.                                           *)
LEMMA TimerFnCases ==
    ASSUME TimerInv, timer_fn
    PROVE  LET d == ToInt(next_tick - jiffies) IN
           /\ state = "waiting" /\ expiry <= jiffies
           /\ UNCHANGED <<jiffies, start_time, high, steady>>
           /\ exact' \in BOOLEAN
           /\ exact' => exact /\ Fits
           /\ exact /\ Fits => exact'
           /\ \/ /\ d > 0 /\ expiry' = d + jiffies
                 /\ UNCHANGED <<state, tick, diff, began>>
                 /\ next_tick' = next_tick
              \/ /\ d <= 0 /\ diff' = d /\ tick' = tick + 1
                 /\ state' = "acting" /\ began' = jiffies
                 /\ UNCHANGED expiry
                 /\ next_tick' = next_tick + Interval
<1> DEFINE d == ToInt(next_tick - jiffies)
<1>1. /\ state = "waiting" /\ expiry <= jiffies
      /\ UNCHANGED <<jiffies, start_time, high, steady>>
      /\ \/ /\ d > 0 /\ expiry' = d + jiffies
            /\ UNCHANGED <<state, tick, diff, began>>
         \/ /\ d <= 0 /\ diff' = d /\ tick' = tick + 1
            /\ state' = "acting" /\ began' = jiffies
            /\ UNCHANGED expiry
  BY DEF timer_fn, Resleep
<1>2. exact' = (exact /\ Fits)
  BY DEF timer_fn, Fits
<1>3. exact \in BOOLEAN
  BY DEF TimerInv, TimerTypeOK
<1>4. /\ exact' \in BOOLEAN
      /\ exact' => exact /\ Fits
      /\ exact /\ Fits => exact'
  BY <1>2, <1>3, Zenon
<1>5. tick' = tick => next_tick' = next_tick
  BY <1>1 DEF next_tick
<1>6. tick' = tick + 1 => next_tick' = next_tick + Interval
  <2>1. start_time' = start_time
    BY <1>1
  <2>2. tick \in Nat /\ start_time \in Nat
    BY DEF TimerInv, TimerTypeOK
  <2>3. /\ Interval * tick \in Nat
        /\ Interval * (tick + 1) = Interval * tick + Interval
    BY <2>2, NextTickFacts
  <2>4. next_tick = start_time + Interval * tick
    BY DEF next_tick
  <2>5. next_tick' = start_time' + Interval * tick'
    BY DEF next_tick
  <2> QED
    BY <2>1, <2>2, <2>3, <2>4, <2>5, Bounds
<1> HIDE DEF d
<1>7. \/ /\ d > 0 /\ expiry' = d + jiffies
         /\ UNCHANGED <<state, tick, diff, began>>
         /\ next_tick' = next_tick
      \/ /\ d <= 0 /\ diff' = d /\ tick' = tick + 1
         /\ state' = "acting" /\ began' = jiffies
         /\ UNCHANGED expiry
         /\ next_tick' = next_tick + Interval
  BY <1>1, <1>5, <1>6, Zenon
<1> QED
  BY <1>1, <1>4, <1>7, Zenon DEF d

LEMMA TimerInvInit == TimerInit => TimerInv
  BY Bounds, NextTickFacts
  DEF TimerInit, TimerInv, TimerTypeOK, NeverOversleeps

LEMMA TimerInvNext == TimerInv /\ [TimerNext]_timer_vars => TimerInv'
<1> SUFFICES ASSUME TimerInv, [TimerNext]_timer_vars PROVE TimerInv'
  OBVIOUS
<1> USE Bounds
<1>1. CASE start
  <2>1. next_tick' = jiffies
    BY <1>1, NextTickFacts DEF start, next_tick, TimerInv, TimerTypeOK
  <2> QED
    BY <1>1, <2>1 DEF start, TimerInv, TimerTypeOK, NeverOversleeps
<1>2. CASE timer_fn
  <2> DEFINE d == ToInt(next_tick - jiffies)
  <2>1. next_tick \in Nat /\ d \in -Half..(Half - 1)
    BY DiffFacts
  <2>2. Fits => d = next_tick - jiffies
    BY DiffFacts
  <2>3. /\ state = "waiting"
        /\ UNCHANGED <<jiffies, start_time, high, steady>>
        /\ exact' \in BOOLEAN
        /\ exact' => exact /\ Fits
        /\ \/ /\ d > 0 /\ expiry' = d + jiffies
              /\ UNCHANGED <<state, tick, diff, began>>
              /\ next_tick' = next_tick
           \/ /\ d <= 0 /\ diff' = d /\ tick' = tick + 1
              /\ state' = "acting" /\ began' = jiffies
              /\ UNCHANGED expiry
              /\ next_tick' = next_tick + Interval
    BY <1>2, TimerFnCases
  <2> HIDE DEF d
  <2>4. TimerTypeOK' /\ (state' = "new" => tick' = 0)
    BY <2>1, <2>3 DEF TimerInv, TimerTypeOK
  <2>5. /\ exact' /\ state' = "waiting" => expiry' <= high' + Interval
        /\ exact' /\ state' # "new" => next_tick' <= high' + Interval
    <3>1. CASE ~exact'
      BY <3>1, Zenon
    <3>2. CASE exact'
      <4>1. d = next_tick - jiffies /\ next_tick <= high + Interval
        BY <2>2, <2>3, <3>2 DEF TimerInv, NeverOversleeps
      <4> QED
        BY <2>1, <2>3, <4>1 DEF TimerInv, TimerTypeOK
    <3> QED
      BY <3>1, <3>2, <2>3, Zenon
  <2>6. state' = "waiting" => expiry' < high' + Half
    BY <2>1, <2>3 DEF TimerInv, TimerTypeOK
  <2> QED
    BY <2>4, <2>5, <2>6 DEF TimerInv, NeverOversleeps
<1>3. CASE timer_fn_end
  <2>1. ms_to_sleep(diff) \in 0..Interval
    BY SleepFacts DEF TimerInv, TimerTypeOK
  <2>2. next_tick' = next_tick
    BY <1>3 DEF timer_fn_end, next_tick
  <2> QED
    BY <1>3, <2>1, <2>2
    DEF timer_fn_end, TimerInv, TimerTypeOK, NeverOversleeps
<1>4. CASE Advance
  <2>1. next_tick' = next_tick /\ next_tick \in Int
    BY <1>4, NextTickFacts DEF Advance, next_tick, TimerInv, TimerTypeOK
  <2> QED
    BY <1>4, <2>1 DEF Advance, Later, TimerInv, TimerTypeOK, NeverOversleeps
<1>5. CASE SetClock
  <2>1. next_tick' = next_tick /\ next_tick \in Int
    BY <1>5, NextTickFacts DEF SetClock, next_tick, TimerInv, TimerTypeOK
  <2>2. steady' \in BOOLEAN
    BY <1>5, Zenon DEF SetClock
  <2>3. /\ jiffies' \in 0..MaxJiffies
        /\ high' = Later(high, jiffies')
        /\ UNCHANGED <<state, start_time, tick, expiry, diff, began, exact>>
    BY <1>5 DEF SetClock
  <2>4. high' >= high /\ high' \in jiffies'..MaxJiffies /\ high' \in Int
    BY <2>3 DEF Later, TimerInv, TimerTypeOK
  <2>5. TimerTypeOK'
    BY <2>2, <2>3, <2>4 DEF TimerInv, TimerTypeOK
  <2> QED
    BY <2>1, <2>3, <2>4, <2>5 DEF TimerInv, TimerTypeOK, NeverOversleeps
<1>6. CASE UNCHANGED timer_vars
  BY <1>6 DEF timer_vars, TimerInv, TimerTypeOK, NeverOversleeps, next_tick
<1> QED
  BY <1>1, <1>2, <1>3, <1>4, <1>5, <1>6 DEF TimerNext, Done

LEMMA TimerInvAlways == TimerSpec => []TimerInv
  BY TimerInvInit, TimerInvNext, PTL DEF TimerSpec

(* Every variable keeps its type, and diff never becomes positive, even    *)
(* when the clock is set between the reads of timer_fn.                    *)
THEOREM RepeatingTypeCorrect == TimerSpec => []TimerTypeOK
<1>1. TimerInv => TimerTypeOK
  BY DEF TimerInv
<1> QED
  BY TimerInvAlways, <1>1, PTL

(* However the clock is set, a timer never sleeps more than an interval    *)
(* beyond the latest time the clock has shown while its lateness fits into *)
(* an int, and for less than 2^31 ms when it does not.                     *)
THEOREM OversleepBounded == TimerSpec => []NeverOversleeps
<1>1. TimerInv => NeverOversleeps
  BY DEF TimerInv
<1> QED
  BY TimerInvAlways, <1>1, PTL

-----------------------------------------------------------------------------
(* While nobody sets the clock.                                            *)

(* diff is the lateness of the act() now running, or, if the int wrapped,  *)
(* less than that; act() has run for at most MaxAct.                       *)
Acting ==
    steady /\ state = "acting" =>
        /\ diff >= next_tick - Interval - began
        /\ exact => diff = next_tick - Interval - began
        /\ began <= jiffies
        /\ jiffies <= began + MaxAct

Forward == Acting /\ NeverWokenEarly /\ CatchUp

(* Once set, the clock is never again a steady one.                        *)
LEMMA SteadyBefore ==
    ASSUME TimerInv, [TimerNext]_timer_vars, steady'
    PROVE  steady /\ ~SetClock
<1>1. CASE SetClock
  BY <1>1, Zenon DEF SetClock
<1>2. CASE start
  BY <1>2, Zenon DEF start, SetClock
<1>3. CASE timer_fn
  BY <1>3, Zenon DEF timer_fn, Resleep, SetClock
<1>4. CASE timer_fn_end
  BY <1>4, Zenon DEF timer_fn_end, SetClock
<1>5. CASE Advance
  BY <1>5, Zenon DEF Advance, SetClock
<1>6. CASE UNCHANGED timer_vars
  BY <1>6, Zenon DEF timer_vars, SetClock
<1> QED
  BY <1>1, <1>2, <1>3, <1>4, <1>5, <1>6, Zenon DEF TimerNext, Done

LEMMA ForwardNext ==
    ASSUME TimerInv, TimerInv', Forward, [TimerNext]_timer_vars
    PROVE  Forward'
<1> USE Bounds
<1>a. CASE ~steady'
  BY <1>a, Zenon DEF Forward, Acting, NeverWokenEarly, CatchUp
<1>b. SUFFICES ASSUME steady' PROVE Forward'
  BY <1>a, Zenon
<1>c. steady /\ ~SetClock
  BY <1>b, SteadyBefore, Zenon
<1>d. /\ state = "acting" => /\ diff >= next_tick - Interval - began
                             /\ exact => diff = next_tick - Interval - began
                             /\ began <= jiffies
                             /\ jiffies <= began + MaxAct
      /\ state = "waiting" => expiry >= next_tick
      /\ exact /\ state = "waiting" => \/ expiry <= next_tick + MaxAct
                                       \/ expiry <= jiffies
  BY <1>c, Zenon DEF Forward, Acting, NeverWokenEarly, CatchUp
<1>1. CASE start
  <2>1. next_tick' = jiffies
    BY <1>1, NextTickFacts DEF start, next_tick, TimerInv, TimerTypeOK
  <2> QED
    BY <1>1, <2>1
    DEF start, Forward, Acting, NeverWokenEarly, CatchUp, TimerInv, TimerTypeOK
<1>2. CASE timer_fn
  <2> DEFINE d == ToInt(next_tick - jiffies)
  <2>1. /\ next_tick \in Nat /\ jiffies \in Nat /\ d \in Int
        /\ next_tick <= jiffies
    <3>1. state = "waiting" /\ expiry <= jiffies
      BY <1>2 DEF timer_fn
    <3> QED
      BY <3>1, <1>d, DiffFacts DEF TimerInv, TimerTypeOK
  <2>2. d >= next_tick - jiffies
    BY <2>1, DiffFacts
  <2>3. Fits => d = next_tick - jiffies
    BY DiffFacts
  <2>4. /\ UNCHANGED <<jiffies, start_time>>
        /\ exact' => exact /\ Fits
        /\ \/ /\ d > 0 /\ expiry' = d + jiffies
              /\ UNCHANGED <<state, tick, diff, began>>
              /\ next_tick' = next_tick
           \/ /\ d <= 0 /\ diff' = d /\ tick' = tick + 1
              /\ state' = "acting" /\ began' = jiffies
              /\ UNCHANGED expiry
              /\ next_tick' = next_tick + Interval
        /\ state = "waiting"
    BY <1>2, TimerFnCases
  <2> HIDE DEF d
  <2>5. exact' => d = next_tick - jiffies
    BY <2>3, <2>4, Zenon
  <2>6. exact' => d <= 0
    BY <2>1, <2>5
  <2>7. CASE d > 0
    <3>1. ~exact'
      BY <2>1, <2>6, <2>7
    <3>2. /\ state' = "waiting" /\ expiry' = d + jiffies
          /\ next_tick' = next_tick
      BY <2>1, <2>4, <2>7
    <3>3. expiry' >= next_tick'
      BY <2>1, <2>2, <3>2
    <3>4. state' # "acting"
      BY <3>2
    <3> QED
      BY <3>1, <3>3, <3>4, Zenon DEF Forward, Acting, NeverWokenEarly, CatchUp
  <2>8. CASE d <= 0
    <3>1. /\ diff' = d /\ state' = "acting" /\ began' = jiffies
          /\ next_tick' = next_tick + Interval /\ jiffies' = jiffies
      BY <2>1, <2>4, <2>8
    <3>2. /\ diff' >= next_tick' - Interval - began'
          /\ began' <= jiffies' /\ jiffies' <= began' + MaxAct
      BY <2>1, <2>2, <3>1
    <3>3. exact' => diff' = next_tick' - Interval - began'
      BY <2>1, <2>5, <3>1
    <3>4. state' # "waiting"
      BY <3>1
    <3> QED
      BY <3>2, <3>3, <3>4, Zenon DEF Forward, Acting, NeverWokenEarly, CatchUp
  <2> QED
    BY <2>1, <2>7, <2>8
<1>3. CASE timer_fn_end
  <2>1. ms_to_sleep(diff) = IF diff + Interval < 0 THEN 0
                            ELSE diff + Interval
    BY SleepFacts DEF TimerInv, TimerTypeOK
  <2>2. next_tick' = next_tick /\ next_tick \in Int
    BY <1>3, NextTickFacts DEF timer_fn_end, next_tick, TimerInv, TimerTypeOK
  <2>3. state' # "acting" /\ exact' = exact /\ jiffies' = jiffies
    BY <1>3 DEF timer_fn_end
  <2>4. ASSUME state' = "waiting"
        PROVE  /\ expiry' >= next_tick'
               /\ exact => expiry' <= next_tick' + MaxAct \/ expiry' <= jiffies'
    BY <1>3, <2>1, <2>2, <2>4, <1>d DEF timer_fn_end, TimerInv, TimerTypeOK
  <2> QED
    BY <2>3, <2>4, Zenon DEF Forward, Acting, NeverWokenEarly, CatchUp
<1>4. CASE Advance
  <2>1. next_tick' = next_tick /\ next_tick \in Int
    BY <1>4, NextTickFacts DEF Advance, next_tick, TimerInv, TimerTypeOK
  <2> QED
    BY <1>4, <2>1, <1>d
    DEF Advance, Forward, Acting, NeverWokenEarly, CatchUp,
        TimerInv, TimerTypeOK
<1>5. CASE UNCHANGED timer_vars
  BY <1>5 DEF timer_vars, Forward, Acting, NeverWokenEarly, CatchUp, next_tick
<1> QED
  BY <1>c, <1>1, <1>2, <1>3, <1>4, <1>5 DEF TimerNext, Done

LEMMA ForwardAlways == TimerSpec => []Forward
<1>1. TimerInit => Forward
  BY DEF TimerInit, Forward, Acting, NeverWokenEarly, CatchUp
<1>2. TimerInv /\ TimerInv' /\ Forward /\ [TimerNext]_timer_vars => Forward'
  BY ForwardNext
<1> QED
  BY <1>1, <1>2, TimerInvAlways, PTL DEF TimerSpec

(* A timer on a clock that nobody sets never wakes up too early, whatever  *)
(* its lateness.                                                           *)
THEOREM NotEarly == TimerSpec => []NeverWokenEarly
<1>1. Forward => NeverWokenEarly
  BY DEF Forward
<1> QED
  BY ForwardAlways, <1>1, PTL

(* As long as its lateness fits into an int it aims at its next due time   *)
(* or fires at once.                                                       *)
THEOREM CatchesUp == TimerSpec => []CatchUp
<1>1. Forward => CatchUp
  BY DEF Forward
<1> QED
  BY ForwardAlways, <1>1, PTL

(* The lateness of a timer that keeps pace: it is armed for at most one    *)
(* act() after its due time, waits at most one stall longer, and its       *)
(* lateness fits into an int.                                              *)
Pace ==
    /\ steady => exact
    /\ steady /\ state = "waiting" => /\ expiry <= next_tick + MaxAct
                                      /\ jiffies <= expiry + MaxStall
    /\ NoDrift

(* Lateness does not accumulate over any number of ticks.                  *)
THEOREM DriftFree ==
    ASSUME MaxAct + MaxStall <= Interval
    PROVE  TimerSpec => []NoDrift
<1> USE Bounds
<1>0. MaxAct + MaxStall <= Interval
  OBVIOUS
<1>1. TimerInit => Pace
  BY DEF TimerInit, Pace, NoDrift
<1>2. TimerInv /\ TimerInv' /\ Forward /\ Pace /\ [TimerNext]_timer_vars
         => Pace'
  <2> SUFFICES ASSUME TimerInv, TimerInv', Forward, Pace,
                      [TimerNext]_timer_vars
               PROVE  Pace'
    OBVIOUS
  <2>a. CASE ~steady'
    BY <2>a, Zenon DEF Pace, NoDrift
  <2>b. SUFFICES ASSUME steady' PROVE Pace'
    BY <2>a, Zenon
  <2>c. steady /\ ~SetClock
    BY <2>b, SteadyBefore, Zenon
  <2>d. /\ state = "waiting" => /\ expiry >= next_tick
                                /\ expiry <= next_tick + MaxAct
                                /\ jiffies <= expiry + MaxStall
        /\ state = "acting" =>
             /\ exact => diff = next_tick - Interval - began
             /\ began <= jiffies
             /\ jiffies <= began + MaxAct
             /\ began - (next_tick - Interval) <= MaxAct + MaxStall
    BY <2>c, Zenon DEF Forward, Acting, NeverWokenEarly, Pace, NoDrift
  <2>e. exact
    BY <2>c, Zenon DEF Pace
  <2>1. CASE start
    <3>1. next_tick' = jiffies
      BY <2>1, NextTickFacts DEF start, next_tick, TimerInv, TimerTypeOK
    <3> QED
      BY <2>1, <2>e, <3>1 DEF start, Pace, NoDrift, TimerInv, TimerTypeOK
  <2>2. CASE timer_fn
    <3>1. next_tick \in Nat /\ jiffies \in Nat
      BY DiffFacts DEF TimerInv, TimerTypeOK
    <3>2. next_tick <= jiffies /\ jiffies <= next_tick + MaxAct + MaxStall
      BY <2>2, <3>1, <2>d DEF timer_fn, TimerInv, TimerTypeOK
    <3>3. Fits
      BY <1>0, <3>1, <3>2 DEF Fits
    <3>4. ToInt(next_tick - jiffies) <= 0
      BY <3>1, <3>2, <3>3, DiffFacts
    <3>5. /\ exact'
          /\ state' = "acting" /\ began' = jiffies
          /\ next_tick' = next_tick + Interval
      BY <2>2, <2>e, <3>3, <3>4, DiffFacts, TimerFnCases
    <3>6. began' - (next_tick' - Interval) <= MaxAct + MaxStall
      BY <3>1, <3>2, <3>5
    <3> QED
      BY <3>5, <3>6 DEF Pace, NoDrift
  <2>3. CASE timer_fn_end
    <3>1. ms_to_sleep(diff) = IF diff + Interval < 0 THEN 0
                              ELSE diff + Interval
      BY SleepFacts DEF TimerInv, TimerTypeOK
    <3>2. next_tick' = next_tick /\ next_tick \in Int
      BY <2>3, NextTickFacts DEF timer_fn_end, next_tick, TimerInv, TimerTypeOK
    <3>3. /\ diff = next_tick - Interval - began
          /\ began <= next_tick
          /\ began <= jiffies
          /\ jiffies <= began + MaxAct
      BY <1>0, <2>3, <2>e, <3>2, <2>d DEF timer_fn_end, TimerInv, TimerTypeOK
    <3>4. ms_to_sleep(diff) = next_tick - began
      BY <3>1, <3>2, <3>3 DEF TimerInv, TimerTypeOK
    <3>5. state' # "acting" /\ jiffies' = jiffies /\ exact' = exact
      BY <2>3 DEF timer_fn_end
    <3>6. ASSUME state' = "waiting"
          PROVE  expiry' = next_tick - began + jiffies
      BY <2>3, <3>4, <3>6 DEF timer_fn_end
    <3>7. ASSUME state' = "waiting"
          PROVE  /\ expiry' <= next_tick' + MaxAct
                 /\ jiffies' <= expiry' + MaxStall
      BY <3>2, <3>3, <3>5, <3>6, <3>7 DEF TimerInv, TimerTypeOK
    <3> QED
      BY <2>e, <3>5, <3>7 DEF Pace, NoDrift
  <2>4. CASE Advance
    <3>1. next_tick' = next_tick /\ next_tick \in Int
      BY <2>4, NextTickFacts DEF Advance, next_tick, TimerInv, TimerTypeOK
    <3> QED
      BY <2>4, <2>e, <3>1, <2>d DEF Advance, Pace, NoDrift, TimerInv, TimerTypeOK
  <2>5. CASE UNCHANGED timer_vars
    BY <2>5 DEF timer_vars, Pace, NoDrift, next_tick
  <2> QED
    BY <2>c, <2>1, <2>2, <2>3, <2>4, <2>5 DEF TimerNext, Done
<1>3. Pace => NoDrift
  BY DEF Pace
<1> QED
  BY <1>1, <1>2, <1>3, TimerInvAlways, ForwardAlways, PTL DEF TimerSpec
=============================================================================
