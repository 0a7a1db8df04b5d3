------------------------------ MODULE TmrHeap -------------------------------
(***************************************************************************)
(* libre's timers: tmr_start, tmr_cancel and tmr_poll over the binary heap *)
(* of tmr_heap.c, whose entries know their place in the array, under the   *)
(* loop of re_main: wait for descriptors until the next timer is due, run  *)
(* the descriptors' handlers, poll the timers.  One iteration of the loops *)
(* in __pushup and __pushdown is one step.                                 *)
(***************************************************************************)
EXTENDS Integers, FiniteSets

CONSTANTS
    Timer,             \* the struct tmr objects
    None,              \* no timer, also the 0xDEADBEEF of a vacated place
    DefaultCapacity,   \* DEFAULT_CAPACITY
    MaxDelay,          \* bound on the delay passed to tmr_start
    MaxTime            \* bound on the clock

ASSUME TimerAssumption == IsFiniteSet(Timer)
ASSUME CapacityAssumption == DefaultCapacity \in Nat \ {0}
ASSUME TimeAssumption == MaxDelay \in Nat \ {0} /\ MaxTime \in Nat
ASSUME NoneAssumption == None \notin Timer /\ None \notin Timer \X (0..MaxDelay)

VARIABLES
    now,      \* tmr_jiffies()
    running,  \* the timers whose th is not NULL
    jfs,      \* tmr->jfs; not read while th is NULL
    idx,      \* tmr->heap_idx
    array,    \* h->array
    count,    \* h->count
    size,     \* h->size
    pc,       \* "ready"; in __pushup "up", in __pushdown "down" at place
    at,       \*   `at'; "offer": tmr_start about to call heap_offer
    item,     \* the timer and delay of that tmr_start, or None
    loop,     \* re_main is in "wait" (epoll_wait), "fds" (handlers of
              \* descriptors), "poll" or a timer's "handler" (tmr_poll)
    poll_jfs, \* tmr_poll's jfs
    wake      \* when epoll_wait times out, or Never

heap == <<idx, array, count, size>>
vars == <<now, running, jfs, heap, pc, at, item, loop, poll_jfs, wake>>
-----------------------------------------------------------------------------
Never == -1

(* The array never needs more places than there are timers.                *)
Place == 0..(Cardinality(Timer) - 1)

__child_left(i) == 2 * i + 1
__child_right(i) == 2 * i + 2

(* (idx - 1) / 2 rounds towards zero in C: the root is its own parent.     *)
__parent(i) == IF i = 0 THEN 0 ELSE (i - 1) \div 2

key(i) == jfs[array[i]]

Init ==
    /\ now = 0
    /\ running = {}
    /\ jfs = [t \in Timer |-> 0]
    /\ idx = [t \in Timer |-> -1]
    /\ array = [i \in Place |-> None]
    /\ count = 0
    /\ size = DefaultCapacity
    /\ pc = "ready"
    /\ at = 0
    /\ item = None
    /\ loop = "fds"
    /\ poll_jfs = Never
    /\ wake = Never
-----------------------------------------------------------------------------
(* The heap.                                                               *)

(* Where a sift returns to.                                                *)
Return(i) == IF i = None THEN "ready" ELSE "offer"

__swap(i, j) ==
    /\ array' = [array EXCEPT ![i] = array[j], ![j] = array[i]]
    /\ idx' = [idx EXCEPT ![array[j]] = i, ![array[i]] = j]

__pushup ==
    /\ pc = "up"
    /\ \/ /\ at # 0 /\ key(at) <= key(__parent(at))
          /\ __swap(at, __parent(at))
          /\ at' = __parent(at)
          /\ UNCHANGED pc
       \/ /\ at = 0 \/ key(at) > key(__parent(at))
          /\ pc' = Return(item)
          /\ at' = 0
          /\ UNCHANGED <<idx, array>>
    /\ UNCHANGED <<now, running, jfs, count, size, item, loop, poll_jfs, wake>>

(* The child to swap with.                                                 *)
biggest_child(i) ==
    IF __child_right(i) < count /\ key(__child_left(i)) > key(__child_right(i))
    THEN __child_right(i) ELSE __child_left(i)

__pushdown ==
    /\ pc = "down"
    /\ LET child == biggest_child(at) IN
       \/ /\ __child_left(at) < count /\ key(at) > key(child)
          /\ __swap(at, child)
          /\ at' = child
          /\ UNCHANGED pc
       \/ /\ __child_left(at) < count => key(at) <= key(child)
          /\ pc' = Return(item)
          /\ at' = 0
          /\ UNCHANGED <<idx, array>>
    /\ UNCHANGED <<now, running, jfs, count, size, item, loop, poll_jfs, wake>>

(* The capacity after __ensurecapacity; realloc does not fail.  Variant:   *)
(* it is checked one entry too late.                                       *)
__ensurecapacity_late == IF count <= size THEN size ELSE size * 2

__ensurecapacity == IF count < size THEN size ELSE size * 2

(* heap_offer with __heap_offerx, up to the call of __pushup.              *)
heap_offer(t) ==
    /\ size' = __ensurecapacity
    /\ idx' = [idx EXCEPT ![t] = count]
    /\ array' = [array EXCEPT ![count] = t]
    /\ count' = count + 1
    /\ at' = count
    /\ pc' = "up"

(* heap_remove_item of t up to the sifting, for the caller with item i.    *)
(* The entry that was last takes the place of t; when t was last itself it *)
(* keeps its index.  The early return for index -1 serves a timer that     *)
(* heap_offer could not enter, which does not happen here.  Variant: the   *)
(* entry is only ever pushed down.                                         *)
heap_remove_item_down(t, i) ==
    LET p == idx[t]  c == count - 1  last == array[c] IN
    /\ p # -1
    /\ array' = [array EXCEPT ![p] = last, ![c] = None]
    /\ idx' = [idx EXCEPT ![t] = -1, ![last] = p]
    /\ count' = c
    /\ \/ p = c /\ at' = 0 /\ pc' = Return(i)
       \/ p # c /\ at' = p /\ pc' = "down"
    /\ UNCHANGED size

heap_remove_item(t, i) ==
    LET p == idx[t]  c == count - 1  last == array[c] IN
    /\ p # -1
    /\ array' = [array EXCEPT ![p] = last, ![c] = None]
    /\ idx' = [idx EXCEPT ![t] = -1, ![last] = p]
    /\ count' = c
    /\ \/ p = c /\ at' = 0 /\ pc' = Return(i)
       \/ /\ p # c /\ at' = p
          /\ pc' = IF p = 0 \/ jfs[last] >= key(__parent(p))
                   THEN "down" ELSE "up"
    /\ UNCHANGED size
-----------------------------------------------------------------------------
(* The timers.                                                             *)

InHandler == pc = "ready" /\ loop \in {"fds", "handler"}

(* tmr_start with a handler, called by some handler.                       *)
tmr_start(t, d) ==
    /\ InHandler
    /\ item' = <<t, d>>
    /\ \/ t \in running /\ heap_remove_item(t, item')
       \/ t \notin running /\ pc' = "offer" /\ UNCHANGED <<heap, at>>
    /\ UNCHANGED <<now, running, jfs, loop, poll_jfs, wake>>

(* The rest of it.                                                         *)
tmr_start_end ==
    /\ pc = "offer"
    /\ LET t == item[1] IN
       /\ running' = running \cup {t}
       /\ jfs' = [jfs EXCEPT ![t] = item[2] + now]
       /\ heap_offer(t)
    /\ item' = None
    /\ UNCHANGED <<now, loop, poll_jfs, wake>>

tmr_cancel(t) ==
    /\ InHandler
    /\ t \in running
    /\ heap_remove_item(t, None)
    /\ running' = running \ {t}
    /\ jfs' = [jfs EXCEPT ![t] = 0]
    /\ UNCHANGED <<now, item, loop, poll_jfs, wake>>

(* re_main: fd_poll has run the handlers of the descriptors.               *)
tmr_poll_begin ==
    /\ pc = "ready" /\ loop = "fds"
    /\ loop' = "poll"
    /\ poll_jfs' = now
    /\ UNCHANGED <<now, running, jfs, heap, pc, at, item, wake>>

(* One round of tmr_poll's loop: the timer is taken out of the heap and    *)
(* its handler called.  Variant: what is due a millisecond later fires     *)
(* too.                                                                    *)
tmr_poll_early ==
    /\ pc = "ready" /\ loop = "poll"
    /\ count > 0 /\ key(0) <= poll_jfs + 1
    /\ LET t == array[0] IN
       /\ running' = running \ {t}
       /\ jfs' = [jfs EXCEPT ![t] = 0]
       /\ heap_remove_item(t, None)
    /\ loop' = "handler"
    /\ UNCHANGED <<now, item, poll_jfs, wake>>

tmr_poll ==
    /\ pc = "ready" /\ loop = "poll"
    /\ count > 0 /\ key(0) <= poll_jfs
    /\ LET t == array[0] IN
       /\ running' = running \ {t}
       /\ jfs' = [jfs EXCEPT ![t] = 0]
       /\ heap_remove_item(t, None)
    /\ loop' = "handler"
    /\ UNCHANGED <<now, item, poll_jfs, wake>>

(* The handler has returned: the next round.                               *)
tmr_poll_next ==
    /\ pc = "ready" /\ loop = "handler"
    /\ loop' = "poll"
    /\ UNCHANGED <<now, running, jfs, heap, pc, at, item, poll_jfs, wake>>

(* Zero stands for no timer.                                               *)
tmr_next_timeout == IF count = 0 THEN 0
                    ELSE IF key(0) <= now THEN 1 ELSE key(0) - now

(* tmr_poll returns and fd_poll begins to wait.  A RepeatingTimer always   *)
(* runs, so the cast of the timeout to an int changes nothing.             *)
fd_poll ==
    /\ pc = "ready" /\ loop = "poll"
    /\ ~(count > 0 /\ key(0) <= poll_jfs)
    /\ loop' = "wait"
    /\ poll_jfs' = Never
    /\ wake' = IF tmr_next_timeout = 0 THEN Never ELSE now + tmr_next_timeout
    /\ UNCHANGED <<now, running, jfs, heap, pc, at, item>>

(* epoll_wait returns.                                                     *)
fd_poll_wake ==
    /\ loop = "wait"
    /\ loop' = "fds"
    /\ wake' = Never
    /\ UNCHANGED <<now, running, jfs, heap, pc, at, item, poll_jfs>>

(* A millisecond passes: in epoll_wait or in a handler.                    *)
Tick ==
    /\ pc = "ready" /\ now < MaxTime
    /\ now' = now + 1
    /\ UNCHANGED <<running, jfs, heap, pc, at, item, loop, poll_jfs, wake>>
-----------------------------------------------------------------------------
Next ==
    \/ \E t \in Timer : \/ \E d \in 0..MaxDelay : tmr_start(t, d)
                        \/ tmr_cancel(t)
    \/ tmr_start_end
    \/ __pushup \/ __pushdown
    \/ tmr_poll_begin \/ tmr_poll \/ tmr_poll_next \/ fd_poll \/ fd_poll_wake
    \/ Tick

Spec == Init /\ [][Next]_vars
-----------------------------------------------------------------------------
(* Properties.                                                             *)

(* Every variable keeps its type.                                          *)
TypeOK ==
    /\ now \in 0..MaxTime
    /\ running \subseteq Timer
    /\ jfs \in [Timer -> 0..(MaxTime + MaxDelay)]
    /\ idx \in [Timer -> Place \cup {-1}]
    /\ array \in [Place -> Timer \cup {None}]
    /\ count \in 0..Cardinality(Timer)
    /\ size \in Nat \ {0}
    /\ pc \in {"ready", "up", "down", "offer"}
    /\ at \in Place \cup {0}
    /\ item \in (Timer \X (0..MaxDelay)) \cup {None}
    /\ loop \in {"wait", "fds", "poll", "handler"}
    /\ poll_jfs \in -1..MaxTime
    /\ wake \in -1..(MaxTime + MaxDelay)

(* The timers in the array, each once and at the place it believes to be   *)
(* at, are the running ones, whatever stale index a stopped timer keeps;   *)
(* and the array is long enough for them.                                  *)
InHeap ==
    /\ TypeOK
    /\ count <= size
    /\ \A i \in 0..(count - 1) : array[i] \in Timer /\ idx[array[i]] = i
    /\ pc = "ready" => {array[i] : i \in 0..(count - 1)} = running

(* When nothing is being sifted no timer is due before its parent, and so  *)
(* none before the root, also after an entry from another branch of the    *)
(* heap has taken the place of one that was removed.                       *)
HeapOrder ==
    pc = "ready" => \A i \in 1..(count - 1) : key(__parent(i)) <= key(i)

(* The heap implements the abstract queue: tmr_poll calls the handlers of  *)
(* exactly the timers that are due, in the order they are due, and the     *)
(* wait for descriptors does not outlast the first that is left.  A step   *)
(* that begins a handler (loop becomes "handler") can only be a firing.    *)
Queue == INSTANCE TmrQueue
         WITH due <- [t \in running |-> jfs[t]],
              poll <- poll_jfs,
              phase <- loop

QueueSpec == Queue!Spec
=============================================================================
