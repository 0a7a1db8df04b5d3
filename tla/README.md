# A TLA+ model of sipperf

sipperf is a SIP load generator: it registers many user agents (UEs) with a
registrar, makes calls between them at a given rate through an outbound proxy,
hangs every call up as soon as it is established, displays counters and exits.
It is a small C++ program (`src/`, `include/`) on top of a modified copy of the
SIP library libre (`libre/`). Everything runs on one thread, inside `re_main()`:
timer callbacks and message handlers interleave, but each of them runs to its
end. The difficulty is in the orders in which they can come.

## Inventory

| Part | State | Operations | Talks to |
|---|---|---|---|
| `main`, `InitialRegistrar`, `CallScheduler`, `Cleanup` (`src/sipperf.cpp`) | which timer runs, REGISTERs sent, calls made, cleanup ticks | the four `act()` functions | start each other; `UserAgent`, `UAManager`, stacks, `re_cancel` |
| `UserAgent` (`src/useragent.cpp`) | `sess`, `reg`, `caller`, its stack | `register_ue`, `unregister`, `call`, `connect_handler`, `establish_handler`, `close_handler`, `register_handler` | libre (calls and callbacks), `UAManager`, counters |
| `UAManager` (`src/uamanager.cpp`) | `free_ues`, `all_ues` | mark registered / in call / not in call, take a free UE, find by name | used by all of the above |
| SIP stacks (`src/stack.cpp`) | `sip_stacks`, `active_sip_stacks` | create, close, free, hand out round robin, `exit_handler` | libre's `struct sip`, `re_cancel` |
| `RepeatingTimer` (`src/timer.cpp`) | start time, tick, libre timer | `start`, `timer_fn` | wall clock, libre's timers |
| `StatsDisplayer` | five counters | prints them | incremented by `UserAgent` |
| libre sessions (`libre/src/sipsess`) | terminated 0/1/2, established, peerterm, pending request, unacknowledged 200s, pending INFOs, a modification put off, references | connect, accept, answer, reject, ack, modify, re-INVITE, info, bye, terminate, destructor | `UserAgent` handlers, requests, transactions |
| libre registration client (`libre/src/sipreg`) | request in flight, registered, terminated, timer, failures, keepalive | register, answers, refresh, retry, keepalive failure, destructor | `UserAgent::register_handler` |
| libre request routing (`libre/src/sip/request.c`) | queries under way, servers and addresses left, transaction, cancelled | NAPTR/SRV/address answers, failover, cancel, drop, close | DNS client, transactions |
| libre transactions (`ctrans.c`, `strans.c`) | state, lifetime and retransmission timers, last reply | request, answer, ACK, CANCEL, timeouts | requests, sessions, transports |
| libre SIP over TCP (`transp.c`, `keepalive.c`, `tcp.c`) | connections with queue, send queue, receive buffer, timers, keepalives | send, establish, receive, close, ping | transactions, sockets |
| libre core (`libre/src/sip/sip.c`, `mem.c`) | reference count, closing | `sip_close`, destructor, `mem_ref`, `mem_deref` | exit handler |
| libre event loop and timers (`main.c`, `tmr.c`, `tmr_heap.c`) | polling flag, timer heap with back pointers | `re_main`, `re_cancel`, `tmr_start`, `tmr_cancel`, `tmr_poll` | every callback |

What makes the parts correct:

* a UE in `free_ues` is in no call, a UE out of it comes back, nobody is taken
  for two calls at once;
* a `UserAgent` has at most one session that reports to it, and its pointer to
  it never dangles, in whatever order 200, ACK, BYE, timeouts and failures come;
* the counters tell what happened;
* timers keep their rate without drifting, waking early or being put to sleep;
* a stack lives exactly as long as somebody uses it, and the run ends;
* a timer fires when it is due, in order, and is never lost in the heap;
* a request has one outcome, reaches the other side's user once, is tried
  everywhere it may be sent, and comes to an end;
* a session or registration lives until its last request is over, says
  goodbye, and tells its holder no more than it promised;
* a message handed to a connection is sent in order or reported.

The behaviours a test hardly reaches are listed, line by line, under `hazards`
in `PROJECT.json`.

## Modules

### SipPerf: the load generator

From the start of the timers until `cleanup_task->start()`. Each timer callback
and each message handler is one action.

| Model | Code |
|---|---|
| `stage` | which of the timers InitialRegistrar, CallScheduler, Cleanup is running |
| `reg[u]` | `UserAgent::reg`: not sent, null (could not be sent), request in flight, registered or failed (timer running) |
| `free`, `all` | the key sets of `free_ues`, `all_ues` |
| `role[u]`, `sess[u]` | `UserAgent::caller` (uninitialised at first), `UserAgent::sess` |
| `from[k]`, `to[k]` | the two UEs of call `k` (calls are numbered by `_actual_calls`) |
| `phase[l]` | the session of leg `l` of a call, as far as a UserAgent can tell (below) |
| `net[k]` | messages of call `k` on their way through the proxy |
| `actual`, `stats` | `_actual_calls`, the counters of `StatsDisplayer` |

A leg is `<<k, "out">>` (the caller's session) or `<<k, "in">>` (the callee's).
Its phase tells whether the session still has the UserAgent's handlers
(`Live`: inviting, ringing, answered, up), whether libre keeps it without them
until something arrives (`Waiting`: cancelling, draining, leaving) or has
finished with it (`Over`). `DropRef` is `mem_deref(sess)`: the destructor with
`termwait` and `terminate`.

| Action | Code |
|---|---|
| `InitialRegistrar_act` | `InitialRegistrar::act` with `register_ue` |
| `register_ok`, `register_failed`, `reg_tmr_handler` | `sipreg`'s `response_handler` and `tmr_handler` with `register_handler` |
| `CallScheduler_act` | `CallScheduler::act` with `get_ua_free_for_call` and `UserAgent::call` for all calls of one tick |
| `RecvInvite` | `static_connect_handler`, `connect_handler`, `sipsess_accept`, `sipsess_answer` |
| `RecvOK`, `InviteFails` | `invite_resp_handler`, then `establish_handler` or `close_handler` |
| `RecvAck`, `ReplyTimeout` | `ack_handler`, the 64*T1 timer of `sipsess_reply_2xx` |
| `RecvByeIn`, `RecvByeOut` | `bye_handler` at the callee, at the caller |
| `Lose` | the network and the proxy (external) |

Abstractions: a message stands for all its retransmissions and `Lose` for the
loss of the last one; challenges (401, 407), redirects and provisional answers
leave a leg as it is; the proxy delivers an INVITE at most once and only to the
UE it is for; rates are replaced by "any number of registrations or calls is
due"; the order of `unordered_map::begin` is arbitrary. With `Faults` libre
calls fail, peers reject and messages get lost; with `Refresh` the run outlives
a registration, so that libre refreshes it.

### RepeatingTimer: one repeating timer

`start`, `timer_fn` (up to `act()`) and `timer_fn_end` (after it) over the clock
`jiffies` of `tmr_jiffies`. `act()` takes up to `MaxAct`, an expired timer waits
up to `MaxStall` for `tmr_poll`. `ToInt` is the conversion of the difference of
two `uint64_t` to `int`, with `Half` for 2^31; it wraps, in the run and in the
proofs. With `Adjust` the wall clock can be set to any time at any moment
(`SetClock`), also between the two clock reads of `timer_fn`. `began`, `high`,
`steady` (nobody has set the clock so far) and `exact` (the difference has
always fitted into the int so far) are history variables for the properties.

### Stacks: the SIP stacks and the end of a run

Reference counts of `struct sip` and its `sipsess_sock`, the registrations (with
their flags) and sessions that hold them, the calls of `CallScheduler::act`,
which starts Cleanup when `MaxCalls` have been made and not before, `Cleanup::act`
with its moments 1
(unregister all), 12 (close and free the stacks) and 30 (hard shutdown), the
destructor of a closing stack that calls `exit_handler`, and the end of
`re_main`. The UEs are numbered in the order of the CSV file, so `get_sip_stack`
is `u % NumStacks`. A call is between any two UEs that have registered, a tick
may find none, and a call that fails counts as made; whether UEs are free is
`SipPerf`'s matter. An INVITE may come in as long as its socket lives, late ones
during cleanup included. Events may still be handled between
`re_cancel()` and the return of `re_main`, as in the code.

Each registration takes the steps of `RegContract`
(`RegistrationsSteps`), the contract that `SipReg` is shown to implement.

### TmrHeap and TmrQueue: the timers

`TmrQueue` is what libre's timers promise: a running timer fires in a poll that
began after it was due, earliest first, a poll ends when none of those is left,
and the loop never waits for descriptors beyond the next due time. Its `phase`
(waiting, handlers of descriptors, polling, handler of a timer) makes a firing
visible: it leads from the poll into a handler, and only handlers start and
cancel timers, so that a poll cannot pass off a timer that was not due as
cancelled. `TmrHeap` is the code: the array with its
back pointers (`heap_idx`), its growth, `tmr_start`, `tmr_cancel`, `tmr_poll`
and the timeout of `fd_poll`. One iteration of `__pushup` or `__pushdown` is a
step; `tmr_start` on a running timer removes, sifts, offers and sifts again
(`pc`, `item`). The mapping takes the running timers with their `jfs` as the
queue and `loop` as the phase; sift steps are stuttering steps. Handlers may start and cancel any timer
inside a poll. Allocation does not fail in the model.

### SipTrans: one transaction and its CANCEL

Both ends of one request: `ctrans.c` at the client, `strans.c` at the server,
with the timers in ticks (`T1`, `T2`, `T4`, `Life` for the factor 64, and
`COMPLETE_WAIT`, which the code sets to the same 32 s; in the proportions of the
code's values, see Proofs), and between them a
network that loses, duplicates and reorders within `MaxDelay` ticks, or a
connection on which the request is queued first and which may never come up or
break. The user of the server transaction answers when it likes, not at all, or
with a reply that cannot be sent. `invite` and `reliable` are chosen at the
start, so one run covers the four cases. Left out: merged requests (482) and a
failing send of the answer to a CANCEL.

### SipSession and SessContract: one session

`SessContract` is what the holder of a session relies on: told "up" at most
once, then "closed" at most once, nothing after it let go (which it may do
inside those handlers), and a session that nobody holds goes away. `SipSession`
has the fields of `struct sipsess` that decide control flow, the reference
count included, and implements the contract. The peer may send any request the
dialog matches at any time and answer with any class of answer; any request may
fail to be sent. `drop` says whether the holder gives the session up inside a
handler, `ok` and `bye` whether a request or a BYE can be sent. `Answers` covers
all ends of a request, `Final` those that must come. Left out: REFER, the
retransmission of ACKs to repeated 200s (`ack.c`), extra BYE headers.

### SipReg and RegContract: one registration

`RegContract` names the states between `sipreg_register` and the release of the
stack, and promises that a registration given up ends. `SipReg` is `reg.c`, with
the waiting times in tenths of a second (`* 900` becomes `* 9`, modulo
`2^Width` for the `uint32_t`), loop detection, 401/407, 423, the keepalive of an
outbound connection, and beside it the lease the registrar keeps. A 2xx grants
`g` seconds and states them in its Contact, in its Expires header or nowhere
(then `contact_handler` takes `DefaultExpires`), or lacks the contact (then what
was asked for stands). `failed` records that the registrar granted less than it
was understood to.

### SipRequest: where a request goes

`request.c` with the lists of servers, cached and looked-up addresses, the
choice of the transport, and failover when a transaction ends with an error or
503. `request_next` is a loop, one destination per step (`pc = "next"`). DNS
answers hold any servers and addresses; a query may fail to start. Transactions
end in any way.

### SipConn: the TCP connections of a stack

`transp.c` over `tcp.c`. The loops of `tcp_estab_handler`, `conn_close` and
`tcp_recv_handler` call their users back, who may send from there, also to the
address whose connection is closing: so an iteration is a step and `run` tells
which loop is running. Data is counted in units: a message has `Size`, the
kernel takes any part of it, the send queue holds `TxMax`. The wait for the next
ping is computed modulo `Wrap`, the 2^32 ms of `sip_keepalive_wait`. What a peer
sends is
a script of message parts, line ends and junk, cut anywhere by reads; a script
is well formed, only what comes last may be cut short (`PlansAssumption`).
Connections are found by address; freed ones stay freed. Left out: UDP, TLS, TCP
helpers, the limit of the receive buffer, dropping a keepalive while its
connection lives, failing allocations.

`MCSipPerf` and `MCTmrHeap` add symmetry sets for TLC, `MCSipConn` the five plans
of its run.

### How they fit together

| Detailed | Abstract | Shown by |
|---|---|---|
| `TmrHeap` | `TmrQueue` | `QueueSpec` (safety), proved |
| `SipSession` | `SessContract` | `ContractSpec` (with `WF(Free)`), its steps proved |
| `SipReg` | `RegContract` | `ContractSpec` (with its fairness), its steps proved |
| `Stacks`, each registration | `RegContract` | `RegistrationsSteps` (steps), proved |

The fairness of `SipReg` and `SipSession` (a request is answered or times out)
is what `SipTrans` and `SipRequest` show in `Settles` and `Ends`; `SipTrans`
leaves to `SipConn` how a queued request is sent or reported.

## Runs

| Run | What it shows |
|---|---|
| `calls_faults` | 4 UEs, up to 3 calls, all faults, registrations retried, no refresh: `FreeMeansIdle`, `NoOrphan`, `CalleeReserved` (pool, sessions and roles agree), `LostOnlyBeforeLeg` (UEs get lost only with a call that never reached them), `Ledger` (the counters, and how far a tick can pass `--max-calls`), `NoDangling` |
| `calls_refresh` | 4 UEs, up to 3 calls, refreshes, nothing lost, fair: `NoDangling` and `NoLostUE` although sessions get mixed up, and `AllReturn`: unless a refresh frees a UE that is in use, cleanup is reached and all UEs are free from some time on |
| `timer` | act() longer than the interval, stalls, a clock that may be set, a lateness that wraps: `NeverWokenEarly` while the clock was not set, `CatchUp` while besides nothing wrapped, `NeverOversleeps` always, with a weaker bound once something wrapped |
| `stacks` | 2 stacks, 3 UEs, 2 calls, up to 2 sessions on each stack: `FreedWhenUnused`, `SockOnLiveStack`, `ExitOnce`, `RegistrationsSteps`, and `Terminates`: once Cleanup has started, without any answer |
| `tmr_heap` | 6 timers: `InHeap` (the array, the back pointers and the running timers agree), `HeapOrder`, `QueueSpec` |
| `sip_trans` | `OneOutcome`, `Agreement` (what the client is told is what the server's user said), `AtMostOnce`, `AckedAgain`, `Settles` |
| `sip_session` | `RefsExact`, `Goodbye`, `OffersInOrder` (re-INVITEs do not cross, none is forgotten), `NoLimbo`, `ContractSpec` |
| `sip_reg` | `OneAtATime`, `NothingLeft` (no registration left behind), `RefreshedInTime`, `ContractSpec` |
| `sip_request` | `OneOutcome`, `AllTried`, `Ends` |
| `sip_conn` | `NothingLost`, `StreamsKept`, `Heard` (a silent peer is noticed) |
| `refresh_frees_busy_ue` | violation: a refresh frees a UE that is in a call |
| `exit_before_finished` | violation: a stack reports its exit while a REGISTER sent on it is unanswered |

Bounds. Four UEs are two pairs, so a UE can be in a second call while messages
of its first are still in flight, and a tick can find one UE left over.
`MaxCalls = 2` with two pairs lets a tick overshoot by one, so there are never
more than three calls. A UE refreshed in its call can be caller and callee at
once. `MaxRegAnswers` only stops retries and refreshes, never an answer: a
REGISTER sent again can be answered at any later time. Failures and refreshes
have a run each; that `NoDangling` holds with both is proved. In the timer run the
interval is 3 ms, an int holds -5 to 4, and the clock runs long enough for a
timer to fall several intervals behind and for its lateness to wrap, also on a
clock that nobody sets. Two stacks with three UEs give one stack with one holder and
one with two; sessions add up to four. Six timers are the least with which an
entry from one branch of the heap replaces one in another and has to go up;
capacity 2 makes the heap grow twice. `SipTrans` has three retransmissions
before a transaction's life ends. Two answers waiting for an ACK and two INFOs
are enough for "the last of several"; two failures make a loop. `SipReg`'s
intervals include 0, one below and one above what is asked, and one that wraps
at `2^Width`; the default lies between. Two servers with up to two addresses in two families give both
kinds of failover in either order. In `SipConn` three messages and two
connections let a callback open a second connection to the address of the one
that closes; a queue of three units takes one message and a ping but not two
messages; the keepalive interval the server asks for is below twice the time
for a pong, or so long that the wait wraps to no more than the time for a pong,
and there a connection does stay silent beyond the bound of `Heard`. Pings then
never end: `out` of a plan limits them.

Fairness. `calls_refresh` assumes that due timers fire and that, with nothing
lost, messages and registration answers arrive and are handled: the event loop
polls timers and descriptors for ever, and TCP delivers. `stacks` assumes that
Cleanup's timer, once started, fires and that `re_main` looks at its flag. It
does not assume that Cleanup is ever started: with REGISTERs that fail, or when
the pool of UEs runs dry, the calls are never all made and the run never ends.
`sip_trans`: time passes,
timers fire, and on a connection what was sent arrives (unless it breaks);
datagrams and answers are not assumed. `sip_session`, `sip_reg`, `sip_request`:
a request under way ends in some way, a query is answered or given up, due
timers fire. `tmr_heap`, `timer` and `sip_conn` assume nothing.

Deadlock checking is on except in `sip_reg` and `sip_request`, whose single
registration or request is over at the end; `Idle` and `Done` are the states in
which the loop polls with nothing left to do, or has ended.

## Findings

Two findings have a run with expectation "violation":

* a refreshing REGISTER frees a busy UE (`refresh_frees_busy_ue`);
* the stacks report "All SIP transactions on this stack have finished"
  (`src/stack.cpp:78`) while one is not, because `free_sip_stacks` drops a
  reference `close_sip_stacks` has dropped already: `exit_handler` runs when a
  stack still has one holder, so the graceful shutdown does not wait "for all
  outstanding traffic to finish" (`docs/architecture.rst:21`;
  `exit_before_finished`). `FreedWhenUnused` shows that memory is not harmed, the
  destructor gives the second reference back.

More divergences can be read off the models; the properties in brackets state
what does happen.

* Callees of calls that fail early are lost: reserved, and never given back,
  because no handler of theirs ever runs (`LostOnlyBeforeLeg`), although
  `include/uamanager.hpp` speaks of "a complete view of all UEs".
* `--max-calls` ("Maximum calls to make before exiting", `options.docopt:22`)
  can be exceeded by one tick (`Ledger`).
* The calls do not wait until "all users are registered"
  (`docs/architecture.rst:17`), only until all REGISTERs have been sent; and the
  result of `sipreg_register` is ignored, so that a UE whose first REGISTER
  cannot be sent is never retried (`InitialRegistrar_act`).
* Cleanup starts when the calls have been initiated (`StageAfterCalls`), not
  when they "have been set up" (`docs/architecture.rst`).
* A late timer calls `act()` again in less than the interval (`ms_to_sleep`),
  although `include/timer.hpp` speaks of the "Number of milliseconds that should
  pass between each invocation". Cleanup's ticks can so follow each other without
  the pause between un-REGISTER and closing; `Stacks` therefore assumes no pause.
* A timer that is late by 2^31 ms (24 days), or whose clock is set ahead by as
  much, is taken for early and put to sleep again, for less than 2^31 ms
  (`NeverOversleeps`).
* A stateless request (the ACK of a 2xx) whose next hop is an SRV target
  without a known address is freed when the lookup has only been started, and
  never sent (the last case of `OneOutcome` in `SipRequest`).
* When a query cannot be started the request ends although servers are left, and
  answers of the DNS are followed although it has been cancelled (`SipRequest`).
* A 2xx granting 0 s makes a registration send its next REGISTER at once
  (`RefreshWait`), without a pause.
* A registrar that states no interval with the contact it returns is taken to
  have granted 3600 s (`DEFAULT_EXPIRES`), although sipperf asks for 300
  (`src/useragent.cpp:39`): if it granted what was asked for, the registration
  expires long before its refresh (`contact_handler`; `RefreshedInTime` leaves
  it out).
* A server that asks for a keepalive interval above 4294967 s wraps the 32-bit
  product of `sip_keepalive_wait` (`keepalive.c:55`); when the wait is then
  shorter than the time for the pong, each ping puts the end of a dead
  connection off (`Heard` leaves it out). sipperf itself registers without
  outbound (`reg-id` 0) and starts no keepalives.
* A ping that is cut in two by reads gets no pong (`recv_crlf`).
* `get_ua_by_name` returns a null pointer for an INVITE to a user that is not
  registered here, and `stack.cpp:18` uses it unchecked; the proxy of the model
  routes INVITEs to registered UEs only (`CalleeReserved`).

## Proofs

Every module with theorems ends in `Proofs` and extends the module it is about
(`TimerProofs` two of them, `TmrHeap` and `RepeatingTimer`).
All are for every value of the constants that satisfies the named assumptions;
TLC evaluates those on the runs. Each rests on an inductive invariant (`Inv`)
which is stronger than the properties of the runs, and has one lemma per
handler, with lemmas for what several handlers share.

| Module | Theorem | States |
|---|---|---|
| `SipPerfProofs` | `TypeCorrect` | types, `free_ues` within `all_ues` |
| | `SessNeverDangles` | `NoDangling` |
| | `FreeIsIdle`, `NoSessionOrphaned`, `CalleesReserved` | `FreeMeansIdle`, `NoOrphan`, `CalleeReserved` if not `Refresh` |
| | `LostOnlyWithoutLeg` | `LostOnlyBeforeLeg` |
| | `NoUELost` | `NoLostUE` if not `Faults` |
| | `LedgerExact` | `Ledger` if not `Refresh` |
| `StacksProofs` | `StacksFreedWhenUnused`, `SocketsOnLiveStacks`, `ExitsReportedOnce` | `FreedWhenUnused`, `SockOnLiveStack`, `ExitOnce` |
| | `RegistrationsKeepContract` | `RegistrationsSteps` |
| `TimerProofs` | `TimersInPlace`, `HeapInOrder` | `InHeap`, `HeapOrder` |
| | `ImplementsQueue` | `QueueSpec`: the refinement of `TmrQueue` |
| | `RepeatingTypeCorrect`, `OversleepBounded` | `RepeatingTimer`: types, `NeverOversleeps` |
| | `NotEarly`, `CatchesUp`, `DriftFree` | `NeverWokenEarly`, `CatchUp`, `NoDrift` while nobody sets the clock |
| `SipTransProofs` | `ToldExactlyOnce`, `AnswersAgree`, `RequestSeenOnce`, `AnswersAcknowledged` | `OneOutcome`, `Agreement`, `AtMostOnce`, `AckedAgain` |
| `SipSessionProofs` | `ReferencesExact`, `SaysGoodbye`, `OffersKeepOrder`, `NeverInLimbo` | `RefsExact`, `Goodbye`, `OffersInOrder`, `NoLimbo` |
| | `KeepsContract` | refinement of `SessContract`, steps |
| `SipRegProofs` | `NeverTwoRequests`, `RegisteredAway`, `RefreshInTime` | `OneAtATime`, `NothingLeft`, `RefreshedInTime` |
| | `KeepsContract` | refinement of `RegContract`, steps |
| `SipRequestProofs` | `OutcomeToldOnce`, `EveryServerTried` | `OneOutcome`, `AllTried` |
| `SipConnProofs` | `ConnInvariant`, `ConnTypeCorrect` | the inductive invariant, types |
| | `ConnNothingLost`, `ConnStreamsKept`, `ConnHeard` | `NothingLost`, `StreamsKept`, `Heard` |

The arguments:

* `SipPerfProofs`. A leg exists only for a call that was made, with both ends
  registered UEs (`Parties`); calls not yet made have no legs and no messages
  (`Fresh`); an INVITE is in flight only before the callee's leg exists
  (`InviteOnce`). Without these a message could wake a leg whose owner is
  unknown. `Exclusive` joins the three properties on the use of UEs, which need
  each other, and adds that a UE is unknown to the UAManager before its first
  200; a refresh breaks it, as the run `refresh_frees_busy_ue` shows, hence the
  hypothesis. `Counts` says what the counters count, by cardinalities of sets
  of legs; `Budget`, with the pairs a set of UEs has (`PairsFit`), bounds the
  calls of one tick.
* `StacksProofs`. `Balance` relates the count of a stack to its holders in its
  three phases: one more while sip_stacks has it, one less between the closing
  and the exit handler, equal afterwards.
* `TimerProofs`. In the middle of a sift the heap is in order but for one
  place: towards its parent (`UpOrder`) or its children (`DownOrder`), and what
  is below that place is never less than what is above it (`Spans`), without
  which moving an entry would break the order elsewhere. That the root is the
  least key, which the refinement needs, follows from the order by taking the
  least index that holds a least key. For `RepeatingTimer`: `ToIntFacts` says
  what the conversion to `int` gives, the number itself when it fits and a
  greater one when it is below every `int`, so that a lateness which
  wraps never makes the sleep shorter than the exact one (`NotEarly`) and a sleep
  is always less than 2^31 ms (`OversleepBounded`). While `act()` runs and
  nothing has wrapped, `diff` is exactly how late it began. Assumed is only that
  an interval fits into an int (`WidthAssumption`).
* `SipTransProofs`. The theorems are about time: who outlives what. A
  retransmission falls on an odd multiple of T1 before the end of the
  transaction (`Phase`), so the last copy of a request or of an answer is sent
  at least T1 before. `Outlives` and `Acks` compare the timers of one side with
  those of the other and with the messages under way. Assumed are what the
  code's values satisfy (64 is even, T2 is 8 T1, T4 is at most 64 T1;
  `RatioAssumption`), that powers of two are even (`PowerAssumption`), and
  that a datagram arrives in less than T1 and T4 or not at all
  (`DelayAssumption`), which is an assumption on the network.
* `SipSessionProofs`. `Rest` holds at any time, also inside a handler;
  `Counted` relates the count to the holder and to what is owed while the
  session is taken down, `Live` says what an untroubled session waits for.
* `SipRegProofs`. `Shape` is what a sipreg looks like between two calls,
  `Ending` what it looks like at the end of `response_handler`. The refresh is in
  time because nine tenths of what was read from the answer, and what that wraps
  to, are less than what was granted (`Refresh`), if no less was granted.
  `PowerAssumption` (a power of two is positive) is arithmetic the provers lack.
* `SipRequestProofs`. `UnderWay`: between two calls a live request has either a
  transaction or a query, inside `request_next` neither but somewhere to go;
  `Right`: the addresses kept are those of the port they will be used with.
* `SipConnProofs`. `Sound` is what holds of one connection by itself, so that a
  handler is a lemma about the connection it changes, and `Step` carries it to
  all. Its parts: `Life` (only a connection with a socket is in the hash table
  and has timers), `Time`, `Sending`, `Parsed`. In `Time` either the idle timer
  and the keepalive timer both still bound the silence, or a ping has been sent
  and its pong is due before the next ping; that disjunction is what restarting
  both timers preserves, and it needs the floor of two pongs under every
  interval and a wait that has not wrapped (`Waits`); its third case, an interval
  of at least `Wrap`, knows nothing. `Sending` adds to `StreamsKept` that what has gone out
  comes before what waits in the queue (`Before`), without which flushing the
  queue could break the order; `Recorded`, that only messages counted as sent
  are in a stream, without which a message could be in it twice. `Parsed` says
  that what has been consumed ends where a message, a line end or junk begins,
  and `NoneWaits` that no whole message is left unread once the loop has ended.
  `Queue` and `Pointers` relate queues and senders' pointers. `Busy` is what a
  running loop knows of its connection: `le` tells whether the queue is empty
  although callbacks may send meanwhile, because they cannot reach that queue
  (an established connection sends at once, a closing one is not found), and a
  callback during establishing implies a failed send, after which order is no
  longer promised. Assumed are that a message fits into the send queue
  (`SizeAssumption`), that a pong is due within the idle time and that the
  intervals servers ask for have a bound (`TimeAssumption`; they are 32 bit
  numbers), and well-formed scripts.

Model-checked only: liveness, with fairness (`AllReturn`, `Terminates`,
`Settles`, `Ends` and the fairness in the two `ContractSpec`s), which is out of
the prover's reach. Every safety property of the runs that pass is proved.

## Not modelled

sipperf's own code is modelled as a whole, except reading the command line and
the CSV file, printing the counters and the log. Of libre, which is nine tenths
of the repository, the models cover what carries a run of sipperf: event loop,
timers, SIP core, transactions, request routing, TCP connections, sessions and
registrations. What is left is data (parsing and formatting of SIP, SDP and
DNS messages, authentication digests, lists, hash tables and buffers, all of
them sequences, sets or nondeterministic answers in the models), code for other
platforms, and libraries sipperf links but never calls: RTP, ICE, STUN, TURN,
TLS, cryptography, HTTP, presence and event subscription. The DNS client is
replaced by arbitrary answers in `SipRequest`. So the mapped lines are a small
share of the repository and nearly all of the control flow of sipperf.

Two hazards are known and outside the models: when the last holder of a closing
stack lets go inside the handler of one of its own transactions or messages,
the stack's destructor flushes the tables that hold that transaction or
connection while its handler still uses it (`ctrans.c:292`, `transp.c:428`); and
failing allocations, of which the one in `__ensurecapacity` leaves the heap with
a size it does not have.

## Plan

Worth modelling next: the retransmission of ACKs (`ack.c`), the calls of
CallScheduler on a clock (rates and conversions), and the end of a stack inside
a handler of its own transactions, the hazard above.
