------------------------------- MODULE Stacks -------------------------------
(***************************************************************************)
(* The SIP stacks and how a run ends: create_sip_stacks, the registrations *)
(* and sessions that hold references to a stack, Cleanup::act with the     *)
(* unregistration, the closing of the stacks and the hard shutdown, the    *)
(* destructor of struct sip with its exit handler, and re_main's return.   *)
(* An object is alive while nrefs > 0; a pending BYE or ACK of a UserAgent  *)
(* holds no reference.                                                     *)
(***************************************************************************)
EXTENDS Integers, FiniteSets

CONSTANTS
    NumStacks,  \* the argument of create_sip_stacks
    NumUE,      \* ues.size()
    MaxSess,    \* bound on the sessions of a stack at one time
    MaxCalls,   \* _max_calls
    Faults      \* TRUE: requests cannot be sent, registrations fail

ASSUME StacksAssumption == NumStacks \in Nat \ {0}
ASSUME SizeAssumption ==
    NumUE \in Nat /\ MaxSess \in Nat /\ MaxCalls \in Nat
ASSUME FaultsAssumption == Faults \in BOOLEAN

VARIABLES
    stage,    \* "run", then "cleanup" once cleanup_task is started
    times,    \* Cleanup::act's static counter
    sent,     \* how many UEs have called register_ue
    calls,    \* CallScheduler::_actual_calls
    reg,      \* UserAgent::reg: flags of its sipreg
    sip,      \* sip_stacks[s].first: its count, closing, exit handler calls
    sock,     \* sip_stacks[s].second: the count of its sipsess_sock
    nsess,    \* sessions not yet destroyed, per stack
    active,   \* active_sip_stacks
    polling,  \* re->polling
    ended     \* re_main has returned

vars == <<stage, times, sent, calls, reg, sip, sock, nsess, active, polling,
          ended>>
-----------------------------------------------------------------------------
Stack == 0..(NumStacks - 1)

UE == 1..NumUE

(* get_sip_stack: the counter is incremented before it is used.            *)
get_sip_stack(u) == u % NumStacks

(* When Cleanup::act unregisters, closes the stacks, cancels the loop.     *)
UnregisterAt == 1
CloseAt == 12
CancelAt == 30

(* The sipregs: a REGISTER is in flight and the UE was not, was registered *)
(* before; the timer runs and it is not, is registered; terminated by      *)
(* unregister with that REGISTER still in flight; un-REGISTER in flight.   *)
Holding == {"pending", "refreshing", "waiting", "registered",
            "lastpending", "lastrefresh", "unregistering"}

RegState == {"null", "gone"} \cup Holding

RegsOf(s) == {u \in UE : get_sip_stack(u) = s /\ reg[u] \in Holding}

(* All who hold a reference to stack s and will drop it some day.          *)
Holders(s) == Cardinality(RegsOf(s)) + nsess[s]

Init ==
    /\ stage = "run"
    /\ times = 0
    /\ sent = 0
    /\ calls = 0
    /\ reg = [u \in UE |-> "null"]
    /\ sip = [s \in Stack |-> [nrefs |-> 1, closing |-> FALSE, exits |-> 0]]
    /\ sock = [s \in Stack |-> 1]
    /\ nsess = [s \in Stack |-> 0]
    /\ active = NumStacks
    /\ polling = TRUE
    /\ ended = FALSE

-----------------------------------------------------------------------------
mem_ref(r) == [r EXCEPT !.nrefs = @ + 1]

(* mem_deref of a stack with its destructor: the first time a closing      *)
(* stack gets to zero it is kept and its exit handler called instead.      *)
(* Variant: closing is not reset.                                          *)
mem_deref_still_closing(r) ==
    IF r.nrefs # 1 THEN [r EXCEPT !.nrefs = @ - 1]
    ELSE IF r.closing THEN [r EXCEPT !.exits = @ + 1]
    ELSE [r EXCEPT !.nrefs = 0]

mem_deref(r) ==
    IF r.nrefs # 1 THEN [r EXCEPT !.nrefs = @ - 1]
    ELSE IF r.closing THEN [r EXCEPT !.closing = FALSE, !.exits = @ + 1]
    ELSE [r EXCEPT !.nrefs = 0]

(* n holders drop their references one after the other.                    *)
mem_deref_n(r, n) ==
    IF n = 0 THEN r ELSE mem_deref([r EXCEPT !.nrefs = @ - (n - 1)])

sip_close(r) == IF r.closing THEN r ELSE mem_deref([r EXCEPT !.closing = TRUE])

(* The stacks become f, and exit_handler runs for each whose destructor    *)
(* called it.  Variant: the loop is cancelled by the first one.            *)
exit_handler_first(f) ==
    LET n == Cardinality({s \in Stack : f[s].exits > sip[s].exits}) IN
    /\ active' = active - n
    /\ polling' = (polling /\ n = 0)

exit_handler(f) ==
    LET n == Cardinality({s \in Stack : f[s].exits > sip[s].exits}) IN
    /\ active' = active - n
    /\ polling' = (polling /\ ~(active > 0 /\ active - n = 0))

SetStacks(f) == sip' = f /\ exit_handler(f)

(* A registration is freed and drops its reference.                        *)
FreeReg(u) ==
    /\ reg' = [reg EXCEPT ![u] = "gone"]
    /\ SetStacks([sip EXCEPT ![get_sip_stack(u)] = mem_deref(@)])

-----------------------------------------------------------------------------
(* While the loop runs.                                                    *)

(* UserAgent::register_ue, called in the order of `ues'.                   *)
register_ue ==
    /\ ~ended /\ stage = "run" /\ sent < NumUE
    /\ sent' = sent + 1
    /\ \/ /\ reg' = [reg EXCEPT ![sent + 1] = "pending"]
          /\ sip' = [sip EXCEPT ![get_sip_stack(sent + 1)] = mem_ref(@)]
       \/ /\ Faults
          /\ UNCHANGED <<reg, sip>>
    /\ UNCHANGED <<stage, times, calls, sock, nsess, active, polling, ended>>

(* A REGISTER is answered by a 2xx (ok) or otherwise.  `registered' is     *)
(* never reset, so a failing refresh leaves the UE registered.  Variant:   *)
(* it is reset.                                                            *)
response_handler_reset(u, ok) ==
    /\ ~ended
    /\ ok \/ Faults
    /\ \/ /\ reg[u] \in {"pending", "refreshing"}
          /\ reg' = [reg EXCEPT ![u] = IF ok THEN "registered" ELSE "waiting"]
          /\ UNCHANGED <<sip, active, polling>>
       \/ /\ reg[u] \in {"lastrefresh", "lastpending"} /\ ok
          /\ reg' = [reg EXCEPT ![u] = "unregistering"]
          /\ UNCHANGED <<sip, active, polling>>
       \/ /\ reg[u] = "unregistering"
             \/ (reg[u] \in {"lastrefresh", "lastpending"} /\ ~ok)
          /\ FreeReg(u)
    /\ UNCHANGED <<stage, times, sent, calls, sock, nsess, ended>>

response_handler(u, ok) ==
    /\ ~ended
    /\ ok \/ Faults
    /\ \/ /\ reg[u] \in {"pending", "refreshing"}
          /\ reg' = [reg EXCEPT ![u] = IF ok \/ @ = "refreshing"
                                       THEN "registered" ELSE "waiting"]
          /\ UNCHANGED <<sip, active, polling>>
       \/ /\ reg[u] = "lastrefresh" \/ (reg[u] = "lastpending" /\ ok)
          /\ reg' = [reg EXCEPT ![u] = "unregistering"]
          /\ UNCHANGED <<sip, active, polling>>
       \/ /\ Faults  \* the un-REGISTER cannot be sent
          /\ reg[u] = "lastrefresh" \/ (reg[u] = "lastpending" /\ ok)
          /\ FreeReg(u)
       \/ /\ reg[u] = "unregistering" \/ (reg[u] = "lastpending" /\ ~ok)
          /\ FreeReg(u)
    /\ UNCHANGED <<stage, times, sent, calls, sock, nsess, ended>>

(* sipreg's timer expires; a request that cannot be sent restarts it.      *)
tmr_handler(u) ==
    /\ ~ended
    /\ reg[u] \in {"waiting", "registered"}
    /\ reg' = [reg EXCEPT ![u] = IF @ = "waiting" THEN "pending"
                                 ELSE "refreshing"]
    /\ UNCHANGED <<stage, times, sent, calls, sip, sock, nsess, active,
                   polling, ended>>

(* sipsess_alloc on stack s.                                               *)
sipsess_alloc(s) ==
    /\ nsess[s] < MaxSess
    /\ nsess' = [nsess EXCEPT ![s] = @ + 1]
    /\ sock' = [sock EXCEPT ![s] = @ + 1]
    /\ sip' = [sip EXCEPT ![s] = mem_ref(@)]

(* An INVITE comes in and is accepted, a late one during cleanup included: *)
(* the listener lives as long as the sock.                                 *)
SessionStarts(s) ==
    /\ ~ended
    /\ sock[s] > 0
    /\ \E u \in 1..sent : get_sip_stack(u) = s
    /\ sipsess_alloc(s)
    /\ UNCHANGED <<stage, times, sent, calls, reg, active, polling, ended>>

(* The destructor of a session.                                            *)
SessionEnds(s) ==
    /\ ~ended
    /\ nsess[s] > 0
    /\ nsess' = [nsess EXCEPT ![s] = @ - 1]
    /\ sock' = [sock EXCEPT ![s] = @ - 1]
    /\ SetStacks([sip EXCEPT ![s] = mem_deref(@)])
    /\ UNCHANGED <<stage, times, sent, calls, reg, ended>>

(* UserAgent::call, with any two UEs that have been registered: its        *)
(* session is on the caller's stack.  It counts also when it fails.        *)
call ==
    /\ \E u, v \in {w \in UE : reg[w] \in {"registered", "refreshing"}} :
          u # v /\ sipsess_alloc(get_sip_stack(u))
    /\ calls' = calls + 1

call_fails ==
    /\ Faults
    /\ Cardinality({w \in UE : reg[w] \in {"registered", "refreshing"}}) > 1
    /\ calls' = calls + 1
    /\ UNCHANGED <<sip, sock, nsess>>

(* A tick of CallScheduler, which makes a call or finds no two UEs to make *)
(* it with; a tick that makes several is like several that make one.  Only *)
(* when all the calls have been made does Cleanup start.                   *)
CallScheduler_act ==
    /\ ~ended /\ stage = "run" /\ sent = NumUE
    /\ call \/ call_fails \/ UNCHANGED <<calls, sip, sock, nsess>>
    /\ stage' = IF calls' < MaxCalls THEN "run" ELSE "cleanup"
    /\ UNCHANGED <<times, sent, reg, active, polling, ended>>

-----------------------------------------------------------------------------
(* Cleanup::act.                                                           *)

(* unregister() on every UE: mem_deref(reg).  For the UEs in `bad' the     *)
(* un-REGISTER cannot be sent.                                             *)
Unregister ==
    /\ \E bad \in SUBSET {u \in UE : Faults /\ reg[u] = "registered"} :
       LET freed == bad \cup {u \in UE : reg[u] = "waiting"}
           count(s) == Cardinality({u \in freed : get_sip_stack(u) = s})
       IN
       /\ reg' = [u \in UE |->
             CASE u \in freed           -> "gone"
               [] reg[u] = "pending"    -> "lastpending"
               [] reg[u] = "refreshing" -> "lastrefresh"
               [] reg[u] = "registered" /\ u \notin bad -> "unregistering"
               [] OTHER                 -> reg[u]]
       /\ SetStacks([s \in Stack |-> mem_deref_n(sip[s], count(s))])
    /\ UNCHANGED <<sock, nsess>>

(* close_sip_stacks(false), free_sip_stacks().  Variant: the session       *)
(* sockets are not freed.                                                  *)
CloseAndFree_sock_kept ==
    /\ SetStacks([s \in Stack |-> mem_deref(sip_close(sip[s]))])
    /\ UNCHANGED <<reg, nsess, sock>>

CloseAndFree ==
    /\ SetStacks([s \in Stack |-> mem_deref(sip_close(sip[s]))])
    /\ sock' = [s \in Stack |-> sock[s] - 1]
    /\ UNCHANGED <<reg, nsess>>

re_cancel ==
    /\ polling' = FALSE
    /\ UNCHANGED <<reg, sip, sock, nsess, active>>

(* Variant: there is no hard shutdown.                                     *)
Cleanup_act_patient ==
    /\ ~ended /\ stage = "cleanup" /\ times <= CancelAt
    /\ times' = times + 1
    /\ \/ times = UnregisterAt /\ Unregister
       \/ times = CloseAt /\ CloseAndFree
       \/ /\ times \notin {UnregisterAt, CloseAt}
          /\ UNCHANGED <<reg, sip, sock, nsess, active, polling>>
    /\ UNCHANGED <<stage, sent, calls, ended>>

(* times is cut off after CancelAt: nothing depends on it any more.        *)
Cleanup_act ==
    /\ ~ended /\ stage = "cleanup" /\ times <= CancelAt
    /\ times' = times + 1
    /\ \/ times = UnregisterAt /\ Unregister
       \/ times = CloseAt /\ CloseAndFree
       \/ times = CancelAt /\ re_cancel
       \/ /\ times \notin {UnregisterAt, CloseAt, CancelAt}
          /\ UNCHANGED <<reg, sip, sock, nsess, active, polling>>
    /\ UNCHANGED <<stage, sent, calls, ended>>

(* re_main notices that polling is off and returns.                        *)
EndOfLoop ==
    /\ ~polling /\ ~ended
    /\ ended' = TRUE
    /\ UNCHANGED <<stage, times, sent, calls, reg, sip, sock, nsess, active,
                   polling>>

Done == ended /\ UNCHANGED vars
-----------------------------------------------------------------------------
Next ==
    \/ register_ue
    \/ \E u \in UE : \/ \E ok \in BOOLEAN : response_handler(u, ok)
                     \/ tmr_handler(u)
    \/ \E s \in Stack : SessionStarts(s) \/ SessionEnds(s)
    \/ CallScheduler_act
    \/ Cleanup_act
    \/ EndOfLoop
    \/ Done

Spec == Init /\ [][Next]_vars

(* Cleanup's timer fires once it has been started, and re_main looks at    *)
(* its flag.  No answer is assumed to arrive, no session to end and no     *)
(* call to be possible.                                                    *)
FairSpec ==
    /\ Spec
    /\ WF_vars(Cleanup_act) /\ WF_vars(EndOfLoop)
-----------------------------------------------------------------------------
(* Properties.                                                             *)

Closed == times > CloseAt

(* Every variable keeps its type; no count ever gets below zero.           *)
TypeOK ==
    /\ stage \in {"run", "cleanup"}
    /\ times \in 0..(CancelAt + 1)
    /\ sent \in 0..NumUE
    /\ calls \in Nat
    /\ reg \in [UE -> RegState]
    /\ sip \in [Stack -> [nrefs : Nat, closing : BOOLEAN, exits : Nat]]
    /\ sock \in [Stack -> Nat]
    /\ nsess \in [Stack -> 0..MaxSess]
    /\ active \in 0..NumStacks
    /\ polling \in BOOLEAN
    /\ ended \in BOOLEAN

(* A stack is destroyed when its last holder is gone and not before, in    *)
(* spite of the two references that closing and freeing it take away.      *)
FreedWhenUnused ==
    /\ TypeOK
    /\ \A s \in Stack : sip[s].nrefs = 0 <=> Closed /\ Holders(s) = 0

(* A session socket, whose pointer to its stack is not counted, never      *)
(* outlives the stack: an INVITE that comes in finds the stack alive.      *)
SockOnLiveStack ==
    \A s \in Stack : sock[s] > 0 => sip[s].nrefs > 0

(* Every stack reports its exit once, after it was closed and at the       *)
(* latest when nobody uses it any more; active_sip_stacks counts those     *)
(* that have not, so that the end of the traffic ends the loop.  Before    *)
(* the hard shutdown nothing but the last report cancels it.               *)
ExitOnce ==
    /\ \A s \in Stack :
          /\ sip[s].exits <= 1
          /\ sip[s].exits = 1 => Closed
          /\ Closed /\ Holders(s) = 0 => sip[s].exits = 1
    /\ active = Cardinality({s \in Stack : sip[s].exits = 0})
    /\ ~polling /\ times <= CancelAt => active = 0

Registration(u) == INSTANCE RegContract WITH reg <- reg[u]

(* The registrations here are those that sipreg implements (SipReg), when  *)
(* some of them are given up by Cleanup in whatever state they are.        *)
RegistrationsSteps ==
    /\ \A u \in UE : Registration(u)!Init
    /\ [][\A u \in UE : [Registration(u)!Next]_(reg[u])]_vars

(* Once Cleanup has been started the run ends, whatever never gets         *)
(* answered and whoever never hangs up.                                    *)
Terminates == stage = "cleanup" ~> ended

(* "All SIP transactions on this stack have finished" (the comment in      *)
(* exit_handler): no REGISTER sent on the stack is unanswered then.        *)
ExitWhenFinished ==
    [][\A s \in Stack : sip'[s].exits > sip[s].exits => RegsOf(s)' = {}]_vars
=============================================================================
