------------------------------- MODULE SipReg -------------------------------
(***************************************************************************)
(* One registration of libre (sipreg, reg.c) and what the registrar keeps  *)
(* of it: REGISTER with its refreshes, retries after failures, the         *)
(* un-REGISTER when its holder gives it up, and the keepalive of an        *)
(* outbound connection.  Time passes in tenths of a second; durations are  *)
(* scaled down, the factor 900 of a millisecond count becomes 9.           *)
(***************************************************************************)
EXTENDS Integers

CONSTANTS
    Expires,    \* intervals, in seconds, a registrar grants or demands
    Asked,      \* the interval given to sipreg_register
    DefaultExpires, \* DEFAULT_EXPIRES (3600)
    Width,      \* wait is computed modulo 2^Width (32 in the code)
    FailBase,   \* 30 and
    FailMost,   \*   1800 of failwait
    FailShift,  \* the 6 of it; failc is cut off there
    MaxFail,    \* failures that make a loop (16 in sip_request_loops)
    Outbound    \* regid > 0

ASSUME ExpiresAssumption ==
    /\ Expires \subseteq Nat /\ Asked \in Expires \ {0}
    /\ DefaultExpires \in Nat
ASSUME FailAssumption ==
    /\ FailBase \in Nat \ {0} /\ FailMost \in Nat \ {0}
    /\ FailShift \in Nat /\ MaxFail \in Nat \ {0}
ASSUME WidthAssumption == Width \in Nat /\ Outbound \in BOOLEAN

(* Arithmetic that the provers do not have: a power of two is positive.    *)
ASSUME PowerAssumption == \A n \in (0..FailShift) \cup {Width} : 2^n > 0

VARIABLES
    reg,    \* struct sipreg
    lease,  \* how long the registrar keeps the contact
    failed  \* history: the last request failed, its connection did, or the
            \*   registrar granted less than its answer let sipreg believe

vars == <<reg, lease, failed>>
-----------------------------------------------------------------------------
Off == -1

Min2(a, b) == IF a < b THEN a ELSE b

Nothing == [alive |-> FALSE, held |-> FALSE, used |-> FALSE, refs |-> 0,
            req |-> FALSE, tmr |-> Off, ka |-> FALSE, expires |-> Asked,
            failc |-> 0, loop |-> 0, last |-> "none",
            registered |-> FALSE, terminated |-> FALSE]

Init == reg = Nothing /\ lease = 0 /\ failed = FALSE

(* The values failwait may return.                                         *)
failwait(n) ==
    {Min2(FailMost, FailBase * 2^Min2(n, FailShift)) * f : f \in {5, 10}}

Failures(r) == Min2(r.failc + 1, FailShift)

(* A REGISTER, or an un-REGISTER once terminated; ok: it can be sent.      *)
request(r, reset_ls, ok) ==
    [r EXCEPT !.expires = IF r.terminated THEN 0 ELSE @,
              !.loop = IF reset_ls THEN 0 ELSE @,
              !.last = IF reset_ls THEN "none" ELSE @,
              !.req = ok]

Free(r) == [r EXCEPT !.alive = FALSE, !.refs = 0, !.ka = FALSE]

(* The holder's reference goes, or the one kept for a last request.        *)
(* Variant: only a registration that succeeded waits for its request.      *)
destructor_pending(r, ok) ==
    LET t == [r EXCEPT !.tmr = Off, !.terminated = TRUE]
    IN  IF r.terminated THEN Free(t)
        ELSE IF r.registered /\ r.req THEN t
        ELSE IF r.registered /\ ok THEN request(t, TRUE, TRUE)
        ELSE Free(t)

destructor(r, ok) ==
    LET t == [r EXCEPT !.tmr = Off, !.terminated = TRUE]
    IN  IF r.terminated THEN Free(t)
        ELSE IF r.req THEN t
        ELSE IF r.registered /\ ok THEN request(t, TRUE, TRUE)
        ELSE Free(t)

mem_deref(r, ok) ==
    IF r.refs = 1 THEN destructor(r, ok) ELSE [r EXCEPT !.refs = @ - 1]

(* sip_request_loops                                                       *)
Looped(r, c) ==
    [r EXCEPT !.loop = IF c = "2xx" THEN 0 ELSE @ + 1, !.last = c]

Loops(r, c) ==
    /\ c # "2xx"
    /\ \/ r.loop + 1 >= MaxFail
       \/ c # "auth" /\ r.last = c
-----------------------------------------------------------------------------
(* One that cannot send its request leaves nothing behind.                 *)
sipreg_register ==
    /\ ~reg.used
    /\ reg' = request([reg EXCEPT !.alive = TRUE, !.refs = 1, !.held = TRUE,
                                  !.used = TRUE], TRUE, TRUE)
    /\ UNCHANGED <<lease, failed>>

(* The holder gives it up; also inside resph, which is always called last. *)
Drop(ok) ==
    /\ reg.held
    /\ reg' = mem_deref([reg EXCEPT !.held = FALSE], ok)
    /\ failed' = (failed \/ (reg.registered /\ ~reg.req /\ ~ok))
    /\ UNCHANGED lease

tmr_handler(ok) ==
    /\ reg.tmr = 0
    /\ LET r == request([reg EXCEPT !.tmr = Off], TRUE, ok)
       IN  \/ ok /\ reg' = r
           \/ /\ ~ok
              /\ \E w \in failwait(Failures(r)) :
                   reg' = [r EXCEPT !.failc = Failures(r), !.tmr = w]
    /\ failed' = (failed \/ ~ok)
    /\ UNCHANGED lease

(* The connection with the keepalive failed; the keepalive is gone.        *)
(* Variant: a request under way is not looked at.                          *)
keepalive_handler_busy ==
    /\ reg.ka
    /\ LET r == [reg EXCEPT !.ka = FALSE]
       IN  \E w \in failwait(Failures(r)) :
              reg' = [r EXCEPT !.failc = Failures(r), !.tmr = w]
    /\ failed' = TRUE
    /\ UNCHANGED lease

keepalive_handler ==
    /\ reg.ka
    /\ LET r == [reg EXCEPT !.ka = FALSE]
       IN  IF r.req \/ r.terminated THEN reg' = r
           ELSE \E w \in failwait(Failures(r)) :
                   reg' = [r EXCEPT !.failc = Failures(r), !.tmr = w]
    /\ failed' = (failed \/ ~(reg.req \/ reg.terminated))
    /\ UNCHANGED lease

(* The end of response_handler, with the wait w; ok: the un-REGISTER can   *)
(* be sent.  Variant: a registration that was given up is not registered   *)
(* away when the REGISTER it waited for has ended.                         *)
Out_quiet(r, w, ok) ==
    IF r.expires = 0 \/ r.terminated THEN mem_deref(r, ok)
    ELSE [r EXCEPT !.tmr = w]

Out(r, w, ok) ==
    IF r.expires = 0 THEN mem_deref(r, ok)
    ELSE IF r.terminated
    THEN IF r.registered /\ ok THEN request(r, TRUE, TRUE)
                               ELSE mem_deref(r, ok)
    ELSE [r EXCEPT !.tmr = w]

(* The time to the next REGISTER once g seconds have been granted.         *)
(* Variant: the whole time.                                                *)
RefreshWait_whole(g) == (g * 10) % 2^Width

RefreshWait(g) == (g * 9) % 2^Width

Answered == [reg EXCEPT !.req = FALSE]

(* No answer; whether the registrar got the request nobody knows.          *)
response_error(ok) ==
    /\ reg.req
    /\ \E w \in failwait(reg.failc + 1), g \in Expires :
         /\ reg' = Out([Answered EXCEPT !.failc = Failures(reg)], w, ok)
         /\ lease' \in {lease, IF reg.expires = 0 THEN 0 ELSE g * 10}
    /\ failed' = TRUE

(* contact_handler: the interval read from an answer that grants g and     *)
(* states it as a parameter of the contact, in its Expires header, or in   *)
(* neither; in one without the contact, the interval asked for stands.     *)
contact_handler(g, stated) ==
    CASE stated \in {"contact", "header"} -> g
      [] stated = "neither" -> DefaultExpires
      [] stated = "missing" -> reg.expires

(* A 2xx, granting g seconds.                                              *)
response_2xx(g, stated, ok) ==
    LET r == [Looped(Answered, "2xx") EXCEPT !.registered = TRUE, !.failc = 0]
        k == [r EXCEPT !.ka = @ \/ (Outbound /\ ~r.terminated)]
        n == contact_handler(g, stated)
        w == RefreshWait(n)
    IN  /\ reg.req
        /\ lease' = IF reg.expires = 0 THEN 0 ELSE g * 10
        /\ reg' \in {Out(r, w, ok), Out(k, w, ok)}
        /\ failed' = (reg.expires # 0 /\ (g < n \/ (~ok /\ reg.terminated)))

(* Another final answer c: 401 or 407 (auth), 423 with the interval e      *)
(* (brief), or else.  retry: the request can be repeated.                  *)
response_failure(c, e, retry, ok) ==
    LET r == Looped(Answered, c)
        f == [r EXCEPT !.failc = Failures(r)]
        brief == c = "brief" /\ e # 0 /\ reg.expires # 0
    IN  /\ reg.req
        /\ \E w \in failwait(reg.failc + 1) :
           \/ /\ Loops(Answered, c)
              /\ reg' = Out(f, w, ok)
           \/ /\ ~Loops(Answered, c) /\ r.terminated /\ ~r.registered
              /\ reg' = Out(r, w, ok)
           \/ /\ ~Loops(Answered, c) /\ ~(r.terminated /\ ~r.registered)
              /\ \/ c = "auth" /\ retry /\ reg' = request(r, FALSE, TRUE)
                 \/ /\ brief /\ retry
                    /\ reg' = request([r EXCEPT !.expires = e], FALSE, TRUE)
                 \/ /\ c = "auth" \/ brief
                    /\ ~retry
                    /\ LET n == IF brief THEN e ELSE r.expires
                       IN  reg' = Out(request([f EXCEPT !.expires = n],
                                              FALSE, FALSE), w, ok)
                 \/ /\ ~brief  \* with auth: nobody knows the password
                    /\ reg' = Out(f, w, ok)
        /\ failed' = TRUE
        /\ UNCHANGED lease

(* A tenth of a second passes; no timer is late.                           *)
Tick ==
    /\ reg.tmr # 0
    /\ reg.tmr > 0 \/ lease > 0
    /\ reg' = [reg EXCEPT !.tmr = IF @ = Off THEN Off ELSE @ - 1]
    /\ lease' = IF lease = 0 THEN 0 ELSE lease - 1
    /\ UNCHANGED failed
-----------------------------------------------------------------------------
Stated == {"contact", "header", "neither", "missing"}

Ends ==
    \E ok \in BOOLEAN :
       \/ response_error(ok)
       \/ \E g \in Expires, stated \in Stated : response_2xx(g, stated, ok)
       \/ \E c \in {"auth", "brief", "other"}, e \in Expires, retry \in BOOLEAN :
             response_failure(c, e, retry, ok)

Next ==
    \/ sipreg_register
    \/ \E ok \in BOOLEAN : Drop(ok) \/ tmr_handler(ok)
    \/ keepalive_handler
    \/ Ends
    \/ Tick

Spec == Init /\ [][Next]_vars

(* A REGISTER is answered in the end or times out (SipTrans!Settles).      *)
FairSpec == Spec /\ WF_vars(Ends)
-----------------------------------------------------------------------------
(* Properties.                                                             *)

(* Every variable keeps its type.                                          *)
TypeOK ==
    /\ reg.refs \in {0, 1} /\ reg.tmr \in -1..(10 * FailMost + 2^Width)
    /\ reg.expires \in Expires \cup {0}
    /\ reg.failc \in 0..FailShift /\ reg.loop \in 0..MaxFail
    /\ reg.alive \in BOOLEAN /\ reg.held \in BOOLEAN /\ reg.req \in BOOLEAN
    /\ reg.registered \in BOOLEAN /\ reg.terminated \in BOOLEAN
    /\ lease \in Nat /\ failed \in BOOLEAN

(* A registration is never idle and never has two requests coming: it has  *)
(* either a request under way or, while it is held, its timer running; it  *)
(* exists as long as it is held or has a request under way.                *)
OneAtATime ==
    /\ TypeOK
    /\ reg.alive <=> reg.held \/ reg.req
    /\ reg.held => (reg.req <=> reg.tmr = Off)
    /\ ~reg.held => reg.tmr = Off

(* When a registration is gone the registrar does not keep the contact,    *)
(* unless its last request failed: also one given up while its first       *)
(* REGISTER or a refresh was under way has registered itself away.         *)
NothingLeft == reg.used /\ ~reg.alive /\ lease > 0 => failed

(* The refresh begins before the registrar drops the contact, as long as   *)
(* nothing fails and the registrar grants some time and no less than the   *)
(* answer is read to say: the interval it states, or, where it states      *)
(* none, DEFAULT_EXPIRES for its contact, or what was asked for without    *)
(* one.  A registrar that grants less than that drops the contact first.   *)
RefreshedInTime ==
    reg.held /\ reg.tmr > 0 /\ ~failed => lease > reg.tmr

RegState(r) ==
    IF ~r.used THEN "null"
    ELSE IF ~r.alive THEN "gone"
    ELSE IF r.held
    THEN IF r.req THEN IF r.registered THEN "refreshing" ELSE "pending"
                  ELSE IF r.registered THEN "registered" ELSE "waiting"
    ELSE IF r.expires = 0 THEN "unregistering"
    ELSE IF r.registered THEN "lastrefresh" ELSE "lastpending"

Contract == INSTANCE RegContract WITH reg <- RegState(reg)

(* The registration is one that the rest of the program can rely on; given *)
(* up, it lets go of its stack.                                            *)
ContractSpec == Contract!Spec
=============================================================================
