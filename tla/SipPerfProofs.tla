--------------------------- MODULE SipPerfProofs ---------------------------
(***************************************************************************)
(* Proofs about SipPerf, for any set of UEs, any --max-calls and any       *)
(* bounds: in every environment type correctness, NoDangling and where UEs *)
(* get lost; when no registration is refreshed the exclusive use of UEs    *)
(* and the counters; when nothing fails, that no UE gets lost.             *)
(***************************************************************************)
EXTENDS SipPerf, FiniteSetTheorems, TLAPS

(* The two ends of a call in progress are registered UEs.                  *)
Parties ==
    \A k \in CallId :
        /\ phase[Out(k)] # "none" => from[k] \in all
        /\ ("INVITE" \in net[k] \/ phase[In(k)] # "none") => to[k] \in all

(* Calls not made yet have left no trace.                                  *)
Fresh ==
    \A k \in CallId : k > actual =>
        phase[Out(k)] = "none" /\ phase[In(k)] = "none" /\ net[k] = {}

(* The callee's leg is created by the INVITE, which comes once.            *)
InviteOnce ==
    \A k \in CallId : "INVITE" \in net[k] => phase[In(k)] = "none"

Inv == TypeOK /\ Parties /\ Fresh /\ InviteOnce /\ NoDangling

(* Before its first 200 a UE is unknown to the UAManager.                  *)
Unregistered == \A u \in UE : reg[u] # "registered" => u \notin all

Exclusive == FreeMeansIdle /\ NoOrphan /\ CalleeReserved /\ Unregistered

-----------------------------------------------------------------------------
(* Legs are the out and in legs of the calls.                              *)
LEMMA LegFacts ==
    /\ \A k \in CallId :
          /\ Out(k) \in Leg /\ In(k) \in Leg /\ Out(k) # In(k)
          /\ Out(k)[1] = k /\ In(k)[1] = k
          /\ Out(k)[2] = "out" /\ In(k)[2] = "in"
    /\ \A l \in Leg : l[1] \in CallId
          /\ \/ l[2] = "out" /\ l = Out(l[1])
             \/ l[2] = "in" /\ l = In(l[1])
    /\ \A k, j \in CallId : Out(k) # In(j)
          /\ (Out(k) = Out(j) => k = j) /\ (In(k) = In(j) => k = j)
    /\ None \notin Leg
  BY NoneAssumption DEF Leg, Out, In, CallId

(* After mem_deref a session no longer calls back, and stays allocated.    *)
LEMMA DropRefFacts ==
    \A p \in Phase : /\ DropRef(p) \in Phase \ Live
                     /\ DropRef(p) = "none" <=> p = "none"
  BY DEF DropRef, Phase, Live, Waiting, Over

(* Dropping a session changes the phase of that session only, and sends no *)
(* INVITE and nothing for a call that has not been made.                   *)
LEMMA DropFacts ==
    ASSUME TypeOK, NEW u \in UE, NEW ph \in [Leg -> Phase],
           NEW nt \in [CallId -> SUBSET Msg]
    PROVE  /\ PhaseAfterDrop(u, ph) \in [Leg -> Phase]
           /\ \A l \in Leg : l # sess[u] => PhaseAfterDrop(u, ph)[l] = ph[l]
           /\ sess[u] # None => PhaseAfterDrop(u, ph)[sess[u]] \notin Live
           /\ \A l \in Leg : PhaseAfterDrop(u, ph)[l] = "none"
                             <=> ph[l] = "none"
           /\ NetAfterDrop(u, ph, nt) \in [CallId -> SUBSET Msg]
           /\ NetAfterBye(u, ph, nt) \in [CallId -> SUBSET Msg]
           /\ \A k \in CallId :
                 /\ "INVITE" \in NetAfterDrop(u, ph, nt)[k]
                    <=> "INVITE" \in nt[k]
                 /\ "INVITE" \in NetAfterBye(u, ph, nt)[k]
                    <=> "INVITE" \in nt[k]
                 /\ (sess[u] = None \/ k # sess[u][1]) =>
                       /\ NetAfterDrop(u, ph, nt)[k] = nt[k]
                       /\ NetAfterBye(u, ph, nt)[k] = nt[k]
<1>1. sess[u] \in Leg \cup {None}
  BY DEF TypeOK
<1>2. \A l \in Leg : ByeFrom(l) \in Msg /\ ByeFrom(l) # "INVITE"
  BY DEF ByeFrom, Msg
<1>3. CASE sess[u] = None
  BY <1>3 DEF PhaseAfterDrop, NetAfterDrop, NetAfterBye
<1>4. CASE sess[u] # None
  <2>1. sess[u] \in Leg /\ sess[u][1] \in CallId
    BY <1>1, <1>4, LegFacts
  <2>2. PhaseAfterDrop(u, ph)
          = [ph EXCEPT ![sess[u]] = DropRef(ph[sess[u]])]
    BY <1>4 DEF PhaseAfterDrop
  <2>3. ph[sess[u]] \in Phase
    BY <2>1
  <2>4. /\ DropRef(ph[sess[u]]) \in Phase \ Live
        /\ DropRef(ph[sess[u]]) = "none" <=> ph[sess[u]] = "none"
    BY <2>3, DropRefFacts
  <2>5. /\ PhaseAfterDrop(u, ph) \in [Leg -> Phase]
        /\ \A l \in Leg : l # sess[u] => PhaseAfterDrop(u, ph)[l] = ph[l]
        /\ PhaseAfterDrop(u, ph)[sess[u]] \notin Live
        /\ \A l \in Leg : PhaseAfterDrop(u, ph)[l] = "none"
                          <=> ph[l] = "none"
    BY <2>1, <2>2, <2>4
  <2>6. ByeFrom(sess[u]) \in Msg /\ ByeFrom(sess[u]) # "INVITE"
    BY <1>2, <2>1
  <2> DEFINE nb == [nt EXCEPT ![sess[u][1]] = @ \cup {ByeFrom(sess[u])}]
  <2>7. /\ nb \in [CallId -> SUBSET Msg]
        /\ \A k \in CallId : /\ "INVITE" \in nb[k] <=> "INVITE" \in nt[k]
                             /\ k # sess[u][1] => nb[k] = nt[k]
    BY <2>1, <2>6
  <2>8. /\ NetAfterDrop(u, ph, nt) \in {nt, nb}
        /\ NetAfterBye(u, ph, nt) \in {nt, nb}
    BY DEF NetAfterDrop, NetAfterBye
  <2> QED
    BY <1>4, <2>5, <2>7, <2>8
<1> QED
  BY <1>3, <1>4

(* A leg in progress belongs to a registered UE.                           *)
LEMMA OwnerFacts ==
    /\ \A k \in CallId : Owner(Out(k)) = from[k] /\ Owner(In(k)) = to[k]
    /\ Inv => \A l \in Leg : phase[l] # "none" =>
                 Owner(l) \in all /\ Owner(l) \in UE /\ l[1] <= actual
<1>1. \A k \in CallId : Owner(Out(k)) = from[k] /\ Owner(In(k)) = to[k]
  BY LegFacts DEF Owner
<1>2. ASSUME Inv, NEW l \in Leg, phase[l] # "none"
      PROVE  Owner(l) \in all /\ Owner(l) \in UE /\ l[1] <= actual
  <2>1. l[1] \in CallId /\ (l = Out(l[1]) \/ l = In(l[1]))
    BY LegFacts
  <2>2. Owner(l) \in all
    BY <1>1, <1>2, <2>1 DEF Inv, Parties
  <2>3. ~(l[1] > actual)
    BY <1>2, <2>1 DEF Inv, Fresh
  <2>4. l[1] \in Int /\ actual \in Int
    BY <1>2, <2>1, BoundsAssumption DEF Inv, TypeOK, CallId
  <2> QED
    BY <1>2, <2>2, <2>3, <2>4 DEF Inv, TypeOK
<1> QED
  BY <1>1, <1>2

(* What a step that makes no call may do to the messages in flight.        *)
NoInviteSent(nt) ==
    /\ nt \in [CallId -> SUBSET Msg]
    /\ \A k \in CallId : /\ "INVITE" \in nt[k] => "INVITE" \in net[k]
                         /\ k > actual => nt[k] = {}

(* A step that moves legs without telling their UserAgents.                *)
QuietLegs ==
    /\ phase' \in [Leg -> Phase]
    /\ \A l \in Leg : /\ phase'[l] = "none" <=> phase[l] = "none"
                      /\ phase'[l] \in Live <=> phase[l] \in Live

LEMMA QuietStep ==
    ASSUME Inv, QuietLegs, NoInviteSent(net'), stats' \in Stats,
           UNCHANGED <<stage, reg, free, all, role, sess, from, to, actual>>
    PROVE  Inv'
<1> USE DEF Inv
<1>1. TypeOK'
  BY DEF TypeOK, NoInviteSent, QuietLegs
<1>2. Parties'
  BY LegFacts DEF Parties, NoInviteSent, QuietLegs
<1>3. Fresh'
  BY LegFacts DEF Fresh, NoInviteSent, QuietLegs
<1>4. InviteOnce'
  BY LegFacts DEF InviteOnce, NoInviteSent, QuietLegs
<1>5. NoDangling'
  BY DEF NoDangling, TypeOK, QuietLegs, Owner
<1> QED
  BY <1>1, <1>2, <1>3, <1>4, <1>5

(* A handler of leg l's UserAgent that drops the UserAgent's session:      *)
(* close_handler, or establish_handler at a caller.  p is the phase libre  *)
(* has moved l to, nt the messages in flight when the handler is called.   *)
HandlerDrops(l, p, nt) ==
    LET u == Owner(l)
        ph == [phase EXCEPT ![l] = p]
    IN
    /\ free' = free \cup {u}
    /\ sess' = [sess EXCEPT ![u] = None]
    /\ phase' = PhaseAfterDrop(u, ph)
    /\ \/ net' = NetAfterDrop(u, ph, nt)
       \/ net' = NetAfterDrop(u, ph, NetAfterBye(u, ph, nt))

LEMMA HandlerFacts ==
    ASSUME Inv, NEW l \in Leg, phase[l] # "none",
           NEW p \in Phase \ {"none"}, NEW nt, NoInviteSent(nt),
           HandlerDrops(l, p, nt)
    PROVE  /\ Owner(l) \in UE /\ Owner(l) \in all
           /\ phase' \in [Leg -> Phase]
           /\ \A m \in Leg : phase'[m] = "none" <=> phase[m] = "none"
           /\ \A m \in Leg : m # l /\ m # sess[Owner(l)] =>
                 phase'[m] = phase[m]
           /\ sess[Owner(l)] # None => phase'[sess[Owner(l)]] \notin Live
           /\ NoInviteSent(net')
<1> DEFINE u == Owner(l)
           ph == [phase EXCEPT ![l] = p]
<1>1. u \in UE /\ u \in all
  BY OwnerFacts
<1>2. /\ ph \in [Leg -> Phase]
      /\ \A m \in Leg : ph[m] = "none" <=> phase[m] = "none"
      /\ \A m \in Leg : m # l => ph[m] = phase[m]
  BY DEF Inv, TypeOK
<1>3. nt \in [CallId -> SUBSET Msg]
  BY DEF NoInviteSent
<1>4. TypeOK
  BY DEF Inv
<1>5. PICK n2 \in [CallId -> SUBSET Msg] :
        /\ net' = NetAfterDrop(u, ph, n2)
        /\ n2 = nt \/ n2 = NetAfterBye(u, ph, nt)
  <2>1. NetAfterBye(u, ph, nt) \in [CallId -> SUBSET Msg]
    BY <1>1, <1>2, <1>3, <1>4, DropFacts
  <2> QED
    BY <1>3, <2>1 DEF HandlerDrops
<1> HIDE DEF ph
<1>6. phase' = PhaseAfterDrop(u, ph)
  BY DEF HandlerDrops, ph
<1>7. /\ phase' \in [Leg -> Phase]
      /\ \A m \in Leg : m # sess[u] => phase'[m] = ph[m]
      /\ sess[u] # None => phase'[sess[u]] \notin Live
      /\ \A m \in Leg : phase'[m] = "none" <=> ph[m] = "none"
  BY <1>1, <1>2, <1>3, <1>4, <1>6, DropFacts
<1>8. /\ net' \in [CallId -> SUBSET Msg]
      /\ \A k \in CallId :
            /\ "INVITE" \in net'[k] <=> "INVITE" \in n2[k]
            /\ (sess[u] = None \/ k # sess[u][1]) => net'[k] = n2[k]
  BY <1>1, <1>2, <1>4, <1>5, DropFacts
<1>9. \A k \in CallId :
            /\ "INVITE" \in n2[k] <=> "INVITE" \in nt[k]
            /\ (sess[u] = None \/ k # sess[u][1]) => n2[k] = nt[k]
  BY <1>1, <1>2, <1>3, <1>4, <1>5, DropFacts
<1>10. ASSUME NEW k \in CallId, k > actual
       PROVE  sess[u] = None \/ k # sess[u][1]
  <2>1. ASSUME sess[u] # None PROVE phase[sess[u]] # "none" /\ sess[u] \in Leg
    BY <1>1, <2>1 DEF Inv, TypeOK, NoDangling, Live
  <2>2. sess[u] # None => sess[u][1] <= actual
    BY <2>1, OwnerFacts
  <2>3. k \in Int /\ actual \in Int
    BY BoundsAssumption DEF CallId, Inv, TypeOK
  <2> QED
    BY <1>10, <2>2, <2>3
<1>11. NoInviteSent(net')
  BY <1>8, <1>9, <1>10 DEF NoInviteSent
<1> QED
  BY <1>1, <1>2, <1>7, <1>11

LEMMA HandlerStep ==
    ASSUME Inv, NEW l \in Leg, phase[l] # "none",
           NEW p \in Phase \ {"none"}, NEW nt, NoInviteSent(nt),
           HandlerDrops(l, p, nt), stats' \in Stats,
           UNCHANGED <<stage, reg, all, role, from, to, actual>>
    PROVE  Inv'
<1> DEFINE u == Owner(l)
<1>1. /\ u \in UE /\ u \in all
      /\ phase' \in [Leg -> Phase]
      /\ \A m \in Leg : phase'[m] = "none" <=> phase[m] = "none"
      /\ \A m \in Leg : m # l /\ m # sess[u] => phase'[m] = phase[m]
      /\ NoInviteSent(net')
  BY HandlerFacts
<1>2. free' = free \cup {u} /\ sess' = [sess EXCEPT ![u] = None]
  BY DEF HandlerDrops
<1> HIDE DEF u
<1>3. TypeOK'
  BY <1>1, <1>2 DEF Inv, TypeOK, NoInviteSent
<1>4. Parties'
  BY <1>1, LegFacts DEF Inv, Parties, NoInviteSent
<1>5. Fresh'
  BY <1>1, LegFacts DEF Inv, Fresh, NoInviteSent
<1>6. InviteOnce'
  BY <1>1, LegFacts DEF Inv, InviteOnce, NoInviteSent
<1>7. NoDangling'
  <2> SUFFICES ASSUME NEW v \in UE, sess'[v] # None
               PROVE  Owner(sess[v])' = v /\ phase'[sess'[v]] \in Live
    BY DEF NoDangling
  <2>1. v # u /\ sess'[v] = sess[v]
    BY <1>1, <1>2 DEF Inv, TypeOK
  <2>2. Owner(sess[v]) = v /\ phase[sess[v]] \in Live /\ sess[v] \in Leg
    BY <2>1 DEF Inv, TypeOK, NoDangling
  <2>3. sess[u] # None => Owner(sess[u]) = u
    BY <1>1 DEF Inv, NoDangling
  <2>4. sess[v] # l /\ sess[v] # sess[u]
    BY <2>1, <2>2, <2>3 DEF u
  <2> QED
    BY <1>1, <2>1, <2>2, <2>4 DEF Owner
<1> QED
  BY <1>3, <1>4, <1>5, <1>6, <1>7 DEF Inv

-----------------------------------------------------------------------------
(* Taking a message of a call that has been made out of the network, and   *)
(* sending others than an INVITE for it, sends no INVITE.                  *)
LEMMA NetFacts ==
    ASSUME Inv, NEW k \in CallId, net[k] # {} \/ k <= actual,
           NEW gone \in SUBSET Msg, NEW sent \in SUBSET (Msg \ {"INVITE"})
    PROVE  NoInviteSent([net EXCEPT ![k] = (@ \ gone) \cup sent])
<1>1. net \in [CallId -> SUBSET Msg]
  BY DEF Inv, TypeOK
<1>2. ~(k > actual)
  <2>1. k \in Int /\ actual \in Int
    BY BoundsAssumption DEF CallId, Inv, TypeOK
  <2> QED
    BY <2>1 DEF Inv, Fresh
<1>3. \A j \in CallId : j > actual => net[j] = {}
  BY DEF Inv, Fresh
<1> QED
  BY <1>1, <1>2, <1>3 DEF NoInviteSent

(* The two handlers, seen as steps of the proof.                           *)
LEMMA CloseHandler ==
    ASSUME Inv, NEW l \in Leg, NEW failed \in BOOLEAN, NEW p, NEW nt,
           close_handler(Owner(l), failed, [phase EXCEPT ![l] = p], nt)
    PROVE  HandlerDrops(l, p, nt) /\ stats' \in Stats
<1>1. stats' \in Stats
  BY DEF close_handler, Inv, TypeOK, Stats
<1>2. HandlerDrops(l, p, nt)
  BY DEF close_handler, HandlerDrops, mark_ua_not_in_call
<1> QED
  BY <1>1, <1>2

LEMMA EstablishHandler ==
    ASSUME Inv, NEW l \in Leg, NEW p, NEW nt,
           establish_handler(Owner(l), [phase EXCEPT ![l] = p], nt)
    PROVE  /\ stats' \in Stats
           /\ role[Owner(l)] = "caller" => HandlerDrops(l, p, nt)
           /\ role[Owner(l)] # "caller" =>
                 /\ phase' = [phase EXCEPT ![l] = p]
                 /\ net' = nt
                 /\ UNCHANGED <<free, sess>>
<1>1. stats' \in Stats
  BY DEF establish_handler, Inv, TypeOK, Stats
<1>2. role[Owner(l)] = "caller" => HandlerDrops(l, p, nt)
  BY DEF establish_handler, HandlerDrops, mark_ua_not_in_call
<1>3. role[Owner(l)] # "caller" =>
         /\ phase' = [phase EXCEPT ![l] = p]
         /\ net' = nt
         /\ UNCHANGED <<free, sess>>
  BY DEF establish_handler
<1> QED
  BY <1>1, <1>2, <1>3

(* What the steps of a leg in progress can be: nothing its UserAgent       *)
(* notices, or one of its handlers dropping the UserAgent's session.       *)
LegStep(l) ==
    /\ UNCHANGED <<stage, reg, all, role, from, to, actual>>
    /\ stats' \in Stats
    /\ \/ /\ QuietLegs /\ NoInviteSent(net')
          /\ UNCHANGED <<free, sess>>
       \/ /\ phase[l] \in Live
          /\ \E p \in Phase \ {"none"} : \E nt \in [CallId -> SUBSET Msg] :
                /\ p = "up" => role[Owner(l)] = "caller"
                /\ NoInviteSent(nt)
                /\ HandlerDrops(l, p, nt)

LEMMA LegStepInv ==
    ASSUME Inv, NEW l \in Leg, LegStep(l) PROVE Inv'
<1>1. CASE QuietLegs /\ NoInviteSent(net') /\ UNCHANGED <<free, sess>>
  BY <1>1, QuietStep DEF LegStep
<1>2. CASE phase[l] \in Live
           /\ \E p \in Phase \ {"none"} : \E nt \in [CallId -> SUBSET Msg] :
                NoInviteSent(nt) /\ HandlerDrops(l, p, nt)
  <2>1. PICK p \in Phase \ {"none"}, nt \in [CallId -> SUBSET Msg] :
           NoInviteSent(nt) /\ HandlerDrops(l, p, nt)
    BY <1>2
  <2>2. phase[l] # "none"
    BY <1>2 DEF Live
  <2> QED
    BY <2>1, <2>2, HandlerStep DEF LegStep
<1> QED
  BY <1>1, <1>2 DEF LegStep

(* Moving one leg between phases that are alike to its UserAgent.          *)
LEMMA QuietLegsFacts ==
    ASSUME Inv, NEW l \in Leg, NEW p \in Phase \ {"none"},
           phase[l] # "none", p \in Live <=> phase[l] \in Live,
           phase' = [phase EXCEPT ![l] = p]
    PROVE  QuietLegs
  BY DEF QuietLegs, Inv, TypeOK

(* The kinds of steps a leg l takes: its UserAgent's close_handler or      *)
(* establish_handler is called, libre moves l by itself, l does not move.  *)
Frame == UNCHANGED <<stage, reg, all, role, from, to, actual>>

LEMMA CloseLeg ==
    ASSUME Inv, Frame, NEW l \in Leg, phase[l] \in Live,
           NEW p \in Phase \ {"none", "up"},
           NEW ph, ph = [phase EXCEPT ![l] = p], NEW nt, NoInviteSent(nt),
           NEW failed \in BOOLEAN, close_handler(Owner(l), failed, ph, nt)
    PROVE  LegStep(l)
<1>1. HandlerDrops(l, p, nt) /\ stats' \in Stats
  BY CloseHandler
<1>2. nt \in [CallId -> SUBSET Msg]
  BY DEF NoInviteSent
<1> QED
  BY <1>1, <1>2 DEF LegStep, Frame

LEMMA EstablishLeg ==
    ASSUME Inv, Frame, NEW l \in Leg, phase[l] \in Live,
           NEW ph, ph = [phase EXCEPT ![l] = "up"],
           NEW nt, NoInviteSent(nt), establish_handler(Owner(l), ph, nt)
    PROVE  LegStep(l)
<1>1. /\ stats' \in Stats
      /\ role[Owner(l)] = "caller" => HandlerDrops(l, "up", nt)
      /\ role[Owner(l)] # "caller" =>
            /\ phase' = ph
            /\ net' = nt
            /\ UNCHANGED <<free, sess>>
  BY EstablishHandler
<1>2. nt \in [CallId -> SUBSET Msg] /\ "up" \in Phase \ {"none"}
  BY DEF NoInviteSent, Phase, Live
<1>3. CASE role[Owner(l)] = "caller"
  BY <1>1, <1>2, <1>3 DEF LegStep, Frame
<1>4. CASE role[Owner(l)] # "caller"
  <2>1. QuietLegs
    BY <1>1, <1>2, <1>4, QuietLegsFacts DEF Live
  <2> QED
    BY <1>1, <1>4, <2>1 DEF LegStep, Frame
<1> QED
  BY <1>3, <1>4

LEMMA WaitingLeg ==
    ASSUME Inv, Frame, NEW l \in Leg, phase[l] \in Waiting,
           NEW p \in Waiting \cup Over, phase' = [phase EXCEPT ![l] = p],
           NoInviteSent(net'), UNCHANGED <<free, sess, stats>>
    PROVE  LegStep(l)
<1>1. phase[l] # "none" /\ phase[l] \notin Live /\ p \notin Live
      /\ p \in Phase \ {"none"}
  BY DEF Waiting, Live, Over, Phase
<1>2. QuietLegs
  BY <1>1, QuietLegsFacts
<1> QED
  BY <1>2 DEF LegStep, Frame, Inv, TypeOK

LEMMA StillLeg ==
    ASSUME Inv, Frame, NEW l \in Leg, NoInviteSent(net'),
           UNCHANGED <<free, sess, stats, phase>>
    PROVE  LegStep(l)
  BY DEF LegStep, Frame, QuietLegs, Inv, TypeOK

(* Every message and timer action but RecvInvite is a LegStep.             *)
LEMMA OutLegSteps ==
    ASSUME Inv, NEW k \in CallId,
           RecvOK(k) \/ InviteFails(k) \/ RecvByeOut(k)
    PROVE  LegStep(Out(k))
<1> DEFINE l == Out(k)
           nt == [net EXCEPT ![k] = @ \ {"OK"}]
           na == [nt EXCEPT ![k] = @ \cup {"ACK"}]
           nb == [nt EXCEPT ![k] = @ \cup {"BYEin"}]
           nab == [nt EXCEPT ![k] = @ \cup {"ACK", "BYEin"}]
           nh == [net EXCEPT ![k] = @ \ {"BYEout"}]
           Moved(p) == [phase EXCEPT ![l] = p]
<1>1. l \in Leg /\ Owner(l) = from[k]
  BY LegFacts, OwnerFacts
<1>2. net \in [CallId -> SUBSET Msg]
  BY DEF Inv, TypeOK
<1>3. net[k] # {} => /\ NoInviteSent(nt) /\ NoInviteSent(na)
                     /\ NoInviteSent(nb) /\ NoInviteSent(nab)
                     /\ NoInviteSent(nh)
  <2>1. /\ nt = [net EXCEPT ![k] = (@ \ {"OK"}) \cup {}]
        /\ na = [net EXCEPT ![k] = (@ \ {"OK"}) \cup {"ACK"}]
        /\ nb = [net EXCEPT ![k] = (@ \ {"OK"}) \cup {"BYEin"}]
        /\ nab = [net EXCEPT ![k] = (@ \ {"OK"}) \cup {"ACK", "BYEin"}]
        /\ nh = [net EXCEPT ![k] = (@ \ {"BYEout"}) \cup {}]
    BY <1>2
  <2>2. /\ {"OK"} \in SUBSET Msg /\ {"BYEout"} \in SUBSET Msg
        /\ {} \in SUBSET (Msg \ {"INVITE"})
        /\ {"ACK"} \in SUBSET (Msg \ {"INVITE"})
        /\ {"BYEin"} \in SUBSET (Msg \ {"INVITE"})
        /\ {"ACK", "BYEin"} \in SUBSET (Msg \ {"INVITE"})
    BY DEF Msg
  <2> HIDE DEF nt, na, nb, nab, nh
  <2> QED
    BY <2>1, <2>2, NetFacts
<1>4. NoInviteSent(net)
  BY <1>2 DEF Inv, Fresh, NoInviteSent
<1> HIDE DEF l, na, nb, nab, nt, nh, Moved
<1>5. CASE RecvOK(k)
  <2>1. Frame /\ net[k] # {}
    BY <1>5 DEF RecvOK, Frame
  <2>2. \/ /\ phase[l] = "inviting"
           /\ establish_handler(from[k], Moved("up"), na)
        \/ /\ phase[l] = "inviting"
           /\ close_handler(from[k], TRUE, Moved("failed"), nb)
        \/ /\ phase[l] = "cancelling"
           /\ phase' = Moved("ended") /\ net' = nab
           /\ UNCHANGED <<free, sess, stats>>
        \/ net' = nt /\ UNCHANGED <<free, sess, stats, phase>>
    BY <1>5 DEF RecvOK, l, na, nb, nab, nt, Moved
  <2>3. CASE phase[l] = "inviting"
             /\ establish_handler(from[k], Moved("up"), na)
    BY <1>1, <1>3, <2>1, <2>3, EstablishLeg DEF Moved, Live, l
  <2>4. CASE phase[l] = "inviting"
             /\ close_handler(from[k], TRUE, Moved("failed"), nb)
    BY <1>1, <1>3, <2>1, <2>4, CloseLeg DEF Moved, Live, Phase, Over, l
  <2>5. CASE /\ phase[l] = "cancelling"
             /\ phase' = Moved("ended") /\ net' = nab
             /\ UNCHANGED <<free, sess, stats>>
    BY <1>1, <1>3, <2>1, <2>5, WaitingLeg DEF Moved, Waiting, Over, l
  <2>6. CASE net' = nt /\ UNCHANGED <<free, sess, stats, phase>>
    BY <1>1, <1>3, <2>1, <2>6, StillLeg DEF l
  <2> QED
    BY <2>2, <2>3, <2>4, <2>5, <2>6
<1>6. CASE InviteFails(k)
  <2>1. Frame
    BY <1>6 DEF InviteFails, Frame
  <2>2. \/ /\ phase[l] = "inviting"
           /\ close_handler(from[k], TRUE, Moved("failed"), net)
        \/ /\ phase[l] = "inviting"
           /\ close_handler(from[k], FALSE, Moved("reset"), net)
        \/ /\ phase[l] = "cancelling"
           /\ phase' = Moved("ended")
           /\ UNCHANGED <<free, sess, stats, net>>
    BY <1>6 DEF InviteFails, l, Moved
  <2>3. CASE phase[l] = "inviting"
             /\ close_handler(from[k], TRUE, Moved("failed"), net)
    BY <1>1, <1>4, <2>1, <2>3, CloseLeg DEF Moved, Live, Phase, Over, l
  <2>4. CASE phase[l] = "inviting"
             /\ close_handler(from[k], FALSE, Moved("reset"), net)
    BY <1>1, <1>4, <2>1, <2>4, CloseLeg DEF Moved, Live, Phase, Over, l
  <2>5. CASE /\ phase[l] = "cancelling"
             /\ phase' = Moved("ended")
             /\ UNCHANGED <<free, sess, stats, net>>
    <3>1. NoInviteSent(net')
      BY <1>4, <2>5
    <3> QED
      BY <1>1, <2>1, <2>5, <3>1, WaitingLeg DEF Moved, Waiting, Over, l
  <2> QED
    BY <2>2, <2>3, <2>4, <2>5
<1>7. CASE RecvByeOut(k)
  <2>1. Frame /\ net[k] # {}
    BY <1>7 DEF RecvByeOut, Frame
  <2>2. \/ /\ phase[l] = "up"
           /\ close_handler(from[k], FALSE, Moved("ended"), nh)
        \/ net' = nh /\ UNCHANGED <<free, sess, stats, phase>>
    BY <1>7 DEF RecvByeOut, l, nh, Moved
  <2>3. CASE phase[l] = "up"
             /\ close_handler(from[k], FALSE, Moved("ended"), nh)
    BY <1>1, <1>3, <2>1, <2>3, CloseLeg DEF Moved, Live, Phase, Over, l
  <2>4. CASE net' = nh /\ UNCHANGED <<free, sess, stats, phase>>
    BY <1>1, <1>3, <2>1, <2>4, StillLeg DEF l
  <2> QED
    BY <2>2, <2>3, <2>4
<1> QED
  BY <1>5, <1>6, <1>7

LEMMA InLegSteps ==
    ASSUME Inv, NEW k \in CallId,
           RecvAck(k) \/ ReplyTimeout(k) \/ RecvByeIn(k) \/ Lose(k)
    PROVE  LegStep(In(k))
<1> DEFINE l == In(k)
           na == [net EXCEPT ![k] = @ \ {"ACK"}]
           nab == [na EXCEPT ![k] = @ \cup {"BYEout"}]
           nb == [net EXCEPT ![k] = @ \cup {"BYEout"}]
           nh == [net EXCEPT ![k] = @ \ {"BYEin"}]
           Moved(p) == [phase EXCEPT ![l] = p]
<1>1. l \in Leg /\ Owner(l) = to[k]
  BY LegFacts, OwnerFacts
<1>2. net \in [CallId -> SUBSET Msg]
  BY DEF Inv, TypeOK
<1>3. phase[l] # "none" => k <= actual
  <2>1. l[1] = k
    BY LegFacts
  <2> QED
    BY <1>1, <2>1, OwnerFacts
<1>4. /\ net[k] # {} => NoInviteSent(na) /\ NoInviteSent(nab)
                        /\ NoInviteSent(nh)
      /\ phase[l] # "none" => NoInviteSent(nb)
  <2>1. /\ na = [net EXCEPT ![k] = (@ \ {"ACK"}) \cup {}]
        /\ nab = [net EXCEPT ![k] = (@ \ {"ACK"}) \cup {"BYEout"}]
        /\ nb = [net EXCEPT ![k] = (@ \ {}) \cup {"BYEout"}]
        /\ nh = [net EXCEPT ![k] = (@ \ {"BYEin"}) \cup {}]
    BY <1>2
  <2>2. /\ {"ACK"} \in SUBSET Msg /\ {"BYEin"} \in SUBSET Msg
        /\ {} \in SUBSET Msg
        /\ {} \in SUBSET (Msg \ {"INVITE"})
        /\ {"BYEout"} \in SUBSET (Msg \ {"INVITE"})
    BY DEF Msg
  <2> HIDE DEF na, nab, nb, nh, l
  <2> QED
    BY <1>3, <2>1, <2>2, NetFacts
<1>5. NoInviteSent(net)
  BY <1>2 DEF Inv, Fresh, NoInviteSent
<1> HIDE DEF l, na, nab, nb, nh, Moved
<1>6. CASE RecvAck(k)
  <2>1. Frame /\ net[k] # {}
    BY <1>6 DEF RecvAck, Frame
  <2>2. \/ /\ phase[l] = "answered"
           /\ establish_handler(to[k], Moved("up"), na)
        \/ /\ phase[l] = "leaving"
           /\ phase' = Moved("ended") /\ net' = nab
           /\ UNCHANGED <<free, sess, stats>>
        \/ /\ phase[l] = "draining"
           /\ phase' = Moved("ended") /\ net' = na
           /\ UNCHANGED <<free, sess, stats>>
        \/ net' = na /\ UNCHANGED <<free, sess, stats, phase>>
    BY <1>6 DEF RecvAck, l, na, nab, Moved
  <2>3. CASE phase[l] = "answered"
             /\ establish_handler(to[k], Moved("up"), na)
    BY <1>1, <1>4, <2>1, <2>3, EstablishLeg DEF Moved, Live, l
  <2>4. CASE /\ phase[l] \in {"leaving", "draining"}
             /\ phase' = Moved("ended") /\ net' \in {na, nab}
             /\ UNCHANGED <<free, sess, stats>>
    <3>1. NoInviteSent(net')
      BY <1>4, <2>1, <2>4
    <3> QED
      BY <1>1, <2>1, <2>4, <3>1, WaitingLeg DEF Moved, Waiting, Over, l
  <2>5. CASE net' = na /\ UNCHANGED <<free, sess, stats, phase>>
    BY <1>1, <1>4, <2>1, <2>5, StillLeg DEF l
  <2> QED
    BY <2>2, <2>3, <2>4, <2>5
<1>7. CASE ReplyTimeout(k)
  <2>1. Frame
    BY <1>7 DEF ReplyTimeout, Frame
  <2>2. \/ /\ phase[l] = "answered"
           /\ close_handler(to[k], TRUE, Moved("failed"), nb)
        \/ /\ phase[l] = "leaving"
           /\ phase' = Moved("ended") /\ net' = nb
           /\ UNCHANGED <<free, sess, stats>>
        \/ /\ phase[l] = "draining"
           /\ phase' = Moved("ended")
           /\ UNCHANGED <<free, sess, stats, net>>
    BY <1>7 DEF ReplyTimeout, l, nb, Moved
  <2>3. CASE phase[l] = "answered"
             /\ close_handler(to[k], TRUE, Moved("failed"), nb)
    BY <1>1, <1>4, <2>1, <2>3, CloseLeg DEF Moved, Live, Phase, Over, l
  <2>4. CASE /\ phase[l] \in {"leaving", "draining"}
             /\ phase' = Moved("ended") /\ net' \in {net, nb}
             /\ UNCHANGED <<free, sess, stats>>
    <3>1. NoInviteSent(net')
      BY <1>4, <1>5, <2>4
    <3> QED
      BY <1>1, <2>1, <2>4, <3>1, WaitingLeg DEF Moved, Waiting, Over, l
  <2> QED
    BY <2>2, <2>3, <2>4
<1>8. CASE RecvByeIn(k)
  <2>1. Frame /\ net[k] # {}
    BY <1>8 DEF RecvByeIn, Frame
  <2>2. \/ /\ phase[l] = "answered"
           /\ close_handler(to[k], FALSE, Moved("draining"), nh)
        \/ /\ phase[l] \in {"ringing", "up"}
           /\ close_handler(to[k], FALSE, Moved("ended"), nh)
        \/ /\ phase[l] = "leaving"
           /\ phase' = Moved("draining") /\ net' = nh
           /\ UNCHANGED <<free, sess, stats>>
        \/ net' = nh /\ UNCHANGED <<free, sess, stats, phase>>
    BY <1>8 DEF RecvByeIn, l, nh, Moved
  <2>3. CASE phase[l] = "answered"
             /\ close_handler(to[k], FALSE, Moved("draining"), nh)
    BY <1>1, <1>4, <2>1, <2>3, CloseLeg
       DEF Moved, Live, Phase, Waiting, l
  <2>4. CASE phase[l] \in {"ringing", "up"}
             /\ close_handler(to[k], FALSE, Moved("ended"), nh)
    BY <1>1, <1>4, <2>1, <2>4, CloseLeg DEF Moved, Live, Phase, Over, l
  <2>5. CASE /\ phase[l] = "leaving"
             /\ phase' = Moved("draining") /\ net' = nh
             /\ UNCHANGED <<free, sess, stats>>
    BY <1>1, <1>4, <2>1, <2>5, WaitingLeg DEF Moved, Waiting, Over, l
  <2>6. CASE net' = nh /\ UNCHANGED <<free, sess, stats, phase>>
    BY <1>1, <1>4, <2>1, <2>6, StillLeg DEF l
  <2> QED
    BY <2>2, <2>3, <2>4, <2>5, <2>6
<1>9. CASE Lose(k)
  <2>1. Frame /\ UNCHANGED <<free, sess, stats, phase>>
    BY <1>9 DEF Lose, Frame
  <2>2. PICK m \in net[k] : net' = [net EXCEPT ![k] = @ \ {m}]
    BY <1>9 DEF Lose
  <2>3. NoInviteSent(net')
    BY <1>2, <1>5, <2>2 DEF NoInviteSent
  <2> QED
    BY <1>1, <2>1, <2>3, StillLeg DEF l
<1> QED
  BY <1>6, <1>7, <1>8, <1>9

-----------------------------------------------------------------------------
(* Steps of the registration keep the invariant.                           *)
LEMMA RegistrationInv ==
    ASSUME Inv, InitialRegistrar_act \/ Registration PROVE Inv'
<1> USE DEF Inv
<1>1. /\ UNCHANGED <<role, sess, from, to, phase, net, actual>>
      /\ \/ UNCHANGED <<free, all>>
         \/ \E u \in UE : free' = free \cup {u} /\ all' = all \cup {u}
  BY DEF InitialRegistrar_act, Registration, register_ok, register_failed,
         reg_tmr_handler, mark_ua_registered
<1>2. stage' \in {"register", "call", "cleanup"} /\ stats' \in Stats
  BY DEF InitialRegistrar_act, Registration, register_ok, register_failed,
         reg_tmr_handler, TypeOK, Stats
<1>3. reg' \in [UE -> {"unsent", "null", "pending", "registered", "failed"}]
  BY DEF InitialRegistrar_act, Registration, register_ok, register_failed,
         reg_tmr_handler, TypeOK
<1>4. TypeOK'
  BY <1>1, <1>2, <1>3 DEF TypeOK
<1>5. Parties' /\ Fresh' /\ InviteOnce'
  BY <1>1 DEF Parties, Fresh, InviteOnce
<1>6. NoDangling'
  BY <1>1 DEF NoDangling, Owner
<1> QED
  BY <1>4, <1>5, <1>6

(* An INVITE that reaches its callee keeps the invariant: the new leg had  *)
(* no session before.                                                      *)
LEMMA RecvInviteInv ==
    ASSUME Inv, NEW k \in CallId, RecvInvite(k) PROVE Inv'
<1> DEFINE u == to[k]
<1>1. /\ u \in all /\ u \in UE /\ phase[In(k)] = "none" /\ In(k) \in Leg
      /\ "INVITE" \in net[k] /\ Owner(In(k)) = u
  BY LegFacts, OwnerFacts DEF RecvInvite, Inv, Parties, InviteOnce, TypeOK
<1>2. /\ role' = [role EXCEPT ![u] = "callee"] /\ free' = free \ {u}
      /\ UNCHANGED <<stage, reg, all, from, to, actual, stats>>
  BY DEF RecvInvite, mark_ua_in_call
<1>3. /\ net' \in [CallId -> SUBSET Msg]
      /\ \A j \in CallId \ {k} : net'[j] = net[j]
      /\ "INVITE" \notin net'[k]
  <2>1. net \in [CallId -> SUBSET Msg] /\ {"OK"} \in SUBSET Msg
    BY DEF Inv, TypeOK, Msg
  <2>2. \/ net' = [net EXCEPT ![k] = @ \ {"INVITE"}]
        \/ net' = [[net EXCEPT ![k] = @ \ {"INVITE"}]
                     EXCEPT ![k] = @ \cup {"OK"}]
    BY DEF RecvInvite
  <2> QED
    BY <2>1, <2>2
<1>4. \/ UNCHANGED <<sess, phase>>
      \/ \E p \in {"answered", "ringing"} :
            /\ sess' = [sess EXCEPT ![u] = In(k)]
            /\ phase' = [phase EXCEPT ![In(k)] = p]
  BY DEF RecvInvite
<1>5. {"answered", "ringing"} \subseteq Live /\ Live \subseteq Phase
      /\ "none" \notin Live
  BY DEF Live, Phase
<1> HIDE DEF u
<1>6. phase' \in [Leg -> Phase] /\ sess' \in [UE -> Leg \cup {None}]
  BY <1>1, <1>4, <1>5 DEF Inv, TypeOK
<1>7. TypeOK'
  BY <1>1, <1>2, <1>3, <1>6 DEF Inv, TypeOK
<1>8. \A l \in Leg : l # In(k) => phase'[l] = phase[l]
  BY <1>1, <1>4 DEF Inv, TypeOK
<1>9. ~(k > actual)
  BY <1>1 DEF Inv, Fresh
<1>10. \A j \in CallId : Out(j) \in Leg /\ In(j) \in Leg /\ Out(j) # In(k)
          /\ (j # k => In(j) # In(k))
  BY LegFacts
<1>11. Parties'
  BY <1>1, <1>2, <1>3, <1>8, <1>10 DEF Inv, Parties, u
<1>12. Fresh'
  BY <1>2, <1>3, <1>8, <1>9, <1>10 DEF Inv, Fresh
<1>13. InviteOnce'
  BY <1>3, <1>8, <1>10 DEF Inv, InviteOnce
<1>14. NoDangling'
  <2> SUFFICES ASSUME NEW v \in UE, sess'[v] # None
               PROVE  Owner(sess[v])' = v /\ phase'[sess'[v]] \in Live
    BY DEF NoDangling
  <2>1. CASE sess'[v] = sess[v]
    <3>1. Owner(sess[v]) = v /\ phase[sess[v]] \in Live /\ sess[v] \in Leg
      BY <2>1 DEF Inv, TypeOK, NoDangling
    <3>2. sess[v] # In(k)
      BY <1>1, <1>5, <3>1
    <3> QED
      BY <1>2, <1>8, <2>1, <3>1, <3>2 DEF Owner
  <2>2. CASE sess'[v] # sess[v]
    <3>1. v = u /\ sess'[v] = In(k) /\ phase'[In(k)] \in Live
      BY <1>1, <1>4, <1>5, <2>2 DEF Inv, TypeOK
    <3> QED
      BY <1>1, <1>2, <3>1 DEF Owner
  <2> QED
    BY <2>1, <2>2
<1> QED
  BY <1>7, <1>11, <1>12, <1>13, <1>14 DEF Inv

(* What a tick of the call timer does: the calls `new' are made between    *)
(* the UEs a[k] and b[k], and `ok' are those whose INVITE goes out.        *)
CallsMade(new, ok, a, b) ==
    /\ ok \subseteq new /\ new \subseteq CallId
    /\ \A k \in CallId : k \in new => k > actual /\ k <= actual'
    /\ \A k \in CallId : k > actual' => k > actual /\ k \notin new
    /\ actual' \in 0..MaxDue
    /\ a \in [new -> free] /\ b \in [new -> free]
    /\ \A k \in new : a[k] # b[k]
    /\ \A k, j \in new : k # j => /\ a[k] # a[j] /\ b[k] # b[j]
                                  /\ a[k] # b[j]
    /\ \A u : u \in free' <=>
             u \in free /\ \A k \in new : u # a[k] /\ u # b[k]
    /\ \A k \in new : from'[k] = a[k] /\ to'[k] = b[k]
    /\ \A k \in CallId \ new : from'[k] = from[k] /\ to'[k] = to[k]
    /\ \A k \in new : role'[a[k]] = "caller"
    /\ \A u \in UE : (\A k \in new : a[k] # u) => role'[u] = role[u]
    /\ \A k \in ok : sess'[a[k]] = Out(k)
    /\ \A u \in UE : (\A k \in ok : a[k] # u) => sess'[u] = sess[u]
    /\ \A k \in ok : phase'[Out(k)] = "inviting" /\ net'[k] = {"INVITE"}
    /\ \A k \in CallId \ ok : phase'[Out(k)] = phase[Out(k)]
                              /\ net'[k] = net[k]
    /\ \A k \in CallId : phase'[In(k)] = phase[In(k)]
    /\ UNCHANGED <<reg, all>>
    /\ ~Faults => ok = new
    /\ new = (actual + 1)..actual' /\ actual <= actual'
    /\ stats' = [stats EXCEPT !.init_call = @ + (actual' - actual)]
    /\ stage = "call" /\ stage' = StageAfterCalls(actual')

LEMMA SchedulerFacts ==
    ASSUME Inv, CallScheduler_act
    PROVE  /\ TypeOK'
           /\ \E new, ok \in SUBSET CallId :
              \E a, b \in [new -> free] : CallsMade(new, ok, a, b)
<1> DEFINE New(m) == (actual + 1)..(actual + m)
           Made(new, a, b, bad) ==
          /\ \A k \in new : a[k] # b[k]
          /\ \A k, j \in new : k # j => {a[k], b[k]} \cap {a[j], b[j]} = {}
          /\ free' = free \ ({a[k] : k \in new} \cup {b[k] : k \in new})
          /\ from' = [k \in CallId |-> IF k \in new THEN a[k] ELSE from[k]]
          /\ to' = [k \in CallId |-> IF k \in new THEN b[k] ELSE to[k]]
          /\ role' = [u \in UE |-> IF u \in {a[k] : k \in new}
                                   THEN "caller" ELSE role[u]]
          /\ sess' = [u \in UE |-> IF \E k \in new \ bad : a[k] = u
                                   THEN Out(CHOOSE k \in new \ bad : a[k] = u)
                                   ELSE sess[u]]
          /\ phase' = [l \in Leg |-> IF l[2] = "out" /\ l[1] \in new \ bad
                                     THEN "inviting" ELSE phase[l]]
          /\ net' = [k \in CallId |-> IF k \in new \ bad
                                      THEN {"INVITE"} ELSE net[k]]
           Tick(expected, m, a, b, bad) ==
             LET callers == {a[k] : k \in New(m)}
                 callees == {b[k] : k \in New(m)}
                 short == m < expected - actual
             IN
             /\ \A k \in New(m) : a[k] # b[k]
             /\ \A k, j \in New(m) :
                   k # j => {a[k], b[k]} \cap {a[j], b[j]} = {}
             /\ short => \A u, v \in free \ (callers \cup callees) : u = v
             /\ actual' = actual + m
             /\ free' = PoolAfterLoop(callers, callees, short)
             /\ from' = [k \in CallId |-> IF k \in New(m)
                                          THEN a[k] ELSE from[k]]
             /\ to' = [k \in CallId |-> IF k \in New(m) THEN b[k] ELSE to[k]]
             /\ role' = [u \in UE |-> IF u \in callers
                                      THEN "caller" ELSE role[u]]
             /\ sess' = [u \in UE |->
                           IF \E k \in New(m) \ bad : a[k] = u
                           THEN Out(CHOOSE k \in New(m) \ bad : a[k] = u)
                           ELSE sess[u]]
             /\ phase' = [l \in Leg |->
                           IF l[2] = "out" /\ l[1] \in New(m) \ bad
                           THEN "inviting" ELSE phase[l]]
             /\ net' = [k \in CallId |-> IF k \in New(m) \ bad
                                         THEN {"INVITE"} ELSE net[k]]
             /\ stats' = [stats EXCEPT !.init_call = @ + m]
<1>1. \E expected \in actual..MaxDue : \E m \in 0..(expected - actual) :
      \E a \in [New(m) -> free], b \in [New(m) -> free] :
      \E bad \in SUBSET (IF Faults THEN New(m) ELSE {}) :
         Tick(expected, m, a, b, bad)
  BY DEF CallScheduler_act
<1> HIDE DEF Tick, Made
<1>2. PICK expected \in actual..MaxDue : \E m \in 0..(expected - actual) :
      \E a \in [New(m) -> free], b \in [New(m) -> free] :
      \E bad \in SUBSET (IF Faults THEN New(m) ELSE {}) :
         Tick(expected, m, a, b, bad)
  BY <1>1
<1>3. PICK m \in 0..(expected - actual) :
      \E a \in [New(m) -> free], b \in [New(m) -> free] :
      \E bad \in SUBSET (IF Faults THEN New(m) ELSE {}) :
         Tick(expected, m, a, b, bad)
  BY <1>2
<1> DEFINE new == New(m)
<1>4. PICK a \in [new -> free], b \in [new -> free], bad \in SUBSET new :
         /\ actual' = actual + m /\ (~Faults => bad = {})
         /\ stats' = [stats EXCEPT !.init_call = @ + m]
         /\ Made(new, a, b, bad)
  <2>1. PICK a \in [new -> free], b \in [new -> free],
             bad \in SUBSET (IF Faults THEN new ELSE {}) :
           Tick(expected, m, a, b, bad)
    BY <1>3
  <2>2. bad \in SUBSET new /\ (~Faults => bad = {})
    BY <2>1
  <2>3. /\ actual' = actual + m
        /\ stats' = [stats EXCEPT !.init_call = @ + m]
        /\ Made(new, a, b, bad)
    BY <2>1 DEF Tick, Made, PoolAfterLoop
  <2> QED
    BY <2>1, <2>2, <2>3
<1> DEFINE ok == new \ bad
<1>5. /\ actual \in Int /\ m \in Int /\ MaxDue \in Int /\ actual >= 0
      /\ m >= 0 /\ actual + m <= MaxDue
  BY <1>2, <1>3, BoundsAssumption DEF Inv, TypeOK
<1>6. /\ ok \subseteq new /\ new \subseteq CallId
      /\ \A k \in CallId : k \in new => k > actual /\ k <= actual'
      /\ \A k \in CallId : k > actual' => k > actual /\ k \notin new
      /\ actual' \in 0..MaxDue
  BY <1>4, <1>5 DEF CallId
<1>7. /\ UNCHANGED <<reg, all>>
      /\ stage' \in {"register", "call", "cleanup"}
      /\ stage = "call" /\ stage' = StageAfterCalls(actual')
  BY DEF CallScheduler_act, StageAfterCalls
<1>a. /\ new = (actual + 1)..actual' /\ actual <= actual'
      /\ actual' - actual = m
  BY <1>4, <1>5
<1>b. stats' = [stats EXCEPT !.init_call = @ + (actual' - actual)]
  BY <1>4, <1>a
<1> HIDE DEF new
<1> USE DEF Made
<1>8. free \subseteq UE
  BY DEF Inv, TypeOK
<1>9. \A k, j \in new : k # j => a[k] # a[j] /\ b[k] # b[j] /\ a[k] # b[j]
  BY <1>4
<1>10. \A k \in ok : sess'[a[k]] = Out(k)
  <2> SUFFICES ASSUME NEW k \in ok PROVE sess'[a[k]] = Out(k)
    OBVIOUS
  <2>1. a[k] \in UE /\ k \in new
    BY <1>4, <1>8
  <2>2. sess'[a[k]] = Out(CHOOSE j \in ok : a[j] = a[k])
    BY <1>4, <2>1
  <2>3. (CHOOSE j \in ok : a[j] = a[k]) = k
    BY <1>9, <2>1
  <2> QED
    BY <2>2, <2>3
<1>11. /\ \A k \in ok : phase'[Out(k)] = "inviting" /\ net'[k] = {"INVITE"}
       /\ \A k \in CallId \ ok : phase'[Out(k)] = phase[Out(k)]
                                 /\ net'[k] = net[k]
       /\ \A k \in CallId : phase'[In(k)] = phase[In(k)]
  BY <1>4, <1>6, LegFacts
<1>12. CallsMade(new, ok, a, b)
  <2>1. \A u \in UE : (\A k \in ok : a[k] # u) => sess'[u] = sess[u]
    BY <1>4
  <2>2. /\ \A k \in new : role'[a[k]] = "caller"
        /\ \A u \in UE : (\A k \in new : a[k] # u) => role'[u] = role[u]
    BY <1>4, <1>8
  <2>3. /\ \A k \in new : from'[k] = a[k] /\ to'[k] = b[k]
        /\ \A k \in CallId \ new : from'[k] = from[k] /\ to'[k] = to[k]
    BY <1>4, <1>6
  <2>4. /\ \A u : u \in free' <=>
                 u \in free /\ \A k \in new : u # a[k] /\ u # b[k]
        /\ \A k \in new : a[k] # b[k]
    BY <1>4
  <2>5. a \in [new -> free] /\ b \in [new -> free] /\ (~Faults => ok = new)
    BY <1>4
  <2> HIDE DEF ok
  <2> QED
    BY <1>6, <1>7, <1>9, <1>10, <1>11, <1>a, <1>b, <2>1, <2>2, <2>3, <2>4, <2>5
       DEF CallsMade
<1>13. TypeOK'
  <2>1. sess' \in [UE -> Leg \cup {None}]
    <3> SUFFICES ASSUME NEW u \in UE PROVE sess'[u] \in Leg \cup {None}
      BY <1>4
    <3>1. CASE \E k \in ok : a[k] = u
      BY <1>6, <1>10, <3>1, LegFacts
    <3>2. CASE ~\E k \in ok : a[k] = u
      BY <1>4, <3>2 DEF Inv, TypeOK
    <3> QED
      BY <3>1, <3>2
  <2>2. phase' \in [Leg -> Phase] /\ net' \in [CallId -> SUBSET Msg]
    BY <1>4 DEF Inv, TypeOK, Phase, Live, Msg
  <2>3. /\ from' \in [CallId -> UE \cup {None}]
        /\ to' \in [CallId -> UE \cup {None}]
    BY <1>4, <1>8 DEF Inv, TypeOK
  <2>4. stats' \in Stats /\ free' \subseteq all'
    BY <1>4, <1>5, <1>7 DEF Inv, TypeOK, Stats
  <2>5. role' \in [UE -> {"unset", "caller", "callee"}]
    BY <1>4 DEF Inv, TypeOK
  <2> QED
    BY <1>6, <1>7, <2>1, <2>2, <2>3, <2>4, <2>5 DEF Inv, TypeOK
<1>14. new \in SUBSET CallId /\ ok \in SUBSET CallId
  BY <1>6
<1> QED
  BY <1>12, <1>13, <1>14

LEMMA SchedulerInv ==
    ASSUME Inv, CallScheduler_act PROVE Inv'
<1>1. TypeOK'
  BY SchedulerFacts
<1>2. PICK new \in SUBSET CallId, ok \in SUBSET CallId :
        \E a, b \in [new -> free] : CallsMade(new, ok, a, b)
  BY SchedulerFacts
<1>3. PICK a \in [new -> free], b \in [new -> free] :
        CallsMade(new, ok, a, b)
  BY <1>2
<1>4. free \subseteq all /\ all' = all /\ all \subseteq UE
  BY <1>3 DEF Inv, TypeOK, CallsMade
<1>5. ok \subseteq new /\ \A k \in CallId : k \in new => k > actual
  BY <1>3 DEF CallsMade
<1>6. \A k \in new : phase[Out(k)] = "none" /\ phase[In(k)] = "none"
                     /\ net[k] = {}
  BY <1>5 DEF Inv, Fresh
<1>7. Parties'
  <2> SUFFICES ASSUME NEW k \in CallId
               PROVE  /\ phase'[Out(k)] # "none" => from'[k] \in all'
                      /\ ("INVITE" \in net'[k] \/ phase'[In(k)] # "none")
                         => to'[k] \in all'
    BY DEF Parties
  <2>1. CASE k \in new
    <3>1. from'[k] = a[k] /\ to'[k] = b[k]
      BY <1>3, <2>1 DEF CallsMade
    <3> QED
      BY <1>4, <2>1, <3>1
  <2>2. CASE k \notin new
    <3>1. /\ from'[k] = from[k] /\ to'[k] = to[k]
          /\ phase'[Out(k)] = phase[Out(k)] /\ net'[k] = net[k]
          /\ phase'[In(k)] = phase[In(k)]
      BY <1>3, <1>5, <2>2 DEF CallsMade
    <3> QED
      BY <1>4, <3>1 DEF Inv, Parties
  <2> QED
    BY <2>1, <2>2
<1>8. Fresh'
  BY <1>3, <1>5 DEF Inv, Fresh, CallsMade
<1>9. InviteOnce'
  BY <1>3, <1>5, <1>6 DEF Inv, InviteOnce, CallsMade
<1>10. NoDangling'
  <2> SUFFICES ASSUME NEW v \in UE, sess'[v] # None
               PROVE  Owner(sess[v])' = v /\ phase'[sess'[v]] \in Live
    BY DEF NoDangling
  <2>1. CASE \E k \in ok : a[k] = v
    <3>1. PICK k \in ok : a[k] = v
      BY <2>1
    <3>2. sess'[v] = Out(k) /\ phase'[Out(k)] = "inviting" /\ from'[k] = v
      BY <1>3, <1>5, <3>1 DEF CallsMade
    <3> QED
      BY <3>1, <3>2, LegFacts DEF Owner, Live
  <2>2. CASE \A k \in ok : a[k] # v
    <3>1. sess'[v] = sess[v]
      BY <1>3, <2>2 DEF CallsMade
    <3>2. /\ sess[v] \in Leg /\ Owner(sess[v]) = v /\ phase[sess[v]] \in Live
          /\ phase[sess[v]] # "none"
      BY <3>1 DEF Inv, TypeOK, NoDangling, Live
    <3> DEFINE k == sess[v][1]
    <3>3. k \in CallId /\ k \notin new
      BY <1>6, <3>2, LegFacts
    <3>4. /\ from'[k] = from[k] /\ to'[k] = to[k]
          /\ phase'[Out(k)] = phase[Out(k)] /\ phase'[In(k)] = phase[In(k)]
      BY <1>3, <1>5, <3>3 DEF CallsMade
    <3>5. sess[v] = Out(k) \/ sess[v] = In(k)
      BY <3>2, LegFacts
    <3> QED
      BY <3>1, <3>2, <3>4, <3>5 DEF Owner
  <2> QED
    BY <2>1, <2>2
<1> QED
  BY <1>1, <1>7, <1>8, <1>9, <1>10 DEF Inv

(* The invariant holds initially and is kept by every step.                *)
LEMMA InvInit == Init => Inv
<1> SUFFICES ASSUME Init PROVE Inv
  OBVIOUS
<1> USE DEF Init
<1>1. TypeOK
  BY BoundsAssumption DEF TypeOK, Phase, Stats
<1>2. Parties /\ Fresh /\ InviteOnce
  BY LegFacts DEF Parties, Fresh, InviteOnce
<1>3. NoDangling
  BY DEF NoDangling
<1> QED
  BY <1>1, <1>2, <1>3 DEF Inv

LEMMA InvNext == Inv /\ [Next]_vars => Inv'
<1> SUFFICES ASSUME Inv, [Next]_vars PROVE Inv'
  OBVIOUS
<1>1. CASE InitialRegistrar_act \/ Registration
  BY <1>1, RegistrationInv
<1>2. CASE CallScheduler_act
  BY <1>2, SchedulerInv
<1>3. ASSUME NEW k \in CallId, RecvInvite(k) PROVE Inv'
  BY <1>3, RecvInviteInv
<1>4. ASSUME NEW k \in CallId, RecvOK(k) \/ InviteFails(k) \/ RecvByeOut(k)
      PROVE  Inv'
  BY <1>4, OutLegSteps, LegStepInv, LegFacts
<1>5. ASSUME NEW k \in CallId,
             RecvAck(k) \/ ReplyTimeout(k) \/ RecvByeIn(k) \/ Lose(k)
      PROVE  Inv'
  BY <1>5, InLegSteps, LegStepInv, LegFacts
<1>6. CASE UNCHANGED vars
  BY <1>6 DEF vars, Inv, TypeOK, Parties, Fresh, InviteOnce, NoDangling, Owner
<1> QED
  BY <1>1, <1>2, <1>3, <1>4, <1>5, <1>6 DEF Next, Deliver, Idle

LEMMA InvAlways == Spec => []Inv
  BY InvInit, InvNext, PTL DEF Spec

(* Type correctness, in every environment.                                 *)
THEOREM TypeCorrect == Spec => []TypeOK
<1>1. Inv => TypeOK
  BY DEF Inv
<1> QED
  BY <1>1, InvAlways, PTL

(* UserAgent::sess never dangles, even when refreshed registrations let a  *)
(* UE into several calls at once and the handlers of one session drop      *)
(* another.                                                                *)
THEOREM SessNeverDangles == Spec => []NoDangling
<1>1. Inv => NoDangling
  BY DEF Inv
<1> QED
  BY <1>1, InvAlways, PTL
-----------------------------------------------------------------------------
(* While no registration is refreshed a UE is in one call at a time.       *)

(* No more than one leg reports to a UE, and none to one that is free or   *)
(* about to be called.                                                     *)
LEMMA NoLegOf ==
    ASSUME Inv, Exclusive, NEW l \in Leg, phase[l] \in Live
    PROVE  /\ Owner(l) \in UE /\ Owner(l) \in all
           /\ sess[Owner(l)] = l /\ Owner(l) \notin free
           /\ \A k \in CallId : "INVITE" \in net[k] => to[k] # Owner(l)
<1>1. phase[l] # "none"
  BY DEF Live
<1>2. Owner(l) \in UE /\ Owner(l) \in all /\ sess[Owner(l)] = l /\ l # None
  BY <1>1, OwnerFacts, LegFacts DEF Exclusive, NoOrphan
<1> QED
  BY <1>2 DEF Exclusive, FreeMeansIdle, CalleeReserved

LEMMA ExclusiveLegStep ==
    ASSUME Inv, Exclusive, NEW l \in Leg, LegStep(l) PROVE Exclusive'
<1>0. UNCHANGED <<stage, reg, all, role, from, to, actual>>
  BY DEF LegStep
<1>a. Unregistered'
  BY <1>0 DEF Exclusive, Unregistered
<1>1. CASE QuietLegs /\ NoInviteSent(net') /\ UNCHANGED <<free, sess>>
  <2>1. FreeMeansIdle'
    BY <1>1 DEF Exclusive, FreeMeansIdle
  <2>2. NoOrphan'
    BY <1>0, <1>1 DEF Exclusive, NoOrphan, QuietLegs, Owner
  <2>3. CalleeReserved'
    BY <1>0, <1>1 DEF Exclusive, CalleeReserved, NoInviteSent
  <2> QED
    BY <1>a, <2>1, <2>2, <2>3 DEF Exclusive
<1>2. CASE phase[l] \in Live
           /\ \E p \in Phase \ {"none"} : \E nt \in [CallId -> SUBSET Msg] :
                NoInviteSent(nt) /\ HandlerDrops(l, p, nt)
  <2> DEFINE u == Owner(l)
  <2>1. PICK p \in Phase \ {"none"}, nt \in [CallId -> SUBSET Msg] :
           NoInviteSent(nt) /\ HandlerDrops(l, p, nt)
    BY <1>2
  <2>2. phase[l] # "none"
    BY <1>2 DEF Live
  <2>3. /\ \A m \in Leg : m # l /\ m # sess[u] => phase'[m] = phase[m]
        /\ sess[u] # None => phase'[sess[u]] \notin Live
        /\ NoInviteSent(net')
    BY <2>1, <2>2, HandlerFacts
  <2>4. free' = free \cup {u} /\ sess' = [sess EXCEPT ![u] = None]
    BY <2>1 DEF HandlerDrops
  <2>5. /\ u \in UE /\ u \in all /\ sess[u] = l /\ l # None
        /\ \A k \in CallId : "INVITE" \in net[k] => to[k] # u
    BY <1>2, NoLegOf, LegFacts
  <2>6. sess \in [UE -> Leg \cup {None}] /\ all \subseteq UE /\ free \subseteq all
    BY DEF Inv, TypeOK
  <2> HIDE DEF u
  <2>7. FreeMeansIdle'
    BY <2>4, <2>5, <2>6 DEF Exclusive, FreeMeansIdle
  <2>8. NoOrphan'
    <3> SUFFICES ASSUME NEW m \in Leg, phase'[m] \in Live
                 PROVE  /\ sess'[Owner(m)'] = m
                        /\ role'[Owner(m)'] =
                              (IF m[2] = "out" THEN "caller" ELSE "callee")
      BY DEF NoOrphan
    <3>1. Owner(m)' = Owner(m)
      BY <1>0 DEF Owner
    <3>2. m # l /\ phase[m] \in Live
      BY <2>3, <2>5
    <3>3. Owner(m) \in UE /\ sess[Owner(m)] = m
      BY <3>2, NoLegOf
    <3>4. Owner(m) # u
      BY <2>5, <3>2, <3>3
    <3>5. sess'[Owner(m)] = m
      BY <2>4, <2>6, <3>3, <3>4
    <3>6. role[Owner(m)] = (IF m[2] = "out" THEN "caller" ELSE "callee")
      BY <3>2 DEF Exclusive, NoOrphan
    <3> QED
      BY <1>0, <3>1, <3>5, <3>6
  <2>9. CalleeReserved'
    <3> SUFFICES ASSUME NEW k \in CallId, "INVITE" \in net'[k]
                 PROVE  /\ to'[k] \in all' \ free'
                        /\ sess'[to'[k]] = None
                        /\ \A j \in CallId \ {k} :
                              "INVITE" \in net'[j] => to'[j] # to'[k]
      BY DEF CalleeReserved
    <3>1. "INVITE" \in net[k] /\ to[k] # u
      BY <2>3, <2>5 DEF NoInviteSent
    <3>2. to[k] \in all \ free /\ sess[to[k]] = None
      BY <3>1 DEF Exclusive, CalleeReserved
    <3>3. \A j \in CallId \ {k} : "INVITE" \in net'[j] => to[j] # to[k]
      BY <2>3, <3>1 DEF Exclusive, CalleeReserved, NoInviteSent
    <3> QED
      BY <1>0, <2>4, <2>6, <3>1, <3>2, <3>3
  <2> QED
    BY <1>a, <2>7, <2>8, <2>9 DEF Exclusive
<1> QED
  BY <1>1, <1>2 DEF LegStep

LEMMA ExclusiveRegistration ==
    ASSUME Inv, Exclusive, ~Refresh, InitialRegistrar_act \/ Registration
    PROVE  Exclusive'
<1>0. UNCHANGED <<role, sess, from, to, phase, net>>
  BY DEF InitialRegistrar_act, Registration, register_ok, register_failed,
         reg_tmr_handler
<1>t. /\ reg \in [UE -> {"unsent", "null", "pending", "registered", "failed"}]
      /\ all \subseteq UE /\ free \subseteq all
  BY DEF Inv, TypeOK
<1>1. NoOrphan'
  BY <1>0 DEF Exclusive, NoOrphan, Owner
<1>2. CASE InitialRegistrar_act
  <2>1. UNCHANGED <<free, all>>
    BY <1>2 DEF InitialRegistrar_act
  <2>2. \A u \in UE : reg'[u] # "registered" => reg[u] # "registered"
    BY <1>2, <1>t DEF InitialRegistrar_act
  <2> QED
    BY <1>0, <1>1, <2>1, <2>2
       DEF Exclusive, FreeMeansIdle, CalleeReserved, Unregistered
<1>3. ASSUME NEW u \in UE, register_failed(u) \/ reg_tmr_handler(u)
      PROVE  Exclusive'
  <2>1. UNCHANGED <<free, all>>
    BY <1>3 DEF register_failed, reg_tmr_handler
  <2>2. \A v \in UE : reg'[v] # "registered" => reg[v] # "registered"
    BY <1>3, <1>t DEF register_failed, reg_tmr_handler
  <2> QED
    BY <1>0, <1>1, <2>1, <2>2
       DEF Exclusive, FreeMeansIdle, CalleeReserved, Unregistered
<1>4. ASSUME NEW u \in UE, register_ok(u) PROVE Exclusive'
  <2>1. /\ reg[u] = "pending" /\ reg' = [reg EXCEPT ![u] = "registered"]
        /\ free' = free \cup {u} /\ all' = all \cup {u}
    BY <1>4 DEF register_ok, mark_ua_registered
  <2>2. u \notin all
    BY <2>1 DEF Exclusive, Unregistered
  <2>3. sess[u] = None
    <3> SUFFICES ASSUME sess[u] # None PROVE FALSE
      OBVIOUS
    <3>1. sess[u] \in Leg /\ Owner(sess[u]) = u /\ phase[sess[u]] # "none"
      BY DEF Inv, TypeOK, NoDangling, Live
    <3> QED
      BY <2>2, <3>1, OwnerFacts
  <2>4. FreeMeansIdle'
    BY <1>0, <2>1, <2>3 DEF Exclusive, FreeMeansIdle
  <2>5. CalleeReserved'
    BY <1>0, <2>1, <2>2 DEF Exclusive, CalleeReserved
  <2>6. Unregistered'
    BY <1>t, <2>1 DEF Exclusive, Unregistered
  <2> QED
    BY <1>1, <2>4, <2>5, <2>6 DEF Exclusive
<1> QED
  BY <1>2, <1>3, <1>4 DEF Registration

LEMMA ExclusiveInvite ==
    ASSUME Inv, Exclusive, NEW k \in CallId, RecvInvite(k) PROVE Exclusive'
<1> DEFINE u == to[k]
<1>1. /\ "INVITE" \in net[k] /\ u \in all \ free /\ sess[u] = None
      /\ \A j \in CallId \ {k} : "INVITE" \in net[j] => to[j] # u
  BY DEF RecvInvite, Exclusive, CalleeReserved
<1>2. /\ role' = [role EXCEPT ![u] = "callee"] /\ free' = free \ {u}
      /\ UNCHANGED <<reg, all, from, to>>
  BY DEF RecvInvite, mark_ua_in_call
<1>3. /\ \A j \in CallId \ {k} : net'[j] = net[j]
      /\ "INVITE" \notin net'[k]
  <2>1. net \in [CallId -> SUBSET Msg] /\ {"OK"} \in SUBSET Msg
    BY DEF Inv, TypeOK, Msg
  <2>2. \/ net' = [net EXCEPT ![k] = @ \ {"INVITE"}]
        \/ net' = [[net EXCEPT ![k] = @ \ {"INVITE"}]
                     EXCEPT ![k] = @ \cup {"OK"}]
    BY DEF RecvInvite
  <2> QED
    BY <2>1, <2>2
<1>4. \/ UNCHANGED <<sess, phase>>
      \/ \E p \in {"answered", "ringing"} :
            /\ sess' = [sess EXCEPT ![u] = In(k)]
            /\ phase' = [phase EXCEPT ![In(k)] = p]
  BY DEF RecvInvite
<1>5. /\ u \in UE /\ free \subseteq all /\ all \subseteq UE
      /\ sess \in [UE -> Leg \cup {None}] /\ phase \in [Leg -> Phase]
      /\ role \in [UE -> {"unset", "caller", "callee"}]
  BY <1>1 DEF Inv, TypeOK
<1>6. /\ \A m \in Leg : Owner(m)' = Owner(m)
      /\ In(k) \in Leg /\ Owner(In(k)) = u /\ In(k)[2] = "in" /\ None \notin Leg
  BY <1>2, LegFacts, OwnerFacts DEF Owner
<1>7. \A m \in Leg : phase[m] \in Live =>
         Owner(m) \in UE /\ Owner(m) # u /\ sess[Owner(m)] = m
  BY <1>1, <1>6, NoLegOf
<1> HIDE DEF u
<1>8. \A v \in UE \ {u} : sess'[v] = sess[v] /\ role'[v] = role[v]
  BY <1>2, <1>4, <1>5
<1>9. FreeMeansIdle'
  BY <1>2, <1>5, <1>8 DEF Exclusive, FreeMeansIdle
<1>10. NoOrphan'
  <2> SUFFICES ASSUME NEW m \in Leg, phase'[m] \in Live
               PROVE  /\ sess'[Owner(m)'] = m
                      /\ role'[Owner(m)'] =
                            (IF m[2] = "out" THEN "caller" ELSE "callee")
    BY DEF NoOrphan
  <2>1. CASE phase[m] \in Live
    <3>1. role[Owner(m)] = (IF m[2] = "out" THEN "caller" ELSE "callee")
      BY <2>1 DEF Exclusive, NoOrphan
    <3> QED
      BY <1>6, <1>7, <1>8, <2>1, <3>1
  <2>2. CASE phase[m] \notin Live
    <3>1. m = In(k) /\ sess' = [sess EXCEPT ![u] = In(k)]
      BY <1>4, <1>5, <2>2
    <3> QED
      BY <1>2, <1>5, <1>6, <3>1
  <2> QED
    BY <2>1, <2>2
<1>11. CalleeReserved'
  <2> SUFFICES ASSUME NEW j \in CallId, "INVITE" \in net'[j]
               PROVE  /\ to'[j] \in all' \ free'
                      /\ sess'[to'[j]] = None
                      /\ \A i \in CallId \ {j} :
                            "INVITE" \in net'[i] => to'[i] # to'[j]
    BY DEF CalleeReserved
  <2>1. j # k /\ "INVITE" \in net[j]
    BY <1>3
  <2>2. /\ to[j] \in all \ free /\ sess[to[j]] = None /\ to[j] # u
        /\ \A i \in CallId \ {j} : "INVITE" \in net[i] => to[i] # to[j]
    BY <1>1, <2>1 DEF Exclusive, CalleeReserved
  <2>3. \A i \in CallId : "INVITE" \in net'[i] => "INVITE" \in net[i]
    BY <1>3
  <2> QED
    BY <1>2, <1>5, <1>8, <2>2, <2>3
<1>12. Unregistered'
  BY <1>2 DEF Exclusive, Unregistered
<1> QED
  BY <1>9, <1>10, <1>11, <1>12 DEF Exclusive

LEMMA ExclusiveScheduler ==
    ASSUME Inv, Exclusive, CallScheduler_act PROVE Exclusive'
<1>1. PICK new \in SUBSET CallId, ok \in SUBSET CallId :
        \E a, b \in [new -> free] : CallsMade(new, ok, a, b)
  BY SchedulerFacts
<1>2. PICK a \in [new -> free], b \in [new -> free] :
        CallsMade(new, ok, a, b)
  BY <1>1
<1>3. /\ free \subseteq all /\ all' = all /\ reg' = reg /\ all \subseteq UE
      /\ ok \subseteq new
  BY <1>2 DEF Inv, TypeOK, CallsMade
<1>4. \A k \in new : phase[Out(k)] = "none" /\ phase[In(k)] = "none"
                     /\ net[k] = {}
  BY <1>2 DEF Inv, Fresh, CallsMade
<1>5. \A k \in new : a[k] \in free /\ b[k] \in free /\ a[k] \in UE /\ b[k] \in UE
  BY <1>3
<1>6. \A u \in free : sess[u] = None
  BY DEF Exclusive, FreeMeansIdle
<1>7. Unregistered'
  BY <1>3 DEF Exclusive, Unregistered
<1>8. FreeMeansIdle'
  <2> SUFFICES ASSUME NEW u \in free' PROVE sess'[u] = None
    BY DEF FreeMeansIdle
  <2>1. u \in free /\ \A k \in new : u # a[k]
    BY <1>2 DEF CallsMade
  <2>2. sess'[u] = sess[u]
    BY <1>2, <1>3, <2>1 DEF CallsMade
  <2> QED
    BY <1>6, <2>1, <2>2
<1>9. NoOrphan'
  <2> SUFFICES ASSUME NEW m \in Leg, phase'[m] \in Live
               PROVE  /\ sess'[Owner(m)'] = m
                      /\ role'[Owner(m)'] =
                            (IF m[2] = "out" THEN "caller" ELSE "callee")
    BY DEF NoOrphan
  <2> DEFINE k == m[1]
  <2>1. k \in CallId /\ \/ m[2] = "out" /\ m = Out(k)
                        \/ m[2] = "in" /\ m = In(k)
    BY LegFacts
  <2>2. CASE phase[m] \in Live
    <3>1. /\ Owner(m) \in UE /\ sess[Owner(m)] = m /\ Owner(m) \notin free
          /\ role[Owner(m)] = (IF m[2] = "out" THEN "caller" ELSE "callee")
      BY <2>2, NoLegOf DEF Exclusive, NoOrphan
    <3>2. k \notin new
      BY <1>4, <2>1, <2>2 DEF Live
    <3>3. Owner(m)' = Owner(m)
      BY <1>2, <2>1, <3>2 DEF CallsMade, Owner
    <3>4. \A j \in new : a[j] # Owner(m)
      BY <1>5, <3>1
    <3>5. sess'[Owner(m)] = sess[Owner(m)] /\ role'[Owner(m)] = role[Owner(m)]
      BY <1>2, <1>3, <3>1, <3>4 DEF CallsMade
    <3> QED
      BY <3>1, <3>3, <3>5
  <2>3. CASE phase[m] \notin Live
    <3>1. m = Out(k) /\ k \in ok /\ m[2] = "out"
      BY <1>2, <2>1, <2>3 DEF CallsMade
    <3>2. from'[k] = a[k] /\ sess'[a[k]] = Out(k) /\ role'[a[k]] = "caller"
      BY <1>2, <1>3, <3>1 DEF CallsMade
    <3>3. Owner(m)' = a[k]
      BY <3>1, <3>2 DEF Owner
    <3> QED
      BY <3>1, <3>2, <3>3
  <2> QED
    BY <2>2, <2>3
<1>10. CalleeReserved'
  <2>1. ASSUME NEW k \in CallId, "INVITE" \in net'[k]
        PROVE  \/ k \in new /\ to'[k] = b[k] /\ k \in ok
               \/ k \notin new /\ to'[k] = to[k] /\ "INVITE" \in net[k]
    BY <1>2, <1>4, <2>1 DEF CallsMade
  <2>2. ASSUME NEW k \in CallId, "INVITE" \in net'[k]
        PROVE  to'[k] \in all' \ free' /\ sess'[to'[k]] = None
    <3>1. CASE k \in new /\ to'[k] = b[k] /\ k \in ok
      <4>1. b[k] \notin free' /\ b[k] \in free
        BY <1>2, <1>5, <3>1 DEF CallsMade
      <4>2. \A j \in new : a[j] # b[k]
        BY <1>2, <3>1 DEF CallsMade
      <4>3. sess'[b[k]] = sess[b[k]]
        BY <1>2, <1>3, <1>5, <3>1, <4>2 DEF CallsMade
      <4> QED
        BY <1>3, <1>6, <3>1, <4>1, <4>3
    <3>2. CASE k \notin new /\ to'[k] = to[k] /\ "INVITE" \in net[k]
      <4>1. to[k] \in all \ free /\ sess[to[k]] = None
        BY <3>2 DEF Exclusive, CalleeReserved
      <4>2. to[k] \notin free' /\ \A j \in new : a[j] # to[k]
        BY <1>2, <1>5, <4>1 DEF CallsMade
      <4>3. sess'[to[k]] = sess[to[k]]
        BY <1>2, <1>3, <4>1, <4>2 DEF CallsMade
      <4> QED
        BY <1>3, <3>2, <4>1, <4>2, <4>3
    <3> QED
      BY <2>1, <2>2, <3>1, <3>2
  <2>3. ASSUME NEW k \in CallId, NEW j \in CallId \ {k},
               "INVITE" \in net'[k], "INVITE" \in net'[j]
        PROVE  to'[j] # to'[k]
    <3>1. CASE k \in new /\ j \in new
      BY <1>2, <2>1, <2>3, <3>1 DEF CallsMade
    <3>2. CASE k \notin new /\ j \notin new
      BY <2>1, <2>3, <3>2 DEF Exclusive, CalleeReserved
    <3>3. CASE k \in new /\ j \notin new
      <4>1. to[j] \notin free /\ to'[j] = to[j] /\ to'[k] = b[k]
        BY <2>1, <2>3, <3>3 DEF Exclusive, CalleeReserved
      <4> QED
        BY <1>5, <3>3, <4>1
    <3>4. CASE k \notin new /\ j \in new
      <4>1. to[k] \notin free /\ to'[k] = to[k] /\ to'[j] = b[j]
        BY <2>1, <2>3, <3>4 DEF Exclusive, CalleeReserved
      <4> QED
        BY <1>5, <3>4, <4>1
    <3> QED
      BY <3>1, <3>2, <3>3, <3>4
  <2> QED
    BY <2>2, <2>3 DEF CalleeReserved
<1> QED
  BY <1>7, <1>8, <1>9, <1>10 DEF Exclusive

LEMMA ExclusiveNext ==
    ASSUME Inv, ~Refresh => Exclusive, [Next]_vars PROVE ~Refresh => Exclusive'
<1> SUFFICES ASSUME ~Refresh, Exclusive PROVE Exclusive'
  OBVIOUS
<1>1. CASE InitialRegistrar_act \/ Registration
  BY <1>1, ExclusiveRegistration
<1>2. CASE CallScheduler_act
  BY <1>2, ExclusiveScheduler
<1>3. ASSUME NEW k \in CallId, RecvInvite(k) PROVE Exclusive'
  BY <1>3, ExclusiveInvite
<1>4. ASSUME NEW k \in CallId, RecvOK(k) \/ InviteFails(k) \/ RecvByeOut(k)
      PROVE  Exclusive'
  BY <1>4, OutLegSteps, ExclusiveLegStep, LegFacts
<1>5. ASSUME NEW k \in CallId,
             RecvAck(k) \/ ReplyTimeout(k) \/ RecvByeIn(k) \/ Lose(k)
      PROVE  Exclusive'
  BY <1>5, InLegSteps, ExclusiveLegStep, LegFacts
<1>6. CASE UNCHANGED vars
  BY <1>6 DEF vars, Exclusive, FreeMeansIdle, NoOrphan, CalleeReserved,
              Unregistered, Owner
<1> QED
  BY <1>1, <1>2, <1>3, <1>4, <1>5, <1>6 DEF Next, Deliver, Idle

LEMMA ExclusiveAlways == Spec => [](~Refresh => Exclusive)
<1>1. Init => (~Refresh => Exclusive)
  BY LegFacts DEF Init, Exclusive, FreeMeansIdle, NoOrphan, CalleeReserved,
                  Unregistered, Live
<1>2. Inv /\ (~Refresh => Exclusive) /\ [Next]_vars => (~Refresh => Exclusive)'
  BY ExclusiveNext
<1> QED
  BY <1>1, <1>2, InvAlways, PTL DEF Spec

(* While no registration is refreshed, whatever fails or gets lost: a UE   *)
(* in free_ues has no session, so the scheduler starts no second call.     *)
THEOREM FreeIsIdle == Spec => [](~Refresh => FreeMeansIdle)
<1>1. (~Refresh => Exclusive) => (~Refresh => FreeMeansIdle)
  BY DEF Exclusive
<1> QED
  BY <1>1, ExclusiveAlways, PTL

(* While no registration is refreshed: a session that still calls back is  *)
(* the one its UserAgent points to, and the UserAgent knows its role in it.*)
THEOREM NoSessionOrphaned == Spec => [](~Refresh => NoOrphan)
<1>1. (~Refresh => Exclusive) => (~Refresh => NoOrphan)
  BY DEF Exclusive
<1> QED
  BY <1>1, ExclusiveAlways, PTL

(* While no registration is refreshed: a callee stays reserved, registered *)
(* and without session until its one INVITE comes.                         *)
THEOREM CalleesReserved == Spec => [](~Refresh => CalleeReserved)
<1>1. (~Refresh => Exclusive) => (~Refresh => CalleeReserved)
  BY DEF Exclusive
<1> QED
  BY <1>1, ExclusiveAlways, PTL
-----------------------------------------------------------------------------
(* No UE is lost but with a call that never reached it.                    *)

(* An INVITE that is no longer on its way, and its call has been made.     *)
LEMMA InviteMade ==
    ASSUME Inv, NEW k \in CallId, "INVITE" \in net[k]
    PROVE  k \in 1..actual /\ phase[In(k)] = "none"
<1>1. k \in Int /\ k >= 1 /\ actual \in Int
  BY BoundsAssumption DEF CallId, Inv, TypeOK
<1>2. ~(k > actual)
  BY DEF Inv, Fresh
<1> QED
  BY <1>1, <1>2 DEF Inv, InviteOnce

(* A UE that is not free, has no session and is not about to be called.    *)
Gone(u) ==
    \/ \E k \in 1..actual : from[k] = u /\ phase[Out(k)] = "none"
    \/ \E k \in 1..actual : to[k] = u /\ phase[In(k)] = "none"

LEMMA LostLegStep ==
    ASSUME Inv, LostOnlyBeforeLeg, NEW l \in Leg, LegStep(l)
    PROVE  LostOnlyBeforeLeg'
<1>0. UNCHANGED <<all, from, to, actual>>
  BY DEF LegStep
<1>a. 1..actual \subseteq CallId /\ sess \in [UE -> Leg \cup {None}]
      /\ all \subseteq UE
  BY BoundsAssumption DEF CallId, Inv, TypeOK
<1>1. PICK freed \in SUBSET UE :
         /\ free' = free \cup freed
         /\ \A v \in UE \ freed : sess'[v] = sess[v]
         /\ \A m \in Leg : phase'[m] = "none" <=> phase[m] = "none"
  <2>1. CASE QuietLegs /\ NoInviteSent(net') /\ UNCHANGED <<free, sess>>
    <3>1. /\ {} \in SUBSET UE /\ free' = free \cup {}
          /\ \A v \in UE \ {} : sess'[v] = sess[v]
          /\ \A m \in Leg : phase'[m] = "none" <=> phase[m] = "none"
      BY <2>1 DEF QuietLegs
    <3> QED
      BY <3>1
  <2>2. CASE phase[l] \in Live
             /\ \E p \in Phase \ {"none"} : \E nt \in [CallId -> SUBSET Msg] :
                  NoInviteSent(nt) /\ HandlerDrops(l, p, nt)
    <3>1. PICK p \in Phase \ {"none"}, nt \in [CallId -> SUBSET Msg] :
             NoInviteSent(nt) /\ HandlerDrops(l, p, nt)
      BY <2>2
    <3>2. phase[l] # "none"
      BY <2>2 DEF Live
    <3>3. /\ Owner(l) \in UE
          /\ \A m \in Leg : phase'[m] = "none" <=> phase[m] = "none"
      BY <3>1, <3>2, HandlerFacts
    <3>4. /\ free' = free \cup {Owner(l)}
          /\ sess' = [sess EXCEPT ![Owner(l)] = None]
      BY <3>1 DEF HandlerDrops
    <3>5. \A v \in UE \ {Owner(l)} : sess'[v] = sess[v]
      BY <1>a, <3>4
    <3>6. {Owner(l)} \in SUBSET UE
      BY <3>3
    <3> QED
      BY <3>3, <3>4, <3>5, <3>6
  <2> QED
    BY <2>1, <2>2 DEF LegStep
<1>2. \A k \in 1..actual : /\ phase[Out(k)] = "none" => phase'[Out(k)] = "none"
                           /\ phase[In(k)] = "none" => phase'[In(k)] = "none"
  BY <1>1, <1>a, LegFacts
<1> SUFFICES ASSUME NEW u \in all, u \notin free', ~Booked(u)'
             PROVE  Gone(u)'
  BY <1>0 DEF LostOnlyBeforeLeg, Gone
<1>3. u \notin free /\ sess'[u] = sess[u] /\ u \in UE
  BY <1>1, <1>a
<1>4. sess[u] = None
  BY <1>3 DEF Booked
<1>5. CASE Booked(u)
  <2>1. PICK k \in CallId : to[k] = u /\ "INVITE" \in net[k]
    BY <1>4, <1>5 DEF Booked
  <2>2. k \in 1..actual /\ phase[In(k)] = "none"
    BY <2>1, InviteMade
  <2> QED
    BY <1>0, <1>2, <2>1, <2>2 DEF Gone
<1>6. CASE ~Booked(u)
  <2>1. Gone(u)
    BY <1>3, <1>6 DEF LostOnlyBeforeLeg, Gone
  <2> QED
    BY <1>0, <1>2, <2>1 DEF Gone
<1> QED
  BY <1>5, <1>6

LEMMA LostRegistration ==
    ASSUME Inv, LostOnlyBeforeLeg, InitialRegistrar_act \/ Registration
    PROVE  LostOnlyBeforeLeg'
<1>1. /\ UNCHANGED <<sess, from, to, phase, net, actual>>
      /\ \/ UNCHANGED <<free, all>>
         \/ \E u \in UE : free' = free \cup {u} /\ all' = all \cup {u}
  BY DEF InitialRegistrar_act, Registration, register_ok, register_failed,
         reg_tmr_handler, mark_ua_registered
<1> QED
  BY <1>1 DEF LostOnlyBeforeLeg, Booked

LEMMA LostInvite ==
    ASSUME Inv, LostOnlyBeforeLeg, NEW k \in CallId, RecvInvite(k)
    PROVE  LostOnlyBeforeLeg'
<1> DEFINE u == to[k]
<1>1. /\ k \in 1..actual /\ phase[In(k)] = "none" /\ "INVITE" \in net[k]
      /\ u \in all /\ u \in UE
  BY InviteMade DEF RecvInvite, Inv, Parties, TypeOK
<1>2. free' = free \ {u} /\ UNCHANGED <<all, from, to, actual>>
  BY DEF RecvInvite, mark_ua_in_call
<1>3. \A j \in CallId \ {k} : net'[j] = net[j]
  BY DEF RecvInvite, Inv, TypeOK
<1>4. \/ UNCHANGED <<sess, phase>>
      \/ \E p \in {"answered", "ringing"} :
            /\ sess' = [sess EXCEPT ![u] = In(k)]
            /\ phase' = [phase EXCEPT ![In(k)] = p]
  BY DEF RecvInvite
<1>a. /\ 1..actual \subseteq CallId /\ sess \in [UE -> Leg \cup {None}]
      /\ all \subseteq UE /\ phase \in [Leg -> Phase]
  BY BoundsAssumption DEF CallId, Inv, TypeOK
<1>5. /\ \A l \in Leg : l # In(k) => phase'[l] = phase[l]
      /\ \A v \in UE \ {u} : sess'[v] = sess[v]
      /\ sess'[u] = In(k) \/ phase'[In(k)] = "none"
  BY <1>1, <1>4, <1>a
<1> HIDE DEF u
<1> SUFFICES ASSUME NEW v \in all, v \notin free', ~Booked(v)'
             PROVE  Gone(v)'
  BY <1>2 DEF LostOnlyBeforeLeg, Gone
<1>6. CASE v = u
  <2>1. In(k) # None
    BY LegFacts
  <2>2. phase'[In(k)] = "none"
    BY <1>5, <1>6, <2>1 DEF Booked
  <2> QED
    BY <1>1, <1>2, <1>6, <2>2 DEF Gone, u
<1>7. CASE v # u
  <2>1. v \notin free /\ sess'[v] = sess[v]
    BY <1>2, <1>5, <1>7, <1>a
  <2>2. \A j \in CallId : to[j] = v => j # k
    BY <1>7 DEF u
  <2>3. ~Booked(v)
    BY <1>2, <1>3, <2>1, <2>2 DEF Booked
  <2>4. Gone(v)
    BY <2>1, <2>3 DEF LostOnlyBeforeLeg, Gone
  <2>5. \A j \in 1..actual : Out(j) \in Leg /\ In(j) \in Leg /\ Out(j) # In(k)
           /\ (j # k => In(j) # In(k))
    BY <1>a, LegFacts
  <2> QED
    BY <1>2, <1>5, <1>a, <2>2, <2>4, <2>5 DEF Gone
<1> QED
  BY <1>6, <1>7

LEMMA LostScheduler ==
    ASSUME Inv, LostOnlyBeforeLeg, CallScheduler_act PROVE LostOnlyBeforeLeg'
<1>1. PICK new \in SUBSET CallId, ok \in SUBSET CallId :
        \E a, b \in [new -> free] : CallsMade(new, ok, a, b)
  BY SchedulerFacts
<1>2. PICK a \in [new -> free], b \in [new -> free] :
        CallsMade(new, ok, a, b)
  BY <1>1
<1>3. /\ all' = all /\ all \subseteq UE /\ ok \subseteq new /\ free \subseteq UE
  BY <1>2 DEF Inv, TypeOK, CallsMade
<1>4. /\ \A k \in new : k \in 1..actual' /\ k \notin 1..actual
      /\ 1..actual \subseteq 1..actual'
      /\ 1..actual \subseteq CallId
  <2>1. actual \in 0..MaxDue /\ actual' \in 0..MaxDue
    BY <1>2 DEF Inv, TypeOK, CallsMade
  <2>2. \A k \in CallId : k \in Int /\ k >= 1 /\ k <= MaxDue
    BY DEF CallId
  <2>3. \A k \in new : k \in CallId /\ k > actual /\ k <= actual'
    BY <1>2 DEF CallsMade
  <2>4. \A k \in CallId : k > actual' => k > actual
    BY <1>2 DEF CallsMade
  <2>5. 1..actual \subseteq CallId
    BY <2>1, BoundsAssumption DEF CallId
  <2>6. 1..actual \subseteq 1..actual'
    <3> SUFFICES ASSUME NEW k \in 1..actual PROVE k <= actual'
      BY <2>1
    <3>1. k \in CallId
      BY <2>5
    <3>2. ~(k > actual)
      BY <2>1
    <3> QED
      BY <2>1, <2>4, <3>1, <3>2
  <2> QED
    BY <2>1, <2>2, <2>3, <2>5, <2>6, BoundsAssumption
<1>5. \A k \in new : phase[Out(k)] = "none" /\ phase[In(k)] = "none"
  BY <1>2 DEF Inv, Fresh, CallsMade
<1> SUFFICES ASSUME NEW u \in all, u \notin free', ~Booked(u)'
             PROVE  Gone(u)'
  BY <1>3 DEF LostOnlyBeforeLeg, Gone
<1>6. u \in UE
  BY <1>3
<1>7. CASE \E k \in new : a[k] = u
  <2>1. PICK k \in new : a[k] = u
    BY <1>7
  <2>2. from'[k] = u /\ (k \in ok => sess'[u] = Out(k)) /\ k \in CallId
    BY <1>2, <2>1 DEF CallsMade
  <2>3. Out(k) # None
    BY <2>2, LegFacts
  <2>4. k \notin ok
    BY <2>2, <2>3 DEF Booked
  <2>5. phase'[Out(k)] = "none"
    BY <1>2, <1>5, <2>1, <2>2, <2>4 DEF CallsMade
  <2> QED
    BY <1>4, <2>1, <2>2, <2>5 DEF Gone
<1>8. CASE \E k \in new : b[k] = u
  <2>1. PICK k \in new : b[k] = u
    BY <1>8
  <2>2. to'[k] = u /\ k \in CallId /\ phase'[In(k)] = phase[In(k)]
    BY <1>2, <2>1 DEF CallsMade
  <2> QED
    BY <1>4, <1>5, <2>1, <2>2 DEF Gone
<1>9. CASE \A k \in new : a[k] # u /\ b[k] # u
  <2>1. u \notin free /\ sess'[u] = sess[u]
    BY <1>2, <1>3, <1>6, <1>9 DEF CallsMade
  <2>2. \A k \in CallId : k \notin new => /\ from'[k] = from[k] /\ to'[k] = to[k]
           /\ net'[k] = net[k] /\ phase'[Out(k)] = phase[Out(k)]
           /\ phase'[In(k)] = phase[In(k)]
    BY <1>2, <1>3 DEF CallsMade
  <2>3. ASSUME NEW k \in CallId, to[k] = u, "INVITE" \in net[k]
        PROVE  "INVITE" \in net'[k] /\ to'[k] = u
    <3>1. k \notin new
      BY <1>4, <2>3, InviteMade
    <3> QED
      BY <2>2, <2>3, <3>1
  <2>4. ~Booked(u)
    BY <2>1, <2>3 DEF Booked
  <2>5. Gone(u)
    BY <2>1, <2>4 DEF LostOnlyBeforeLeg, Gone
  <2>6. \A k \in 1..actual : k \in CallId /\ k \notin new /\ k \in 1..actual'
    BY <1>4
  <2> QED
    BY <2>2, <2>5, <2>6 DEF Gone
<1> QED
  BY <1>7, <1>8, <1>9

(* A UE drops out of the pool only with a call that never reached it, with *)
(* refreshes too: every leg that came to be gives its UE back when it is   *)
(* over, however it ends.                                                  *)
THEOREM LostOnlyWithoutLeg == Spec => []LostOnlyBeforeLeg
<1>1. Init => LostOnlyBeforeLeg
  BY DEF Init, LostOnlyBeforeLeg
<1>2. Inv /\ LostOnlyBeforeLeg /\ [Next]_vars => LostOnlyBeforeLeg'
  <2> SUFFICES ASSUME Inv, LostOnlyBeforeLeg, [Next]_vars
               PROVE  LostOnlyBeforeLeg'
    OBVIOUS
  <2>1. CASE InitialRegistrar_act \/ Registration
    BY <2>1, LostRegistration
  <2>2. CASE CallScheduler_act
    BY <2>2, LostScheduler
  <2>3. ASSUME NEW k \in CallId, RecvInvite(k) PROVE LostOnlyBeforeLeg'
    BY <2>3, LostInvite
  <2>4. ASSUME NEW k \in CallId, RecvOK(k) \/ InviteFails(k) \/ RecvByeOut(k)
        PROVE  LostOnlyBeforeLeg'
    BY <2>4, OutLegSteps, LostLegStep, LegFacts
  <2>5. ASSUME NEW k \in CallId,
               RecvAck(k) \/ ReplyTimeout(k) \/ RecvByeIn(k) \/ Lose(k)
        PROVE  LostOnlyBeforeLeg'
    BY <2>5, InLegSteps, LostLegStep, LegFacts
  <2>6. CASE UNCHANGED vars
    BY <2>6 DEF vars, LostOnlyBeforeLeg, Booked
  <2> QED
    BY <2>1, <2>2, <2>3, <2>4, <2>5, <2>6 DEF Next, Deliver, Idle
<1> QED
  BY <1>1, <1>2, InvAlways, PTL DEF Spec
-----------------------------------------------------------------------------
(* Where nothing fails, every call made has reached its callee or is on    *)
(* its way to it.                                                          *)
Reached ==
    \A k \in 1..actual :
        /\ phase[Out(k)] # "none"
        /\ phase[In(k)] # "none" \/ "INVITE" \in net[k]

(* The handlers leave INVITEs on their way.                                *)
LEMMA HandlerKeeps ==
    ASSUME Inv, NEW l \in Leg, phase[l] # "none", NEW p \in Phase,
           NEW nt \in [CallId -> SUBSET Msg], NEW failed,
           \/ close_handler(Owner(l), failed, [phase EXCEPT ![l] = p], nt)
           \/ establish_handler(Owner(l), [phase EXCEPT ![l] = p], nt)
    PROVE  \A k \in CallId : "INVITE" \in nt[k] => "INVITE" \in net'[k]
<1> DEFINE u == Owner(l)
           ph == [phase EXCEPT ![l] = p]
           nb == NetAfterBye(u, ph, nt)
<1>1. u \in UE /\ TypeOK /\ ph \in [Leg -> Phase]
  BY OwnerFacts DEF Inv, TypeOK
<1>2. \/ net' = NetAfterDrop(u, ph, nt)
      \/ net' = NetAfterDrop(u, ph, nb)
      \/ net' = nt
  BY DEF close_handler, establish_handler
<1> HIDE DEF u, ph, nb
<1>3. nb \in [CallId -> SUBSET Msg]
      /\ \A k \in CallId : "INVITE" \in nb[k] <=> "INVITE" \in nt[k]
  BY <1>1, DropFacts DEF nb
<1>4. \A k \in CallId : "INVITE" \in NetAfterDrop(u, ph, nt)[k]
                        <=> "INVITE" \in nt[k]
  BY <1>1, DropFacts
<1>5. \A k \in CallId : "INVITE" \in NetAfterDrop(u, ph, nb)[k]
                        <=> "INVITE" \in nb[k]
  BY <1>1, <1>3, DropFacts
<1> QED
  BY <1>2, <1>3, <1>4, <1>5

LEMMA ReachedStep ==
    ASSUME Inv, ~Faults, NEW k \in CallId, NEW l \in Leg, LegStep(l),
           \/ RecvOK(k) \/ InviteFails(k) \/ RecvByeOut(k)
           \/ RecvAck(k) \/ ReplyTimeout(k) \/ RecvByeIn(k) \/ Lose(k)
    PROVE  \A j \in CallId : "INVITE" \in net[j] => "INVITE" \in net'[j]
<1>1. net \in [CallId -> SUBSET Msg]
  BY DEF Inv, TypeOK
<1>2. ~InviteFails(k) /\ ~ReplyTimeout(k) /\ ~Lose(k)
  BY DEF InviteFails, ReplyTimeout, Lose
<1>3. Out(k) \in Leg /\ In(k) \in Leg /\ Owner(Out(k)) = from[k]
      /\ Owner(In(k)) = to[k]
  BY LegFacts, OwnerFacts
<1>a. /\ "up" \in Phase /\ "ended" \in Phase /\ "draining" \in Phase
  BY DEF Phase, Live, Waiting, Over
<1>4. CASE RecvOK(k)
  <2> DEFINE nt == [net EXCEPT ![k] = @ \ {"OK"}]
             na == [nt EXCEPT ![k] = @ \cup {"ACK"}]
             nb == [nt EXCEPT ![k] = @ \cup {"ACK", "BYEin"}]
  <2>1. /\ nt \in [CallId -> SUBSET Msg] /\ na \in [CallId -> SUBSET Msg]
        /\ \A j \in CallId : "INVITE" \in net[j] =>
              "INVITE" \in nt[j] /\ "INVITE" \in na[j] /\ "INVITE" \in nb[j]
    BY <1>1 DEF Msg
  <2>2. \/ /\ phase[Out(k)] = "inviting"
           /\ establish_handler(from[k], [phase EXCEPT ![Out(k)] = "up"], na)
        \/ net' = nb \/ net' = nt
    BY <1>4 DEF RecvOK
  <2> HIDE DEF nt, na, nb
  <2> QED
    BY <1>3, <1>a, <2>1, <2>2, HandlerKeeps
<1>5. CASE RecvByeOut(k)
  <2> DEFINE nt == [net EXCEPT ![k] = @ \ {"BYEout"}]
  <2>1. /\ nt \in [CallId -> SUBSET Msg]
        /\ \A j \in CallId : "INVITE" \in net[j] => "INVITE" \in nt[j]
    BY <1>1
  <2>2. \/ /\ phase[Out(k)] = "up"
           /\ close_handler(from[k], FALSE, [phase EXCEPT ![Out(k)] = "ended"], nt)
        \/ net' = nt
    BY <1>5 DEF RecvByeOut
  <2> HIDE DEF nt
  <2> QED
    BY <1>3, <1>a, <2>1, <2>2, HandlerKeeps
<1>6. CASE RecvAck(k)
  <2> DEFINE nt == [net EXCEPT ![k] = @ \ {"ACK"}]
             nb == [nt EXCEPT ![k] = @ \cup {"BYEout"}]
  <2>1. /\ nt \in [CallId -> SUBSET Msg]
        /\ \A j \in CallId : "INVITE" \in net[j] =>
              "INVITE" \in nt[j] /\ "INVITE" \in nb[j]
    BY <1>1
  <2>2. \/ /\ phase[In(k)] = "answered"
           /\ establish_handler(to[k], [phase EXCEPT ![In(k)] = "up"], nt)
        \/ net' = nb \/ net' = nt
    BY <1>6 DEF RecvAck
  <2> HIDE DEF nt, nb
  <2> QED
    BY <1>3, <1>a, <2>1, <2>2, HandlerKeeps
<1>7. CASE RecvByeIn(k)
  <2> DEFINE nt == [net EXCEPT ![k] = @ \ {"BYEin"}]
  <2>1. /\ nt \in [CallId -> SUBSET Msg]
        /\ \A j \in CallId : "INVITE" \in net[j] => "INVITE" \in nt[j]
    BY <1>1
  <2>2. \/ /\ phase[In(k)] # "none"
           /\ \E p \in {"draining", "ended"} :
                close_handler(to[k], FALSE, [phase EXCEPT ![In(k)] = p], nt)
        \/ net' = nt
    BY <1>7 DEF RecvByeIn
  <2> HIDE DEF nt
  <2> QED
    BY <1>3, <1>a, <2>1, <2>2, HandlerKeeps, ZenonT(60)
<1> QED
  BY <1>2, <1>4, <1>5, <1>6, <1>7

(* The legs there are stay, through every such step.                       *)
LEMMA LegsStay ==
    ASSUME Inv, NEW l \in Leg, LegStep(l)
    PROVE  \A m \in Leg : phase'[m] = "none" <=> phase[m] = "none"
<1>1. CASE QuietLegs
  BY <1>1 DEF QuietLegs
<1>2. CASE phase[l] \in Live
           /\ \E p \in Phase \ {"none"} : \E nt \in [CallId -> SUBSET Msg] :
                NoInviteSent(nt) /\ HandlerDrops(l, p, nt)
  <2>1. PICK p \in Phase \ {"none"}, nt \in [CallId -> SUBSET Msg] :
           NoInviteSent(nt) /\ HandlerDrops(l, p, nt)
    BY <1>2
  <2>2. phase[l] # "none"
    BY <1>2 DEF Live
  <2> QED
    BY <2>1, <2>2, HandlerFacts
<1> QED
  BY <1>1, <1>2 DEF LegStep

LEMMA ReachedNext ==
    ASSUME Inv, ~Faults => Reached, [Next]_vars PROVE ~Faults => Reached'
<1> SUFFICES ASSUME ~Faults, Reached PROVE Reached'
  OBVIOUS
<1>0. 1..actual \subseteq CallId
  BY BoundsAssumption DEF CallId, Inv, TypeOK
<1>1. CASE InitialRegistrar_act \/ Registration
  <2>1. UNCHANGED <<phase, net, actual>>
    BY <1>1 DEF InitialRegistrar_act, Registration, register_ok, register_failed,
                reg_tmr_handler
  <2> QED
    BY <2>1 DEF Reached
<1>2. CASE CallScheduler_act
  <2>1. PICK new \in SUBSET CallId, ok \in SUBSET CallId :
          \E a, b \in [new -> free] : CallsMade(new, ok, a, b)
    BY <1>2, SchedulerFacts
  <2>2. PICK a \in [new -> free], b \in [new -> free] :
          CallsMade(new, ok, a, b)
    BY <2>1
  <2>3. \A k \in 1..actual' : (k \in 1..actual /\ k \notin new) \/ k \in new
    BY <2>2, BoundsAssumption DEF CallsMade, Inv, TypeOK
  <2>4. ASSUME NEW k \in new
        PROVE  phase'[Out(k)] # "none" /\ "INVITE" \in net'[k]
    BY <2>2 DEF CallsMade
  <2>5. ASSUME NEW k \in 1..actual, k \notin new
        PROVE  /\ phase'[Out(k)] = phase[Out(k)] /\ net'[k] = net[k]
               /\ phase'[In(k)] = phase[In(k)]
    BY <1>0, <2>2, <2>5 DEF CallsMade
  <2> QED
    BY <2>3, <2>4, <2>5 DEF Reached
<1>3. ASSUME NEW k \in CallId, RecvInvite(k) PROVE Reached'
  <2>1. /\ \A j \in CallId \ {k} : net'[j] = net[j]
        /\ phase' = [phase EXCEPT ![In(k)] = "answered"] \/ 
           phase' = [phase EXCEPT ![In(k)] = "ringing"]
        /\ actual' = actual
    BY <1>3 DEF RecvInvite, Inv, TypeOK
  <2>2. /\ In(k) \in Leg /\ \A j \in CallId : Out(j) \in Leg /\ In(j) \in Leg
        /\ \A j \in CallId : Out(j) # In(k) /\ (j # k => In(j) # In(k))
    BY LegFacts
  <2>3. phase \in [Leg -> Phase]
    BY DEF Inv, TypeOK
  <2>4. /\ phase'[In(k)] # "none"
        /\ \A m \in Leg : m # In(k) => phase'[m] = phase[m]
    BY <2>1, <2>2, <2>3
  <2> QED
    BY <1>0, <2>1, <2>2, <2>4 DEF Reached
<1>4. ASSUME NEW k \in CallId, NEW l \in Leg, LegStep(l),
             \/ RecvOK(k) \/ InviteFails(k) \/ RecvByeOut(k)
             \/ RecvAck(k) \/ ReplyTimeout(k) \/ RecvByeIn(k) \/ Lose(k)
      PROVE  Reached'
  <2>1. \A j \in CallId : "INVITE" \in net[j] => "INVITE" \in net'[j]
    BY <1>4, ReachedStep
  <2>2. \A m \in Leg : phase'[m] = "none" <=> phase[m] = "none"
    BY <1>4, LegsStay
  <2>3. actual' = actual
    BY <1>4 DEF LegStep
  <2> QED
    BY <1>0, <2>1, <2>2, <2>3, LegFacts DEF Reached
<1>5. ASSUME NEW k \in CallId, RecvOK(k) \/ InviteFails(k) \/ RecvByeOut(k)
      PROVE  Reached'
  BY <1>4, <1>5, OutLegSteps, LegFacts
<1>6. ASSUME NEW k \in CallId,
             RecvAck(k) \/ ReplyTimeout(k) \/ RecvByeIn(k) \/ Lose(k)
      PROVE  Reached'
  BY <1>4, <1>6, InLegSteps, LegFacts
<1>7. CASE UNCHANGED vars
  BY <1>7 DEF vars, Reached
<1> QED
  BY <1>1, <1>2, <1>3, <1>5, <1>6, <1>7 DEF Next, Deliver, Idle

(* Where nothing fails or gets lost, the UAManager loses no UE, whether or *)
(* not registrations are refreshed: a registered UE is free, in a call or  *)
(* about to be called.                                                     *)
THEOREM NoUELost == Spec => [](~Faults => NoLostUE)
<1>1. Init => (~Faults => Reached)
  BY DEF Init, Reached
<1>2. Inv /\ (~Faults => Reached) /\ [Next]_vars => (~Faults => Reached)'
  BY ReachedNext
<1>3. Inv /\ LostOnlyBeforeLeg /\ (~Faults => Reached) => (~Faults => NoLostUE)
  <2> SUFFICES ASSUME Inv, LostOnlyBeforeLeg, ~Faults, Reached PROVE NoLostUE
    OBVIOUS
  <2>1. 1..actual \subseteq CallId
    BY BoundsAssumption DEF CallId, Inv, TypeOK
  <2> QED
    BY <2>1 DEF LostOnlyBeforeLeg, NoLostUE, Booked, Reached
<1> QED
  BY <1>1, <1>2, <1>3, InvAlways, LostOnlyWithoutLeg, PTL DEF Spec
-----------------------------------------------------------------------------
(* The ledger.  Calls set up and legs failed, as the displayed counters    *)
(* should have them.                                                       *)
Answered == {k \in CallId : phase[Out(k)] = "ended"}

Failures == {l \in Leg : phase[l] = "failed"}

Counts ==
    /\ stats.init_call = actual
    /\ stats.success_call = Cardinality(Answered)
    /\ stats.failed_call = Cardinality(Failures)
    /\ \A k \in CallId :
          phase[Out(k)] \in {"none", "inviting", "ended", "failed", "reset"}

(* The calls a tick may still start from.                                  *)
Allowed == IF MaxCalls = 0 THEN 0 ELSE MaxCalls - 1

Budget ==
    /\ stage = "register" => actual = 0
    /\ stage = "call" => actual <= Allowed
    /\ 2 * (actual - Allowed) <= Cardinality(UE)

LEMMA FiniteLegs ==
    /\ \A S \in SUBSET CallId : IsFiniteSet(S) /\ Cardinality(S) \in Nat
    /\ \A S \in SUBSET Leg : IsFiniteSet(S) /\ Cardinality(S) \in Nat
<1>1. IsFiniteSet(CallId)
  BY FS_Interval, BoundsAssumption DEF CallId
<1>2. IsFiniteSet({"out", "in"})
  <2>1. IsFiniteSet({}) /\ {"out", "in"} = ({} \cup {"out"}) \cup {"in"}
    BY FS_EmptySet
  <2>2. IsFiniteSet({} \cup {"out"})
    BY <2>1, FS_AddElement
  <2> QED
    BY <2>1, <2>2, FS_AddElement
<1>3. IsFiniteSet(Leg)
  BY <1>1, <1>2, FS_Product DEF Leg
<1>4. ASSUME NEW S \in SUBSET CallId
      PROVE  IsFiniteSet(S) /\ Cardinality(S) \in Nat
  <2>1. IsFiniteSet(S)
    BY <1>1, FS_Subset
  <2> QED
    BY <2>1, FS_CardinalityType
<1>5. ASSUME NEW S \in SUBSET Leg
      PROVE  IsFiniteSet(S) /\ Cardinality(S) \in Nat
  <2>1. IsFiniteSet(S)
    BY <1>3, FS_Subset
  <2> QED
    BY <2>1, FS_CardinalityType
<1> QED
  BY <1>4, <1>5

(* One leg's move is entered as it should be.                              *)
Entered(l, p) ==
    /\ stats'.init_call = stats.init_call
    /\ stats'.success_call =
          stats.success_call + (IF l[2] = "out" /\ p = "ended" THEN 1 ELSE 0)
    /\ stats'.failed_call = stats.failed_call + (IF p = "failed" THEN 1 ELSE 0)

LEMMA CountsMove ==
    ASSUME Inv, Counts, NEW l \in Leg, NEW p \in Phase,
           phase' = [phase EXCEPT ![l] = p], phase[l] # "failed",
           l[2] = "out" => /\ phase[l] # "ended"
                           /\ p \in {"inviting", "ended", "failed", "reset"},
           actual' = actual, Entered(l, p)
    PROVE  Counts'
<1>1. phase \in [Leg -> Phase]
  BY DEF Inv, TypeOK
<1>2. \A m \in Leg : phase'[m] = IF m = l THEN p ELSE phase[m]
  BY <1>1
<1>3. /\ IsFiniteSet(Answered) /\ Cardinality(Answered) \in Nat
      /\ IsFiniteSet(Failures) /\ Cardinality(Failures) \in Nat
  BY FiniteLegs DEF Answered, Failures
<1>4. \A k \in CallId :
         phase'[Out(k)] \in {"none", "inviting", "ended", "failed", "reset"}
  <2> SUFFICES ASSUME NEW k \in CallId
               PROVE  phase'[Out(k)]
                        \in {"none", "inviting", "ended", "failed", "reset"}
    OBVIOUS
  <2>1. Out(k) \in Leg /\ Out(k)[2] = "out"
    BY LegFacts
  <2> QED
    BY <1>2, <2>1 DEF Counts
<1>5. Cardinality(Failures)' = Cardinality(Failures)
                               + (IF p = "failed" THEN 1 ELSE 0)
  <2>1. CASE p = "failed"
    <3>1. Failures' = Failures \cup {l} /\ l \notin Failures
      BY <1>2, <2>1 DEF Failures
    <3> QED
      BY <1>3, <2>1, <3>1, FS_AddElement
  <2>2. CASE p # "failed"
    <3>1. Failures' = Failures
      BY <1>2, <2>2 DEF Failures
    <3> QED
      BY <1>3, <2>2, <3>1
  <2> QED
    BY <2>1, <2>2
<1>6. Cardinality(Answered)' = Cardinality(Answered)
                  + (IF l[2] = "out" /\ p = "ended" THEN 1 ELSE 0)
  <2>1. CASE l[2] = "out" /\ p = "ended"
    <3>1. l[1] \in CallId /\ l = Out(l[1])
      BY <2>1, LegFacts
    <3>2. \A k \in CallId : Out(k) \in Leg /\ (Out(k) = l <=> k = l[1])
      BY <3>1, LegFacts
    <3>3. Answered' = Answered \cup {l[1]}
      BY <1>2, <2>1, <3>1, <3>2 DEF Answered
    <3>4. l[1] \notin Answered
      BY <2>1, <3>1 DEF Answered
    <3> QED
      BY <1>3, <2>1, <3>3, <3>4, FS_AddElement
  <2>2. CASE ~(l[2] = "out" /\ p = "ended")
    <3>1. \A k \in CallId : Out(k) \in Leg /\ (Out(k) = l => l[2] = "out")
      BY LegFacts
    <3>2. \A k \in CallId : phase'[Out(k)] = "ended" <=> phase[Out(k)] = "ended"
      BY <1>2, <2>2, <3>1
    <3>3. Answered' = Answered
      BY <3>2 DEF Answered
    <3> QED
      BY <1>3, <2>2, <3>3
  <2> QED
    BY <2>1, <2>2
<1> QED
  BY <1>4, <1>5, <1>6 DEF Counts, Entered

(* Where every session is its UserAgent's own, the handlers move their leg *)
(* alone.                                                                  *)
LEMMA CloseMoves ==
    ASSUME Inv, NoOrphan, NEW l \in Leg, phase[l] \in Live,
           NEW p \in Waiting \cup Over, NEW nt, NEW failed \in BOOLEAN,
           failed <=> p = "failed", l[2] = "out" => p # "ended",
           close_handler(Owner(l), failed, [phase EXCEPT ![l] = p], nt)
    PROVE  phase' = [phase EXCEPT ![l] = p] /\ Entered(l, p)
<1> DEFINE ph == [phase EXCEPT ![l] = p]
<1>1. phase \in [Leg -> Phase] /\ stats \in Stats
  BY DEF Inv, TypeOK
<1>2. sess[Owner(l)] = l /\ l # None
  BY LegFacts DEF NoOrphan
<1>3. ph[l] = p /\ DropRef(p) = p
  BY <1>1 DEF DropRef, Waiting, Over
<1>4. phase' = [ph EXCEPT ![l] = DropRef(ph[l])]
  BY <1>2 DEF close_handler, PhaseAfterDrop
<1>5. phase' = ph
  BY <1>1, <1>3, <1>4
<1>6. stats' = [stats EXCEPT !.failed_call = @ + (IF failed THEN 1 ELSE 0)]
  BY DEF close_handler
<1> QED
  BY <1>1, <1>5, <1>6 DEF Entered, Stats

LEMMA EstablishMoves ==
    ASSUME Inv, NoOrphan, NEW l \in Leg, phase[l] \in Live, NEW nt,
           establish_handler(Owner(l), [phase EXCEPT ![l] = "up"], nt)
    PROVE  LET p == IF l[2] = "out" THEN "ended" ELSE "up"
           IN  phase' = [phase EXCEPT ![l] = p] /\ Entered(l, p)
<1> DEFINE ph == [phase EXCEPT ![l] = "up"]
<1>1. phase \in [Leg -> Phase] /\ stats \in Stats
  BY DEF Inv, TypeOK
<1>2. /\ sess[Owner(l)] = l /\ l # None
      /\ role[Owner(l)] = (IF l[2] = "out" THEN "caller" ELSE "callee")
  BY LegFacts DEF NoOrphan
<1>3. ph[l] = "up" /\ DropRef("up") = "ended"
  BY <1>1 DEF DropRef
<1>4. CASE l[2] = "out"
  <2>1. phase' = [ph EXCEPT ![l] = DropRef(ph[l])]
    BY <1>2, <1>4 DEF establish_handler, PhaseAfterDrop
  <2>2. phase' = [phase EXCEPT ![l] = "ended"]
    BY <1>1, <1>3, <2>1
  <2>3. stats' = [stats EXCEPT !.success_call = @ + 1]
    BY <1>2, <1>4 DEF establish_handler
  <2> QED
    BY <1>1, <1>4, <2>2, <2>3 DEF Entered, Stats
<1>5. CASE l[2] # "out"
  <2>1. phase' = ph /\ stats' = stats
    BY <1>2, <1>5 DEF establish_handler
  <2> QED
    BY <1>1, <1>5, <2>1 DEF Entered, Stats
<1> QED
  BY <1>4, <1>5

(* Legs that move without a handler, or not at all, enter nothing.         *)
LEMMA CountsStill ==
    ASSUME Counts, UNCHANGED <<phase, actual>>,
           stats'.init_call = stats.init_call,
           stats'.success_call = stats.success_call,
           stats'.failed_call = stats.failed_call
    PROVE  Counts'
  BY DEF Counts, Answered, Failures

(* The counters follow every step of a leg.                                *)
LEMMA CountsOut ==
    ASSUME Inv, NoOrphan, Counts, NEW k \in CallId,
           RecvOK(k) \/ InviteFails(k) \/ RecvByeOut(k)
    PROVE  Counts'
<1> DEFINE l == Out(k)
<1>1. /\ l \in Leg /\ Owner(l) = from[k] /\ l[2] = "out"
      /\ actual' = actual
  BY LegFacts, OwnerFacts DEF RecvOK, InviteFails, RecvByeOut
<1>2. phase[l] \in {"none", "inviting", "ended", "failed", "reset"}
  BY DEF Counts
<1>3. \/ UNCHANGED <<phase, stats>>
      \/ /\ phase[l] = "inviting"
         /\ \/ \E nt : establish_handler(from[k], [phase EXCEPT ![l] = "up"], nt)
            \/ \E nt : close_handler(from[k], TRUE,
                                     [phase EXCEPT ![l] = "failed"], nt)
            \/ \E nt : close_handler(from[k], FALSE,
                                     [phase EXCEPT ![l] = "reset"], nt)
  BY <1>2 DEF RecvOK, InviteFails, RecvByeOut
<1> HIDE DEF l
<1>4. CASE UNCHANGED <<phase, stats>>
  BY <1>1, <1>4, CountsStill
<1>5. CASE phase[l] = "inviting"
           /\ \E nt : establish_handler(from[k], [phase EXCEPT ![l] = "up"], nt)
  <2>1. phase' = [phase EXCEPT ![l] = "ended"] /\ Entered(l, "ended")
    BY <1>1, <1>5, EstablishMoves DEF Live
  <2> QED
    BY <1>1, <1>5, <2>1, CountsMove DEF Phase, Over
<1>6. CASE phase[l] = "inviting"
           /\ \E nt : close_handler(from[k], TRUE,
                                    [phase EXCEPT ![l] = "failed"], nt)
  <2>1. phase' = [phase EXCEPT ![l] = "failed"] /\ Entered(l, "failed")
    BY <1>1, <1>6, CloseMoves DEF Live, Over
  <2> QED
    BY <1>1, <1>6, <2>1, CountsMove DEF Phase, Over
<1>7. CASE phase[l] = "inviting"
           /\ \E nt : close_handler(from[k], FALSE,
                                    [phase EXCEPT ![l] = "reset"], nt)
  <2>1. phase' = [phase EXCEPT ![l] = "reset"] /\ Entered(l, "reset")
    BY <1>1, <1>7, CloseMoves DEF Live, Over
  <2> QED
    BY <1>1, <1>7, <2>1, CountsMove DEF Phase, Over
<1> QED
  BY <1>3, <1>4, <1>5, <1>6, <1>7

LEMMA CountsIn ==
    ASSUME Inv, NoOrphan, Counts, NEW k \in CallId,
           RecvAck(k) \/ ReplyTimeout(k) \/ RecvByeIn(k) \/ Lose(k)
    PROVE  Counts'
<1> DEFINE l == In(k)
<1>1. /\ l \in Leg /\ Owner(l) = to[k] /\ l[2] # "out"
      /\ actual' = actual
  BY LegFacts, OwnerFacts DEF RecvAck, ReplyTimeout, RecvByeIn, Lose
<1>2. \/ UNCHANGED <<phase, stats>>
      \/ /\ phase[l] \in Waiting /\ stats' = stats
         /\ \E p \in {"ended", "draining"} : phase' = [phase EXCEPT ![l] = p]
      \/ /\ phase[l] \in Live
         /\ \/ \E nt : establish_handler(to[k], [phase EXCEPT ![l] = "up"], nt)
            \/ \E nt : close_handler(to[k], TRUE,
                                     [phase EXCEPT ![l] = "failed"], nt)
            \/ \E nt, p : /\ p \in {"ended", "draining"}
                          /\ close_handler(to[k], FALSE,
                                           [phase EXCEPT ![l] = p], nt)
  BY DEF RecvAck, ReplyTimeout, RecvByeIn, Lose, Live, Waiting
<1>3. stats \in Stats /\ {"ended", "draining", "failed", "up"} \subseteq Phase
      /\ "failed" \notin Live \cup Waiting
      /\ {"ended", "draining", "failed"} \subseteq Waiting \cup Over
  BY DEF Inv, TypeOK, Phase, Live, Waiting, Over
<1> HIDE DEF l
<1>4. CASE UNCHANGED <<phase, stats>>
  BY <1>1, <1>4, CountsStill
<1>5. ASSUME NEW p \in {"ended", "draining"}, phase[l] \in Waiting,
             stats' = stats, phase' = [phase EXCEPT ![l] = p]
      PROVE  Counts'
  <2>1. Entered(l, p)
    BY <1>1, <1>3, <1>5 DEF Entered, Stats
  <2> QED
    BY <1>1, <1>3, <1>5, <2>1, CountsMove
<1>6. ASSUME NEW nt, phase[l] \in Live,
             establish_handler(to[k], [phase EXCEPT ![l] = "up"], nt)
      PROVE  Counts'
  <2>1. phase' = [phase EXCEPT ![l] = "up"] /\ Entered(l, "up")
    BY <1>1, <1>6, EstablishMoves
  <2> QED
    BY <1>1, <1>3, <1>6, <2>1, CountsMove
<1>7. ASSUME NEW nt, phase[l] \in Live,
             close_handler(to[k], TRUE, [phase EXCEPT ![l] = "failed"], nt)
      PROVE  Counts'
  <2>1. phase' = [phase EXCEPT ![l] = "failed"] /\ Entered(l, "failed")
    BY <1>1, <1>3, <1>7, CloseMoves
  <2> QED
    BY <1>1, <1>3, <1>7, <2>1, CountsMove
<1>8. ASSUME NEW nt, NEW p \in {"ended", "draining"}, phase[l] \in Live,
             close_handler(to[k], FALSE, [phase EXCEPT ![l] = p], nt)
      PROVE  Counts'
  <2>1. phase' = [phase EXCEPT ![l] = p] /\ Entered(l, p)
    BY <1>1, <1>3, <1>8, CloseMoves, ZenonT(60)
  <2> QED
    BY <1>1, <1>3, <1>8, <2>1, CountsMove
<1> QED
  BY <1>2, <1>4, <1>5, <1>6, <1>7, <1>8

LEMMA CountsInvite ==
    ASSUME Inv, Counts, NEW k \in CallId, RecvInvite(k) PROVE Counts'
<1> DEFINE l == In(k)
<1>1. l \in Leg /\ l[2] # "out" /\ phase[l] = "none"
  BY LegFacts DEF RecvInvite, Inv, InviteOnce
<1>2. UNCHANGED <<actual, stats>>
      /\ (phase' = phase \/ \E p \in {"answered", "ringing"} :
                               phase' = [phase EXCEPT ![l] = p])
  BY DEF RecvInvite
<1> HIDE DEF l
<1>3. ASSUME NEW p \in {"answered", "ringing"}, phase' = [phase EXCEPT ![l] = p]
      PROVE  Counts'
  <2>1. Entered(l, p) /\ p \in Phase
    BY <1>1, <1>2 DEF Entered, Inv, TypeOK, Stats, Phase, Live
  <2> QED
    BY <1>1, <1>2, <1>3, <2>1, CountsMove
<1> QED
  BY <1>2, <1>3, CountsStill

LEMMA CountsScheduler ==
    ASSUME Inv, Counts, CallScheduler_act PROVE Counts'
<1>1. PICK new \in SUBSET CallId, ok \in SUBSET CallId :
        \E a, b \in [new -> free] : CallsMade(new, ok, a, b)
  BY SchedulerFacts
<1>2. /\ \A k \in ok : phase'[Out(k)] = "inviting" /\ phase[Out(k)] = "none"
      /\ \A k \in CallId \ ok : phase'[Out(k)] = phase[Out(k)]
      /\ \A k \in CallId : phase'[In(k)] = phase[In(k)]
      /\ stats' = [stats EXCEPT !.init_call = @ + (actual' - actual)]
  BY <1>1 DEF CallsMade, Inv, Fresh
<1>3. \A l \in Leg : phase'[l] = "failed" <=> phase[l] = "failed"
  <2> SUFFICES ASSUME NEW l \in Leg
               PROVE  phase'[l] = "failed" <=> phase[l] = "failed"
    OBVIOUS
  <2>1. l[1] \in CallId /\ (l = Out(l[1]) \/ l = In(l[1]))
    BY LegFacts
  <2> QED
    BY <1>2, <2>1
<1>4. Answered' = Answered /\ Failures' = Failures
  BY <1>2, <1>3 DEF Answered, Failures
<1>5. actual \in Int /\ actual' \in Int /\ stats \in Stats
  BY <1>1, BoundsAssumption DEF Inv, TypeOK, CallsMade
<1>6. /\ stats'.init_call = stats.init_call + (actual' - actual)
      /\ stats'.success_call = stats.success_call
      /\ stats'.failed_call = stats.failed_call
  BY <1>2, <1>5 DEF Stats
<1>7. stats'.init_call = actual'
  <2>1. stats.init_call = actual
    BY DEF Counts
  <2>2. \A x, y \in Int : x + (y - x) = y
    OBVIOUS
  <2> QED
    BY <1>5, <1>6, <2>1, <2>2
<1> QED
  BY <1>2, <1>4, <1>6, <1>7 DEF Counts

LEMMA CountsNext ==
    ASSUME Inv, ~Refresh => Exclusive, ~Refresh => Counts, [Next]_vars
    PROVE  ~Refresh => Counts'
<1> SUFFICES ASSUME ~Refresh, NoOrphan, Counts PROVE Counts'
  BY DEF Exclusive
<1>1. CASE InitialRegistrar_act \/ Registration
  <2>1. UNCHANGED <<phase, actual>>
    BY <1>1 DEF InitialRegistrar_act, Registration, register_ok, register_failed,
                reg_tmr_handler
  <2>2. /\ stats'.init_call = stats.init_call
        /\ stats'.success_call = stats.success_call
        /\ stats'.failed_call = stats.failed_call
    BY <1>1 DEF InitialRegistrar_act, Registration, register_ok, register_failed,
                reg_tmr_handler, Inv, TypeOK, Stats
  <2> QED
    BY <2>1, <2>2, CountsStill
<1>2. CASE CallScheduler_act
  BY <1>2, CountsScheduler
<1>3. ASSUME NEW k \in CallId, RecvInvite(k) PROVE Counts'
  BY <1>3, CountsInvite
<1>4. ASSUME NEW k \in CallId, RecvOK(k) \/ InviteFails(k) \/ RecvByeOut(k)
      PROVE  Counts'
  BY <1>4, CountsOut
<1>5. ASSUME NEW k \in CallId,
             RecvAck(k) \/ ReplyTimeout(k) \/ RecvByeIn(k) \/ Lose(k)
      PROVE  Counts'
  BY <1>5, CountsIn
<1>6. CASE UNCHANGED vars
  BY <1>6, CountsStill DEF vars
<1> QED
  BY <1>1, <1>2, <1>3, <1>4, <1>5, <1>6 DEF Next, Deliver, Idle

(* The UEs taken by one tick are different, so they are at most all.       *)
LEMMA PairsFit ==
    ASSUME Inv, NEW n \in Nat, NEW m \in Nat, n <= m,
           NEW a \in [(n + 1)..m -> free], NEW b \in [(n + 1)..m -> free],
           \A k \in (n + 1)..m : a[k] # b[k],
           \A k, j \in (n + 1)..m : k # j =>
               a[k] # a[j] /\ b[k] # b[j] /\ a[k] # b[j]
    PROVE  2 * (m - n) <= Cardinality(UE)
<1> DEFINE new == (n + 1)..m
           d == m - n
           f == [i \in 1..(2 * d) |-> IF i <= d THEN a[n + i] ELSE b[n + i - d]]
<1>1. d \in Nat /\ free \subseteq UE /\ IsFiniteSet(UE)
  BY UEAssumption DEF Inv, TypeOK
<1>2. \A i \in 1..(2 * d) : /\ i <= d => n + i \in new
                            /\ ~(i <= d) => n + i - d \in new
  OBVIOUS
<1>3. f \in [1..(2 * d) -> UE]
  BY <1>1, <1>2
<1>4. ASSUME NEW i \in 1..(2 * d), NEW j \in 1..(2 * d), i # j
      PROVE  f[i] # f[j]
  <2>1. /\ f[i] = IF i <= d THEN a[n + i] ELSE b[n + i - d]
        /\ f[j] = IF j <= d THEN a[n + j] ELSE b[n + j - d]
    OBVIOUS
  <2>2. CASE i <= d /\ j <= d
    <3>1. n + i # n + j /\ n + i \in new /\ n + j \in new
      BY <1>2, <1>4, <2>2
    <3> QED
      BY <2>1, <2>2, <3>1
  <2>3. CASE ~(i <= d) /\ ~(j <= d)
    <3>1. n + i - d # n + j - d /\ n + i - d \in new /\ n + j - d \in new
      BY <1>1, <1>2, <1>4, <2>3
    <3> QED
      BY <2>1, <2>3, <3>1
  <2>4. CASE i <= d /\ ~(j <= d)
    <3>1. n + i \in new /\ n + j - d \in new
      BY <1>2, <2>4
    <3>2. a[n + i] # b[n + j - d]
      BY <3>1
    <3> QED
      BY <2>1, <2>4, <3>2
  <2>5. CASE ~(i <= d) /\ j <= d
    <3>1. n + j \in new /\ n + i - d \in new
      BY <1>2, <2>5
    <3>2. a[n + j] # b[n + i - d]
      BY <3>1
    <3> QED
      BY <2>1, <2>5, <3>2
  <2> QED
    BY <2>2, <2>3, <2>4, <2>5
<1> HIDE DEF f
<1>5. f \in Injection(1..(2 * d), UE)
  BY <1>3, <1>4 DEF Injection, IsInjective
<1>6. Cardinality(1..(2 * d)) <= Cardinality(UE)
  BY <1>1, <1>5, FS_Injection
<1>7. Cardinality(1..(2 * d)) = 2 * d
  <2>1. 1 \in Int /\ 2 * d \in Int /\ (1 > 2 * d => 2 * d = 0)
    BY <1>1
  <2> HIDE DEF d
  <2>2. Cardinality(1..(2 * d)) = IF 1 > 2 * d THEN 0 ELSE 2 * d - 1 + 1
    BY <2>1, FS_Interval
  <2> QED
    BY <2>1, <2>2
<1> QED
  BY <1>6, <1>7

LEMMA BudgetNext ==
    ASSUME Inv, Budget, [Next]_vars PROVE Budget'
<1>1. /\ Cardinality(UE) \in Nat /\ Allowed \in Nat /\ actual \in Nat
      /\ MaxCalls \in Nat
  BY UEAssumption, BoundsAssumption, FS_CardinalityType
     DEF Allowed, Inv, TypeOK
<1>2. CASE CallScheduler_act
  <2>1. PICK new \in SUBSET CallId, ok \in SUBSET CallId :
          \E a, b \in [new -> free] : CallsMade(new, ok, a, b)
    BY <1>2, SchedulerFacts
  <2>2. PICK a \in [new -> free], b \in [new -> free] :
          CallsMade(new, ok, a, b)
    BY <2>1
  <2>3. /\ actual' \in Nat /\ actual <= actual' /\ new = (actual + 1)..actual'
        /\ stage = "call" /\ stage' = StageAfterCalls(actual')
        /\ \A k \in new : a[k] # b[k]
        /\ \A k, j \in new : k # j => /\ a[k] # a[j] /\ b[k] # b[j]
                                      /\ a[k] # b[j]
    BY <2>2, BoundsAssumption DEF CallsMade
  <2>4. 2 * (actual' - actual) <= Cardinality(UE)
    BY <1>1, <2>3, PairsFit
  <2>5. actual <= Allowed
    BY <2>3 DEF Budget
  <2>6. 2 * (actual' - Allowed) <= Cardinality(UE)
    BY <1>1, <2>3, <2>4, <2>5
  <2>7. stage' # "register" /\ (stage' = "call" => actual' <= Allowed)
    BY <1>1, <2>3 DEF StageAfterCalls, Allowed
  <2> QED
    BY <2>6, <2>7 DEF Budget, Allowed
<1>3. CASE InitialRegistrar_act
  <2>1. /\ actual' = actual /\ stage = "register"
        /\ stage' = "call" \/ stage' = stage
    BY <1>3 DEF InitialRegistrar_act
  <2> QED
    BY <1>1, <2>1 DEF Budget, Allowed
<1>4. CASE UNCHANGED <<stage, actual>>
  BY <1>4 DEF Budget, Allowed
<1>5. ASSUME NEW k \in CallId,
             Deliver(k) \/ InviteFails(k) \/ ReplyTimeout(k) \/ Lose(k)
      PROVE  UNCHANGED <<stage, actual>>
  BY <1>5 DEF Deliver, RecvInvite, RecvOK, RecvAck, RecvByeIn, RecvByeOut,
              InviteFails, ReplyTimeout, Lose
<1>6. CASE Registration \/ Idle \/ UNCHANGED vars
  <2>1. UNCHANGED <<stage, actual>>
    BY <1>6 DEF Registration, register_ok, register_failed, reg_tmr_handler,
                Idle, vars
  <2> QED
    BY <1>4, <2>1
<1> QED
  BY <1>2, <1>3, <1>4, <1>5, <1>6 DEF Next

(* While no registration is refreshed, the displayed counters are exact,   *)
(* whatever fails or gets lost: every initiated call is in one column and  *)
(* --max-calls is exceeded by less than the pairs there are.               *)
THEOREM LedgerExact == Spec => [](~Refresh => Ledger)
<1>1. Init => Counts /\ Budget
  <2> SUFFICES ASSUME Init PROVE Counts /\ Budget
    OBVIOUS
  <2>1. /\ \A l \in Leg : phase[l] = "none"
        /\ \A k \in CallId : Out(k) \in Leg
    BY LegFacts DEF Init
  <2>2. Answered = {} /\ Failures = {}
    BY <2>1 DEF Answered, Failures
  <2>3. Counts
    BY <2>1, <2>2, FS_EmptySet DEF Counts, Init
  <2>4. Cardinality(UE) \in Nat /\ Allowed \in Nat
    BY UEAssumption, BoundsAssumption, FS_CardinalityType DEF Allowed
  <2>5. stage = "register" /\ actual = 0
    BY DEF Init
  <2>6. Budget
    BY <2>4, <2>5 DEF Budget
  <2> QED
    BY <2>3, <2>6
<1>2. Inv /\ (~Refresh => Exclusive) /\ (~Refresh => Counts) /\ [Next]_vars
      => (~Refresh => Counts)'
  BY CountsNext
<1>3. Inv /\ Budget /\ [Next]_vars => Budget'
  BY BudgetNext
<1>4. Budget /\ (~Refresh => Counts) => (~Refresh => Ledger)
  BY DEF Budget, Counts, Ledger, Answered, Failures, Allowed
<1> QED
  BY <1>1, <1>2, <1>3, <1>4, InvAlways, ExclusiveAlways, PTL DEF Spec
=============================================================================
