----------------------------- MODULE RegContract -----------------------------
(***************************************************************************)
(* What the rest of the program relies on in a registration (a sipreg):    *)
(* the states it goes through between sipreg_register and the moment it    *)
(* lets go of its stack.  A sipreg implements it (SipReg); a run of the    *)
(* program is checked with registrations that take the same steps (Stacks) *)
(* but are not trusted to come to an end.                                  *)
(***************************************************************************)

VARIABLE reg

-----------------------------------------------------------------------------
(* A REGISTER is in flight and the UE was not, was registered before; the  *)
(* timer runs and it is not, is registered; given up with that REGISTER    *)
(* still in flight; un-REGISTER in flight.                                 *)
Holding == {"pending", "refreshing", "waiting", "registered",
            "lastpending", "lastrefresh", "unregistering"}

Init == reg = "null"

Register == reg = "null" /\ reg' = "pending"

Fails == reg = "pending" /\ reg' = "waiting"

Succeeds == reg \in {"pending", "refreshing"} /\ reg' = "registered"

Again ==
    \/ reg = "waiting" /\ reg' = "pending"
    \/ reg = "registered" /\ reg' = "refreshing"

(* It is given up.                                                         *)
GiveUp ==
    \/ reg = "pending" /\ reg' = "lastpending"
    \/ reg = "refreshing" /\ reg' = "lastrefresh"
    \/ reg = "waiting" /\ reg' = "gone"
    \/ reg = "registered" /\ reg' \in {"unregistering", "gone"}

(* The REGISTER in flight when it was given up has ended.                  *)
Last ==
    \/ reg = "lastpending" /\ reg' \in {"unregistering", "gone"}
    \/ reg = "lastrefresh" /\ reg' \in {"unregistering", "gone"}

Unregistered == reg = "unregistering" /\ reg' = "gone"

Next == Register \/ Fails \/ Succeeds \/ Again \/ GiveUp \/ Last \/ Unregistered

(* Given up, it comes to an end.                                           *)
Spec == Init /\ [][Next]_reg /\ WF_reg(Last \/ Unregistered)
=============================================================================
