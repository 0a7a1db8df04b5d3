---------------------------- MODULE SessContract ----------------------------
(***************************************************************************)
(* What a SIP session promises the one who holds it: the session handed    *)
(* over by sipsess_connect or sipsess_accept is told to be up at most once *)
(* and to be closed at most once, up never after closed; nothing is told   *)
(* once it has been given up, which the holder may do at any time and also *)
(* inside the handlers; it exists as long as it is held, and not forever   *)
(* after.                                                                  *)
(***************************************************************************)
EXTENDS Sequences

VARIABLES
    told,   \* what its holder was told, in order
    held,   \* the holder has not given it up
    alive   \* it exists

vars == <<told, held, alive>>
-----------------------------------------------------------------------------
Init == told = <<>> /\ held = FALSE /\ alive = FALSE

Create ==
    /\ ~alive
    /\ told' = <<>> /\ held' = TRUE /\ alive' = TRUE

(* The holder is told, and keeps the session or gives it up, which may be  *)
(* the end of it.                                                          *)
Tell(what) ==
    /\ held
    /\ \/ told' = Append(told, what) /\ UNCHANGED <<held, alive>>
       \/ told' = Append(told, what) /\ held' = FALSE /\ UNCHANGED alive
       \/ told' = <<>> /\ held' = FALSE /\ alive' = FALSE

Up == told = <<>> /\ Tell("up")

Closed == told \in {<<>>, <<"up">>} /\ Tell("closed")

Drop ==
    /\ held /\ held' = FALSE
    /\ \/ UNCHANGED <<told, alive>>
       \/ told' = <<>> /\ alive' = FALSE

Free == alive /\ ~held /\ alive' = FALSE /\ told' = <<>> /\ UNCHANGED held

Next == Create \/ Up \/ Closed \/ Drop \/ Free

Spec == Init /\ [][Next]_vars /\ WF_vars(Free)
=============================================================================
