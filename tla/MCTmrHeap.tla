------------------------------ MODULE MCTmrHeap -----------------------------
(* TmrHeap for TLC: the timers are interchangeable.                        *)
EXTENDS TmrHeap, TLC

Sym == Permutations(Timer)
=============================================================================
