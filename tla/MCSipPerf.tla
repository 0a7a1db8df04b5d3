----------------------------- MODULE MCSipPerf -----------------------------
(* SipPerf for TLC.  UserAgents are interchangeable.                       *)
EXTENDS SipPerf, TLC

Symmetry == Permutations(UE)
=============================================================================
