-------------------------- MODULE MC_CallsRequests --------------------------
(***************************************************************************)
(* Instances of CallsRequests for TLC.                                     *)
(***************************************************************************)
EXTENDS CallsRequests, TLC

\* The calls are interchangeable, apart from those of wallet_sendCalls.
Symmetry == Permutations(Calls \ SendCalls)
=============================================================================
