--------------------------- MODULE MCDTCManager ---------------------------
(***************************************************************************)
(* DTCManager for TLC: interchangeable trouble codes.                      *)
(***************************************************************************)
EXTENDS DTCManager, TLC

CodeSymmetry == Permutations(Code)
=============================================================================
