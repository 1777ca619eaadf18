--------------------------- MODULE MCNodeManager ---------------------------
(***************************************************************************)
(* NodeManager for TLC.  The nodes are interchangeable, but a symmetry     *)
(* would not be sound for the liveness property.                           *)
(***************************************************************************)
EXTENDS NodeManager
=============================================================================
