--------------------------- MODULE MCControlNode ---------------------------
(***************************************************************************)
(* ControlNode for TLC: the constants come from the configurations.        *)
(***************************************************************************)
EXTENDS ControlNode
=============================================================================
