-------------------------- MODULE MCSecureReceiver --------------------------
(***************************************************************************)
(* SecureReceiver for TLC.                                                 *)
(***************************************************************************)
EXTENDS SecureReceiver
=============================================================================
