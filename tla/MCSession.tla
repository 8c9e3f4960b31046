------------------------------ MODULE MCSession ------------------------------
(***************************************************************************)
(* Small instances of Session for TLC: the bound is in the configurations. *)
(***************************************************************************)
EXTENDS Session
=============================================================================
