----------------------------- MODULE MCLVCache -----------------------------
(***************************************************************************)
(* An instance of LVCache for TLC.                                         *)
(***************************************************************************)
EXTENDS LVCache

=============================================================================
