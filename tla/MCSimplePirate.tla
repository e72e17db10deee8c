--------------------------- MODULE MCSimplePirate ---------------------------
(***************************************************************************)
(* Instances of SimplePirate for TLC.                                      *)
(***************************************************************************)
EXTENDS SimplePirate

=============================================================================
