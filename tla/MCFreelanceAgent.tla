------------------------- MODULE MCFreelanceAgent -------------------------
(***************************************************************************)
(* Instances of FreelanceAgent for TLC.                                    *)
(***************************************************************************)
EXTENDS FreelanceAgent

=============================================================================
