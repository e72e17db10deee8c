------------------------- MODULE MCParanoidPirate -------------------------
(***************************************************************************)
(* Instances of ParanoidPirate for TLC.  Workers and requests are          *)
(* interchangeable in the specification and in its safety properties.      *)
(***************************************************************************)
EXTENDS ParanoidPirate

Symmetry == Permutations(Worker) \cup Permutations(Request)

=============================================================================
