-------------------------- MODULE MCCardPublication --------------------------
(***************************************************************************)
(* Instances of CardPublication for TLC.  Ids are model values; the        *)
(* safety instance is symmetric in them, the liveness one is not reduced.  *)
(***************************************************************************)
EXTENDS CardPublication, TLC

IdSymmetry == Permutations(Readers) \union Permutations(Cards)

=============================================================================
