---------------------------- MODULE MCTypedResult ----------------------------
(***************************************************************************)
(* Instances of TypedResult for TLC: entries and fetches are model values. *)
(***************************************************************************)
EXTENDS TypedResult, TLC

ResultSymmetry == Permutations(Entries) \union Permutations(Fetches)

=============================================================================
