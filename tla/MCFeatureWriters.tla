--------------------------- MODULE MCFeatureWriters --------------------------
(* FeatureWriters for TLC: users differ in nothing but their names. *)
EXTENDS FeatureWriters, TLC

Symmetry == Permutations(Users)
=============================================================================
