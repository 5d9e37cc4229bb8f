----------------------------- MODULE MCTablePages -----------------------------
(* Instances of TablePages; the rows are interchangeable.                  *)
EXTENDS TablePages, TLC

Symmetry == Permutations(Rows)
=============================================================================
