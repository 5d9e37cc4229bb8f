--------------------------- MODULE MCUserAccounts ---------------------------
(* UserAccounts with two admins, who are interchangeable, as are the       *)
(* requests under way.                                                     *)
EXTENDS UserAccounts, TLC

MCSymmetry == Permutations(Users) \cup Permutations(Handlers)
=============================================================================
