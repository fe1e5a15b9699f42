-------------------------------- MODULE MCOptIn --------------------------------
(* Opting in, for TLC: accounts are interchangeable. *)
EXTENDS OptIn, TLC

Symmetry == Permutations(Account)
================================================================================
