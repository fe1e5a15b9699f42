------------------------------- MODULE MCServers -------------------------------
(* The servers for TLC: buyers are interchangeable, and so are requests. *)
EXTENDS Servers, TLC

Symmetry == Permutations(Buyer) \union Permutations(Request)
================================================================================
