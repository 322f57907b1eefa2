----------------------------- MODULE MCIdentity -----------------------------
(* Identity on a small instance; customers and requests may be permuted. *)
EXTENDS Identity, TLC

MCSymmetry == Permutations(Customers) \cup Permutations(Requests)
=============================================================================
