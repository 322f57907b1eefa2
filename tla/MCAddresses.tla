---------------------------- MODULE MCAddresses ----------------------------
(* Addresses on a small instance; all sets but that of customers are permuted too. *)
EXTENDS Addresses, TLC

MCSymmetry ==
  Permutations(Customers) \cup Permutations(Requests) \cup Permutations(Rows)
    \cup Permutations(Keys) \cup Permutations(Copies)
=============================================================================
