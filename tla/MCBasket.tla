------------------------------ MODULE MCBasket ------------------------------
(* Basket on a small instance; its sets of names are permuted. *)
EXTENDS Basket, TLC

MCSymmetry ==
  Permutations(Customers) \cup Permutations(Requests) \cup Permutations(Carts)
    \cup Permutations(Variants) \cup Permutations(Products) \cup Permutations(Views)
=============================================================================
