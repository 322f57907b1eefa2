----------------------------- MODULE MCSessions -----------------------------
(* Sessions on a small instance.  Customers, tokens and requests are model *)
(* values that only ever are compared, so they may be permuted.            *)
EXTENDS Sessions, TLC

MCSymmetry ==
  Permutations(Customers) \cup Permutations(Tokens) \cup Permutations(Requests)
=============================================================================
