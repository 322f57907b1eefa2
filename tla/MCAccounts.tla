----------------------------- MODULE MCAccounts -----------------------------
(* Accounts on a small instance; customers, emails and requests may be permuted. *)
EXTENDS Accounts, TLC

MCSymmetry ==
  Permutations(Customers) \cup Permutations(Requests) \cup Permutations(Emails)
=============================================================================
