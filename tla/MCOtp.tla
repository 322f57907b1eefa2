------------------------------- MODULE MCOtp -------------------------------
(* Otp on a small instance; requests are only compared and may be permuted. *)
EXTENDS Otp, TLC

MCSymmetry == Permutations(Requests)
=============================================================================
