----------------------------- MODULE MCCampaign -----------------------------
(* Campaign on a small instance; no symmetry, since liveness is checked. *)
EXTENDS Campaign
=============================================================================
