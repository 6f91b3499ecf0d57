----------------------------- MODULE MCMbp131Jack -----------------------------
(* The jack of the MacBookPro13,1 for TLC: small bounds on what can happen.   *)
EXTENDS Mbp131Jack
=============================================================================
