----------------------------- MODULE MCReferrals -----------------------------
(* Constants of the TLC instances of Referrals.                            *)
EXTENDS Referrals

CONSTANTS r1, r2
=============================================================================
