---------------------------- MODULE MC_AuthEngine ----------------------------
(* Model-checking instance of AuthEngine: the TTLs are scaled down so that *)
(* an entry can expire, and cross the refresh-ahead threshold, in a few    *)
(* ticks.  With HitTTL = 5 the thresholds are 1..2 ticks (18..54 s of 180).*)
EXTENDS AuthEngine, TLC

MCHitTTL == 5
MCMissTTL == 7
=============================================================================
