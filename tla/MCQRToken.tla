----------------------------- MODULE MCQRToken -----------------------------
(* QRToken with two gates, one of them a tick ahead, and the tightest TTL.  *)
EXTENDS QRToken, TLC

CONSTANTS k1, k2, r1, r2, g1, g2

MCTokens == {k1, k2}
MCRequests == {r1, r2}
MCGates == {g1, g2}
MCAhead == [g \in MCGates |-> IF g = g1 THEN 0 ELSE 1]

ASSUME SlackIsTight == (Rotation + 1) * Second + Spread + MaxDelay = MarkerTTL * Second

Symmetry == Permutations(MCTokens) \cup Permutations(MCRequests)
=============================================================================
