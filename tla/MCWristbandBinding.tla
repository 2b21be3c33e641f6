------------------------- MODULE MCWristbandBinding -------------------------
(* WristbandBinding on two wristbands, two tickets and two requests at once. *)
EXTENDS WristbandBinding, TLC

CONSTANTS w1, w2, t1, t2, r1, r2

MCWristbands == {w1, w2}
MCTickets == {t1, t2}
MCRequests == {r1, r2}
MostFaults == {"gone", "ticketwrite"}
NoFaults == {}

Symmetry == Permutations(MCWristbands) \cup Permutations(MCTickets)
              \cup Permutations(MCRequests)
=============================================================================
