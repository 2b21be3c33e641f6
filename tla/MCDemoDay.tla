----------------------------- MODULE MCDemoDay -----------------------------
(* DemoDay with two guardians, one of whom rides itself in 2d, and two      *)
(* requests at once.                                                        *)
EXTENDS DemoDay, TLC

CONSTANTS r1, r2

MCRequests == {r1, r2}
AllFaults == FaultKinds

Symmetry == Permutations(MCRequests)
=============================================================================
