-------------------------- MODULE MCMinterBackend --------------------------
(* MinterBackend with two calls at once and one permit between them: two    *)
(* mints that share a ride but not their day, a claim of two NFTs, probes.  *)
EXTENDS MinterBackend

CONSTANTS c1, c2, m1, m2, d1, d2, o1, o2, p1, w1

MCCalls == {c1, c2}
MCRides == {m1, m2}
MCDates == {d1, d2}
MCMints == {[rides |-> {m1, m2}, date |-> d1], [rides |-> {m1}, date |-> d2]}
MCObjects == {o1, o2}
MCPeople == {p1}
MCWallets == {w1}
MCBodies == {[who |-> p1, to |-> w1, named |-> MCObjects]}

\* All but the errors the client cannot tell apart
SomeFaults == (PinFaults \cup RPCFaults) \ {"echo", "abort"}
=============================================================================
