----------------------------- MODULE MCMintDay -----------------------------
(* A guardian with an account, and its dependents without one.             *)
EXTENDS MintDay, TLC

CONSTANTS u1, q1, q2, c1, c2

TheAccount == {1}
MCUsers == {u1}
MCRides == {q1, q2}
OneCall == {c1}
TwoCalls == {c1, c2}
OneFamily == [p \in 1 .. N |-> u1]

Scan(user, who, ride, time) == [user |-> user, who |-> who, ride |-> ride, at |-> time]

\* Guardian and dependent take the same ride, the dependent another one as well.
MCScans == {Scan(u1, 1, q1, 1), Scan(None, 2, q1, 2), Scan(None, 2, q2, 3)}

SomeFaults == {"refused", "lost", "pg", "gone"}
NoFaults == {}
AllKinds == CallKinds
RunDays == {"run-day"}

Symmetry == Permutations(TwoCalls)
=============================================================================
