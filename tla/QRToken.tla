------------------------------ MODULE QRToken ------------------------------
(***************************************************************************)
(* The rotating QR token of the gate (internal/gate/qr.go) and its         *)
(* one-time use (MarkQRUsed in internal/redis/client.go).  A token carries *)
(* the second it was generated at; a bind accepts it while it is at most   *)
(* Rotation seconds away from that second, and then takes a Redis marker   *)
(* that lives for MarkerTTL seconds.  Time passes in ticks, so that the    *)
(* rounding of time.Now().Unix() shows.                                    *)
(***************************************************************************)
EXTENDS Integers

CONSTANTS
  Tokens, None,         \* tokens, by their uuid; None is not one
  Requests,             \* bind requests that may be in progress at once
  Gates,                \* gate processes, each with a clock of its own
  Ahead,                \* ticks a gate's clock is ahead of the slowest one
  Spread,               \* bound on Ahead
  Second,               \* ticks in a second
  Rotation,             \* QRRotationSeconds
  MarkerTTL,            \* GraceWindowSec + 30
  MaxDelay,             \* ticks between a request's clock reading and its SETNX
  Horizon               \* bound: ticks the model runs for

ASSUME ClockAssumption ==
  /\ Second \in Nat \ {0} /\ Spread \in Nat /\ MaxDelay \in Nat /\ Horizon \in Nat
  /\ Ahead \in [Gates -> 0 .. Spread]

ASSUME NoneAssumption == None \notin Tokens

ASSUME WindowAssumption == Rotation \in Nat /\ MarkerTTL \in Nat

VARIABLES
  now,                  \* ticks since the start
  stamp,                \* per token: its timestamp, or NotIssued
  marker,               \* per token: the tick at which qr:<uuid> expires, or 0
  uses,                 \* per token: how often a bind consumed it
  tok, since            \* per request: its token (or None) and when it was verified

requests == <<tok, since>>
vars     == <<now, stamp, marker, uses, requests>>

NotIssued == -1

TypeOK ==
  /\ now \in 0 .. Horizon
  /\ stamp \in [Tokens -> Int]
  /\ \A k \in Tokens : stamp[k] = NotIssued \/ stamp[k] * Second <= now + Spread
  /\ marker \in [Tokens -> Nat]
  /\ uses \in [Tokens -> Nat]
  /\ tok \in [Requests -> Tokens \cup {None}]
  /\ since \in [Requests -> 0 .. Horizon]
  /\ \A r \in Requests : tok[r] # None => stamp[tok[r]] # NotIssued /\ since[r] <= now

Init ==
  /\ now = 0
  /\ stamp = [k \in Tokens |-> NotIssued]
  /\ marker = [k \in Tokens |-> 0]
  /\ uses = [k \in Tokens |-> 0]
  /\ tok = [r \in Requests |-> None]
  /\ since = [r \in Requests |-> 0]

-----------------------------------------------------------------------------
\* time.Now().Unix() at gate g.  Mutant: not rounded to seconds.
UnixTicks(g) == now + Ahead[g]
Unix(g) == (now + Ahead[g]) \div Second

\* GenerateQROTP
Generate(k, g) ==
  /\ stamp[k] = NotIssued
  /\ stamp' = [stamp EXCEPT ![k] = Unix(g)]
  /\ UNCHANGED <<now, marker, uses, requests>>

\* VerifyQROTP's window, on both sides of the timestamp.  The signature of a
\* token the gate has issued is good.
Verifies(k, g) ==
  LET age == Unix(g) - stamp[k]
  IN  stamp[k] # NotIssued /\ age <= Rotation /\ -age <= Rotation

\* A bind request reads the clock; the owner of the ticket is looked up next.
Verify(r, k, g) ==
  /\ tok[r] = None
  /\ Verifies(k, g)
  /\ tok' = [tok EXCEPT ![r] = k]
  /\ since' = [since EXCEPT ![r] = now]
  /\ UNCHANGED <<now, stamp, marker, uses>>

\* A used token's key exists until it expires.
Used(k) == now < marker[k]

\* When the key set now expires.  Mutant: it lives as long as the rotation.
MarkedUntilRotation == now + Rotation * Second
MarkedUntil == now + MarkerTTL * Second

Done(r) ==
  /\ tok' = [tok EXCEPT ![r] = None]
  /\ since' = [since EXCEPT ![r] = 0]

\* MarkQRUsed (SETNX): the token is consumed, or the bind is refused as a replay.
MarkQRUsed(r) ==
  /\ tok[r] # None
  /\ \/ /\ ~Used(tok[r])
        /\ marker' = [marker EXCEPT ![tok[r]] = MarkedUntil]
        /\ uses' = [uses EXCEPT ![tok[r]] = @ + 1]
     \/ Used(tok[r]) /\ UNCHANGED <<marker, uses>>
  /\ Done(r)
  /\ UNCHANGED <<now, stamp>>

\* The request ends before its SETNX: no owner found, a failed call, a client gone.
Abandon(r) ==
  /\ tok[r] # None
  /\ Done(r)
  /\ UNCHANGED <<now, stamp, marker, uses>>

\* A tick, while no request is older than MaxDelay.
Tick ==
  /\ now < Horizon
  /\ \A r \in Requests : tok[r] # None => now < since[r] + MaxDelay
  /\ now' = now + 1
  /\ UNCHANGED <<stamp, marker, uses, requests>>

Next ==
  \/ \E k \in Tokens, g \in Gates : Generate(k, g)
  \/ \E r \in Requests, k \in Tokens, g \in Gates : Verify(r, k, g)
  \/ \E r \in Requests : MarkQRUsed(r) \/ Abandon(r)
  \/ Tick

Spec == Init /\ [][Next]_vars

-----------------------------------------------------------------------------
\* The slack the numbers need: a marker set in the first instant of a token's life
\* outlives the last second the token is accepted in, on the slowest clock and
\* by the slowest request.  With 30 s and 5 s it leaves four seconds for both.
Slack == (Rotation + 1) * Second + Spread + MaxDelay <= MarkerTTL * Second

\* A token binds at most once: no replay inside the window finds the marker
\* already expired (MarkQRUsed, R21).
OneTimeUse == \A k \in Tokens : uses[k] <= 1
=============================================================================
