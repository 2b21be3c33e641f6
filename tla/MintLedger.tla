----------------------------- MODULE MintLedger -----------------------------
(***************************************************************************)
(* What the end-of-day mint promises, one transaction or row at a time: an *)
(* NFT is minted only for a ride taken on the participant's ticket or on   *)
(* the account of the family, all NFTs of a transaction go to one          *)
(* participant and wallet, and a row of mint_logs names a transaction that *)
(* minted that ride for that family.                                       *)
(***************************************************************************)
CONSTANTS
  Users, Rides,         \* users.id and rides: the key of a row
  Scans,                \* the scans that may happen on the mint date
  Owner,                \* participant -> user
  NoRow                 \* the value of a key without a row

VARIABLES
  scans,                \* scan_events of the mint date
  chain,                \* NFTs minted
  logs                  \* mint_logs of the mint date, by user and ride

vars == <<scans, chain, logs>>

Init ==
  /\ scans = {}
  /\ chain = {}
  /\ logs = [k \in Users \X Rides |-> NoRow]

Attend == \E s \in Scans : scans' = scans \cup {s} /\ UNCHANGED <<chain, logs>>

Taken(n) ==
  \E s \in scans : s.ride = n.ride /\ s.at = n.at /\ (s.who = n.who \/ s.user = Owner[n.who])

Mint ==
  /\ chain \subseteq chain'
  /\ \A n \in chain' \ chain : Taken(n) /\ \A m \in chain : m.tx # n.tx
  /\ \A m, n \in chain' \ chain : m.tx = n.tx /\ m.who = n.who /\ m.to = n.to
  /\ UNCHANGED <<scans, logs>>

Record ==
  \E n \in chain :
    LET k == <<Owner[n.who], n.ride>>
    IN  /\ k \in DOMAIN logs
        /\ \E who \in {n.who, logs[k].who} :
             logs' = [logs EXCEPT ![k] = [tx |-> n.tx, who |-> who]]
        /\ UNCHANGED <<scans, chain>>

Next == Attend \/ Mint \/ Record

Spec == Init /\ [][Next]_vars

-----------------------------------------------------------------------------
(* What the ledger's steps add up to *)

\* No NFT without its ride, and a transaction has one rider and one kind of wallet: a
\* batch never mixes the rides of two family members.
OnlyRidesTaken == \A n \in chain : Taken(n)
OneRecipient   == \A m, n \in chain : m.tx = n.tx => m.who = n.who /\ m.to = n.to
=============================================================================
