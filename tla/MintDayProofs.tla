--------------------------- MODULE MintDayProofs ---------------------------
(***************************************************************************)
(* Theorems about the mint day, for any family, scans, calls and numbers:  *)
(* it is well-typed, it implements the mint ledger as long as a returned   *)
(* digest means a successful transaction, and under the same condition its *)
(* answers are true however calls overlap and whatever else fails.         *)
(***************************************************************************)
EXTENDS MintDay, TLAPS

USE FamilyAssumption, RunAssumption DEF Participants

\* A cursor stays within the participants, and leads to one of two steps.
LEMMA AdvanceMoves ==
  ASSUME TypeOK, NEW r \in Runs, NEW step \in Steps, NEW after \in Steps,
         Advance(r, step, after)
  PROVE  /\ pc' \in [Runs -> Steps] /\ at' \in [Runs -> Participants]
         /\ \A c \in Runs \ {r} : pc'[c] = pc[c] /\ at'[c] = at[c]
         /\ \/ at[r] < N /\ pc'[r] = step /\ at'[r] = at[r] + 1
            \/ at[r] = N /\ pc'[r] = after /\ at'[r] = 1
<1>1. at[r] \in 1 .. N /\ N \in Nat \ {0} /\ pc \in [Runs -> Steps] /\ at \in [Runs -> 1 .. N]
  BY DEF TypeOK
<1>2. CASE at[r] < N
  <2>1. at[r] + 1 \in 1 .. N /\ Goto(r, step, at[r] + 1)
    BY <1>1, <1>2 DEF Advance
  <2> QED  BY <1>1, <1>2, <2>1 DEF Goto
<1>3. CASE at[r] = N
  <2>1. 1 \in 1 .. N /\ Goto(r, after, 1)
    BY <1>1, <1>3 DEF Advance
  <2> QED  BY <1>1, <1>3, <2>1 DEF Goto
<1> QED  BY <1>1, <1>2, <1>3

LEMMA GotoMoves ==
  ASSUME TypeOK, NEW r \in Runs, NEW step \in Steps, NEW p \in Participants, Goto(r, step, p)
  PROVE  /\ pc' \in [Runs -> Steps] /\ at' \in [Runs -> Participants]
         /\ \A c \in Runs \ {r} : pc'[c] = pc[c] /\ at'[c] = at[c]
         /\ pc'[r] = step /\ at'[r] = p
BY DEF TypeOK, Goto

LEMMA AfterResolutionIsStep ==
  ASSUME TypeOK, NEW r \in Runs
  PROVE  /\ AfterResolution(r) \in {"answered", "mint", "check"} /\ AfterResolution(r) \in Steps
         /\ AfterResolution(r) = "answered" <=> kind[r] = "resolve-day"
BY DEF TypeOK, AfterResolution, CallKinds, Steps

\* Rides found are visits of the day, and a batch of them is made of NFTs.
LEMMA RidesOfType ==
  ASSUME TypeOK, NEW p \in Participants
  PROVE  RidesOf(p) \in SUBSET Visits
BY DEF TypeOK, RidesOf, Visits

LEMMA VisitType ==
  ASSUME NEW v \in Visits
  PROVE  v.ride \in Rides /\ v.at \in Nat /\ v = [ride |-> v.ride, at |-> v.at]
BY DEF Visits, Visit

LEMMA BatchType ==
  ASSUME NEW tx \in Nat \ {0}, NEW p \in Participants, NEW to \in WalletStates,
         NEW visits \in SUBSET Visits
  PROVE  Batch(tx, p, to, visits) \subseteq NFTs
BY VisitType DEF Batch, NFTs

-----------------------------------------------------------------------------
\* Reachable states are well-typed; in particular a call has rides to record exactly
\* while it is recording.
THEOREM TypeCorrect == Spec => []TypeOK
<1>1. Init => TypeOK
  BY DEF Init, TypeOK, NoRow, Rows, WalletStates, Steps, CallKinds
<1>2. ASSUME TypeOK, [Next]_vars
      PROVE  TypeOK'
  <2> USE <1>2
  <2>1. ASSUME NEW s \in Scans, ScanArrives(s)
        PROVE  TypeOK'
    BY <2>1 DEF ScanArrives, TypeOK, calls
  <2>2. ASSUME NEW p \in Participants, NEW state \in WalletStates, SetParticipantWallet(p, state)
        PROVE  TypeOK'
    BY <2>2 DEF SetParticipantWallet, TypeOK, calls, ledger
  <2>3. ASSUME NEW r \in Runs, NEW k \in Kinds, Start(r, k)
        PROVE  TypeOK'
    <3>1. Goto(r, "resolve", 1) /\ "resolve" \in Steps /\ 1 \in Participants
      BY <2>3 DEF Start, Steps
    <3>2. /\ pc' \in [Runs -> Steps] /\ at' \in [Runs -> Participants]
          /\ \A c \in Runs \ {r} : pc'[c] = pc[c]
          /\ pc'[r] = "resolve"
      BY <3>1, GotoMoves
    <3>3. started' \in 0 .. MaxRuns /\ kind' \in [Runs -> CallKinds]
      BY <2>3 DEF Start, TypeOK
    <3>4. /\ listed' \in [Runs -> [Participants -> WalletStates]]
          /\ found' \in [Runs -> [Participants -> SUBSET Visits]]
          /\ digest' \in [Runs -> [Participants -> Nat]]
          /\ failed' \in [Runs -> SUBSET Participants]
      BY <2>3 DEF Start, TypeOK
    <3>5. \A c \in Runs : pc'[c] = "record" <=> left'[c] # {}
      BY <2>3, <3>2 DEF Start, TypeOK
    <3> QED  BY <2>3, <3>2, <3>3, <3>4, <3>5 DEF Start, TypeOK, ledger
  <2>4. ASSUME NEW r \in Runs, Resolve(r)
        PROVE  TypeOK'
    <3>1. at[r] \in Participants /\ RidesOf(at[r]) \in SUBSET Visits
      BY RidesOfType DEF TypeOK
    <3>2. /\ pc' \in [Runs -> Steps] /\ at' \in [Runs -> Participants]
          /\ \A c \in Runs \ {r} : pc'[c] = pc[c]
          /\ pc'[r] # "record"
      <4>1. CASE Goto(r, "upsert", at[r])
        BY <3>1, <4>1, GotoMoves DEF Steps
      <4>2. CASE Advance(r, "resolve", AfterResolution(r))
        BY <4>2, AdvanceMoves, AfterResolutionIsStep DEF Steps
      <4> QED  BY <2>4, <4>1, <4>2 DEF Resolve
    <3> QED  BY <2>4, <3>1, <3>2 DEF Resolve, TypeOK, ledger
  <2>5. ASSUME NEW r \in Runs, UpsertPendingMint(r)
        PROVE  TypeOK'
    <3>1. Advance(r, "resolve", AfterResolution(r)) /\ "resolve" \in Steps
      BY <2>5 DEF UpsertPendingMint, Steps
    <3>2. /\ pc' \in [Runs -> Steps] /\ at' \in [Runs -> Participants]
          /\ \A c \in Runs \ {r} : pc'[c] = pc[c]
          /\ pc'[r] # "record"
      BY <3>1, AdvanceMoves, AfterResolutionIsStep
    <3>3. pending' \in [Participants -> SUBSET Visits]
      BY <2>5 DEF UpsertPendingMint, TypeOK
    <3> QED  BY <2>5, <3>2, <3>3 DEF UpsertPendingMint, TypeOK, ledger
  <2>6. ASSUME NEW r \in Runs, CheckMinted(r)
        PROVE  TypeOK'
    <3>1. Advance(r, "check", "mint") /\ "check" \in Steps /\ "mint" \in Steps
      BY <2>6 DEF CheckMinted, Steps
    <3>2. /\ pc' \in [Runs -> Steps] /\ at' \in [Runs -> Participants]
          /\ \A c \in Runs \ {r} : pc'[c] = pc[c]
          /\ pc'[r] # "record"
      BY <3>1, AdvanceMoves
    <3> QED  BY <2>6, <3>2 DEF CheckMinted, TypeOK, ledger
  <2>7. ASSUME NEW r \in Runs, ResolveError(r)
        PROVE  TypeOK'
    <3>1. Goto(r, "answered", 1) /\ "answered" \in Steps /\ 1 \in Participants
      BY <2>7 DEF ResolveError, Steps
    <3>2. /\ pc' \in [Runs -> Steps] /\ at' \in [Runs -> Participants]
          /\ \A c \in Runs \ {r} : pc'[c] = pc[c]
          /\ pc'[r] = "answered"
      BY <3>1, GotoMoves
    <3> QED  BY <2>7, <3>2 DEF ResolveError, TypeOK, ledger
  <2>8. ASSUME NEW r \in Runs, Skip(r)
        PROVE  TypeOK'
    <3>1. Advance(r, "mint", "answered") /\ "mint" \in Steps /\ "answered" \in Steps
      BY <2>8 DEF Skip, NextLive, Steps
    <3>2. /\ pc' \in [Runs -> Steps] /\ at' \in [Runs -> Participants]
          /\ \A c \in Runs \ {r} : pc'[c] = pc[c]
          /\ pc'[r] # "record"
      BY <3>1, AdvanceMoves
    <3> QED  BY <2>8, <3>2 DEF Skip, TypeOK, ledger
  <2>9. ASSUME NEW r \in Runs, MintBatchAttendance(r)
        PROVE  TypeOK'
    <3>1. /\ at[r] \in Participants /\ found[r][at[r]] \in SUBSET Visits
          /\ found[r][at[r]] # {} /\ listed[r][at[r]] \in WalletStates
      BY <2>9 DEF MintBatchAttendance, Live, TypeOK
    <3>2. txs + 1 \in Nat \ {0}
      BY DEF TypeOK
    <3>3. Batch(txs + 1, at[r], listed[r][at[r]], found[r][at[r]]) \subseteq NFTs
      BY <3>1, <3>2, BatchType
    <3>4. Execute(r) => txs' \in Nat /\ chain' \subseteq NFTs
      BY <3>2, <3>3 DEF Execute, TypeOK
    <3>5. ASSUME Minted(r, txs + 1)
          PROVE  /\ digest' \in [Runs -> [Participants -> Nat]]
                 /\ left' \in [Runs -> SUBSET Rides] /\ left'[r] # {}
                 /\ \A c \in Runs \ {r} : pc'[c] = pc[c] /\ left'[c] = left[c]
                 /\ pc' \in [Runs -> Steps] /\ at' \in [Runs -> Participants]
                 /\ pc'[r] = "record"
      <4>1. {v.ride : v \in found[r][at[r]]} \in SUBSET Rides /\ {v.ride : v \in found[r][at[r]]} # {}
        BY <3>1, VisitType
      <4>2. Goto(r, "record", at[r]) /\ "record" \in Steps
        BY <3>5 DEF Minted, Steps
      <4>3. /\ pc' \in [Runs -> Steps] /\ at' \in [Runs -> Participants]
            /\ \A c \in Runs \ {r} : pc'[c] = pc[c]
            /\ pc'[r] = "record"
        BY <3>1, <4>2, GotoMoves
      <4> QED  BY <3>1, <3>2, <3>5, <4>1, <4>3 DEF Minted, TypeOK
    <3>6. ASSUME Blame(r), NextLive(r), UNCHANGED <<digest, left>>
          PROVE  /\ failed' \in [Runs -> SUBSET Participants]
                 /\ \A c \in Runs \ {r} : pc'[c] = pc[c]
                 /\ pc' \in [Runs -> Steps] /\ at' \in [Runs -> Participants]
                 /\ pc'[r] # "record" /\ pc[r] # "record"
      <4>1. Advance(r, "mint", "answered") /\ "mint" \in Steps /\ "answered" \in Steps
        BY <3>6 DEF NextLive, Steps
      <4>2. /\ pc' \in [Runs -> Steps] /\ at' \in [Runs -> Participants]
            /\ \A c \in Runs \ {r} : pc'[c] = pc[c]
            /\ pc'[r] # "record"
        BY <4>1, AdvanceMoves
      <4> QED  BY <2>9, <3>1, <3>6, <4>2 DEF Blame, MintBatchAttendance, TypeOK
    <3>7. CASE Execute(r) /\ Minted(r, txs + 1) /\ UNCHANGED failed
      BY <2>9, <3>4, <3>5, <3>7 DEF MintBatchAttendance, TypeOK
    <3>8. CASE Refused(r)
      BY <2>9, <3>6, <3>8 DEF MintBatchAttendance, Refused, TypeOK
    <3>9. CASE Execute(r) /\ Blame(r) /\ NextLive(r) /\ UNCHANGED <<digest, left>>
      BY <2>9, <3>4, <3>6, <3>9 DEF MintBatchAttendance, TypeOK
    <3>10. CASE txs' = txs + 1 /\ Minted(r, txs + 1) /\ UNCHANGED <<chain, failed>>
      BY <2>9, <3>2, <3>5, <3>10 DEF MintBatchAttendance, TypeOK
    <3> QED  BY <2>9, <3>7, <3>8, <3>9, <3>10 DEF MintBatchAttendance
  <2>10. ASSUME NEW r \in Runs, NEW ride \in Rides, RecordMintForParticipant(r, ride)
         PROVE  TypeOK'
    <3>1. /\ at[r] \in Participants /\ <<Owner[at[r]], ride>> \in Users \X Rides
          /\ digest[r][at[r]] \in Nat
      BY <2>10 DEF RecordMintForParticipant, TypeOK
    <3>2. logs' \in [Users \X Rides -> Rows]
      BY <2>10, <3>1 DEF RecordMintForParticipant, RecordMint, TypeOK, Rows
    <3>3. /\ pc' \in [Runs -> Steps] /\ at' \in [Runs -> Participants]
          /\ \A c \in Runs \ {r} : pc'[c] = pc[c]
          /\ pc'[r] = "record" <=> left[r] # {ride}
      <4>1. CASE left[r] = {ride}
        <5>1. Advance(r, "mint", "answered") /\ "mint" \in Steps /\ "answered" \in Steps
          BY <2>10, <4>1 DEF RecordMintForParticipant, NextLive, Steps
        <5> QED  BY <4>1, <5>1, AdvanceMoves
      <4>2. CASE left[r] # {ride}
        BY <2>10, <4>2 DEF RecordMintForParticipant, TypeOK
      <4> QED  BY <4>1, <4>2
    <3>4. left' \in [Runs -> SUBSET Rides] /\ \A c \in Runs : pc'[c] = "record" <=> left'[c] # {}
      <4>1. left \in [Runs -> SUBSET Rides] /\ left' = [left EXCEPT ![r] = left[r] \ {ride}]
            /\ ride \in left[r] /\ \A c \in Runs : pc[c] = "record" <=> left[c] # {}
        BY <2>10 DEF RecordMintForParticipant, TypeOK
      <4> QED  BY <3>3, <4>1
    <3> QED  BY <2>10, <3>2, <3>3, <3>4 DEF RecordMintForParticipant, TypeOK
  <2>11. ASSUME NEW r \in Runs, RecordError(r)
         PROVE  TypeOK'
    <3>1. Advance(r, "mint", "answered") /\ "mint" \in Steps /\ "answered" \in Steps
      BY <2>11 DEF RecordError, NextLive, Steps
    <3>2. /\ pc' \in [Runs -> Steps] /\ at' \in [Runs -> Participants]
          /\ \A c \in Runs \ {r} : pc'[c] = pc[c]
          /\ pc'[r] # "record"
      BY <3>1, AdvanceMoves
    <3> QED  BY <2>11, <3>2 DEF RecordError, Blame, TypeOK, ledger
  <2>12. ASSUME NEW r \in Runs, Abandon(r)
         PROVE  TypeOK'
    <3>1. Goto(r, "idle", 1) /\ "idle" \in Steps /\ 1 \in Participants
      BY <2>12 DEF Abandon, Steps
    <3>2. /\ pc' \in [Runs -> Steps] /\ at' \in [Runs -> Participants]
          /\ \A c \in Runs \ {r} : pc'[c] = pc[c]
          /\ pc'[r] = "idle"
      BY <3>1, GotoMoves
    <3> QED  BY <2>12, <3>2 DEF Abandon, TypeOK, ledger
  <2>13. CASE UNCHANGED vars
    BY <2>13 DEF vars, TypeOK, ledger, calls
  <2> QED  BY <2>1, <2>2, <2>3, <2>4, <2>5, <2>6, <2>7, <2>8, <2>9, <2>10, <2>11, <2>12, <2>13
           DEF Next, Run
<1> QED  BY <1>1, <1>2, PTL DEF Spec

-----------------------------------------------------------------------------
\* A digest the client returns without an error is that of a successful transaction.
NoAborts == "abort" \notin Faults

Rowed(p, ride) == Owner[p] # None /\ logs[<<Owner[p], ride>>].tx # 0
InChain(c, p)  == Batch(digest[c][p], p, listed[c][p], found[c][p]) \subseteq chain

\* Call c is done with the resolution, or with the mint, of participant p.
Seen(c, p) ==
  \/ pc[c] \in {"resolve", "upsert"} /\ p < at[c]
  \/ pc[c] \in {"check", "mint", "record", "answered"}
Served(c, p) ==
  \/ pc[c] \in {"mint", "record"} /\ p < at[c]
  \/ pc[c] = "answered" /\ kind[c] # "resolve-day"

\* What a call has done so far for the participants it does not report in error.
Parked(c) ==
  \A p \in Participants \ failed[c] :
    Seen(c, p) /\ found[c][p] # {} /\ listed[c][p] = "NONE" => pending[p] # {}
Settled(c) ==
  \A p \in Participants \ failed[c] :
    Served(c, p) /\ found[c][p] # {} /\ listed[c][p] # "NONE" =>
      InChain(c, p) /\ \A v \in found[c][p] : Rowed(p, v.ride)
Upserting(c) == pc[c] = "upsert" => found[c][at[c]] # {}
Recording(c) ==
  pc[c] = "record" =>
    /\ InChain(c, at[c]) /\ found[c][at[c]] # {}
    /\ left[c] \subseteq {v.ride : v \in found[c][at[c]]}
    /\ \A v \in found[c][at[c]] : v.ride \in left[c] \/ Rowed(at[c], v.ride)
Found(c) == \A p \in Participants : found[c][p] \subseteq RidesOf(p)

CallInv(c) == Parked(c) /\ Settled(c) /\ Upserting(c) /\ Recording(c) /\ Found(c)

DayInv ==
  /\ TypeOK
  /\ \A n \in chain : n.tx <= txs
  /\ \A c \in Runs : CallInv(c)

\* The stores only ever gain what calls rely on.
Grows ==
  /\ scans \subseteq scans' /\ chain \subseteq chain'
  /\ \A p \in Participants : pending[p] # {} => pending'[p] # {}
  /\ \A k \in Users \X Rides : logs[k].tx # 0 => logs'[k].tx # 0

\* Call c is where it was.
Same(c) ==
  /\ pc'[c] = pc[c] /\ kind'[c] = kind[c] /\ at'[c] = at[c] /\ listed'[c] = listed[c]
  /\ found'[c] = found[c] /\ digest'[c] = digest[c] /\ left'[c] = left[c]
  /\ failed'[c] = failed[c]

LEMMA RidesGrow ==
  ASSUME scans \subseteq scans', NEW p \in Participants
  PROVE  RidesOf(p) \subseteq RidesOf(p)'
BY DEF RidesOf

LEMMA RowsGrow ==
  ASSUME TypeOK, Grows, NEW p \in Participants, NEW ride \in Rides, Rowed(p, ride)
  PROVE  Rowed(p, ride)'
<1>1. <<Owner[p], ride>> \in Users \X Rides
  BY DEF Rowed
<1> QED  BY <1>1 DEF Rowed, Grows

\* A call that does not move keeps its invariant.
LEMMA Undisturbed ==
  ASSUME TypeOK, Grows, NEW c \in Runs, CallInv(c), Same(c)
  PROVE  CallInv(c)'
<1>1. \A p \in Participants : \A v \in found[c][p] : v.ride \in Rides
  BY VisitType DEF TypeOK
<1>2. \A p \in Participants : InChain(c, p) => InChain(c, p)'
  BY DEF InChain, Batch, Same, Grows
<1>3. at[c] \in Participants
  BY DEF TypeOK
<1>4. Parked(c)'
  BY DEF CallInv, Parked, Seen, Same, Grows
<1>5. Settled(c)'
  <2> SUFFICES ASSUME NEW p \in Participants, p \notin failed'[c], Served(c, p)',
                      found'[c][p] # {}, listed'[c][p] # "NONE"
               PROVE  InChain(c, p)' /\ \A v \in found'[c][p] : Rowed(p, v.ride)'
    BY DEF Settled
  <2>1. InChain(c, p) /\ \A v \in found[c][p] : Rowed(p, v.ride)
    BY DEF CallInv, Settled, Served, Same
  <2> QED  BY <1>1, <1>2, <2>1, RowsGrow DEF Same
<1>6. Upserting(c)'
  BY DEF CallInv, Upserting, Same
<1>7. Recording(c)'
  BY <1>1, <1>2, <1>3, RowsGrow DEF CallInv, Recording, Same
<1>8. Found(c)'
  BY RidesGrow DEF CallInv, Found, Same, Grows
<1> QED  BY <1>4, <1>5, <1>6, <1>7, <1>8 DEF CallInv

\* A digest with NFTs is not 0.
LEMMA DigestIsPositive ==
  ASSUME TypeOK, NEW c \in Runs, NEW p \in Participants, InChain(c, p), found[c][p] # {}
  PROVE  digest[c][p] # 0
<1>1. PICK v \in found[c][p] : TRUE
  OBVIOUS
<1>2. [tx |-> digest[c][p], who |-> p, to |-> listed[c][p], ride |-> v.ride, at |-> v.at] \in chain
  BY DEF InChain, Batch
<1> QED  BY <1>2 DEF TypeOK, NFTs

\* Steps of a call leave the others alone.
LEMMA OthersStay ==
  ASSUME TypeOK, NEW r \in Runs, NEW c \in Runs, c # r,
         Run(r) \/ Abandon(r) \/ \E k \in Kinds : Start(r, k)
  PROVE  Same(c)
<1>1. ASSUME NEW step, NEW p, Goto(r, step, p)
      PROVE  pc'[c] = pc[c] /\ at'[c] = at[c]
  BY <1>1 DEF Goto, TypeOK
<1>2. ASSUME NEW step, NEW after, Advance(r, step, after)
      PROVE  pc'[c] = pc[c] /\ at'[c] = at[c]
  BY <1>1, <1>2 DEF Advance
<1>3. CASE Resolve(r)
  BY <1>1, <1>2, <1>3 DEF Resolve, Same, TypeOK
<1>4. CASE UpsertPendingMint(r)
  BY <1>2, <1>4 DEF UpsertPendingMint, Same, TypeOK
<1>5. CASE CheckMinted(r)
  BY <1>2, <1>5 DEF CheckMinted, Same, TypeOK
<1>6. CASE ResolveError(r)
  BY <1>1, <1>6 DEF ResolveError, Same, TypeOK
<1>7. CASE Skip(r)
  BY <1>2, <1>7 DEF Skip, NextLive, Same, TypeOK
<1>8. CASE MintBatchAttendance(r)
  BY <1>1, <1>2, <1>8
     DEF MintBatchAttendance, Minted, Refused, Blame, NextLive, Execute, Same, TypeOK
<1>9. ASSUME NEW ride \in Rides, RecordMintForParticipant(r, ride)
      PROVE  Same(c)
  BY <1>2, <1>9 DEF RecordMintForParticipant, NextLive, Same, TypeOK
<1>10. CASE RecordError(r)
  BY <1>2, <1>10 DEF RecordError, Blame, NextLive, Same, TypeOK
<1>11. CASE Abandon(r)
  BY <1>1, <1>11 DEF Abandon, Same, TypeOK
<1>12. ASSUME NEW k \in Kinds, Start(r, k)
       PROVE  Same(c)
  BY <1>1, <1>12 DEF Start, Same, TypeOK
<1> QED  BY <1>3, <1>4, <1>5, <1>6, <1>7, <1>8, <1>9, <1>10, <1>11, <1>12 DEF Run

\* No step takes anything away from a store.
LEMMA StoresGrow ==
  ASSUME DayInv, [Next]_vars
  PROVE  Grows
<1> TypeOK
  BY DEF DayInv
<1>1. ASSUME NEW r \in Runs, UpsertPendingMint(r)
      PROVE  Grows
  <2>1. at[r] \in Participants /\ found[r][at[r]] # {} /\ pending' = [pending EXCEPT ![at[r]] = found[r][at[r]]]
    BY <1>1 DEF UpsertPendingMint, DayInv, CallInv, Upserting, TypeOK
  <2> QED  BY <1>1, <2>1 DEF UpsertPendingMint, Grows, ledger, TypeOK
<1>2. ASSUME NEW r \in Runs, NEW ride \in Rides, RecordMintForParticipant(r, ride)
      PROVE  Grows
  <2>1. at[r] \in Participants /\ digest[r][at[r]] # 0
    BY <1>2, DigestIsPositive DEF RecordMintForParticipant, DayInv, CallInv, Recording, TypeOK
  <2>2. \A k \in Users \X Rides : logs[k].tx # 0 => logs'[k].tx # 0
    BY <1>2, <2>1 DEF RecordMintForParticipant, RecordMint, TypeOK
  <2> QED  BY <1>2, <2>2 DEF RecordMintForParticipant, Grows
<1>3. ASSUME NEW r \in Runs, MintBatchAttendance(r)
      PROVE  Grows
  BY <1>3 DEF MintBatchAttendance, Execute, Refused, Grows
<1>4. ASSUME NEW s \in Scans, ScanArrives(s)
      PROVE  Grows
  BY <1>4 DEF ScanArrives, Grows
<1>5. ASSUME UNCHANGED <<ledger, pending>>
      PROVE  Grows
  BY <1>5 DEF ledger, Grows
<1>6. \/ UNCHANGED <<ledger, pending>>
      \/ \E s \in Scans : ScanArrives(s)
      \/ \E r \in Runs : UpsertPendingMint(r) \/ MintBatchAttendance(r)
      \/ \E r \in Runs, ride \in Rides : RecordMintForParticipant(r, ride)
  BY DEF Next, Run, SetParticipantWallet, Start, Abandon, Resolve, CheckMinted, ResolveError,
         Skip, RecordError, vars
<1> QED  BY <1>1, <1>2, <1>3, <1>4, <1>5, <1>6

-----------------------------------------------------------------------------
\* The steps of a call keep its own invariant, one lemma per step.

LEMMA ResolveKeeps ==
  ASSUME DayInv, Grows, NEW r \in Runs, Resolve(r)
  PROVE  CallInv(r)'
<1> DEFINE a == at[r]
<1>0. TypeOK /\ CallInv(r) /\ a \in Participants /\ pc[r] = "resolve"
  BY DEF DayInv, TypeOK, Resolve
<1>1. /\ found'[r] = [found[r] EXCEPT ![a] = RidesOf(a)] /\ listed' = listed /\ failed' = failed
      /\ pending' = pending /\ kind' = kind /\ scans' = scans
  BY <1>0 DEF Resolve, TypeOK, ledger
<1>2. /\ found'[r][a] = RidesOf(a)
      /\ \A p \in Participants \ {a} : found'[r][p] = found[r][p]
  BY <1>0, <1>1 DEF TypeOK
<1>3. \/ RidesOf(a) # {} /\ pc'[r] = "upsert" /\ at'[r] = a
      \/ /\ ~(RidesOf(a) # {} /\ listed[r][a] = "NONE")
         /\ \/ pc'[r] = "resolve" /\ at'[r] = a + 1
            \/ pc'[r] \in {"mint", "check"} /\ at'[r] = 1 /\ a = N
            \/ pc'[r] = "answered" /\ kind[r] = "resolve-day" /\ a = N
  <2>1. CASE RidesOf(a) # {} /\ listed[r][a] = "NONE"
    <3>1. Goto(r, "upsert", a) /\ "upsert" \in Steps
      BY <2>1 DEF Resolve, Steps
    <3> QED  BY <1>0, <2>1, <3>1, GotoMoves
  <2>2. CASE ~(RidesOf(a) # {} /\ listed[r][a] = "NONE")
    <3>1. Advance(r, "resolve", AfterResolution(r)) /\ "resolve" \in Steps
      BY <2>2 DEF Resolve, Steps
    <3> QED  BY <1>0, <2>2, <3>1, AdvanceMoves, AfterResolutionIsStep
  <2> QED  BY <2>1, <2>2
<1>4. \A p \in Participants : RidesOf(p)' = RidesOf(p)
  BY <1>1 DEF RidesOf
<1>5. Parked(r)'
  <2> SUFFICES ASSUME NEW p \in Participants, p \notin failed'[r], Seen(r, p)',
                      found'[r][p] # {}, listed'[r][p] = "NONE"
               PROVE  pending'[p] # {}
    BY DEF Parked
  <2>1. p # a /\ p < a
    BY <1>0, <1>1, <1>2, <1>3 DEF Seen
  <2> QED  BY <1>0, <1>1, <1>2, <2>1 DEF CallInv, Parked, Seen
<1>6. Settled(r)'
  BY <1>0, <1>1, <1>3 DEF Settled, Served
<1>7. Upserting(r)' /\ Recording(r)'
  BY <1>2, <1>3 DEF Upserting, Recording
<1>8. Found(r)'
  BY <1>0, <1>2, <1>4 DEF CallInv, Found
<1> QED  BY <1>5, <1>6, <1>7, <1>8 DEF CallInv

LEMMA UpsertKeeps ==
  ASSUME DayInv, Grows, NEW r \in Runs, UpsertPendingMint(r)
  PROVE  CallInv(r)'
<1> DEFINE a == at[r]
<1>0. TypeOK /\ CallInv(r) /\ a \in Participants /\ pc[r] = "upsert"
  BY DEF DayInv, TypeOK, UpsertPendingMint
<1>1. /\ pending'[a] = found[r][a] /\ found[r][a] # {}
      /\ UNCHANGED <<found, listed, failed, kind, scans>>
  BY <1>0 DEF UpsertPendingMint, TypeOK, ledger, CallInv, Upserting
<1>2. \/ pc'[r] = "resolve" /\ at'[r] = a + 1
      \/ pc'[r] \in {"mint", "check"} /\ at'[r] = 1 /\ a = N
      \/ pc'[r] = "answered" /\ kind[r] = "resolve-day" /\ a = N
  <2>1. Advance(r, "resolve", AfterResolution(r)) /\ "resolve" \in Steps
    BY DEF UpsertPendingMint, Steps
  <2> QED  BY <1>0, <2>1, AdvanceMoves, AfterResolutionIsStep
<1>3. Parked(r)'
  <2> SUFFICES ASSUME NEW p \in Participants, p \notin failed'[r], Seen(r, p)',
                      found'[r][p] # {}, listed'[r][p] = "NONE"
               PROVE  pending'[p] # {}
    BY DEF Parked
  <2>1. p = a \/ p < a
    BY <1>0, <1>2 DEF Seen
  <2>2. CASE p < a
    BY <1>0, <1>1, <2>2 DEF CallInv, Parked, Seen, Grows
  <2> QED  BY <1>1, <2>1, <2>2
<1>4. Settled(r)'
  BY <1>0, <1>1, <1>2 DEF Settled, Served
<1>5. Upserting(r)' /\ Recording(r)'
  BY <1>2 DEF Upserting, Recording
<1>6. Found(r)'
  BY <1>0, <1>1 DEF CallInv, Found, RidesOf
<1> QED  BY <1>3, <1>4, <1>5, <1>6 DEF CallInv

LEMMA CheckKeeps ==
  ASSUME DayInv, Grows, NEW r \in Runs, CheckMinted(r)
  PROVE  CallInv(r)'
<1> DEFINE a == at[r]
<1>0. TypeOK /\ CallInv(r) /\ a \in Participants /\ pc[r] = "check"
  BY DEF DayInv, TypeOK, CheckMinted
<1>1. UNCHANGED <<pending, listed, failed, kind, scans>>
  BY DEF CheckMinted, ledger
<1>2. \A p \in Participants : found'[r][p] = {} \/ found'[r][p] = found[r][p]
  BY <1>0 DEF CheckMinted, TypeOK
<1>3. pc'[r] = "check" \/ (pc'[r] = "mint" /\ at'[r] = 1)
  <2>1. Advance(r, "check", "mint") /\ "check" \in Steps /\ "mint" \in Steps
    BY DEF CheckMinted, Steps
  <2> QED  BY <1>0, <2>1, AdvanceMoves
<1>4. Parked(r)'
  BY <1>0, <1>1, <1>2, <1>3 DEF CallInv, Parked, Seen
<1>5. Settled(r)'
  BY <1>0, <1>3 DEF Settled, Served
<1>6. Upserting(r)' /\ Recording(r)'
  BY <1>3 DEF Upserting, Recording
<1>7. Found(r)'
  BY <1>0, <1>1, <1>2 DEF CallInv, Found, RidesOf
<1> QED  BY <1>4, <1>5, <1>6, <1>7 DEF CallInv

LEMMA ResolveErrorKeeps ==
  ASSUME DayInv, Grows, NEW r \in Runs, ResolveError(r)
  PROVE  CallInv(r)'
<1>0. TypeOK /\ CallInv(r) /\ at[r] \in Participants
  BY DEF DayInv, TypeOK
<1>1. failed'[r] = Participants /\ UNCHANGED <<scans, found>>
  BY <1>0 DEF ResolveError, TypeOK, ledger
<1>2. pc'[r] = "answered"
  BY <1>0 DEF ResolveError, Goto, TypeOK
<1> QED  BY <1>0, <1>1, <1>2
         DEF CallInv, Parked, Settled, Upserting, Recording, Found, RidesOf

-----------------------------------------------------------------------------
\* The cursor leaves participant a of the mint loop behind.
LEMMA NextLiveMoves ==
  ASSUME TypeOK, NEW r \in Runs, NextLive(r), at[r] \in Participants
  PROVE  \/ pc'[r] = "mint" /\ at'[r] = at[r] + 1
         \/ pc'[r] = "answered" /\ at[r] = N
<1>1. Advance(r, "mint", "answered") /\ "mint" \in Steps /\ "answered" \in Steps
  BY DEF NextLive, Steps
<1> QED  BY <1>1, AdvanceMoves

\* What was settled before the cursor stays so; only the participant at the cursor
\* has to be looked at.
LEMMA NextLiveKeeps ==
  ASSUME DayInv, Grows, NEW r \in Runs, NextLive(r), pc[r] \in {"mint", "record"},
         NEW a \in Participants, a = at[r],
         UNCHANGED <<found, listed, kind, digest, scans>>,
         failed[r] \subseteq failed'[r],
         \/ a \in failed'[r] \/ found[r][a] = {} \/ listed[r][a] = "NONE"
         \/ InChain(r, a) /\ \A v \in found[r][a] : Rowed(a, v.ride)'
  PROVE  CallInv(r)'
<1>0. TypeOK /\ CallInv(r)
  BY DEF DayInv, TypeOK
<1>1. \/ pc'[r] = "mint" /\ at'[r] = a + 1
      \/ pc'[r] = "answered" /\ a = N
  BY <1>0, NextLiveMoves
<1>2. Parked(r)'
  <2> SUFFICES ASSUME NEW p \in Participants, p \notin failed'[r],
                      found'[r][p] # {}, listed'[r][p] = "NONE"
               PROVE  pending'[p] # {}
    BY DEF Parked
  <2> QED  BY <1>0 DEF CallInv, Parked, Seen, Grows
<1>3. Settled(r)'
  <2> SUFFICES ASSUME NEW p \in Participants, p \notin failed'[r], Served(r, p)',
                      found'[r][p] # {}, listed'[r][p] # "NONE"
               PROVE  InChain(r, p)' /\ \A v \in found'[r][p] : Rowed(p, v.ride)'
    BY DEF Settled
  <2>1. InChain(r, p) => InChain(r, p)'
    BY DEF InChain, Batch, Grows
  <2>2. p = a \/ p < a
    BY <1>0, <1>1 DEF Served
  <2>3. CASE p = a
    BY <2>1, <2>3
  <2>4. CASE p < a
    <3>1. InChain(r, p) /\ \A v \in found[r][p] : Rowed(p, v.ride)
      BY <1>0, <2>4 DEF CallInv, Settled, Served
    <3>2. \A v \in found[r][p] : v.ride \in Rides
      BY <1>0, VisitType DEF TypeOK
    <3> QED  BY <1>0, <2>1, <3>1, <3>2, RowsGrow
  <2> QED  BY <2>2, <2>3, <2>4
<1>4. Upserting(r)' /\ Recording(r)'
  BY <1>1 DEF Upserting, Recording
<1>5. Found(r)'
  BY <1>0 DEF CallInv, Found, RidesOf
<1> QED  BY <1>2, <1>3, <1>4, <1>5 DEF CallInv

LEMMA MintKeeps ==
  ASSUME DayInv, Grows, NoAborts, NEW r \in Runs, MintBatchAttendance(r)
  PROVE  CallInv(r)'
<1> PICK a \in Participants : a = at[r]
  BY DEF DayInv, TypeOK
<1>0. /\ TypeOK /\ CallInv(r) /\ a \in Participants /\ pc[r] = "mint"
      /\ found[r][a] # {} /\ listed[r][a] # "NONE"
      /\ UNCHANGED <<found, listed, kind, scans>>
  BY DEF DayInv, TypeOK, MintBatchAttendance, Live
<1>1. CASE Blame(r) /\ NextLive(r) /\ UNCHANGED <<digest, left>>
  <2>1. a \in failed'[r] /\ failed[r] \subseteq failed'[r]
    BY <1>0, <1>1 DEF Blame, TypeOK
  <2> QED  BY <1>0, <1>1, <2>1, NextLiveKeeps
<1>2. CASE Execute(r) /\ Minted(r, txs + 1) /\ UNCHANGED failed
  <2>1. /\ pc'[r] = "record" /\ at'[r] = a
        /\ digest'[r] = [digest[r] EXCEPT ![a] = txs + 1]
        /\ left'[r] = {v.ride : v \in found[r][a]}
    BY <1>0, <1>2 DEF Minted, Goto, TypeOK
  <2>2. Parked(r)'
    BY <1>0, <1>2, <2>1 DEF CallInv, Parked, Seen, Grows
  <2>3. Settled(r)'
    <3> SUFFICES ASSUME NEW p \in Participants, p \notin failed'[r], Served(r, p)',
                        found'[r][p] # {}, listed'[r][p] # "NONE"
                 PROVE  InChain(r, p)' /\ \A v \in found'[r][p] : Rowed(p, v.ride)'
      BY DEF Settled
    <3>1. p < a /\ p # a
      BY <1>0, <2>1 DEF Served
    <3>2. InChain(r, p) /\ \A v \in found[r][p] : Rowed(p, v.ride)
      BY <1>0, <1>2, <3>1 DEF CallInv, Settled, Served
    <3>3. \A v \in found[r][p] : v.ride \in Rides
      BY <1>0, VisitType DEF TypeOK
    <3>4. digest'[r][p] = digest[r][p]
      BY <1>0, <2>1, <3>1 DEF TypeOK
    <3>5. InChain(r, p)'
      BY <1>0, <3>2, <3>4 DEF InChain, Batch, Grows
    <3> QED  BY <1>0, <3>2, <3>3, <3>5, RowsGrow
  <2>4. Recording(r)'
    <3>1. digest'[r][a] = txs + 1
      BY <1>0, <2>1 DEF TypeOK
    <3>2. InChain(r, a)'
      BY <1>0, <1>2, <3>1 DEF InChain, Execute
    <3> QED  BY <1>0, <2>1, <3>2 DEF Recording, InChain
  <2>5. Upserting(r)' /\ Found(r)'
    BY <1>0, <2>1 DEF CallInv, Upserting, Found, RidesOf
  <2> QED  BY <2>2, <2>3, <2>4, <2>5 DEF CallInv
<1> QED  BY <1>1, <1>2 DEF MintBatchAttendance, Refused, NoAborts

LEMMA RecordKeeps ==
  ASSUME DayInv, Grows, NEW r \in Runs, NEW ride \in Rides, RecordMintForParticipant(r, ride)
  PROVE  CallInv(r)'
<1> PICK a \in Participants : a = at[r]
  BY DEF DayInv, TypeOK
<1>0. /\ TypeOK /\ CallInv(r) /\ a \in Participants /\ pc[r] = "record" /\ ride \in left[r]
      /\ UNCHANGED <<found, listed, kind, digest, scans, failed, chain>>
      /\ left'[r] = left[r] \ {ride} /\ Owner[a] # None
  BY DEF DayInv, TypeOK, RecordMintForParticipant
<1>1. InChain(r, a) /\ found[r][a] # {} /\ \A v \in found[r][a] : v.ride \in left[r] \/ Rowed(a, v.ride)
  BY <1>0 DEF CallInv, Recording
<1>2. digest[r][a] # 0
  BY <1>0, <1>1, DigestIsPositive
<1>3. Rowed(a, ride)'
  <2>1. <<Owner[a], ride>> \in Users \X Rides
    BY <1>0
  <2>2. logs'[<<Owner[a], ride>>].tx = digest[r][a]
    BY <1>0, <2>1 DEF RecordMintForParticipant, RecordMint, TypeOK
  <2> QED  BY <1>0, <1>2, <2>2 DEF Rowed
<1>4. \A v \in found[r][a] : v.ride \in left'[r] \/ Rowed(a, v.ride)'
  <2> TAKE v \in found[r][a]
  <2>1. v.ride \in Rides
    BY <1>0, VisitType DEF TypeOK
  <2> QED  BY <1>0, <1>1, <1>3, <2>1, RowsGrow
<1>5. CASE left[r] = {ride}
  <2>1. NextLive(r) /\ \A v \in found[r][a] : Rowed(a, v.ride)'
    BY <1>0, <1>4, <1>5 DEF RecordMintForParticipant
  <2> QED  BY <1>0, <1>1, <2>1, NextLiveKeeps
<1>6. CASE left[r] # {ride}
  <2>1. UNCHANGED <<pc, at, pending>>
    BY <1>6 DEF RecordMintForParticipant
  <2>2. Parked(r)' /\ Upserting(r)' /\ Found(r)'
    BY <1>0, <2>1 DEF CallInv, Parked, Seen, Upserting, Found, RidesOf
  <2>3. Settled(r)'
    <3> SUFFICES ASSUME NEW p \in Participants, p \notin failed'[r], Served(r, p)',
                        found'[r][p] # {}, listed'[r][p] # "NONE"
                 PROVE  InChain(r, p)' /\ \A v \in found'[r][p] : Rowed(p, v.ride)'
      BY DEF Settled
    <3>1. InChain(r, p) /\ \A v \in found[r][p] : Rowed(p, v.ride)
      BY <1>0, <2>1 DEF CallInv, Settled, Served
    <3>2. \A v \in found[r][p] : v.ride \in Rides
      BY <1>0, VisitType DEF TypeOK
    <3> QED  BY <1>0, <3>1, <3>2, RowsGrow DEF InChain
  <2>4. Recording(r)'
    BY <1>0, <1>1, <1>4, <2>1 DEF CallInv, Recording, InChain
  <2> QED  BY <2>2, <2>3, <2>4 DEF CallInv
<1> QED  BY <1>5, <1>6

LEMMA SkipKeeps ==
  ASSUME DayInv, Grows, NEW r \in Runs, Skip(r)
  PROVE  CallInv(r)'
<1> PICK a \in Participants : a = at[r]
  BY DEF DayInv, TypeOK
<1>1. /\ NextLive(r) /\ pc[r] = "mint" /\ (found[r][a] = {} \/ listed[r][a] = "NONE")
      /\ UNCHANGED <<found, listed, kind, digest, scans, failed>>
  BY DEF Skip, Live, ledger
<1> QED  BY <1>1, NextLiveKeeps

LEMMA RecordErrorKeeps ==
  ASSUME DayInv, Grows, NEW r \in Runs, RecordError(r)
  PROVE  CallInv(r)'
<1> PICK a \in Participants : a = at[r]
  BY DEF DayInv, TypeOK
<1>1. /\ NextLive(r) /\ pc[r] = "record" /\ a \in failed'[r] /\ failed[r] \subseteq failed'[r]
      /\ UNCHANGED <<found, listed, kind, digest, scans>>
  BY DEF RecordError, Blame, ledger, DayInv, TypeOK
<1> QED  BY <1>1, NextLiveKeeps

LEMMA AbandonKeeps ==
  ASSUME DayInv, NEW r \in Runs, Abandon(r)
  PROVE  CallInv(r)'
<1>1. pc'[r] = "idle" /\ found'[r] = [p \in Participants |-> {}]
  BY DEF Abandon, Goto, DayInv, TypeOK
<1> QED  BY <1>1 DEF CallInv, Parked, Seen, Settled, Served, Upserting, Recording, Found

LEMMA StartKeeps ==
  ASSUME DayInv, NEW r \in Runs, NEW k \in Kinds, Start(r, k)
  PROVE  CallInv(r)'
<1>1. pc'[r] = "resolve" /\ at'[r] = 1 /\ found'[r] = [p \in Participants |-> {}]
  BY DEF Start, Goto, DayInv, TypeOK
<1> QED  BY <1>1 DEF CallInv, Parked, Seen, Settled, Served, Upserting, Recording, Found

-----------------------------------------------------------------------------
LEMMA InitiallyDayInv == Init => DayInv
<1> SUFFICES ASSUME Init PROVE DayInv
  OBVIOUS
<1>1. TypeOK
  BY DEF Init, TypeOK, NoRow, Rows, WalletStates, Steps, CallKinds
<1>2. \A n \in chain : n.tx <= txs
  BY DEF Init
<1>3. ASSUME NEW c \in Runs
      PROVE  CallInv(c)
  BY DEF Init, CallInv, Parked, Seen, Settled, Served, Upserting, Recording, Found
<1> QED  BY <1>1, <1>2, <1>3 DEF DayInv

LEMMA TxsCount ==
  ASSUME DayInv, [Next]_vars
  PROVE  (\A n \in chain : n.tx <= txs)'
<1>1. txs \in Nat /\ \A n \in chain : n.tx \in Nat /\ n.tx <= txs
  BY DEF DayInv, TypeOK, NFTs
<1>2. ASSUME NEW r \in Runs, Execute(r)
      PROVE  (\A n \in chain : n.tx <= txs)'
  BY <1>1, <1>2 DEF Execute, Batch
<1>3. ASSUME UNCHANGED chain, txs' = txs \/ txs' = txs + 1
      PROVE  (\A n \in chain : n.tx <= txs)'
  BY <1>1, <1>3
<1>4. ASSUME NEW r \in Runs, MintBatchAttendance(r)
      PROVE  (\A n \in chain : n.tx <= txs)'
  BY <1>2, <1>3, <1>4 DEF MintBatchAttendance, Refused
<1>5. \/ UNCHANGED <<chain, txs>>
      \/ \E r \in Runs : MintBatchAttendance(r)
  BY DEF Next, Run, ScanArrives, SetParticipantWallet, Start, Abandon, Resolve, CheckMinted,
         ResolveError, UpsertPendingMint, Skip, RecordMintForParticipant, RecordError, vars, ledger
<1> QED  BY <1>3, <1>4, <1>5

LEMMA CallsKeep ==
  ASSUME DayInv, NoAborts, [Next]_vars, NEW c \in Runs
  PROVE  CallInv(c)'
<1>1. Grows
  BY StoresGrow
<1>2. TypeOK /\ CallInv(c)
  BY DEF DayInv
<1>3. Same(c) => CallInv(c)'
  BY <1>1, <1>2, Undisturbed
<1>4. ASSUME NEW s \in Scans, ScanArrives(s)
      PROVE  CallInv(c)'
  BY <1>3, <1>4 DEF ScanArrives, calls, Same
<1>5. ASSUME NEW p \in Participants, NEW state \in WalletStates, SetParticipantWallet(p, state)
      PROVE  CallInv(c)'
  BY <1>3, <1>5 DEF SetParticipantWallet, calls, Same
<1>6. CASE UNCHANGED vars
  BY <1>3, <1>6 DEF vars, calls, Same
<1>7. ASSUME NEW r \in Runs, Run(r) \/ Abandon(r) \/ \E k \in Kinds : Start(r, k)
      PROVE  CallInv(c)'
  <2>1. CASE c # r
    BY <1>2, <1>3, <1>7, <2>1, OthersStay
  <2>2. CASE c = r
    BY <1>1, <1>7, <2>2, ResolveKeeps, UpsertKeeps, CheckKeeps, ResolveErrorKeeps, SkipKeeps,
       MintKeeps, RecordKeeps, RecordErrorKeeps, AbandonKeeps, StartKeeps DEF Run
  <2> QED  BY <2>1, <2>2
<1> QED  BY <1>4, <1>5, <1>6, <1>7 DEF Next

LEMMA DayInductive == ASSUME NoAborts PROVE DayInv /\ [Next]_vars /\ TypeOK' => DayInv'
BY TxsCount, CallsKeep DEF DayInv

LEMMA DayInvariant == ASSUME NoAborts PROVE Spec => []DayInv
<1>1. DayInv /\ [Next]_vars /\ TypeOK' => DayInv'
  BY DayInductive
<1> QED  BY <1>1, InitiallyDayInv, TypeCorrect, PTL DEF Spec

\* What a call answers is true, however calls overlap and whatever fails, as long as
\* no digest of a failed transaction is returned (DayResolver, BatchMint).
THEOREM AnswersAreTrue == NoAborts => (Spec => []AnswerIsTrue)
<1> SUFFICES ASSUME NoAborts PROVE Spec => []AnswerIsTrue
  OBVIOUS
<1>1. DayInv => AnswerIsTrue
  <2> SUFFICES ASSUME DayInv, NEW r \in Runs, pc[r] = "answered",
                      NEW p \in Participants \ failed[r], found[r][p] # {}
               PROVE  IF listed[r][p] = "NONE" THEN pending[p] # {}
                      ELSE kind[r] # "resolve-day" =>
                             /\ InChain(r, p)
                             /\ \A v \in found[r][p] : logs[<<Owner[p], v.ride>>].tx # 0
    BY DEF AnswerIsTrue, InChain
  <2>1. Parked(r) /\ Settled(r)
    BY DEF DayInv, CallInv
  <2> QED  BY <2>1 DEF Parked, Seen, Settled, Served, Rowed
<1> QED  BY <1>1, DayInvariant, PTL

-----------------------------------------------------------------------------
\* Every step of the mint day is a step of the mint ledger or leaves it alone.
LEMMA StepImplements ==
  ASSUME NoAborts, DayInv, [Next]_vars
  PROVE  [Ledger!Next]_Ledger!vars
<1>1. ASSUME NEW s \in Scans, ScanArrives(s)
      PROVE  Ledger!Next
  BY <1>1 DEF ScanArrives, Ledger!Next, Ledger!Attend
<1>2. ASSUME NEW r \in Runs, MintBatchAttendance(r)
      PROVE  Ledger!Next \/ UNCHANGED Ledger!vars
  <2> PICK a \in Participants : a = at[r]
    BY DEF DayInv, TypeOK
  <2>1. UNCHANGED <<scans, logs>>
    BY <1>2 DEF MintBatchAttendance
  <2>2. CASE UNCHANGED chain
    BY <2>1, <2>2 DEF Ledger!vars
  <2>3. CASE Execute(r)
    <3> DEFINE new == Batch(txs + 1, a, listed[r][a], found[r][a])
    <3>1. chain' = chain \cup new
      BY <2>3 DEF Execute
    <3>2. \A n \in new : n.tx = txs + 1 /\ n.who = a /\ n.to = listed[r][a]
      BY DEF Batch
    <3>3. \A m \in chain : m.tx # txs + 1
      BY DEF DayInv, TypeOK, NFTs
    <3>4. ASSUME NEW n \in new
          PROVE  Ledger!Taken(n)
      <4>1. PICK v \in found[r][a] : n.ride = v.ride /\ n.at = v.at /\ n.who = a
        BY DEF Batch
      <4>2. v \in RidesOf(a)
        BY <4>1 DEF DayInv, CallInv, Found
      <4>3. PICK s \in scans : v = Visit(s) /\ (s.who = a \/ s.user = Owner[a])
        BY <4>2 DEF RidesOf
      <4> QED  BY <4>1, <4>3 DEF Ledger!Taken, Visit
    <3>5. Ledger!Mint
      BY <2>1, <3>1, <3>2, <3>3, <3>4 DEF Ledger!Mint
    <3> QED  BY <3>5 DEF Ledger!Next
  <2> QED  BY <1>2, <2>2, <2>3 DEF MintBatchAttendance, Refused, NoAborts
<1>3. ASSUME NEW r \in Runs, NEW ride \in Rides, RecordMintForParticipant(r, ride)
      PROVE  Ledger!Next
  <2> PICK a \in Participants : a = at[r]
    BY DEF DayInv, TypeOK
  <2>1. pc[r] = "record" /\ ride \in left[r] /\ Owner[a] # None /\ Recording(r)
    BY <1>3 DEF RecordMintForParticipant, DayInv, CallInv
  <2>2. PICK v \in found[r][a] : v.ride = ride
    BY <2>1 DEF Recording
  <2> DEFINE n == [tx |-> digest[r][a], who |-> a, to |-> listed[r][a], ride |-> v.ride, at |-> v.at]
             k == <<Owner[a], ride>>
  <2>3. n \in chain
    BY <2>1, <2>2 DEF Recording, InChain, Batch
  <2>4. k \in DOMAIN logs
    BY <2>1 DEF DayInv, TypeOK
  <2>5. logs' = [logs EXCEPT ![k] = [tx |-> digest[r][a], who |-> IF logs[k].tx = 0 THEN a ELSE logs[k].who]]
    BY <1>3, <2>4 DEF RecordMintForParticipant, RecordMint
  <2>6. UNCHANGED <<scans, chain>>
    BY <1>3 DEF RecordMintForParticipant
  <2>7. Ledger!Record
    BY <2>2, <2>3, <2>4, <2>5, <2>6 DEF Ledger!Record
  <2> QED  BY <2>7 DEF Ledger!Next
<1>4. \/ UNCHANGED ledger
      \/ \E s \in Scans : ScanArrives(s)
      \/ \E r \in Runs : MintBatchAttendance(r)
      \/ \E r \in Runs, ride \in Rides : RecordMintForParticipant(r, ride)
  BY DEF Next, Run, SetParticipantWallet, Start, Abandon, Resolve, UpsertPendingMint, CheckMinted,
         ResolveError, Skip, RecordError, vars, ledger
<1>5. UNCHANGED ledger => UNCHANGED Ledger!vars
  BY DEF ledger, Ledger!vars
<1> QED  BY <1>1, <1>2, <1>3, <1>4, <1>5

\* The mint day implements the mint ledger: NFTs only for rides taken, rows only for
\* transactions that minted them, whatever fails short of an aborted transaction
\* (BatchMint.Run, RecordMintForParticipant).
THEOREM MintDayImplementsLedger == NoAborts => (Spec => ImplementsMintLedger)
<1> SUFFICES ASSUME NoAborts PROVE Spec => ImplementsMintLedger
  OBVIOUS
<1>1. Init => Ledger!Init
  BY DEF Init, Ledger!Init
<1>2. DayInv /\ [Next]_vars => [Ledger!Next]_Ledger!vars
  BY StepImplements
<1> QED  BY <1>1, <1>2, DayInvariant, PTL DEF Spec, ImplementsMintLedger, Ledger!Spec

-----------------------------------------------------------------------------
\* What is recorded is an NFT on chain of the family's ride.
LEMMA RecordedIsMinted ==
  ASSUME DayInv, NEW r \in Runs, NEW ride \in Rides, RecordMintForParticipant(r, ride)
  PROVE  \E n \in chain : n.ride = ride /\ n.who = at[r] /\ n.tx = digest[r][at[r]]
<1>1. pc[r] = "record" /\ ride \in left[r] /\ Recording(r)
  BY DEF RecordMintForParticipant, DayInv, CallInv
<1>2. PICK v \in found[r][at[r]] : v.ride = ride
  BY <1>1 DEF Recording
<1> DEFINE n == [tx |-> digest[r][at[r]], who |-> at[r], to |-> listed[r][at[r]],
                 ride |-> v.ride, at |-> v.at]
<1>3. n \in chain
  BY <1>1, <1>2 DEF Recording, InChain, Batch
<1> QED  BY <1>2, <1>3

LEMMA RecordKeepsNames ==
  ASSUME DayInv, RowsNameRiders, UNCHANGED chain,
         NEW r \in Runs, NEW ride \in Rides, RecordMintForParticipant(r, ride)
  PROVE  RowsNameRiders'
<1> PICK a \in Participants : a = at[r]
  BY DEF DayInv, TypeOK
<1> DEFINE key == <<Owner[a], ride>>
<1>1. PICK n \in chain : n.ride = ride /\ n.who = a /\ n.tx = digest[r][a]
  BY RecordedIsMinted
<1>2. key \in Users \X Rides /\ logs \in [Users \X Rides -> Rows]
  BY DEF RecordMintForParticipant, DayInv, TypeOK
<1>3. /\ \A k \in Users \X Rides : k # key => logs'[k] = logs[k]
      /\ logs'[key].tx = digest[r][a]
      /\ logs'[key].who = a \/ (logs[key].tx # 0 /\ logs'[key].who = logs[key].who)
  BY <1>2 DEF RecordMintForParticipant, RecordMint
<1> SUFFICES ASSUME NEW k \in Users \X Rides, logs'[k].tx # 0
             PROVE  /\ \E m \in chain : m.ride = k[2] /\ Owner[m.who] = k[1] /\ m.who = logs'[k].who
                    /\ \E m \in chain : m.ride = k[2] /\ Owner[m.who] = k[1] /\ m.tx = logs'[k].tx
  BY DEF RowsNameRiders
<1>4. CASE k # key
  BY <1>3, <1>4 DEF RowsNameRiders
<1>5. CASE k = key
  <2>1. n.ride = k[2] /\ Owner[n.who] = k[1] /\ n.tx = logs'[k].tx
    BY <1>1, <1>3, <1>5
  <2>2. CASE logs'[k].who = a
    BY <1>1, <2>1, <2>2
  <2>3. CASE logs[k].tx # 0 /\ logs'[k].who = logs[k].who
    <3>1. \E m \in chain : m.ride = k[2] /\ Owner[m.who] = k[1] /\ m.who = logs[k].who
      BY <2>3 DEF RowsNameRiders
    <3> QED  BY <2>1, <2>3, <3>1
  <2> QED  BY <1>3, <1>5, <2>2, <2>3
<1> QED  BY <1>4, <1>5

\* However calls overlap and whatever fails short of an aborted transaction, a row names
\* a member of the family who had the ride minted (RecordMintForParticipant).
THEOREM RowsAreAttributed == NoAborts => (Spec => []RowsNameRiders)
<1> SUFFICES ASSUME NoAborts PROVE Spec => []RowsNameRiders
  OBVIOUS
<1>1. Init => RowsNameRiders
  BY DEF Init, RowsNameRiders, NoRow
<1>2. ASSUME DayInv, RowsNameRiders, [Next]_vars
      PROVE  RowsNameRiders'
  <2>1. \/ UNCHANGED logs /\ chain \subseteq chain'
        \/ \E r \in Runs, ride \in Rides : RecordMintForParticipant(r, ride)
    <3>1. Grows
      BY <1>2, StoresGrow DEF DayInv
    <3>2. \/ UNCHANGED logs
          \/ \E r \in Runs, ride \in Rides : RecordMintForParticipant(r, ride)
      BY <1>2 DEF Next, Run, ScanArrives, SetParticipantWallet, Start, Abandon, Resolve,
         UpsertPendingMint, CheckMinted, ResolveError, Skip, MintBatchAttendance, RecordError,
         vars, ledger
    <3> QED  BY <3>1, <3>2 DEF Grows
  <2>2. CASE UNCHANGED logs /\ chain \subseteq chain'
    BY <1>2, <2>2 DEF RowsNameRiders
  <2>3. ASSUME NEW r \in Runs, NEW ride \in Rides, RecordMintForParticipant(r, ride)
        PROVE  RowsNameRiders'
    <3>1. UNCHANGED chain
      BY <2>3 DEF RecordMintForParticipant
    <3> QED  BY <1>2, <2>3, <3>1, RecordKeepsNames
  <2> QED  BY <2>1, <2>2, <2>3
<1> QED  BY <1>1, <1>2, DayInvariant, PTL DEF Spec

-----------------------------------------------------------------------------
\* A day that is run once.  The call in progress, if any, is the only one there ever
\* was, and the NFTs on chain belong to participants its cursor has reached.
Behind(c) ==
  /\ pc[c] \in {"resolve", "upsert", "check"} => chain = {}
  /\ pc[c] = "mint" => \A n \in chain : n.who < at[c]

OnceInv ==
  /\ \A c \in Runs : pc[c] # "idle" => started = 1
  /\ started = 0 => chain = {}
  /\ \A c, d \in Runs : pc[c] # "idle" /\ pc[d] # "idle" => c = d
  /\ \A c \in Runs : Behind(c)
  /\ \A c \in Runs : pc[c] = "record" => \A n \in chain : n.who <= at[c]
  /\ MintedOnce

\* The step of a call that has begun: it is alone, so its own part is all there is to see.
LEMMA TheCallIsAlone ==
  ASSUME OnceInv, NEW r \in Runs, pc[r] # "idle", started' = started, MintedOnce',
         \A c \in Runs \ {r} : pc'[c] = pc[c],
         Behind(r)', pc'[r] = "record" => \A n \in chain' : n.who <= at'[r]
  PROVE  OnceInv'
<1>1. \A c \in Runs \ {r} : pc'[c] = "idle"
  BY DEF OnceInv
<1>2. started' = 1
  BY DEF OnceInv
<1>3. \A c \in Runs \ {r} : Behind(c)'
  BY <1>1 DEF Behind
<1> QED  BY <1>1, <1>2, <1>3 DEF OnceInv

\* The cursor of the mint loop moves on: the NFTs minted so far are behind it.
LEMMA CursorStaysAhead ==
  ASSUME TypeOK, TypeOK', NEW r \in Runs, NextLive(r), \A n \in chain' : n.who <= at[r]
  PROVE  Behind(r)' /\ pc'[r] # "record"
<1>1. at[r] \in 1 .. N /\ N \in Nat
  BY DEF TypeOK
<1>2. \A n \in chain' : n.who \in 1 .. N
  BY DEF TypeOK, NFTs
<1>3. (pc'[r] = "mint" /\ at'[r] = at[r] + 1) \/ pc'[r] = "answered"
  BY <1>1, NextLiveMoves
<1> QED  BY <1>1, <1>2, <1>3 DEF Behind

\* One batch is one transaction, for a participant who has no NFT yet.
LEMMA ExecuteMintsOnce ==
  ASSUME TypeOK, MintedOnce, NEW r \in Runs, Execute(r), \A n \in chain : n.who < at[r]
  PROVE  MintedOnce' /\ \A n \in chain' : n.who <= at[r]
<1> DEFINE new == Batch(txs + 1, at[r], listed[r][at[r]], found[r][at[r]])
<1>1. chain' = chain \cup new /\ at[r] \in 1 .. N /\ N \in Nat
  BY DEF Execute, TypeOK
<1>2. \A n \in new : n.tx = txs + 1 /\ n.who = at[r]
  BY DEF Batch
<1>3. \A n \in chain : n.who \in 1 .. N /\ n.who # at[r]
  BY <1>1 DEF TypeOK, NFTs
<1>4. MintedOnce'
  <2> SUFFICES ASSUME NEW m \in chain', NEW n \in chain', m.who = n.who, m.ride = n.ride, m.at = n.at
               PROVE  m.tx = n.tx
    BY DEF MintedOnce
  <2> HIDE DEF new
  <2>1. m \in chain /\ n \in chain => m.tx = n.tx
    BY DEF MintedOnce
  <2> QED  BY <1>1, <1>2, <1>3, <2>1
<1>5. \A n \in chain' : n.who <= at[r]
  <2> HIDE DEF new
  <2> QED  BY <1>1, <1>2, <1>3
<1> QED  BY <1>4, <1>5

LEMMA MintKeepsOnce ==
  ASSUME TypeOK, TypeOK', OnceInv, NEW r \in Runs, MintBatchAttendance(r)
  PROVE  OnceInv'
<1>1. pc[r] = "mint" /\ at[r] \in 1 .. N /\ N \in Nat /\ started' = started
  BY DEF MintBatchAttendance, TypeOK
<1>2. MintedOnce /\ \A n \in chain : n.who < at[r]
  BY <1>1 DEF OnceInv, Behind
<1>3. \A n \in chain : n.who <= at[r]
  BY <1>1, <1>2 DEF TypeOK, NFTs
<1>4. MintedOnce' /\ \A n \in chain' : n.who <= at[r]
  <2>1. CASE Execute(r)
    BY <1>2, <2>1, ExecuteMintsOnce
  <2>2. CASE UNCHANGED chain
    BY <1>2, <1>3, <2>2 DEF MintedOnce
  <2> QED  BY <2>1, <2>2 DEF MintBatchAttendance, Refused
<1>5. \A c \in Runs \ {r} : pc'[c] = pc[c]
  BY <1>1, OthersStay DEF Run, Same
<1>6. NextLive(r) \/ (pc'[r] = "record" /\ at'[r] = at[r])
  <2>1. ASSUME NEW tx, Minted(r, tx)
        PROVE  pc'[r] = "record" /\ at'[r] = at[r]
    BY <2>1 DEF Minted, Goto, TypeOK
  <2> QED  BY <2>1 DEF MintBatchAttendance, Refused
<1>7. Behind(r)' /\ (pc'[r] = "record" => \A n \in chain' : n.who <= at'[r])
  <2>1. CASE NextLive(r)
    BY <1>4, <2>1, CursorStaysAhead
  <2>2. CASE pc'[r] = "record" /\ at'[r] = at[r]
    BY <1>4, <2>2 DEF Behind
  <2> QED  BY <1>6, <2>1, <2>2
<1>8. pc[r] # "idle"
  BY <1>1
<1> QED  BY <1>1, <1>4, <1>5, <1>7, <1>8, TheCallIsAlone

\* Steps of the resolution, before anything is minted.
LEMMA ResolutionKeepsOnce ==
  ASSUME TypeOK, TypeOK', OnceInv, NEW r \in Runs,
         Resolve(r) \/ UpsertPendingMint(r) \/ CheckMinted(r) \/ ResolveError(r)
  PROVE  OnceInv'
<1>1. pc[r] \in {"resolve", "upsert", "check"} /\ pc[r] # "idle"
  BY DEF Resolve, UpsertPendingMint, CheckMinted, ResolveError
<1>2. UNCHANGED <<chain, started>>
  BY DEF Resolve, UpsertPendingMint, CheckMinted, ResolveError, ledger
<1>3. chain' = {}
  BY <1>1, <1>2 DEF OnceInv, Behind
<1>4. \A c \in Runs \ {r} : pc'[c] = pc[c]
  BY OthersStay DEF Run, Same
<1>5. MintedOnce' /\ Behind(r)' /\ (\A n \in chain' : n.who <= at'[r])
  BY <1>3 DEF MintedOnce, Behind
<1> QED  BY <1>1, <1>2, <1>4, <1>5, TheCallIsAlone

\* Steps of the mint loop after which nothing more has been minted.
LEMMA LoopKeepsOnce ==
  ASSUME TypeOK, TypeOK', OnceInv, NEW r \in Runs,
         Skip(r) \/ RecordError(r) \/ \E ride \in Rides : RecordMintForParticipant(r, ride)
  PROVE  OnceInv'
<1>1. pc[r] \in {"mint", "record"} /\ pc[r] # "idle"
  BY DEF Skip, RecordError, RecordMintForParticipant
<1>2. UNCHANGED <<chain, started>>
  BY DEF Skip, RecordError, RecordMintForParticipant, ledger
<1>3. at[r] \in 1 .. N /\ N \in Nat
  BY DEF TypeOK
<1>4. \A n \in chain' : n.who <= at[r]
  <2>1. \A n \in chain : n.who \in 1 .. N
    BY DEF TypeOK, NFTs
  <2> QED  BY <1>1, <1>2, <1>3, <2>1 DEF OnceInv, Behind
<1>5. \A c \in Runs \ {r} : pc'[c] = pc[c]
  BY OthersStay DEF Run, Same
<1>6. NextLive(r) \/ (pc[r] = "record" /\ UNCHANGED <<pc, at>>)
  BY DEF Skip, RecordError, RecordMintForParticipant
<1>7. Behind(r)' /\ (pc'[r] = "record" => \A n \in chain' : n.who <= at'[r])
  <2>1. CASE NextLive(r)
    BY <1>4, <2>1, CursorStaysAhead
  <2>2. CASE pc[r] = "record" /\ UNCHANGED <<pc, at>>
    BY <1>4, <2>2 DEF Behind
  <2> QED  BY <1>6, <2>1, <2>2
<1>8. MintedOnce'
  BY <1>2 DEF OnceInv, MintedOnce
<1> QED  BY <1>1, <1>2, <1>5, <1>7, <1>8, TheCallIsAlone

LEMMA AbandonKeepsOnce ==
  ASSUME TypeOK, OnceInv, NEW r \in Runs, Abandon(r)
  PROVE  OnceInv'
<1>1. pc'[r] = "idle" /\ pc[r] # "idle" /\ UNCHANGED <<chain, started>>
  BY DEF Abandon, Goto, TypeOK, ledger
<1>2. \A c \in Runs \ {r} : pc'[c] = pc[c]
  BY OthersStay DEF Same
<1>3. MintedOnce' /\ Behind(r)'
  BY <1>1 DEF OnceInv, MintedOnce, Behind
<1> QED  BY <1>1, <1>2, <1>3, TheCallIsAlone

\* The only call begins on an empty chain.
LEMMA StartKeepsOnce ==
  ASSUME MaxRuns = 1, TypeOK, TypeOK', OnceInv, NEW r \in Runs, NEW k \in Kinds, Start(r, k)
  PROVE  OnceInv'
<1>1. started = 0 /\ started' = 1 /\ chain' = chain
  BY DEF Start, TypeOK, ledger
<1>2. chain' = {} /\ \A c \in Runs : pc[c] = "idle"
  BY <1>1 DEF OnceInv
<1>3. \A c \in Runs \ {r} : pc'[c] = "idle"
  BY <1>2, OthersStay DEF Same
<1>4. MintedOnce' /\ \A c \in Runs : Behind(c)'
  BY <1>2 DEF MintedOnce, Behind
<1> QED  BY <1>1, <1>2, <1>3, <1>4 DEF OnceInv

\* A day that is run once mints every ride of a participant at most once, whatever fails
\* and whether or not the call is abandoned (BatchMint.Run): minting twice, as the second
\* run of a day does, takes a second call.
THEOREM OneRunMintsOnce == MaxRuns = 1 => (Spec => []MintedOnce)
<1> SUFFICES ASSUME MaxRuns = 1 PROVE Spec => []MintedOnce
  OBVIOUS
<1>1. Init => OnceInv
  BY DEF Init, OnceInv, Behind, MintedOnce
<1>2. ASSUME TypeOK, TypeOK', OnceInv, [Next]_vars
      PROVE  OnceInv'
  <2>1. CASE UNCHANGED <<chain, pc, at, started>>
    BY <1>2, <2>1 DEF OnceInv, Behind, MintedOnce
  <2>2. ASSUME NEW r \in Runs, Run(r)
        PROVE  OnceInv'
    BY <1>2, <2>2, ResolutionKeepsOnce, LoopKeepsOnce, MintKeepsOnce DEF Run
  <2>3. \/ UNCHANGED <<chain, pc, at, started>>
        \/ \E r \in Runs : Run(r) \/ Abandon(r) \/ \E k \in Kinds : Start(r, k)
    BY <1>2 DEF Next, ScanArrives, SetParticipantWallet, vars, calls, ledger
  <2> QED  BY <1>2, <2>1, <2>2, <2>3, AbandonKeepsOnce, StartKeepsOnce
<1>3. OnceInv => MintedOnce
  BY DEF OnceInv
<1> QED  BY <1>1, <1>2, <1>3, TypeCorrect, PTL DEF Spec

-----------------------------------------------------------------------------
\* As long as no aborted transaction returns a digest, no NFT is minted without its ride
\* and no transaction mixes riders or wallets, however calls overlap (BatchMint.mintOne).
THEOREM NFTsAreEarned == NoAborts => (Spec => [](Ledger!OnlyRidesTaken /\ Ledger!OneRecipient))
<1> SUFFICES ASSUME NoAborts PROVE Spec => [](Ledger!OnlyRidesTaken /\ Ledger!OneRecipient)
  OBVIOUS
<1>1. Ledger!Init => Ledger!OnlyRidesTaken /\ Ledger!OneRecipient
  BY DEF Ledger!Init, Ledger!OnlyRidesTaken, Ledger!OneRecipient
<1>2. ASSUME Ledger!OnlyRidesTaken, Ledger!OneRecipient, [Ledger!Next]_Ledger!vars
      PROVE  Ledger!OnlyRidesTaken' /\ Ledger!OneRecipient'
  <2> USE <1>2
  <2>1. CASE Ledger!Mint
    <3>1. Ledger!OnlyRidesTaken'
      BY <2>1 DEF Ledger!Mint, Ledger!OnlyRidesTaken, Ledger!Taken
    <3>2. ASSUME NEW m \in chain', NEW n \in chain', m.tx = n.tx
          PROVE  m.who = n.who /\ m.to = n.to
      <4>1. CASE m \in chain /\ n \in chain
        BY <3>2, <4>1 DEF Ledger!OneRecipient
      <4>2. CASE m \in chain' \ chain /\ n \in chain' \ chain
        BY <2>1, <4>2 DEF Ledger!Mint
      <4>3. (m \in chain) <=> (n \in chain)
        BY <2>1, <3>2 DEF Ledger!Mint
      <4> QED  BY <4>1, <4>2, <4>3
    <3> QED  BY <3>1, <3>2 DEF Ledger!OneRecipient
  <2>2. CASE UNCHANGED chain /\ scans \subseteq scans'
    BY <2>2 DEF Ledger!OnlyRidesTaken, Ledger!OneRecipient, Ledger!Taken
  <2> QED  BY <2>1, <2>2 DEF Ledger!Next, Ledger!Attend, Ledger!Record, Ledger!vars
<1> QED  BY <1>1, <1>2, MintDayImplementsLedger, PTL DEF ImplementsMintLedger, Ledger!Spec
=============================================================================
