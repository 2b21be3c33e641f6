------------------------------ MODULE MintDay ------------------------------
(***************************************************************************)
(* The end-of-day mint for one date.  A call resolves every participant's  *)
(* rides and wallet (DayResolver), parks the rides of those without one in *)
(* pending_mints, mints one batch for each of the others (BatchMint) and   *)
(* records it in mint_logs.  Calls are HTTP handlers and may overlap: each *)
(* call of a store or of the chain is a step.                              *)
(***************************************************************************)
EXTENDS Integers

CONSTANTS
  N,                    \* participants are numbered by their id
  HasAccount,           \* participants with an account_email
  Users, None,          \* users.id; None is no user and no participant
  Owner,                \* OwnerUserIDForParticipant: the family's user, or None
  Rides, Scans,         \* rides, and the scans that may happen on the mint date
  Runs,                 \* calls that may be in progress at once
  MaxRuns,              \* bound: calls in all
  Kinds,                \* which of CallKinds are made
  Faults                \* which of FaultKinds occur

Participants == 1 .. N

ASSUME FamilyAssumption ==
  /\ N \in Nat \ {0}
  /\ HasAccount \subseteq Participants
  /\ None \notin Users \cup Participants
  /\ Owner \in [Participants -> Users \cup {None}]
  /\ Scans \subseteq [user : Users \cup {None}, who : Participants \cup {None},
                      ride : Rides, at : Nat]

CallKinds == {"resolve-day", "run-day", "demo"}

\* refused: pinning or minting fails; nothing reaches the chain
\* lost:    the transaction is executed but the client reports an error
\* abort:   the transaction is executed with failed effects, its digest returned
\* pg:      a Postgres call fails
\* gone:    the caller disconnects or the process dies
FaultKinds == {"refused", "lost", "abort", "pg", "gone"}

ASSUME RunAssumption ==
  Kinds \subseteq CallKinds /\ Faults \subseteq FaultKinds /\ MaxRuns \in Nat

VARIABLES
  scans,                \* scan_events of the date
  chain,                \* NFTs, each with the transaction that made it
  logs,                 \* mint_logs of the date, by user and ride
  wallet,               \* participants.wallet_state
  pending,              \* pending_mints of the date; {} is no row
  txs, started,         \* transactions executed, calls made
  pc, kind, at,         \* per call: its step, its route, the participant it is at
  listed, found,        \* per call: the wallets listed, the rides found
  digest, left, failed  \* per call: digests, rides to record, participants in error

ledger == <<scans, chain, logs>>
calls == <<pc, kind, at, listed, found, digest, left, failed>>
vars == <<ledger, wallet, pending, txs, started, calls>>

WalletStates == {"NONE", "OWN_NON_CUSTODIAL", "CUSTODIAL_PROXY"}
Visit(s) == [ride |-> s.ride, at |-> s.at]
Visits == {Visit(s) : s \in Scans}

\* Transactions are numbered from 1; tx 0 stands for no row.
NFTs == [tx : Nat \ {0}, who : Participants, to : WalletStates, ride : Rides, at : Nat]
Rows == [tx : Nat, who : Participants \cup {None}]
NoRow == [tx |-> 0, who |-> None]

Steps == {"idle", "resolve", "upsert", "check", "mint", "record", "answered"}

TypeOK ==
  /\ scans \subseteq Scans
  /\ chain \subseteq NFTs
  /\ logs \in [Users \X Rides -> Rows]
  /\ wallet \in [Participants -> WalletStates]
  /\ pending \in [Participants -> SUBSET Visits]
  /\ txs \in Nat /\ started \in 0 .. MaxRuns
  /\ pc \in [Runs -> Steps]
  /\ kind \in [Runs -> CallKinds]
  /\ at \in [Runs -> Participants]
  /\ listed \in [Runs -> [Participants -> WalletStates]]
  /\ found \in [Runs -> [Participants -> SUBSET Visits]]
  /\ digest \in [Runs -> [Participants -> Nat]]
  /\ left \in [Runs -> SUBSET Rides]
  /\ failed \in [Runs -> SUBSET Participants]
  /\ \A r \in Runs : pc[r] = "record" <=> left[r] # {}

\* Accounts start without a wallet, dependents with the custodial one Delegate gave
\* them.
Init ==
  /\ scans = {} /\ chain = {}
  /\ logs = [k \in Users \X Rides |-> NoRow]
  /\ wallet = [p \in Participants |-> IF p \in HasAccount THEN "NONE" ELSE "CUSTODIAL_PROXY"]
  /\ pending = [p \in Participants |-> {}]
  /\ txs = 0 /\ started = 0
  /\ pc = [r \in Runs |-> "idle"]
  /\ kind = [r \in Runs |-> "resolve-day"]
  /\ at = [r \in Runs |-> 1]
  /\ listed = [r \in Runs |-> wallet]
  /\ found = [r \in Runs |-> [p \in Participants |-> {}]]
  /\ digest = [r \in Runs |-> [p \in Participants |-> 0]]
  /\ left = [r \in Runs |-> {}]
  /\ failed = [r \in Runs |-> {}]

-----------------------------------------------------------------------------
\* The handler of a ride scan has stored a row.
ScanArrives(s) ==
  /\ s \notin scans
  /\ scans' = scans \cup {s}
  /\ UNCHANGED <<chain, logs, wallet, pending, txs, started, calls>>

\* The demo gives an account a wallet of its own and a dependent the custodial
\* one; ClaimCustody turns the latter into the dependent's own.  Bound: wallets
\* are read when a call starts, so they stop changing once the last one has.
SetParticipantWallet(p, state) ==
  /\ started < MaxRuns
  /\ state # wallet[p] /\ state # "NONE"
  /\ state = "CUSTODIAL_PROXY" => p \notin HasAccount
  /\ state = "OWN_NON_CUSTODIAL" => p \in HasAccount \/ wallet[p] = "CUSTODIAL_PROXY"
  /\ wallet' = [wallet EXCEPT ![p] = state]
  /\ UNCHANGED <<ledger, pending, txs, started, calls>>

-----------------------------------------------------------------------------
Goto(r, step, p) ==
  /\ pc' = [pc EXCEPT ![r] = step]
  /\ at' = [at EXCEPT ![r] = p]

\* Mutant: the last participant is not seen to be the last.
AdvancePastEnd(r, step, after) ==
  IF at[r] <= N THEN Goto(r, step, at[r] + 1) ELSE Goto(r, after, 1)

\* On to the next participant, or to the next loop when this was the last one.
Advance(r, step, after) ==
  IF at[r] < N THEN Goto(r, step, at[r] + 1) ELSE Goto(r, after, 1)

\* ListParticipants: the call works on the wallets of this moment.
Start(r, k) ==
  /\ pc[r] \in {"idle", "answered"}
  /\ started < MaxRuns
  /\ started' = started + 1
  /\ kind' = [kind EXCEPT ![r] = k]
  /\ listed' = [listed EXCEPT ![r] = wallet]
  /\ found' = [found EXCEPT ![r] = [p \in Participants |-> {}]]
  /\ digest' = [digest EXCEPT ![r] = [p \in Participants |-> 0]]
  /\ failed' = [failed EXCEPT ![r] = {}]
  /\ Goto(r, "resolve", 1)
  /\ UNCHANGED <<ledger, wallet, pending, txs, left>>

-----------------------------------------------------------------------------
\* ScanEventRideSource: the rides of an account are the scans of its user, those of
\* a dependent the scans of its ticket.  SELECT DISTINCT ride_id, scanned_at.
RidesOf(p) ==
  {Visit(s) : s \in {t \in scans : IF p \in HasAccount
                                   THEN Owner[p] # None /\ t.user = Owner[p]
                                   ELSE t.who = p}}

\* What the route does after the resolution.
AfterResolution(r) ==
  CASE kind[r] = "resolve-day" -> "answered"
    [] kind[r] = "run-day"     -> "mint"
    [] kind[r] = "demo"        -> "check"

\* RidesForParticipant and ResolveMintWallet for the participant the call is at.
Resolve(r) ==
  /\ pc[r] = "resolve"
  /\ found' = [found EXCEPT ![r][at[r]] = RidesOf(at[r])]
  /\ IF RidesOf(at[r]) # {} /\ listed[r][at[r]] = "NONE"
     THEN Goto(r, "upsert", at[r])
     ELSE Advance(r, "resolve", AfterResolution(r))
  /\ UNCHANGED <<ledger, wallet, pending, txs, started, kind, listed, digest, left, failed>>

\* RecordPendingMint: the row is replaced by the rides this call found.
UpsertPendingMint(r) ==
  /\ pc[r] = "upsert"
  /\ pending' = [pending EXCEPT ![at[r]] = found[r][at[r]]]
  /\ Advance(r, "resolve", AfterResolution(r))
  /\ UNCHANGED <<ledger, wallet, txs, started, kind, listed, found, digest, left, failed>>

\* The demo's alreadyMinted: a participant with a row of the date is left out.
CheckMinted(r) ==
  /\ pc[r] = "check"
  /\ found' = IF \E k \in Users \X Rides : logs[k].tx # 0 /\ logs[k].who = at[r]
              THEN [found EXCEPT ![r][at[r]] = {}] ELSE found
  /\ Advance(r, "check", "mint")
  /\ UNCHANGED <<ledger, wallet, pending, txs, started, kind, listed, digest, left, failed>>

\* A failed query ends the call with an error for everybody.
ResolveError(r) ==
  /\ "pg" \in Faults
  /\ pc[r] \in {"resolve", "upsert", "check"}
  /\ failed' = [failed EXCEPT ![r] = Participants]
  /\ Goto(r, "answered", 1)
  /\ UNCHANGED <<ledger, wallet, pending, txs, started, kind, listed, found, digest, left>>

-----------------------------------------------------------------------------
\* The live set: mint-ready participants with rides.
Live(r, p) == found[r][p] # {} /\ listed[r][p] # "NONE"

NextLive(r) == Advance(r, "mint", "answered")

Blame(r) == failed' = [failed EXCEPT ![r] = @ \cup {at[r]}]

Skip(r) ==
  /\ pc[r] = "mint" /\ ~Live(r, at[r])
  /\ NextLive(r)
  /\ UNCHANGED <<ledger, wallet, pending, txs, started, kind, listed, found, digest, left, failed>>

\* The NFTs of one transaction.
Batch(tx, p, to, visits) ==
  {[tx |-> tx, who |-> p, to |-> to, ride |-> v.ride, at |-> v.at] : v \in visits}

\* mint_batch runs on chain for the participant the call is at.
Execute(r) ==
  /\ txs' = txs + 1
  /\ chain' = chain \cup Batch(txs + 1, at[r], listed[r][at[r]], found[r][at[r]])

\* A digest is returned, the rides are to be recorded.
Minted(r, tx) ==
  /\ digest' = [digest EXCEPT ![r][at[r]] = tx]
  /\ left' = [left EXCEPT ![r] = {v.ride : v \in found[r][at[r]]}]
  /\ Goto(r, "record", at[r])

\* Mutant: the error of the client is not looked at.
RefusedIgnored(r) ==
  Minted(r, txs) /\ UNCHANGED <<chain, txs, failed>>

\* Neither pinned nor minted: the participant is reported in error.
Refused(r) ==
  Blame(r) /\ NextLive(r) /\ UNCHANGED <<chain, txs, digest, left>>

\* mintOne up to the digest.  The status of the effects is only logged.
MintBatchAttendance(r) ==
  /\ pc[r] = "mint" /\ Live(r, at[r])
  /\ \/ Execute(r) /\ Minted(r, txs + 1) /\ UNCHANGED failed
     \/ "refused" \in Faults /\ Refused(r)
     \/ "lost" \in Faults /\ Execute(r) /\ Blame(r) /\ NextLive(r) /\ UNCHANGED <<digest, left>>
     \/ "abort" \in Faults /\ txs' = txs + 1 /\ Minted(r, txs + 1) /\ UNCHANGED <<chain, failed>>
  /\ UNCHANGED <<scans, logs, wallet, pending, started, kind, listed, found>>

\* INSERT ... ON CONFLICT (user_id, ride_id, mint_date): a second mint of the same
\* key replaces the digest and keeps the participant of the first.  Mutant: the
\* participant is not written.
RecordMintUnnamed(p, ride, tx) ==
  logs' = [logs EXCEPT ![<<Owner[p], ride>>] = [tx |-> tx, who |-> @.who]]
RecordMint(p, ride, tx) ==
  logs' = [logs EXCEPT ![<<Owner[p], ride>>] = [tx |-> tx, who |-> IF @.tx = 0 THEN p ELSE @.who]]

\* The rides are recorded one by one.
RecordMintForParticipant(r, ride) ==
  /\ pc[r] = "record" /\ ride \in left[r]
  /\ Owner[at[r]] # None
  /\ RecordMint(at[r], ride, digest[r][at[r]])
  /\ left' = [left EXCEPT ![r] = @ \ {ride}]
  /\ IF left[r] = {ride} THEN NextLive(r) ELSE UNCHANGED <<pc, at>>
  /\ UNCHANGED <<scans, chain, wallet, pending, txs, started, kind, listed, found, digest, failed>>

\* No owning user, or a failed insert: the other rides are not recorded.
\* Mutant: nobody is told.
RecordErrorIgnored(r) ==
  /\ pc[r] = "record"
  /\ Owner[at[r]] = None \/ "pg" \in Faults
  /\ left' = [left EXCEPT ![r] = {}]
  /\ NextLive(r)
  /\ UNCHANGED <<ledger, wallet, pending, txs, started, kind, listed, found, digest, failed>>
RecordError(r) ==
  /\ pc[r] = "record"
  /\ Owner[at[r]] = None \/ "pg" \in Faults
  /\ left' = [left EXCEPT ![r] = {}]
  /\ Blame(r) /\ NextLive(r)
  /\ UNCHANGED <<ledger, wallet, pending, txs, started, kind, listed, found, digest>>

\* r.Context() is cancelled or the process dies: nothing more is called.
Abandon(r) ==
  /\ "gone" \in Faults
  /\ pc[r] \notin {"idle", "answered"}
  /\ Goto(r, "idle", 1)
  /\ left' = [left EXCEPT ![r] = {}]
  /\ found' = [found EXCEPT ![r] = [p \in Participants |-> {}]]
  /\ digest' = [digest EXCEPT ![r] = [p \in Participants |-> 0]]
  /\ failed' = [failed EXCEPT ![r] = {}]
  /\ UNCHANGED <<ledger, wallet, pending, txs, started, kind, listed>>

Run(r) ==
  \/ Resolve(r) \/ UpsertPendingMint(r) \/ CheckMinted(r) \/ ResolveError(r)
  \/ Skip(r) \/ MintBatchAttendance(r)
  \/ \E ride \in Rides : RecordMintForParticipant(r, ride)
  \/ RecordError(r)

Next ==
  \/ \E s \in Scans : ScanArrives(s)
  \/ \E p \in Participants, state \in WalletStates : SetParticipantWallet(p, state)
  \/ \E r \in Runs, k \in Kinds : Start(r, k)
  \/ \E r \in Runs : Run(r) \/ Abandon(r)

Spec == Init /\ [][Next]_vars

-----------------------------------------------------------------------------
\* The mint day behaves as a ledger (MintLedger): NFTs are minted for rides of
\* theirs only and a log row always names a transaction that minted that ride for
\* that family.  What sui.Client must guarantee for it: no "abort".
Ledger == INSTANCE MintLedger
ImplementsMintLedger == Ledger!Spec

\* What the answer of a call says is true: a participant reported as minted without
\* an error has an NFT of its digest for every ride and a row for every ride; one
\* reported pending has its pending_mints row (BatchMint.Run, DayResolver.ResolveDay).
AnswerIsTrue ==
  \A r \in Runs : pc[r] = "answered" =>
    \A p \in Participants \ failed[r] : found[r][p] # {} =>
      IF listed[r][p] = "NONE" THEN pending[p] # {}
      ELSE kind[r] # "resolve-day" =>
             /\ Batch(digest[r][p], p, listed[r][p], found[r][p]) \subseteq chain
             /\ \A v \in found[r][p] : logs[<<Owner[p], v.ride>>].tx # 0

\* A ride a participant took is minted for it once, however often the day is run.
MintedOnce ==
  \A m, n \in chain : (m.who = n.who /\ m.ride = n.ride /\ m.at = n.at) => m.tx = n.tx

\* A row of the family's table names a member of the family for whom the ride was minted,
\* and a transaction that minted it for the family: all a row that brothers and sisters
\* share can say, as the second one's mint replaces the digest and keeps the name
\* (RecordMintForParticipant, repository.go:71-98).
RowsNameRiders ==
  \A k \in Users \X Rides : logs[k].tx # 0 =>
    /\ \E n \in chain : n.ride = k[2] /\ Owner[n.who] = k[1] /\ n.who = logs[k].who
    /\ \E n \in chain : n.ride = k[2] /\ Owner[n.who] = k[1] /\ n.tx = logs[k].tx
=============================================================================
