------------------------------ MODULE DemoDay ------------------------------
(***************************************************************************)
(* The demo orchestrator (internal/demo) over users, participants,         *)
(* ticket_vouchers, scan_events, mint_logs and the chain.  POST /seed      *)
(* get-or-creates what a scenario needs, POST /run does the same and then  *)
(* mints the scenario's day, POST /reset truncates the tables.  Requests   *)
(* are HTTP handlers and may overlap: every statement is a step and        *)
(* commits on its own.  The statements of the resolution are in MintDay.   *)
(***************************************************************************)
EXTENDS Integers

CONSTANTS
  N,                    \* guardians are numbered 1 .. N (10 in the code)
  ProbeN,               \* the last guardian of 2a, the one with a dependent (9)
  Half,                 \* in 2d, guardians up to here ride themselves (5)
  RidesEach,            \* rides a rider takes (2)
  Played,               \* scenarios asked for
  Requests,             \* requests that may be in progress at once
  MaxRequests,          \* bound: requests in all
  MaxCopies,            \* bound: rows of one dependent
  MaxTxs,               \* bound: transactions on chain
  MaxResets,            \* bound: resets
  Faults                \* which of FaultKinds occur

\* refused: pinning or minting fails; nothing reaches the chain
\* lost:    the transaction is executed but the client reports an error
\* abort:   it is executed without effect, and its digest is returned as of any other
\* gone:    a statement fails, the caller hangs up or the process dies
FaultKinds == {"refused", "lost", "abort", "gone"}

ASSUME SizeAssumption ==
  /\ N \in Nat \ {0} /\ ProbeN \in 1 .. N /\ Half \in 0 .. N
  /\ RidesEach \in Nat \ {0} /\ MaxCopies \in Nat \ {0}
  /\ MaxRequests \in Nat /\ MaxTxs \in Nat /\ MaxResets \in Nat

ASSUME FaultsAssumption == Faults \subseteq FaultKinds

Guardians == 1 .. N
Rides == 1 .. RidesEach
Scenarios == {"2a", "2b", "2c", "2d"}

ASSUME PlayedAssumption == Played \subseteq Scenarios

-----------------------------------------------------------------------------
(* What a scenario seeds *)

\* Mutant: the loop runs once more.
LastGuardianPast(s) == IF s = "2a" THEN ProbeN + 1 ELSE N + 1
LastGuardian(s) == IF s = "2a" THEN ProbeN ELSE N

\* The guardian takes the rides itself, on its account.
RidesItself(s, i) == s = "2b" \/ (s = "2d" /\ i <= Half)

\* The guardian has a dependent; only in 2a does it not ride.
HasDependent(s, i) == (s = "2a" /\ i = ProbeN) \/ s = "2c" \/ (s = "2d" /\ i > Half)

\* dependentName: the name of guardian i's dependent.  Name 1 is a dependent of the
\* last guardian in 2a and of the first one elsewhere.
Dependent(s, i) == IF s = "2a" THEN 1 ELSE i

\* A row of participants: a guardian, or a dependent by its name and guardian_id,
\* which are not unique.
Guardian(i) == [name |-> 0, of |-> i, copy |-> 1]
Persons == [name : 0 .. N, of : Guardians, copy : 1 .. MaxCopies]
IsDependent(p) == p.name # 0

\* trace_id, "seed-<scenario>-<email or name>-<ride>"
Trace(s, k, n, r) == [day |-> s, kind |-> k, n |-> n, ride |-> r]
TracesOf(s) ==
  {Trace(s, "guardian", i, r) : i \in {j \in Guardians : RidesItself(s, j)}, r \in Rides}
    \cup {Trace(s, "dependent", i, r) :
            i \in {j \in Guardians : s # "2a" /\ HasDependent(s, j)}, r \in Rides}
Traces == UNION {TracesOf(s) : s \in Scenarios}

-----------------------------------------------------------------------------
CONSTANTS Nobody, Absent  \* no person; no row

ASSUME NamesAssumption == Nobody \notin Persons /\ Absent \notin 0 .. N

VARIABLES
  users,                \* guardians with a row in users
  linked,               \* those of them with their sui_address
  people,               \* participants: the wallet of the guardian named, 0 for none
  vouchers,             \* dependents with a voucher, demo-voucher-<id>
  scans,                \* scan_events: the person of the row's user or ticket
  logs,                 \* mint_logs, by user, date and ride
  chain, txs,           \* NFTs; transactions executed
  aborted,              \* history: rides a transaction without effect was executed for
  started, resets,      \* requests and resets so far
  seeded, ran,          \* history: scenarios seeded since, and run with no failure shown
  sure,                 \* history: no mint unrecorded, no two runs at once since
  pc, kind, day,        \* per request: its step, what it is, its scenario
  at, ride, who,        \* per request: guardian, ride and dependent it is at
  todo, found,          \* per run: riders to look at or mint, rides to mint or record
  digest, failed        \* per run: the last transaction; a failed mint is shown

tables == <<users, linked, people, vouchers, scans, logs>>
onChain == <<chain, aborted, txs>>
history == <<started, resets, seeded, ran, sure>>
seeding == <<kind, day, at, ride, who>>
minting == <<todo, found, digest, failed>>
vars == <<tables, onChain, history, pc, seeding, minting>>

\* NFTs carry the reset before them, to tell the days of one reset from the next's.
NFTs == [tx : 1 .. MaxTxs, trace : Traces, to : Guardians, era : 0 .. MaxResets]
Aborts == [trace : Traces, era : 0 .. MaxResets]
Keys == Guardians \X Scenarios \X Rides
NoRow == [tx |-> 0, who |-> Nobody]
Rows == [tx : 1 .. MaxTxs, who : Persons] \cup {NoRow}

SeedSteps == {"user", "lookup", "createGuardian", "ownWallet", "account", "ownRide",
              "find", "createDependent", "custodial", "voucher", "ride"}
RunSteps == {"resolve", "check", "mint", "record"}

TablesType ==
  /\ users \subseteq Guardians
  /\ linked \subseteq users
  /\ people \in [Persons -> 0 .. N \cup {Absent}]
  /\ vouchers \subseteq Persons
  /\ scans \in [Traces -> Persons \cup {Nobody}]
  /\ logs \in [Keys -> Rows]
  /\ chain \subseteq NFTs /\ aborted \subseteq Aborts /\ txs \in 0 .. MaxTxs
  /\ started \in 0 .. MaxRequests /\ resets \in 0 .. MaxResets
  /\ seeded \subseteq Scenarios /\ ran \subseteq Scenarios
  /\ sure \in BOOLEAN

RequestsType ==
  /\ pc \in [Requests -> {"idle"} \cup SeedSteps \cup RunSteps]
  /\ kind \in [Requests -> {"seed", "run"}]
  /\ day \in [Requests -> Scenarios]
  /\ at \in [Requests -> Guardians]
  /\ ride \in [Requests -> Rides]
  /\ who \in [Requests -> Persons \cup {Nobody}]
  /\ todo \in [Requests -> SUBSET Persons]
  /\ found \in [Requests -> SUBSET Traces]
  /\ digest \in [Requests -> 0 .. MaxTxs]
  /\ failed \in [Requests -> BOOLEAN]

TypeOK == TablesType /\ RequestsType

Init ==
  /\ users = {} /\ linked = {}
  /\ people = [p \in Persons |-> Absent]
  /\ vouchers = {}
  /\ scans = [t \in Traces |-> Nobody]
  /\ logs = [k \in Keys |-> NoRow]
  /\ chain = {} /\ aborted = {} /\ txs = 0
  /\ started = 0 /\ resets = 0 /\ seeded = {} /\ ran = {} /\ sure = TRUE
  /\ pc = [r \in Requests |-> "idle"]
  /\ kind = [r \in Requests |-> "seed"]
  /\ day = [r \in Requests |-> "2a"]
  /\ at = [r \in Requests |-> 1]
  /\ ride = [r \in Requests |-> 1]
  /\ who = [r \in Requests |-> Nobody]
  /\ todo = [r \in Requests |-> {}]
  /\ found = [r \in Requests |-> {}]
  /\ digest = [r \in Requests |-> 0]
  /\ failed = [r \in Requests |-> FALSE]

-----------------------------------------------------------------------------
Running(q) == pc[q] # "idle" /\ kind[q] = "run"

\* POST /seed or /run
Arrive(r, k, s) ==
  /\ pc[r] = "idle"
  /\ started < MaxRequests
  /\ started' = started + 1
  /\ pc' = [pc EXCEPT ![r] = "user"]
  /\ kind' = [kind EXCEPT ![r] = k]
  /\ day' = [day EXCEPT ![r] = s]
  /\ sure' = (sure /\ (k = "run" => \A q \in Requests : ~Running(q)))
  /\ UNCHANGED <<tables, onChain, resets, seeded, ran, at, ride, who, minting>>

\* Request r is answered, or ends for another reason.
End(r) ==
  /\ pc' = [pc EXCEPT ![r] = "idle"]
  /\ kind' = [kind EXCEPT ![r] = "seed"]
  /\ day' = [day EXCEPT ![r] = "2a"]
  /\ at' = [at EXCEPT ![r] = 1]
  /\ ride' = [ride EXCEPT ![r] = 1]
  /\ who' = [who EXCEPT ![r] = Nobody]
  /\ todo' = [todo EXCEPT ![r] = {}]
  /\ found' = [found EXCEPT ![r] = {}]
  /\ digest' = [digest EXCEPT ![r] = 0]
  /\ failed' = [failed EXCEPT ![r] = FALSE]

Goto(r, step) ==
  /\ pc' = [pc EXCEPT ![r] = step]
  /\ UNCHANGED <<kind, day, at, ride, who>>

\* The next guardian, or what comes after the last one: a run of a day resolves and mints
\* it, a run of 2a sends its probes, which write no table.
NextGuardian(r) ==
  \/ /\ at[r] < LastGuardian(day[r])
     /\ pc' = [pc EXCEPT ![r] = "user"]
     /\ at' = [at EXCEPT ![r] = at[r] + 1]
     /\ ride' = [ride EXCEPT ![r] = 1]
     /\ who' = [who EXCEPT ![r] = Nobody]
     /\ UNCHANGED <<kind, day, minting, seeded>>
  \/ /\ at[r] >= LastGuardian(day[r])
     /\ seeded' = seeded \cup {day[r]}
     /\ \/ kind[r] = "run" /\ day[r] # "2a" /\ Goto(r, "resolve") /\ UNCHANGED minting
        \/ (kind[r] = "seed" \/ day[r] = "2a") /\ End(r)

-----------------------------------------------------------------------------
(* seedGuardian *)

\* CreateUser: INSERT ... ON CONFLICT (email) DO UPDATE
CreateUser(r) ==
  /\ pc[r] = "user"
  /\ users' = users \cup {at[r]}
  /\ Goto(r, "lookup")
  /\ UNCHANGED <<linked, people, vouchers, scans, logs, onChain, history, minting>>

GetParticipantByEmail(r) ==
  /\ pc[r] = "lookup"
  /\ Goto(r, IF people[Guardian(at[r])] = Absent THEN "createGuardian" ELSE "ownWallet")
  /\ UNCHANGED <<tables, onChain, history, minting>>

\* account_email is unique: who comes second ends in an error (Abandon).
CreateGuardian(r) ==
  /\ pc[r] = "createGuardian"
  /\ people[Guardian(at[r])] = Absent
  /\ people' = [people EXCEPT ![Guardian(at[r])] = 0]
  /\ Goto(r, "ownWallet")
  /\ UNCHANGED <<users, linked, vouchers, scans, logs, onChain, history, minting>>

SetParticipantWallet(p, i) == people' = [people EXCEPT ![p] = i]

OwnWallet(r) ==
  /\ pc[r] = "ownWallet"
  /\ SetParticipantWallet(Guardian(at[r]), at[r])
  /\ Goto(r, "account")
  /\ UNCHANGED <<users, linked, vouchers, scans, logs, onChain, history, minting>>

UpdateSuiAccount(r) ==
  /\ pc[r] = "account"
  /\ linked' = linked \cup {at[r]}
  /\ \/ RidesItself(day[r], at[r]) /\ Goto(r, "ownRide") /\ UNCHANGED <<minting, seeded>>
     \/ HasDependent(day[r], at[r]) /\ Goto(r, "find") /\ UNCHANGED <<minting, seeded>>
     \/ ~RidesItself(day[r], at[r]) /\ ~HasDependent(day[r], at[r]) /\ NextGuardian(r)
  /\ UNCHANGED <<users, people, vouchers, scans, logs, onChain, started, resets, ran, sure>>

-----------------------------------------------------------------------------
(* seedRideAccount, seedDependent, seedRideDependent *)

\* INSERT INTO scan_events ... ON CONFLICT (trace_id) DO NOTHING
InsertScan(t, p) == scans' = [scans EXCEPT ![t] = IF @ = Nobody THEN p ELSE @]

NextRide(r, step) ==
  \/ /\ ride[r] < RidesEach
     /\ pc' = [pc EXCEPT ![r] = step]
     /\ ride' = [ride EXCEPT ![r] = ride[r] + 1]
     /\ UNCHANGED <<kind, day, at, who, minting, seeded>>
  \/ ride[r] >= RidesEach /\ NextGuardian(r)

SeedRideAccount(r) ==
  /\ pc[r] = "ownRide"
  /\ InsertScan(Trace(day[r], "guardian", at[r], ride[r]), Guardian(at[r]))
  /\ NextRide(r, "ownRide")
  /\ UNCHANGED <<users, linked, people, vouchers, logs, onChain, started, resets, ran, sure>>

\* WHERE name=$1 AND guardian_id=$2.  Mutant: the name is taken to be unique.
IsWantedByName(p, r) == p.name = Dependent(day[r], at[r])
IsWanted(p, r) == p.name = Dependent(day[r], at[r]) /\ p.of = at[r]

Wanted(r) == {p \in Persons : IsDependent(p) /\ IsWanted(p, r) /\ people[p] # Absent}

\* A dependent there is gets its wallet again.  Mutant: only a new one gets it.
AfterFindNoWallet(r) == IF day[r] = "2a" THEN "custodial" ELSE "voucher"
AfterFind(r) == "custodial"

At(r, step, p) ==
  /\ pc' = [pc EXCEPT ![r] = step]
  /\ who' = [who EXCEPT ![r] = p]
  /\ UNCHANGED <<kind, day, at, ride>>

\* LIMIT 1 takes any row.
FindDependent(r) ==
  /\ pc[r] = "find"
  /\ \/ \E p \in Wanted(r) : At(r, AfterFind(r), p)
     \/ Wanted(r) = {} /\ Goto(r, "createDependent")
  /\ UNCHANGED <<tables, onChain, history, minting>>

\* There is no constraint on name and guardian: who comes second makes another row.
CreateDependent(r) ==
  /\ pc[r] = "createDependent"
  /\ \E p \in Persons :
       /\ p.name = Dependent(day[r], at[r]) /\ p.of = at[r]
       /\ people[p] = Absent
       /\ people' = [people EXCEPT ![p] = 0]
       /\ At(r, "custodial", p)
  /\ UNCHANGED <<users, linked, vouchers, scans, logs, onChain, history, minting>>

\* The dependent's wallet is the guardian's (R31).
CustodialWallet(r) ==
  /\ pc[r] = "custodial"
  /\ SetParticipantWallet(who[r], at[r])
  /\ \/ day[r] # "2a" /\ Goto(r, "voucher") /\ UNCHANGED <<minting, seeded>>
     \/ day[r] = "2a" /\ NextGuardian(r)
  /\ UNCHANGED <<users, linked, vouchers, scans, logs, onChain, started, resets, ran, sure>>

\* INSERT INTO ticket_vouchers ... ON CONFLICT (voucher_id) DO NOTHING
InsertVoucher(r) ==
  /\ pc[r] = "voucher"
  /\ vouchers' = vouchers \cup {who[r]}
  /\ Goto(r, "ride")
  /\ UNCHANGED <<users, linked, people, scans, logs, onChain, history, minting>>

SeedRideDependent(r) ==
  /\ pc[r] = "ride"
  /\ InsertScan(Trace(day[r], "dependent", at[r], ride[r]), who[r])
  /\ NextRide(r, "voucher")
  /\ UNCHANGED <<users, linked, people, vouchers, logs, onChain, started, resets, ran, sure>>

Seed(r) ==
  \/ CreateUser(r) \/ GetParticipantByEmail(r) \/ CreateGuardian(r)
  \/ OwnWallet(r) \/ UpdateSuiAccount(r) \/ SeedRideAccount(r)
  \/ FindDependent(r) \/ CreateDependent(r) \/ CustodialWallet(r)
  \/ InsertVoucher(r) \/ SeedRideDependent(r)

-----------------------------------------------------------------------------
(* runMint *)

\* Mint-ready: the rides of an account are those of its user, those of a dependent the
\* ones on its voucher; there is a wallet.
Ready(t) ==
  /\ scans[t] # Nobody
  /\ people[scans[t]] \notin {Absent, 0}
  /\ IsDependent(scans[t]) => scans[t] \in vouchers

Riders(T) == {scans[t] : t \in T}
RidesOf(r, p) == {t \in found[r] : scans[t] = p}

\* The run is answered; bad says that the reply shows a failed mint or a failed step.
Answer(r, bad) ==
  /\ ran' = IF bad THEN ran ELSE ran \cup {day[r]}
  /\ End(r)

\* The riders P and the rides T are left for the next step.
Proceed(r, step, P, T) ==
  /\ Goto(r, step)
  /\ todo' = [todo EXCEPT ![r] = P]
  /\ found' = [found EXCEPT ![r] = T]
  /\ UNCHANGED <<digest, failed, ran>>

\* ResolveDay only reads, the run itself has seeded every ride of the day, and a ride
\* stays as it is until a reset: one step.
ResolveDay(r) ==
  /\ pc[r] = "resolve"
  /\ LET T == {t \in TracesOf(day[r]) : Ready(t)}
     IN  Proceed(r, "check", Riders(T), T)
  /\ UNCHANGED <<tables, onChain, started, resets, seeded, sure>>

\* WHERE participant_id=$1 AND mint_date=$2.  Mutants: no row is found; the date is
\* not looked at.
AlreadyMintedNever(p, s) == FALSE
AlreadyMintedAnyDay(p, s) == \E k \in Keys : logs[k].who = p
AlreadyMinted(p, s) == \E k \in Keys : k[2] = s /\ logs[k].who = p

\* One rider after the other.
CheckMinted(r) ==
  /\ pc[r] = "check"
  /\ \/ \E p \in todo[r] :
          Proceed(r, "check", todo[r] \ {p},
                  IF AlreadyMinted(p, day[r]) THEN found[r] \ RidesOf(r, p) ELSE found[r])
     \/ todo[r] = {} /\ Proceed(r, "mint", Riders(found[r]), found[r])
  /\ UNCHANGED <<tables, onChain, started, resets, seeded, sure>>

\* mint_batch is executed for rider p: an NFT for every ride, into its wallet.
Execute(r, p) ==
  /\ txs < MaxTxs
  /\ txs' = txs + 1
  /\ chain' = chain \cup {[tx |-> txs + 1, trace |-> t, to |-> people[p], era |-> resets] :
                            t \in RidesOf(r, p)}
  /\ UNCHANGED aborted

\* It is executed for rider p and aborts.
Abort(r, p) ==
  /\ txs < MaxTxs
  /\ txs' = txs + 1
  /\ aborted' = aborted \cup {[trace |-> t, era |-> resets] : t \in RidesOf(r, p)}
  /\ UNCHANGED chain

\* The client has a digest for rider p: its rides are recorded next.
HasDigest(r, p) ==
  /\ At(r, "record", p)
  /\ digest' = [digest EXCEPT ![r] = txs + 1]
  /\ todo' = [todo EXCEPT ![r] = todo[r] \ {p}]
  /\ UNCHANGED found

\* Rider p is reported in error.
MintFails(r, p) ==
  /\ failed' = [failed EXCEPT ![r] = TRUE]
  /\ todo' = [todo EXCEPT ![r] = todo[r] \ {p}]
  /\ UNCHANGED <<pc, found, digest, seeding>>

\* BatchMint.Run, up to the digest; 2d shuffles the riders.  That a transaction was
\* aborted is shown only if the run's own look-up of its status is answered.
MintBatchAttendance(r) ==
  /\ pc[r] = "mint"
  /\ \E p \in todo[r] :
       \/ Execute(r, p) /\ HasDigest(r, p) /\ UNCHANGED <<failed, sure>>
       \/ /\ "abort" \in Faults
          /\ Abort(r, p) /\ HasDigest(r, p)
          /\ \E shown \in BOOLEAN : failed' = [failed EXCEPT ![r] = failed[r] \/ shown]
          /\ UNCHANGED sure
       \/ "refused" \in Faults /\ MintFails(r, p) /\ UNCHANGED <<onChain, sure>>
       \/ "lost" \in Faults /\ Execute(r, p) /\ MintFails(r, p) /\ sure' = FALSE
  /\ UNCHANGED <<tables, started, resets, seeded, ran>>

\* RecordMintForParticipant, ride by ride: the row of the family's user; a row there is
\* gets the new digest and keeps its participant.
RecordMint(r) ==
  /\ pc[r] = "record"
  /\ who[r].of \in users
  /\ \E t \in RidesOf(r, who[r]) :
       /\ logs' = [logs EXCEPT ![<<who[r].of, t.day, t.ride>>] =
                     [tx |-> digest[r], who |-> IF @.tx = 0 THEN who[r] ELSE @.who]]
       /\ found' = [found EXCEPT ![r] = found[r] \ {t}]
       /\ Goto(r, IF RidesOf(r, who[r]) = {t} THEN "mint" ELSE "record")
  /\ UNCHANGED <<users, linked, people, vouchers, scans, onChain, history,
                 todo, digest, failed>>

\* A failed insert: the rider's other rides are not recorded.  The run shows the mint as
\* it is, it looks only at Minted and TxDigest.
RecordFails(r) ==
  /\ "gone" \in Faults
  /\ pc[r] = "record"
  /\ found' = [found EXCEPT ![r] = found[r] \ RidesOf(r, who[r])]
  /\ Goto(r, "mint")
  /\ sure' = FALSE
  /\ UNCHANGED <<tables, onChain, started, resets, seeded, ran, todo, digest, failed>>

AnswerRun(r) ==
  /\ pc[r] = "mint" /\ todo[r] = {}
  /\ Answer(r, failed[r])
  /\ UNCHANGED <<tables, onChain, started, resets, seeded, sure>>

\* The resolution or a look at mint_logs fails: the run is answered, mints nothing and
\* shows the step that failed, though no failed mint.
ReadFails(r) ==
  /\ "gone" \in Faults
  /\ pc[r] = "resolve" \/ (pc[r] = "check" /\ todo[r] # {})
  /\ Answer(r, TRUE)
  /\ UNCHANGED <<tables, onChain, started, resets, seeded, sure>>

Run(r) ==
  \/ ResolveDay(r) \/ CheckMinted(r) \/ MintBatchAttendance(r)
  \/ RecordMint(r) \/ RecordFails(r) \/ AnswerRun(r) \/ ReadFails(r)

-----------------------------------------------------------------------------
\* A statement of the seeding fails, the caller hangs up or the process dies: none
\* follows.  The second insert of an account ends like this as well.  A run's own
\* failures are answered (ReadFails, MintFails, RecordFails).
Abandon(r) ==
  /\ pc[r] # "idle"
  /\ "gone" \in Faults \/ (pc[r] = "createGuardian" /\ people[Guardian(at[r])] # Absent)
  /\ End(r)
  /\ sure' = (sure /\ pc[r] # "record")
  /\ UNCHANGED <<tables, onChain, started, resets, seeded, ran>>

\* POST /reset truncates every table; what is on chain stays.  Here it overlaps no other
\* request and is not cut short (see the README).
Reset ==
  /\ resets < MaxResets
  /\ \A r \in Requests : pc[r] = "idle"
  /\ users' = {} /\ linked' = {}
  /\ people' = [p \in Persons |-> Absent]
  /\ vouchers' = {}
  /\ scans' = [t \in Traces |-> Nobody]
  /\ logs' = [k \in Keys |-> NoRow]
  /\ resets' = resets + 1 /\ seeded' = {} /\ ran' = {} /\ sure' = TRUE
  /\ UNCHANGED <<onChain, started, pc, seeding, minting>>

Next ==
  \/ \E r \in Requests, k \in {"seed", "run"}, s \in Played : Arrive(r, k, s)
  \/ \E r \in Requests : Seed(r) \/ Run(r) \/ Abandon(r)
  \/ Reset

Spec == Init /\ [][Next]_vars

-----------------------------------------------------------------------------
\* A ride of the day belongs to the one who took it, who can be minted for: a guardian's
\* to its account, a dependent's to a dependent of that guardian with a voucher
\* and the guardian's wallet.
Attributed(t) ==
  /\ scans[t] # Nobody
  /\ scans[t].of = t.n
  /\ scans[t].name = IF t.kind = "guardian" THEN 0 ELSE t.n
  /\ people[scans[t]] = t.n
  /\ IsDependent(scans[t]) => scans[t] \in vouchers

\* However seeds overlap, meet rows that others left half made, or make a dependent
\* twice: what an answered seed or run has seeded is there, whole, until a reset
\* ("idempotently", "get-or-create", scenarios.go:56-58).
SeedIsTrue ==
  \A s \in seeded :
    /\ \A i \in 1 .. LastGuardian(s) :
         /\ i \in linked /\ people[Guardian(i)] = i
         /\ HasDependent(s, i) =>
              \E p \in Persons : p.name = Dependent(s, i) /\ p.of = i /\ people[p] = i
    /\ \A t \in TracesOf(s) : Attributed(t)

\* A ride was minted since the last reset.
MintedNow(t) == \E n \in chain : n.trace = t /\ n.era = resets

\* A transaction for it was executed since and may be taken for its mint.
Served(t) == MintedNow(t) \/ [trace |-> t, era |-> resets] \in aborted

\* A run whose reply shows neither a failed mint nor a failed step has minted every ride
\* of its day or found it minted since the last reset, whatever the runs before it left
\* undone; but for a ride whose transaction aborted, in this run or an earlier one:
\* BatchMint records its digest and alreadyMinted finds it (scenarios.go:333-382).
RunIsTrue == \A s \in ran : \A t \in TracesOf(s) : Served(t)

\* Every NFT goes to the wallet of the guardian whose day it is of, a dependent's too
\* ("dependents' NFTs land in the guardian wallet", scenarios.go:429).
LandsWithGuardian == \A n \in chain : n.to = n.trace.n

\* attribution: the rows of the guardian whose user has the address, and of its
\* dependents.  Mutant: the dependents are left out.
AttributionOwn(a) ==
  {k \in Keys : logs[k].tx # 0 /\ a \in linked /\ logs[k].who = Guardian(a)}
Attribution(a) ==
  {k \in Keys : logs[k].tx # 0 /\ a \in linked /\ people[Guardian(a)] # Absent
                  /\ logs[k].who.of = a /\ people[logs[k].who] # Absent}

\* The wallet view leaves no recorded NFT of the address unexplained: the row of its
\* transaction is in the attribution (R34, wallet.go:9-14).
WalletShowsMints ==
  \A k \in Keys, n \in chain :
    n.tx = logs[k].tx /\ n.trace.day = k[2] /\ n.trace.ride = k[3] => k \in Attribution(n.to)

\* Runs after one another mint a ride once, unless a mint was not recorded ("so repeated
\* runs issue no duplicate on-chain tx", scenarios.go:450-451).
MintedOnce ==
  sure => \A m, n \in chain : m.trace = n.trace /\ m.era = resets /\ n.era = resets => m.tx = n.tx
=============================================================================
