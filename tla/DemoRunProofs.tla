---------------------------- MODULE DemoRunProofs ----------------------------
(***************************************************************************)
(* Theorems about the runs of the demo, on top of those about its seeds:   *)
(* NFTs land with the guardian and are in its wallet view, an answered run *)
(* has minted its day, and runs after one another mint it once.            *)
(***************************************************************************)
EXTENDS DemoDayProofs

USE SizeAssumption, FaultsAssumption, PlayedAssumption, NamesAssumption

-----------------------------------------------------------------------------
(* What runs keep true *)

ChainInv ==
  \A n \in chain :
    /\ n.tx <= txs /\ n.era <= resets /\ n.to = n.trace.n
    /\ n.era = resets => n.trace.day \in seeded

\* A row names the rider of its ride, a transaction of that rider's family, and a rider
\* whose rides of the day were all minted.
RowInv(k) ==
  logs[k].tx # 0 =>
    /\ k[2] \in seeded /\ logs[k].tx <= txs
    /\ \E t \in TracesOf(k[2]) : t.n = k[1] /\ t.ride = k[3] /\ scans[t] = logs[k].who
    /\ \A n \in chain : n.tx = logs[k].tx => n.trace.n = k[1]
    /\ \A t \in TracesOf(k[2]) : scans[t] = logs[k].who => Served(t)
LogsInv == \A k \in Keys : RowInv(k)
RanInv == \A s \in ran : \A t \in TracesOf(s) : Served(t)

\* Riders are struck out whole, and only those whose rides were minted.
CheckInv(r) ==
  pc[r] = "check" =>
    /\ \A t \in TracesOf(day[r]) : t \in found[r] \/ Served(t)
    /\ \A t \in found[r], u \in TracesOf(day[r]) : scans[t] = scans[u] => u \in found[r]

\* Every ride is minted, or a mint failed, or its rider's turn will come.
BatchInv(r) ==
  pc[r] \in {"mint", "record"} =>
    \A t \in TracesOf(day[r]) :
      /\ scans[t] \in todo[r] => t \in found[r]
      /\ failed[r] \/ Served(t) \/ scans[t] \in todo[r]

RecordInv(r) ==
  pc[r] = "record" =>
    /\ digest[r] \in 1 .. txs /\ who[r] \notin todo[r]
    /\ \A n \in chain : n.tx = digest[r] => n.trace.n = who[r].of
    /\ \A t \in TracesOf(day[r]) : scans[t] = who[r] => Served(t)

RunReqInv(r) == CheckInv(r) /\ BatchInv(r) /\ RecordInv(r)
RunInv == ChainInv /\ LogsInv /\ RanInv /\ \A r \in Requests : RunReqInv(r)

\* Once: as long as every mint was recorded and runs came one after another.
OneRun == \A q, r \in Requests : Running(q) /\ Running(r) => q = r
NoTwins == \A m, n \in chain :
  m.trace = n.trace /\ m.era = resets /\ n.era = resets => m.tx = n.tx
\* A minted rider has a row of the day or is being recorded.
Recorded(t) ==
  \/ AlreadyMinted(scans[t], t.day)
  \/ \E r \in Requests : pc[r] = "record" /\ who[r] = scans[t] /\ day[r] = t.day
MintsRecorded == \A n \in chain : n.era = resets => Recorded(n.trace)
\* Riders that were looked at and left, and riders to mint, were not minted.
UnmintedInv(r) ==
  /\ pc[r] = "check" => \A t \in found[r] : scans[t] \in todo[r] \/ ~MintedNow(t)
  /\ pc[r] \in {"mint", "record"} => \A t \in found[r] : scans[t] \in todo[r] => ~MintedNow(t)
OnceInv == sure => OneRun /\ NoTwins /\ MintsRecorded /\ \A r \in Requests : UnmintedInv(r)

-----------------------------------------------------------------------------
(* What a step may do to chain and rows *)

\* New NFTs are of a new transaction, of a day that was seeded, and of its guardians.
ChainGrows ==
  /\ chain \subseteq chain' /\ aborted \subseteq aborted' /\ txs <= txs' /\ resets' = resets
  /\ txs \in Nat /\ txs' \in Nat
  /\ \A n \in chain' : n \in chain \/ (/\ n.tx = txs + 1 /\ n.tx = txs' /\ n.era = resets
                                       /\ n.to = n.trace.n /\ n.trace.day \in seeded)

LEMMA ChainStays ==
  ASSUME SeedInv, UNCHANGED <<onChain, resets>>
  PROVE  ChainGrows
BY DEF ChainGrows, onChain, SeedInv, TypeOK, TablesType

LEMMA ServedStays ==
  ASSUME ChainGrows, NEW t, Served(t)
  PROVE  Served(t)'
BY DEF ChainGrows, Served, MintedNow

\* The riders of a seeded day stay.
LEMMA RidersStay ==
  ASSUME SeedInv, TablesGain, NEW s \in Scenarios, s \in seeded, NEW t \in TracesOf(s)
  PROVE  scans[t] # Nobody /\ scans'[t] = scans[t] /\ scans[t] \in Persons
<1>1. t \in Traces /\ s # "2a" /\ scans[t] # Nobody /\ scans[t] \in Persons
  BY RidesOfScenario, SeededRides
<1> QED  BY <1>1 DEF TablesGain

LEMMA ChainKept ==
  ASSUME SeedInv, ChainInv, ChainGrows, SeededGrows
  PROVE  ChainInv'
<1> SUFFICES ASSUME NEW n \in chain'
             PROVE  /\ n.tx <= txs' /\ n.era <= resets' /\ n.to = n.trace.n
                    /\ n.era = resets' => n.trace.day \in seeded'
  BY DEF ChainInv
<1>1. resets \in Nat /\ txs \in Nat /\ txs' \in Nat
  BY DEF SeedInv, TypeOK, TablesType, ChainGrows
<1>2. CASE n \in chain
  <2>1. n.tx \in Nat
    BY <1>2 DEF SeedInv, TypeOK, TablesType, NFTs
  <2> QED  BY <1>1, <1>2, <2>1 DEF ChainInv, ChainGrows, SeededGrows
<1>3. CASE n \notin chain
  BY <1>1, <1>3 DEF ChainGrows, SeededGrows
<1> QED  BY <1>2, <1>3

\* A new transaction is none that a row or a run knows.
LEMMA NewTxIsUnknown ==
  ASSUME ChainGrows, NEW x, x <= txs, x \in Nat, NEW g,
         \A n \in chain : n.tx = x => n.trace.n = g
  PROVE  x <= txs' /\ \A n \in chain' : n.tx = x => n.trace.n = g
BY DEF ChainGrows

LEMMA RowKept ==
  ASSUME SeedInv, TablesGain, SeededGrows, ChainGrows, NEW k \in Keys, RowInv(k),
         logs'[k] = logs[k]
  PROVE  RowInv(k)'
<1> SUFFICES ASSUME logs[k].tx # 0
             PROVE  /\ k[2] \in seeded' /\ logs[k].tx <= txs'
                    /\ \E t \in TracesOf(k[2]) : t.n = k[1] /\ t.ride = k[3] /\ scans'[t] = logs[k].who
                    /\ \A n \in chain' : n.tx = logs[k].tx => n.trace.n = k[1]
                    /\ \A t \in TracesOf(k[2]) : scans'[t] = logs[k].who => Served(t)'
  BY DEF RowInv
<1>1. /\ k[2] \in seeded /\ logs[k].tx <= txs /\ logs[k].tx \in Nat
      /\ \E t \in TracesOf(k[2]) : t.n = k[1] /\ t.ride = k[3] /\ scans[t] = logs[k].who
      /\ \A n \in chain : n.tx = logs[k].tx => n.trace.n = k[1]
      /\ \A t \in TracesOf(k[2]) : scans[t] = logs[k].who => Served(t)
  BY DEF RowInv, SeedInv, TypeOK, TablesType, Rows, NoRow
<1> PICK s \in Scenarios : s = k[2]
  BY DEF Keys
<1>2. \A t \in TracesOf(s) : scans'[t] = scans[t]
  BY <1>1, RidersStay
<1>3. k[2] \in seeded'
  BY <1>1 DEF SeededGrows
<1>4. logs[k].tx <= txs' /\ \A n \in chain' : n.tx = logs[k].tx => n.trace.n = k[1]
  <2>1. PICK x \in Nat : x = logs[k].tx
    BY <1>1
  <2>2. PICK g : g = k[1]
    OBVIOUS
  <2>3. x <= txs /\ \A n \in chain : n.tx = x => n.trace.n = g
    BY <1>1, <2>1, <2>2
  <2>4. x <= txs' /\ \A n \in chain' : n.tx = x => n.trace.n = g
    BY <2>3, NewTxIsUnknown
  <2> QED  BY <2>1, <2>2, <2>4
<1> QED  BY <1>1, <1>2, <1>3, <1>4, ServedStays

LEMMA RanKept ==
  ASSUME RanInv, ChainGrows, UNCHANGED ran
  PROVE  RanInv'
BY ServedStays DEF RanInv

\* A run that does not move keeps its invariant.
LEMMA RunUndisturbed ==
  ASSUME SeedInv, TablesGain, ChainGrows, NEW c \in Requests, Same(c), RunReqInv(c)
  PROVE  RunReqInv(c)'
<1> PICK s \in Scenarios : s = day[c]
  BY DEF SeedInv, TypeOK, RequestsType
<1>1. /\ pc'[c] = pc[c] /\ day'[c] = s /\ who'[c] = who[c] /\ todo'[c] = todo[c]
      /\ found'[c] = found[c] /\ digest'[c] = digest[c] /\ failed'[c] = failed[c]
  BY DEF Same
<1>2. pc[c] \in RunSteps => \A t \in TracesOf(s) : scans'[t] = scans[t]
  BY RunFacts, RidersStay
<1>3. pc[c] \in RunSteps /\ pc[c] # "resolve" => found[c] \subseteq TracesOf(s)
  BY RunFacts
<1>4. CheckInv(c)'
  BY <1>1, <1>2, <1>3, ServedStays DEF RunReqInv, CheckInv, RunSteps
<1>5. BatchInv(c)'
  BY <1>1, <1>2, ServedStays DEF RunReqInv, BatchInv, RunSteps
<1>6. RecordInv(c)'
  <2> SUFFICES ASSUME pc[c] = "record"
               PROVE  /\ digest[c] \in 1 .. txs' /\ who[c] \notin todo[c]
                      /\ \A n \in chain' : n.tx = digest[c] => n.trace.n = who[c].of
                      /\ \A t \in TracesOf(s) : scans'[t] = who[c] => Served(t)'
    BY <1>1 DEF RecordInv
  <2>1. /\ digest[c] \in 1 .. txs /\ who[c] \notin todo[c]
        /\ \A n \in chain : n.tx = digest[c] => n.trace.n = who[c].of
        /\ \A t \in TracesOf(s) : scans[t] = who[c] => Served(t)
    BY DEF RunReqInv, RecordInv
  <2>2. digest[c] <= txs /\ digest[c] \in Nat /\ digest[c] >= 1 /\ txs \in Nat /\ txs' \in Nat
    BY <2>1 DEF ChainGrows
  <2>3. digest[c] <= txs' /\ \A n \in chain' : n.tx = digest[c] => n.trace.n = who[c].of
    BY <2>1, <2>2 DEF ChainGrows
  <2> QED  BY <1>2, <2>1, <2>2, <2>3, ServedStays DEF RunSteps
<1> QED  BY <1>4, <1>5, <1>6 DEF RunReqInv

-----------------------------------------------------------------------------
(* The steps of a run *)

Minting == {"check", "mint", "record"}

\* A step that mints nothing and records nothing, of a request that does not mint.
Away(r) == pc'[r] \notin Minting /\ UNCHANGED <<logs, onChain, resets>>

LEMMA OnwardIsAway ==
  ASSUME TypeOK, NEW r \in Requests, Onward(r)
  PROVE  pc'[r] \notin Minting
BY DEF Onward, Moves, Over, Minting, TypeOK, RequestsType

LEMMA SeedIsAway ==
  ASSUME SeedInv, NEW r \in Requests, Seed(r)
  PROVE  Away(r) /\ UNCHANGED <<ran, sure>>
<1>1. TypeOK /\ RequestsType
  BY DEF SeedInv, TypeOK
<1>2. ASSUME NEW step, Goto(r, step), step \notin Minting
      PROVE  pc'[r] \notin Minting
  BY <1>1, <1>2 DEF Goto, RequestsType
<1>3. ASSUME NEW step, NEW p, At(r, step, p), step \notin Minting
      PROVE  pc'[r] \notin Minting
  BY <1>1, <1>3 DEF At, RequestsType
<1>4. ASSUME NextGuardian(r)
      PROVE  pc'[r] \notin Minting
  BY <1>1, <1>4, NextGuardianMoves, OnwardIsAway
<1>5. ASSUME NEW step \in {"ownRide", "voucher"}, NextRide(r, step)
      PROVE  pc'[r] \notin Minting
  <2>1. step \in AllSteps
    BY DEF AllSteps, SeedSteps
  <2>2. pc'[r] = step \/ Onward(r)
    BY <1>1, <1>5, <2>1, NextRideMoves
  <2> QED  BY <1>1, <2>2, OnwardIsAway DEF Minting
<1>6. CASE CreateUser(r)
  BY <1>2, <1>6 DEF CreateUser, Away, history, Minting
<1>7. CASE GetParticipantByEmail(r)
  BY <1>2, <1>7 DEF GetParticipantByEmail, Away, history, tables, Minting
<1>8. CASE CreateGuardian(r)
  BY <1>2, <1>8 DEF CreateGuardian, Away, history, Minting
<1>9. CASE OwnWallet(r)
  BY <1>2, <1>9 DEF OwnWallet, Away, history, Minting
<1>10. CASE UpdateSuiAccount(r)
  BY <1>2, <1>4, <1>10 DEF UpdateSuiAccount, Away, Minting
<1>11. CASE SeedRideAccount(r)
  BY <1>5, <1>11 DEF SeedRideAccount, Away, Minting
<1>12. CASE FindDependent(r)
  BY <1>2, <1>3, <1>12 DEF FindDependent, AfterFind, Away, history, tables, Minting
<1>13. CASE CreateDependent(r)
  <2>1. PICK p \in Persons : At(r, "custodial", p)
    BY <1>13 DEF CreateDependent
  <2> QED  BY <1>3, <1>13, <2>1 DEF CreateDependent, Away, history, Minting
<1>14. CASE CustodialWallet(r)
  BY <1>2, <1>4, <1>14 DEF CustodialWallet, Away, Minting
<1>15. CASE InsertVoucher(r)
  BY <1>2, <1>15 DEF InsertVoucher, Away, history, Minting
<1>16. CASE SeedRideDependent(r)
  BY <1>5, <1>16 DEF SeedRideDependent, Away, Minting
<1> QED  BY <1>6, <1>7, <1>8, <1>9, <1>10, <1>11, <1>12, <1>13, <1>14, <1>15, <1>16 DEF Seed

LEMMA AwayKeeps ==
  ASSUME SeedInv, RunInv, NEW r \in Requests, StepOk(r), Away(r)
  PROVE  ChainGrows /\ LogsInv' /\ RunReqInv(r)'
<1>1. ChainGrows
  BY ChainStays DEF Away
<1>2. LogsInv'
  BY <1>1, RowKept DEF RunInv, LogsInv, StepOk, Away
<1>3. RunReqInv(r)'
  BY DEF Away, Minting, RunReqInv, CheckInv, BatchInv, RecordInv
<1> QED  BY <1>1, <1>2, <1>3

LEMMA StepKeepsRunInv ==
  ASSUME SeedInv, RunInv, NEW r \in Requests, StepOk(r), ChainGrows, LogsInv', RanInv', RunReqInv(r)'
  PROVE  RunInv'
<1>1. ChainInv'
  BY ChainKept DEF RunInv, StepOk
<1>2. \A c \in Requests : RunReqInv(c)'
  BY RunUndisturbed DEF RunInv, StepOk, Others
<1> QED  BY <1>1, <1>2 DEF RunInv

\* Day s of a run, and the rides it looks at.
LEMMA RunOfDay ==
  ASSUME SeedInv, NEW r \in Requests, pc[r] \in RunSteps
  PROVE  /\ day[r] \in Scenarios /\ day[r] \in seeded /\ kind[r] = "run"
         /\ \A t \in TracesOf(day[r]) : scans[t] # Nobody /\ scans[t] \in Persons /\ t \in Traces /\ Booked(t)
         /\ pc[r] # "resolve" => found[r] \subseteq TracesOf(day[r])
<1> PICK s \in Scenarios : s = day[r] /\ s \in seeded /\ s # "2a"
  BY RunFacts
<1> QED  BY RunFacts, SeededRides, RidesOfScenario

LEMMA ResolveKeepsRun ==
  ASSUME SeedInv, RunInv, NEW r \in Requests, ResolveDay(r)
  PROVE  RunInv'
<1>1. StepOk(r) /\ pc'[r] = "check" /\ day'[r] = day[r] /\ found'[r] = TracesOf(day[r])
  BY ResolveDayOk
<1>2. UNCHANGED <<tables, onChain, started, resets, seeded, sure>> /\ UNCHANGED ran
  BY DEF ResolveDay, Proceed
<1>3. ChainGrows /\ LogsInv' /\ RanInv'
  <2>1. ChainGrows
    BY <1>2, ChainStays
  <2> QED  BY <1>1, <1>2, <2>1, RowKept, RanKept DEF RunInv, LogsInv, StepOk, tables
<1>4. RunReqInv(r)'
  BY <1>1 DEF RunReqInv, CheckInv, BatchInv, RecordInv
<1> QED  BY <1>1, <1>3, <1>4, StepKeepsRunInv

\* A rider with a row of the day was minted for the whole day.
LEMMA AlreadyMintedIsTrue ==
  ASSUME SeedInv, RunInv, NEW s \in Scenarios, NEW p \in Persons, AlreadyMinted(p, s),
         NEW t \in TracesOf(s), scans[t] = p
  PROVE  Served(t)
<1>1. PICK k \in Keys : k[2] = s /\ logs[k].who = p
  BY DEF AlreadyMinted
<1>2. logs[k].tx # 0
  BY <1>1, PersonFacts DEF SeedInv, TypeOK, TablesType, Rows, NoRow
<1> QED  BY <1>1, <1>2 DEF RunInv, LogsInv, RowInv

LEMMA CheckKeepsRun ==
  ASSUME SeedInv, RunInv, NEW r \in Requests, CheckMinted(r)
  PROVE  RunInv'
<1>1. pc[r] = "check" /\ pc[r] \in RunSteps
  BY DEF CheckMinted, RunSteps
<1> PICK s \in Scenarios : s = day[r]
  BY <1>1, RunOfDay
<1>2. found[r] \subseteq TracesOf(s) /\ todo[r] \subseteq Persons /\ Riders(found[r]) \in SUBSET Persons
  BY <1>1, RunFacts DEF Riders
<1>3. UNCHANGED <<tables, onChain, started, resets, seeded, sure>>
  BY DEF CheckMinted
<1>4. /\ \A t \in TracesOf(s) : t \in found[r] \/ Served(t)
      /\ \A t \in found[r], u \in TracesOf(s) : scans[t] = scans[u] => u \in found[r]
  BY <1>1 DEF RunInv, RunReqInv, CheckInv
<1>5. ChainGrows /\ \A t : Served(t) => Served(t)'
  BY <1>3, ChainStays, ServedStays
<1>6. UNCHANGED ran /\ StepOk(r) => LogsInv' /\ RanInv'
  BY <1>3, <1>5, RowKept, RanKept DEF RunInv, LogsInv, StepOk, tables
<1>7. ASSUME NEW p \in todo[r],
             Proceed(r, "check", todo[r] \ {p},
                     IF AlreadyMinted(p, day[r]) THEN found[r] \ RidesOf(r, p) ELSE found[r])
      PROVE  RunInv'
  <2> DEFINE T == IF AlreadyMinted(p, s) THEN found[r] \ RidesOf(r, p) ELSE found[r]
  <2>1. T \in SUBSET TracesOf(day[r]) /\ todo[r] \ {p} \in SUBSET Persons /\ T \subseteq found[r]
    BY <1>2
  <2>2. \A t \in found[r] : t \notin T => scans[t] = p /\ AlreadyMinted(p, s)
    BY DEF RidesOf
  <2>3. \A t \in T : AlreadyMinted(p, s) => scans[t] # p
    BY DEF RidesOf
  <2>4. Proceed(r, "check", todo[r] \ {p}, T)
    BY <1>7
  <2> HIDE DEF T
  <2>5. StepOk(r) /\ pc'[r] = "check" /\ day'[r] = s /\ found'[r] = T /\ UNCHANGED ran
    BY <1>1, <1>3, <2>1, <2>4, ProceedOk
  <2>6. CheckInv(r)'
    <3>1. ASSUME NEW t \in TracesOf(s), t \notin T PROVE Served(t)'
      BY <1>2, <1>4, <1>5, <2>2, <3>1, AlreadyMintedIsTrue
    <3>2. ASSUME NEW t \in T, NEW u \in TracesOf(s), scans[t] = scans[u] PROVE u \in T
      BY <1>4, <2>1, <2>2, <2>3, <3>2
    <3>3. scans' = scans
      BY <1>3 DEF tables
    <3> QED  BY <2>1, <2>5, <3>1, <3>2, <3>3 DEF CheckInv
  <2>7. RunReqInv(r)'
    BY <2>5, <2>6 DEF RunReqInv, BatchInv, RecordInv
  <2> QED  BY <1>5, <1>6, <2>5, <2>7, StepKeepsRunInv
<1>8. CASE todo[r] = {} /\ Proceed(r, "mint", Riders(found[r]), found[r])
  <2>1. /\ StepOk(r) /\ pc'[r] = "mint" /\ day'[r] = s /\ found'[r] = found[r]
        /\ todo'[r] = Riders(found[r]) /\ UNCHANGED ran
    BY <1>1, <1>2, <1>3, <1>8, ProceedOk
  <2>2. scans' = scans
    BY <1>3 DEF tables
  <2>3. BatchInv(r)'
    <3>1. \A t \in TracesOf(s) : scans[t] \in Riders(found[r]) => t \in found[r]
      BY <1>4 DEF Riders
    <3>2. \A t \in TracesOf(s) : Served(t)' \/ scans[t] \in Riders(found[r])
      BY <1>4, <1>5 DEF Riders
    <3> QED  BY <2>1, <2>2, <3>1, <3>2 DEF BatchInv
  <2>4. RunReqInv(r)'
    BY <2>1, <2>3 DEF RunReqInv, CheckInv, RecordInv
  <2> QED  BY <1>5, <1>6, <2>1, <2>4, StepKeepsRunInv
<1> QED  BY <1>7, <1>8 DEF CheckMinted

\* A transaction mints the rides of one rider of the day that is run.
LEMMA ExecuteGrows ==
  ASSUME SeedInv, NEW r \in Requests, pc[r] = "mint", NEW p \in todo[r], Execute(r, p),
         UNCHANGED resets
  PROVE  /\ ChainGrows /\ txs' = txs + 1 /\ txs' \in 1 .. txs'
         /\ \A n \in chain' : n \in chain \/ Fresh(r, p, n)
         /\ \A t \in found[r] : scans[t] = p => Served(t)'
<1>1. pc[r] \in RunSteps /\ pc[r] # "resolve"
  BY DEF RunSteps
<1> PICK s \in Scenarios : s = day[r]
  BY <1>1, RunOfDay
<1>2. s \in seeded /\ \A t \in found[r] : t \in TracesOf(s) /\ t.day = s
  <2>1. s \in seeded /\ found[r] \subseteq TracesOf(s)
    BY <1>1, RunOfDay
  <2> QED  BY <2>1, RidesOfScenario
<1>3. /\ txs \in Nat /\ txs' = txs + 1
      /\ \A n \in chain' : n \in chain \/ Fresh(r, p, n)
      /\ \A t \in found[r] : scans[t] = p =>
           \E n \in chain' : n.tx = txs' /\ n.era = resets /\ n.trace = t
  BY ExecuteType
<1>4. \A n \in chain' : n \in chain \/ (/\ n.tx = txs + 1 /\ n.tx = txs' /\ n.era = resets
                                        /\ n.to = n.trace.n /\ n.trace.day \in seeded)
  BY <1>2, <1>3 DEF Fresh
<1>5. chain \subseteq chain' /\ aborted' = aborted
  BY DEF Execute
<1>6. ChainGrows /\ txs' \in 1 .. txs'
  BY <1>3, <1>4, <1>5 DEF ChainGrows
<1>7. \A t \in found[r] : scans[t] = p => Served(t)'
  BY <1>3 DEF Served, MintedNow
<1> QED  BY <1>3, <1>6, <1>7

\* One that aborts mints nothing, and counts for the same rides.
LEMMA AbortGrows ==
  ASSUME SeedInv, NEW r \in Requests, pc[r] = "mint", NEW p \in todo[r], Abort(r, p),
         UNCHANGED resets
  PROVE  /\ ChainGrows /\ txs' = txs + 1 /\ txs' \in 1 .. txs' /\ chain' = chain
         /\ \A t \in found[r] : scans[t] = p => Served(t)'
<1>1. txs \in Nat /\ txs' = txs + 1 /\ chain' = chain
  BY DEF SeedInv, TypeOK, TablesType, Abort
<1>2. aborted \subseteq aborted'
  BY DEF Abort
<1>3. \A t \in found[r] : scans[t] = p => Served(t)'
  BY DEF Abort, RidesOf, Served
<1> QED  BY <1>1, <1>2, <1>3 DEF ChainGrows

LEMMA MintKeepsRun ==
  ASSUME SeedInv, RunInv, NEW r \in Requests, MintBatchAttendance(r)
  PROVE  RunInv'
<1>1. pc[r] = "mint" /\ pc[r] \in RunSteps /\ StepOk(r) /\ RequestsType
  BY MintBatchAttendanceOk DEF MintBatchAttendance, RunSteps, SeedInv, TypeOK
<1> PICK s \in Scenarios : s = day[r]
  BY <1>1, RunOfDay
<1>2. UNCHANGED <<tables, started, resets, seeded, ran>>
  BY DEF MintBatchAttendance
<1>3. scans' = scans /\ logs' = logs
  BY <1>2 DEF tables
<1>4. \A t \in TracesOf(s) : /\ scans[t] \in todo[r] => t \in found[r]
                             /\ failed[r] \/ Served(t) \/ scans[t] \in todo[r]
  BY <1>1 DEF RunInv, RunReqInv, BatchInv
<1>5. ChainGrows => LogsInv' /\ RanInv'
  BY <1>1, <1>2, <1>3, RowKept, RanKept DEF RunInv, LogsInv, StepOk
<1>6. ASSUME NEW p \in todo[r], MintFails(r, p), ChainGrows
      PROVE  RunInv'
  <2>1. /\ pc'[r] = "mint" /\ day'[r] = s /\ found'[r] = found[r] /\ failed'[r] = TRUE
        /\ todo'[r] = todo[r] \ {p}
    BY <1>1, <1>6 DEF MintFails, seeding, RequestsType
  <2>2. RunReqInv(r)'
    BY <1>3, <1>4, <2>1 DEF RunReqInv, CheckInv, BatchInv, RecordInv
  <2> QED  BY <1>1, <1>5, <1>6, <2>2, StepKeepsRunInv
<1>7. ASSUME NEW p \in todo[r], Execute(r, p) \/ Abort(r, p), HasDigest(r, p),
             failed[r] => failed'[r]
      PROVE  RunInv'
  <2>1. /\ pc'[r] = "record" /\ day'[r] = s /\ found'[r] = found[r]
        /\ todo'[r] = todo[r] \ {p} /\ who'[r] = p /\ digest'[r] = txs + 1
    BY <1>1, <1>7 DEF HasDigest, At, RequestsType
  <2>2. /\ ChainGrows /\ txs' = txs + 1 /\ txs' \in 1 .. txs'
        /\ \A n \in chain' : n \in chain \/ Fresh(r, p, n)
        /\ \A t \in found[r] : scans[t] = p => Served(t)'
    BY <1>1, <1>2, <1>7, ExecuteGrows, AbortGrows
  <2>3. \A t \in TracesOf(s) : scans[t] = p => Served(t)'
    BY <1>4, <2>2
  <2>4. BatchInv(r)'
    BY <1>3, <1>4, <1>7, <2>1, <2>2, <2>3, ServedStays DEF BatchInv
  <2>5. \A n \in chain' : n.tx = txs + 1 => n.trace.n = p.of
    <3> SUFFICES ASSUME NEW n \in chain', n.tx = txs + 1
                 PROVE  n.trace.n = p.of
      OBVIOUS
    <3>1. n \notin chain
      BY <2>2 DEF RunInv, ChainInv, ChainGrows
    <3>2. n.trace \in TracesOf(s) /\ scans[n.trace] = p
      BY <1>1, <2>2, <3>1, RunOfDay DEF Fresh
    <3> QED  BY <1>1, <3>2, RunOfDay DEF Booked, Attributed
  <2>6. RecordInv(r)'
    BY <1>3, <2>1, <2>2, <2>3, <2>5 DEF RecordInv
  <2> QED  BY <1>1, <1>5, <2>1, <2>2, <2>4, <2>6, StepKeepsRunInv DEF RunReqInv, CheckInv
<1>8. UNCHANGED onChain => ChainGrows
  BY <1>2, ChainStays
<1>9. \A p \in todo[r] : Execute(r, p) => ChainGrows
  BY <1>1, <1>2, ExecuteGrows
<1>10. ASSUME NEW shown \in BOOLEAN, failed' = [failed EXCEPT ![r] = failed[r] \/ shown]
       PROVE  failed[r] => failed'[r]
  BY <1>1, <1>10 DEF RequestsType
<1>11. UNCHANGED failed => (failed[r] => failed'[r])
  OBVIOUS
<1> QED  BY <1>6, <1>7, <1>8, <1>9, <1>10, <1>11 DEF MintBatchAttendance

LEMMA RecordKeepsRun ==
  ASSUME SeedInv, RunInv, NEW r \in Requests, RecordMint(r)
  PROVE  RunInv' /\ AlreadyMinted(who[r], day[r])'
<1>1. pc[r] = "record" /\ pc[r] \in RunSteps /\ StepOk(r) /\ RequestsType /\ who[r] \in Persons
  BY RecordMintOk DEF RecordMint, RunSteps, SeedInv, TypeOK, RequestInv, DayInv
<1> PICK s \in Scenarios : s = day[r]
  BY <1>1, RunOfDay
<1> PICK t \in TracesOf(s), step \in {"mint", "record"} :
      /\ t \in found[r] /\ scans[t] = who[r] /\ who[r].of = t.n /\ <<t.n, t.day, t.ride>> \in Keys
      /\ logs' = [logs EXCEPT ![<<t.n, t.day, t.ride>>] =
                    [tx |-> digest[r], who |-> IF @.tx = 0 THEN who[r] ELSE @.who]]
      /\ found' = [found EXCEPT ![r] = found[r] \ {t}]
      /\ Goto(r, step)
  <2>1. PICK t \in TracesOf(s) :
          /\ t \in found[r] /\ scans[t] = who[r] /\ who[r].of = t.n /\ <<t.n, t.day, t.ride>> \in Keys
          /\ logs' = [logs EXCEPT ![<<t.n, t.day, t.ride>>] =
                        [tx |-> digest[r], who |-> IF @.tx = 0 THEN who[r] ELSE @.who]]
          /\ found' = [found EXCEPT ![r] = found[r] \ {t}]
          /\ Goto(r, IF RidesOf(r, who[r]) = {t} THEN "mint" ELSE "record")
    BY RecordMintFacts
  <2> QED  BY <2>1
<1>2. /\ UNCHANGED <<users, linked, people, vouchers, scans, onChain, todo, digest, failed>>
      /\ UNCHANGED <<resets, ran>>
  BY DEF RecordMint, history
<1>3. /\ pc'[r] = step /\ day'[r] = s /\ who'[r] = who[r] /\ found'[r] = found[r] \ {t}
  BY <1>1 DEF Goto, RequestsType
<1>4. /\ \A u \in TracesOf(s) : /\ scans[u] \in todo[r] => u \in found[r]
                                /\ failed[r] \/ Served(u) \/ scans[u] \in todo[r]
      /\ digest[r] \in 1 .. txs /\ who[r] \notin todo[r]
      /\ \A n \in chain : n.tx = digest[r] => n.trace.n = who[r].of
      /\ \A u \in TracesOf(s) : scans[u] = who[r] => Served(u)
  BY <1>1 DEF RunInv, RunReqInv, BatchInv, RecordInv
<1>5. ChainGrows /\ RanInv'
  BY <1>2, ChainStays, RanKept DEF RunInv
<1> DEFINE key == <<t.n, t.day, t.ride>>
<1>6. key \in Keys /\ key[1] = t.n /\ key[2] = s /\ key[3] = t.ride
  BY RidesOfScenario
<1>7. logs'[key] = [tx |-> digest[r], who |-> who[r]]
  <2>1. ASSUME logs[key].tx # 0
        PROVE  logs[key].who = who[r]
    <3>1. PICK u \in TracesOf(s) : u.n = t.n /\ u.ride = t.ride /\ scans[u] = logs[key].who
      BY <1>6, <2>1 DEF RunInv, LogsInv, RowInv
    <3> QED  BY <3>1, TraceIsKeyed
  <2>2. logs \in [Keys -> Rows]
    BY DEF SeedInv, TypeOK, TablesType
  <2> QED  BY <1>6, <2>1, <2>2
<1>8. \A k \in Keys \ {key} : logs'[k] = logs[k]
  BY <1>6 DEF SeedInv, TypeOK, TablesType
<1> HIDE DEF key
<1>9. LogsInv'
  <2> SUFFICES ASSUME NEW k \in Keys PROVE RowInv(k)'
    BY DEF LogsInv
  <2>1. CASE k # key
    BY <1>1, <1>5, <1>8, <2>1, RowKept DEF RunInv, LogsInv, StepOk
  <2>2. CASE k = key
    <3>1. s \in seeded' /\ digest[r] <= txs
      BY <1>1, <1>4, RunOfDay DEF StepOk, SeededGrows, ChainGrows
    <3>2. /\ \A n \in chain' : n.tx = digest[r] => n.trace.n = t.n
          /\ \A u \in TracesOf(s) : scans[u] = who[r] => Served(u)'
      BY <1>2, <1>4, <1>5, ServedStays DEF onChain
    <3>3. \E u \in TracesOf(s) : u.n = t.n /\ u.ride = t.ride /\ scans[u] = who[r]
      OBVIOUS
    <3>4. logs'[k].tx = digest[r] /\ logs'[k].who = who[r] /\ UNCHANGED <<scans, txs>>
      BY <1>2, <1>7, <2>2 DEF onChain
    <3> QED  BY <1>6, <2>2, <3>1, <3>2, <3>3, <3>4 DEF RowInv
  <2> QED  BY <2>1, <2>2
<1>10. RunReqInv(r)'
  <2>1. BatchInv(r)'
    BY <1>2, <1>3, <1>4, <1>5, ServedStays DEF BatchInv
  <2>2. RecordInv(r)'
    BY <1>2, <1>3, <1>4, <1>5, ServedStays DEF RecordInv, onChain
  <2> QED  BY <1>3, <2>1, <2>2 DEF RunReqInv, CheckInv
<1>11. AlreadyMinted(who[r], day[r])'
  BY <1>3, <1>6, <1>7 DEF AlreadyMinted
<1> QED  BY <1>1, <1>5, <1>9, <1>10, <1>11, StepKeepsRunInv

LEMMA RecordFailsKeepsRun ==
  ASSUME SeedInv, RunInv, NEW r \in Requests, RecordFails(r)
  PROVE  RunInv'
<1>1. pc[r] = "record" /\ pc[r] \in RunSteps /\ StepOk(r) /\ RequestsType
  BY RecordFailsOk DEF RecordFails, RunSteps, SeedInv, TypeOK
<1> PICK s \in Scenarios : s = day[r]
  BY <1>1, RunOfDay
<1>2. UNCHANGED <<tables, onChain, started, resets, seeded, ran, todo, digest, failed>>
  BY DEF RecordFails
<1>3. /\ pc'[r] = "mint" /\ day'[r] = s /\ found'[r] = found[r] \ RidesOf(r, who[r])
  BY <1>1 DEF RecordFails, Goto, RequestsType
<1>4. /\ \A u \in TracesOf(s) : /\ scans[u] \in todo[r] => u \in found[r]
                                /\ failed[r] \/ Served(u) \/ scans[u] \in todo[r]
      /\ who[r] \notin todo[r]
  BY <1>1 DEF RunInv, RunReqInv, BatchInv, RecordInv
<1>5. ChainGrows
  BY <1>2, ChainStays
<1>6. LogsInv' /\ RanInv'
  BY <1>1, <1>2, <1>5, RowKept, RanKept DEF RunInv, LogsInv, StepOk, tables
<1>7. RunReqInv(r)'
  <2>1. BatchInv(r)'
    BY <1>2, <1>3, <1>4, <1>5, ServedStays DEF BatchInv, RidesOf, tables
  <2> QED  BY <1>3, <2>1 DEF RunReqInv, CheckInv, RecordInv
<1> QED  BY <1>1, <1>5, <1>6, <1>7, StepKeepsRunInv

LEMMA AnswerKeepsRun ==
  ASSUME SeedInv, RunInv, NEW r \in Requests, AnswerRun(r)
  PROVE  RunInv'
<1>1. pc[r] = "mint" /\ pc[r] \in RunSteps /\ StepOk(r) /\ RequestsType
  BY AnswerRunOk DEF AnswerRun, RunSteps, SeedInv, TypeOK
<1> PICK s \in Scenarios : s = day[r]
  BY <1>1, RunOfDay
<1>2. UNCHANGED <<tables, onChain, started, resets, seeded, sure>> /\ End(r) /\ todo[r] = {}
  BY DEF AnswerRun, Answer
<1>3. Away(r)
  BY <1>1, <1>2 DEF Away, End, RequestsType, Minting, tables
<1>4. ChainGrows /\ LogsInv' /\ RunReqInv(r)'
  BY <1>1, <1>3, AwayKeeps
<1>5. RanInv'
  <2>1. ~failed[r] => \A t \in TracesOf(s) : Served(t)
    BY <1>1, <1>2 DEF RunInv, RunReqInv, BatchInv
  <2>2. \A x \in ran' : x \in ran \/ (x = s /\ ~failed[r])
    BY DEF AnswerRun, Answer
  <2> QED  BY <1>4, <2>1, <2>2, ServedStays DEF RunInv, RanInv
<1> QED  BY <1>1, <1>4, <1>5, StepKeepsRunInv

LEMMA ReadFailsKeepsRun ==
  ASSUME SeedInv, RunInv, NEW r \in Requests, ReadFails(r)
  PROVE  RunInv'
<1>1. StepOk(r) /\ RequestsType /\ End(r) /\ UNCHANGED <<tables, onChain, resets, ran>>
  BY ReadFailsOk DEF ReadFails, Answer, SeedInv, TypeOK
<1>2. Away(r)
  BY <1>1 DEF Away, End, RequestsType, Minting, tables
<1>3. ChainGrows /\ LogsInv' /\ RunReqInv(r)' /\ RanInv'
  BY <1>1, <1>2, AwayKeeps, RanKept DEF RunInv
<1> QED  BY <1>1, <1>3, StepKeepsRunInv

LEMMA ComesAndGoes ==
  ASSUME SeedInv, RunInv, NEW r \in Requests,
         Abandon(r) \/ \E k \in {"seed", "run"}, s \in Played : Arrive(r, k, s)
  PROVE  RunInv' /\ Away(r) /\ StepOk(r)
<1>1. StepOk(r) /\ RequestsType
  BY AbandonOk, ArriveOk DEF SeedInv, TypeOK
<1>2. Away(r) /\ UNCHANGED ran
  BY <1>1 DEF Away, Abandon, Arrive, End, RequestsType, Minting, tables
<1>3. ChainGrows /\ LogsInv' /\ RunReqInv(r)' /\ RanInv'
  BY <1>1, <1>2, AwayKeeps, RanKept DEF RunInv
<1> QED  BY <1>1, <1>2, <1>3, StepKeepsRunInv

LEMMA SeedKeepsRun ==
  ASSUME SeedInv, RunInv, NEW r \in Requests, Seed(r)
  PROVE  RunInv'
<1>1. StepOk(r) /\ Away(r) /\ UNCHANGED ran
  BY RequestsAreOk, SeedIsAway
<1>2. ChainGrows /\ LogsInv' /\ RunReqInv(r)' /\ RanInv'
  BY <1>1, AwayKeeps, RanKept DEF RunInv
<1> QED  BY <1>1, <1>2, StepKeepsRunInv

LEMMA ResetKeepsRun ==
  ASSUME SeedInv, RunInv, Reset
  PROVE  RunInv'
<1>1. ChainInv'
  <2>1. /\ resets \in Nat /\ resets' = resets + 1 /\ chain' = chain /\ txs' = txs
        /\ \A n \in chain : n.era \in Nat /\ n.tx \in Nat
    BY DEF Reset, onChain, SeedInv, TypeOK, TablesType, NFTs
  <2> QED  BY <2>1 DEF RunInv, ChainInv
<1>2. LogsInv' /\ RanInv'
  BY DEF Reset, LogsInv, RowInv, NoRow, RanInv
<1>3. \A c \in Requests : RunReqInv(c)'
  BY DEF Reset, RunReqInv, CheckInv, BatchInv, RecordInv
<1> QED  BY <1>1, <1>2, <1>3 DEF RunInv

LEMMA StillKeepsRun ==
  ASSUME SeedInv, RunInv, UNCHANGED vars
  PROVE  RunInv'
BY DEF vars, tables, onChain, history, seeding, minting, RunInv, ChainInv, LogsInv, RowInv, RanInv,
       Served, MintedNow, RunReqInv, CheckInv, BatchInv, RecordInv

LEMMA RunInductive == SeedInv /\ RunInv /\ [Next]_vars => RunInv'
<1> SUFFICES ASSUME SeedInv, RunInv, [Next]_vars PROVE RunInv'
  OBVIOUS
<1>1. ASSUME NEW r \in Requests, Run(r)
      PROVE  RunInv'
  BY <1>1, ResolveKeepsRun, CheckKeepsRun, MintKeepsRun, RecordKeepsRun, RecordFailsKeepsRun,
     AnswerKeepsRun, ReadFailsKeepsRun DEF Run
<1> QED  BY <1>1, SeedKeepsRun, ComesAndGoes, ResetKeepsRun, StillKeepsRun DEF Next

LEMMA RunInvariant == Spec => [](SeedInv /\ RunInv)
<1>1. Init => RunInv
  BY DEF Init, RunInv, ChainInv, LogsInv, RowInv, NoRow, RanInv, RunReqInv, CheckInv, BatchInv, RecordInv
<1> QED  BY <1>1, InitiallySeedInv, SeedInductive, RunInductive, PTL DEF Spec

\* NFTs, a dependent's too, go to the wallet of the guardian whose day it is of, whatever
\* seeds and runs overlap (seedDependent, runMint).
THEOREM NFTsLandWithGuardian == Spec => []LandsWithGuardian
<1>1. RunInv => LandsWithGuardian
  BY DEF RunInv, ChainInv, LandsWithGuardian
<1> QED  BY <1>1, RunInvariant, PTL

\* A run whose reply shows neither a failed mint nor a failed step has minted its day, or
\* found it minted since the last reset, whatever runs before it left undone; but for
\* rides whose transaction aborted (runMint, alreadyMinted, client.go:173-178).
THEOREM RunsAreTrue == Spec => []RunIsTrue
<1>1. RunInv => RunIsTrue
  BY DEF RunInv, RanInv, RunIsTrue
<1> QED  BY <1>1, RunInvariant, PTL

\* The wallet view explains every recorded NFT of its address (attribution).
THEOREM WalletsShowMints == Spec => []WalletShowsMints
<1>1. SeedInv /\ RunInv => WalletShowsMints
  <2> SUFFICES ASSUME SeedInv, RunInv, NEW k \in Keys, NEW n \in chain,
                      n.tx = logs[k].tx, n.trace.day = k[2], n.trace.ride = k[3]
               PROVE  k \in Attribution(n.to)
    BY DEF WalletShowsMints
  <2>1. n.tx # 0 /\ n.trace \in Traces /\ n.to = n.trace.n
    BY DEF SeedInv, TypeOK, TablesType, NFTs, RunInv, ChainInv
  <2> PICK s \in Scenarios : s = k[2]
    BY DEF Keys
  <2>2. /\ s \in seeded /\ n.trace.n = k[1]
        /\ \E t \in TracesOf(s) : t.n = k[1] /\ t.ride = k[3] /\ scans[t] = logs[k].who
    BY <2>1 DEF RunInv, LogsInv, RowInv
  <2>3. n.trace \in TracesOf(s)
    BY <2>1, TraceIsOfItsDay
  <2>4. scans[n.trace] = logs[k].who
    BY <2>2, <2>3, TraceIsKeyed
  <2>5. s # "2a" /\ n.trace.n \in Guardians
    BY <2>3, RidesOfScenario
  <2>6. Booked(n.trace)
    BY <2>2, <2>3, <2>5, SeededRides
  <2>7. n.to # Absent
    BY <2>1, <2>5, AbsentIsNoWallet
  <2> QED  BY <2>1, <2>4, <2>6, <2>7 DEF Booked, Attributed, Attribution
<1> QED  BY <1>1, RunInvariant, PTL

-----------------------------------------------------------------------------
(* Minted once *)

\* What requests other than r rely on, if r has not left "record".
LEMMA RecordedStays ==
  ASSUME SeedInv, RunInv, NEW r \in Requests, StepOk(r), ChainGrows,
         NEW t \in Traces, t.day \in seeded, Recorded(t),
         \A p \in Persons, s \in Scenarios : AlreadyMinted(p, s) => AlreadyMinted(p, s)',
         pc[r] = "record" =>
           (scans[t] = who[r] /\ t.day = day[r] => AlreadyMinted(scans[t], t.day)')
  PROVE  Recorded(t)'
<1>1. t.day \in Scenarios /\ t \in TracesOf(t.day)
  BY TraceIsOfItsDay
<1> PICK s \in Scenarios : s = t.day
  BY <1>1
<1>2. scans'[t] = scans[t] /\ scans[t] \in Persons
  BY <1>1, RidersStay DEF StepOk
<1> PICK p \in Persons : p = scans[t]
  BY <1>2
<1>3. ASSUME NEW c \in Requests, pc[c] = "record", who[c] = p, day[c] = s
      PROVE  Recorded(t)'
  <2>1. CASE c = r
    <3>1. AlreadyMinted(p, s)'
      BY <1>2, <1>3, <2>1 DEF AlreadyMinted
    <3> QED  BY <1>2, <3>1 DEF Recorded, AlreadyMinted
  <2>2. CASE c # r
    BY <1>2, <1>3, <2>2 DEF Recorded, StepOk, Others, Same
  <2> QED  BY <2>1, <2>2
<1>4. CASE AlreadyMinted(p, s)
  <2>1. AlreadyMinted(p, s)'
    BY <1>4
  <2> QED  BY <1>2, <2>1 DEF Recorded, AlreadyMinted
<1> QED  BY <1>3, <1>4 DEF Recorded

\* A step that mints nothing keeps what is known of the NFTs, and of the other requests.
LEMMA QuietKeeps ==
  ASSUME SeedInv, RunInv, NEW r \in Requests, StepOk(r), UNCHANGED <<onChain, resets>>, sure,
         OnceInv, Running(r)' => Running(r),
         \A p \in Persons, s \in Scenarios : AlreadyMinted(p, s) => AlreadyMinted(p, s)',
         pc[r] = "record" => AlreadyMinted(who[r], day[r])',
         UNCHANGED <<who, day>> \/ pc[r] # "record",
         UnmintedInv(r)'
  PROVE  OnceInv'
<1>1. OneRun /\ NoTwins /\ MintsRecorded /\ \A c \in Requests : UnmintedInv(c)
  BY DEF OnceInv
<1>2. ChainGrows /\ chain' = chain /\ resets' = resets
  BY ChainStays DEF onChain
<1>3. OneRun'
  BY <1>1 DEF OneRun, Running, StepOk, Others, Same
<1>4. NoTwins'
  BY <1>1, <1>2 DEF NoTwins
<1>5. MintsRecorded'
  <2> SUFFICES ASSUME NEW n \in chain, n.era = resets
               PROVE  Recorded(n.trace)'
    BY <1>2 DEF MintsRecorded
  <2>1. /\ n.trace \in Traces /\ n.trace.day \in seeded /\ Recorded(n.trace)
    BY <1>1 DEF SeedInv, TypeOK, TablesType, NFTs, RunInv, ChainInv, MintsRecorded
  <2>2. pc[r] = "record" => (scans[n.trace] = who[r] /\ n.trace.day = day[r]
                               => AlreadyMinted(scans[n.trace], n.trace.day)')
    <3> SUFFICES ASSUME pc[r] = "record", scans[n.trace] = who[r], n.trace.day = day[r]
                 PROVE  AlreadyMinted(scans[n.trace], n.trace.day)'
      OBVIOUS
    <3>1. AlreadyMinted(who[r], day[r])' /\ who'[r] = who[r] /\ day'[r] = day[r]
      OBVIOUS
    <3>2. scans'[n.trace] = scans[n.trace]
      BY <2>1, RidersStay, TraceIsOfItsDay DEF StepOk
    <3> QED  BY <3>1, <3>2 DEF AlreadyMinted
  <2> QED  BY <1>2, <2>1, <2>2, RecordedStays
<1>6. ASSUME NEW c \in Requests \ {r}
      PROVE  UnmintedInv(c)'
  <2> PICK s \in Scenarios : s = day[c]
    BY DEF SeedInv, TypeOK, RequestsType
  <2>1. Same(c) /\ UnmintedInv(c)
    BY <1>1 DEF StepOk, Others
  <2>2. pc[c] \in Minting => \A t \in found[c] : scans'[t] = scans[t]
    <3> SUFFICES ASSUME pc[c] \in Minting, NEW t \in found[c]
                 PROVE  scans'[t] = scans[t]
      OBVIOUS
    <3>1. pc[c] \in RunSteps /\ pc[c] # "resolve"
      BY DEF Minting, RunSteps
    <3>2. s \in seeded /\ t \in TracesOf(s)
      BY <3>1, RunOfDay
    <3> QED  BY <3>2, RidersStay DEF StepOk
  <2> QED  BY <1>2, <2>1, <2>2 DEF UnmintedInv, Same, Minting, MintedNow
<1> QED  BY <1>3, <1>4, <1>5, <1>6 DEF OnceInv

LEMMA RowsStayKnown ==
  ASSUME UNCHANGED logs
  PROVE  \A p \in Persons, s \in Scenarios : AlreadyMinted(p, s) => AlreadyMinted(p, s)'
BY DEF AlreadyMinted

LEMMA AwayIsUnminted ==
  ASSUME NEW r, Away(r)
  PROVE  UnmintedInv(r)'
BY DEF Away, Minting, UnmintedInv

\* Seeding does not turn a request into a run.
LEMMA SeedIsNoRun ==
  ASSUME SeedInv, NEW r \in Requests, Seed(r)
  PROVE  (Running(r)' => Running(r)) /\ pc[r] # "record"
<1>1. TypeOK /\ RequestsType
  BY DEF SeedInv, TypeOK
<1>2. pc[r] \in SeedSteps /\ pc[r] # "record" /\ pc[r] # "idle"
  BY DEF Seed, CreateUser, GetParticipantByEmail, CreateGuardian, OwnWallet, UpdateSuiAccount,
     SeedRideAccount, FindDependent, CreateDependent, CustodialWallet, InsertVoucher,
     SeedRideDependent, SeedSteps
<1>3. ASSUME NextGuardian(r)
      PROVE  kind'[r] = kind[r] \/ pc'[r] = "idle"
  BY <1>1, <1>3, NextGuardianMoves DEF Onward, Moves, Over
<1>4. ASSUME NEW step \in {"ownRide", "voucher"}, NextRide(r, step)
      PROVE  kind'[r] = kind[r] \/ pc'[r] = "idle"
  BY <1>3, <1>4 DEF NextRide
<1>5. kind'[r] = kind[r] \/ pc'[r] = "idle"
  <2>1. CASE CreateUser(r) \/ GetParticipantByEmail(r) \/ CreateGuardian(r) \/ OwnWallet(r)
               \/ FindDependent(r) \/ InsertVoucher(r)
    BY <2>1 DEF CreateUser, GetParticipantByEmail, CreateGuardian, OwnWallet, FindDependent,
       InsertVoucher, Goto, At
  <2>2. CASE UpdateSuiAccount(r) \/ CustodialWallet(r)
    BY <1>3, <2>2 DEF UpdateSuiAccount, CustodialWallet, Goto
  <2>3. CASE SeedRideAccount(r) \/ SeedRideDependent(r)
    BY <1>4, <2>3 DEF SeedRideAccount, SeedRideDependent
  <2>4. CASE CreateDependent(r)
    BY <2>4 DEF CreateDependent, At
  <2> QED  BY <2>1, <2>2, <2>3, <2>4 DEF Seed
<1> QED  BY <1>2, <1>5 DEF Running

LEMMA SeedKeepsOnce ==
  ASSUME SeedInv, RunInv, OnceInv, NEW r \in Requests, Seed(r), sure
  PROVE  OnceInv'
<1>1. StepOk(r) /\ Away(r) /\ pc[r] # "record" /\ (Running(r)' => Running(r))
  BY RequestsAreOk, SeedIsAway, SeedIsNoRun
<1>2. /\ UnmintedInv(r)' /\ UNCHANGED <<onChain, resets>>
      /\ \A p \in Persons, s \in Scenarios : AlreadyMinted(p, s) => AlreadyMinted(p, s)'
  BY <1>1, AwayIsUnminted, RowsStayKnown DEF Away
<1> QED  BY <1>1, <1>2, QuietKeeps

LEMMA AnswerKeepsOnce ==
  ASSUME SeedInv, RunInv, OnceInv, NEW r \in Requests, AnswerRun(r) \/ ReadFails(r), sure
  PROVE  OnceInv'
<1>1. StepOk(r) /\ pc[r] # "record" /\ End(r) /\ UNCHANGED <<tables, onChain, resets>>
  BY AnswerRunOk, ReadFailsOk DEF AnswerRun, ReadFails, Answer
<1>2. pc'[r] = "idle" /\ UNCHANGED logs
  BY <1>1 DEF End, tables, SeedInv, TypeOK, RequestsType
<1>3. UnmintedInv(r)' /\ ~Running(r)'
  BY <1>2 DEF UnmintedInv, Running
<1>4. \A p \in Persons, s \in Scenarios : AlreadyMinted(p, s) => AlreadyMinted(p, s)'
  BY <1>2, RowsStayKnown
<1> QED  BY <1>1, <1>3, <1>4, QuietKeeps

LEMMA AbandonKeepsOnce ==
  ASSUME SeedInv, RunInv, OnceInv, NEW r \in Requests, Abandon(r), sure'
  PROVE  OnceInv'
<1>1. /\ StepOk(r) /\ pc[r] # "record" /\ sure /\ End(r)
      /\ UNCHANGED <<tables, onChain, resets>>
  BY AbandonOk DEF Abandon
<1>2. pc'[r] = "idle" /\ UNCHANGED logs
  BY <1>1 DEF End, tables, SeedInv, TypeOK, RequestsType
<1>3. UnmintedInv(r)' /\ ~Running(r)'
  BY <1>2 DEF UnmintedInv, Running
<1>4. \A p \in Persons, s \in Scenarios : AlreadyMinted(p, s) => AlreadyMinted(p, s)'
  BY <1>2, RowsStayKnown
<1> QED  BY <1>1, <1>3, <1>4, QuietKeeps

LEMMA ResolveKeepsOnce ==
  ASSUME SeedInv, RunInv, OnceInv, NEW r \in Requests, ResolveDay(r), sure
  PROVE  OnceInv'
<1> DEFINE T == {t \in TracesOf(day[r]) : Ready(t)}
<1>1. /\ StepOk(r) /\ pc[r] = "resolve" /\ pc'[r] = "check" /\ kind'[r] = kind[r]
      /\ UNCHANGED <<tables, onChain, resets>>
  BY ResolveDayOk DEF ResolveDay
<1>2. todo'[r] = Riders(T) /\ found'[r] = T /\ UNCHANGED <<logs, scans>>
  BY DEF ResolveDay, Proceed, tables, SeedInv, TypeOK, RequestsType
<1> HIDE DEF T
<1>3. UnmintedInv(r)'
  <2>1. \A t \in T : scans[t] \in Riders(T)
    BY DEF Riders
  <2> QED  BY <1>1, <1>2, <2>1 DEF UnmintedInv
<1>4. \A p \in Persons, s \in Scenarios : AlreadyMinted(p, s) => AlreadyMinted(p, s)'
  BY <1>2, RowsStayKnown
<1>5. Running(r)' => Running(r)
  BY <1>1 DEF Running
<1> QED  BY <1>1, <1>3, <1>4, <1>5, QuietKeeps

\* The one run that there is: no other is about to record.
LEMMA UnrecordedIsUnminted ==
  ASSUME SeedInv, RunInv, OnceInv, sure, NEW r \in Requests, pc[r] = "check",
         NEW t \in found[r], ~AlreadyMinted(scans[t], day[r])
  PROVE  ~MintedNow(t)
<1>1. pc[r] \in RunSteps /\ pc[r] # "resolve"
  BY DEF RunSteps
<1> PICK s \in Scenarios : s = day[r]
  BY <1>1, RunOfDay
<1>2. t \in TracesOf(s) /\ t.day = s
  <2>1. t \in TracesOf(s)
    BY <1>1, RunOfDay
  <2> QED  BY <2>1, RidesOfScenario
<1>3. ASSUME NEW c \in Requests, pc[c] = "record"
      PROVE  FALSE
  <2>1. pc[c] \in RunSteps
    BY <1>3 DEF RunSteps
  <2>2. Running(c) /\ Running(r)
    BY <1>1, <1>3, <2>1, RunOfDay DEF Running
  <2> QED  BY <1>3, <2>2 DEF OnceInv, OneRun
<1> QED  BY <1>2, <1>3 DEF OnceInv, MintsRecorded, MintedNow, Recorded

LEMMA CheckKeepsOnce ==
  ASSUME SeedInv, RunInv, OnceInv, NEW r \in Requests, CheckMinted(r), sure
  PROVE  OnceInv'
<1>1. /\ StepOk(r) /\ pc[r] = "check" /\ UNCHANGED <<tables, onChain, resets>> /\ RequestsType
      /\ UNCHANGED <<logs, scans, chain>>
  BY CheckMintedOk DEF CheckMinted, SeedInv, TypeOK, tables, onChain
<1>2. \A t \in found[r] : scans[t] \in todo[r] \/ ~MintedNow(t)
  BY <1>1 DEF OnceInv, UnmintedInv
<1>3. \A t : MintedNow(t)' => MintedNow(t)
  BY <1>1 DEF MintedNow
<1>4. ASSUME NEW p \in todo[r], NEW T, T = (IF AlreadyMinted(p, day[r]) THEN found[r] \ RidesOf(r, p) ELSE found[r]),
             Proceed(r, "check", todo[r] \ {p}, T)
      PROVE  UnmintedInv(r)' /\ kind' = kind
  <2>1. pc'[r] = "check" /\ todo'[r] = todo[r] \ {p} /\ found'[r] = T /\ kind' = kind
    BY <1>1, <1>4 DEF Proceed, Goto, RequestsType
  <2>2. ASSUME NEW t \in T, scans[t] = p
        PROVE  ~MintedNow(t)
    <3>1. t \in found[r] /\ ~AlreadyMinted(p, day[r])
      BY <1>4, <2>2 DEF RidesOf
    <3> QED  BY <1>1, <2>2, <3>1, UnrecordedIsUnminted
  <2>3. T \subseteq found[r]
    BY <1>4
  <2> QED  BY <1>1, <1>2, <1>3, <2>1, <2>2, <2>3 DEF UnmintedInv
<1>5. ASSUME todo[r] = {}, Proceed(r, "mint", Riders(found[r]), found[r])
      PROVE  UnmintedInv(r)' /\ kind' = kind
  <2>1. pc'[r] = "mint" /\ found'[r] = found[r] /\ kind' = kind
    BY <1>1, <1>5 DEF Proceed, Goto, RequestsType
  <2> QED  BY <1>2, <1>3, <1>5, <2>1 DEF UnmintedInv
<1>6. UnmintedInv(r)' /\ kind' = kind
  BY <1>4, <1>5 DEF CheckMinted
<1>7. \A p \in Persons, s \in Scenarios : AlreadyMinted(p, s) => AlreadyMinted(p, s)'
  BY <1>1, RowsStayKnown
<1>8. Running(r)' => Running(r)
  BY <1>1, <1>6 DEF Running
<1> QED  BY <1>1, <1>6, <1>7, <1>8, QuietKeeps

LEMMA MintKeepsOnce ==
  ASSUME SeedInv, RunInv, OnceInv, NEW r \in Requests, MintBatchAttendance(r), sure'
  PROVE  OnceInv'
<1>1. /\ StepOk(r) /\ pc[r] = "mint" /\ pc[r] \in RunSteps /\ RequestsType
      /\ UNCHANGED <<tables, resets>> /\ UNCHANGED <<logs, scans>>
  BY MintBatchAttendanceOk DEF MintBatchAttendance, SeedInv, TypeOK, tables, RunSteps
<1> PICK s \in Scenarios : s = day[r]
  BY <1>1, RunOfDay
<1>2. \A p \in Persons, x \in Scenarios : AlreadyMinted(p, x) => AlreadyMinted(p, x)'
  BY <1>1, RowsStayKnown
<1>3. sure
  BY DEF MintBatchAttendance
<1>4. OneRun /\ NoTwins /\ MintsRecorded /\ UnmintedInv(r)
  BY <1>3 DEF OnceInv
<1>5. ASSUME NEW p \in todo[r], MintFails(r, p), UNCHANGED onChain
      PROVE  OnceInv'
  <2>1. /\ pc'[r] = "mint" /\ found'[r] = found[r] /\ todo'[r] = todo[r] \ {p} /\ kind' = kind
    BY <1>1, <1>5 DEF MintFails, RequestsType, seeding
  <2>2. UnmintedInv(r)' /\ (Running(r)' => Running(r))
    BY <1>1, <1>4, <1>5, <2>1 DEF UnmintedInv, MintedNow, onChain, Running
  <2> QED  BY <1>1, <1>2, <1>3, <1>5, <2>2, QuietKeeps
<1>6. ASSUME NEW p \in todo[r], Execute(r, p) \/ Abort(r, p), HasDigest(r, p)
      PROVE  OnceInv'
  <2>1. /\ pc'[r] = "record" /\ day'[r] = s /\ found'[r] = found[r] /\ kind' = kind
        /\ todo'[r] = todo[r] \ {p} /\ who'[r] = p
    BY <1>1, <1>6 DEF HasDigest, At, RequestsType
  <2>2. /\ ChainGrows /\ \A n \in chain' : n \in chain \/ Fresh(r, p, n)
    BY <1>1, <1>6, ExecuteGrows, AbortGrows
  <2>3. \A t \in found[r] : scans[t] \in todo[r] => ~MintedNow(t)
    BY <1>1, <1>4 DEF UnmintedInv
  <2>4. Running(r) /\ \A c \in Requests \ {r} : ~Running(c) /\ pc[c] \notin Minting
    <3>1. Running(r)
      BY <1>1, RunOfDay DEF Running
    <3>2. \A c \in Requests : pc[c] \in Minting => pc[c] \in RunSteps
      BY DEF Minting, RunSteps
    <3> QED  BY <1>4, <3>1, <3>2, RunOfDay DEF OneRun, Running, Minting
  <2>5. OneRun'
    <3> SUFFICES ASSUME NEW c \in Requests, c # r, Running(c)'
                 PROVE  FALSE
      BY DEF OneRun
    <3>1. pc'[c] = pc[c] /\ kind' = kind
      BY <1>1, <2>1 DEF StepOk, Others, Same
    <3> QED  BY <2>4, <3>1 DEF Running
  <2>6. NoTwins'
    <3> SUFFICES ASSUME NEW m \in chain', NEW n \in chain', m.trace = n.trace,
                        m.era = resets, n.era = resets
                 PROVE  m.tx = n.tx
      BY <1>1 DEF NoTwins
    <3>1. ASSUME NEW x, Fresh(r, p, x)
          PROVE  x.tx = txs + 1 /\ ~MintedNow(x.trace)
      BY <2>3, <3>1 DEF Fresh
    <3>2. ASSUME NEW x \in chain, x.era = resets
          PROVE  MintedNow(x.trace)
      BY <3>2 DEF MintedNow
    <3> QED  BY <1>4, <2>2, <3>1, <3>2 DEF NoTwins
  <2>7. MintsRecorded'
    <3> SUFFICES ASSUME NEW n \in chain', n.era = resets
                 PROVE  Recorded(n.trace)'
      BY <1>1 DEF MintsRecorded
    <3>1. CASE n \in chain
      <4>1. n.trace \in Traces /\ n.trace.day \in seeded /\ Recorded(n.trace)
        BY <1>4, <3>1 DEF SeedInv, TypeOK, TablesType, NFTs, RunInv, ChainInv, MintsRecorded
      <4> QED  BY <1>1, <1>2, <2>2, <4>1, RecordedStays
    <3>2. CASE Fresh(r, p, n)
      <4>1. n.trace \in TracesOf(s) /\ scans[n.trace] = p
        BY <1>1, <3>2, RunOfDay DEF Fresh
      <4>2. n.trace.day = s
        BY <4>1, RidesOfScenario
      <4> QED  BY <1>1, <2>1, <4>1, <4>2 DEF Recorded
    <3> QED  BY <2>2, <3>1, <3>2
  <2>8. UnmintedInv(r)'
    <3>1. ASSUME NEW t \in found[r], scans[t] \in todo[r] \ {p}
          PROVE  ~MintedNow(t)'
      BY <1>1, <2>2, <2>3, <3>1 DEF MintedNow, Fresh
    <3> QED  BY <1>1, <2>1, <3>1 DEF UnmintedInv
  <2>9. \A c \in Requests \ {r} : UnmintedInv(c)'
    BY <1>1, <2>4 DEF UnmintedInv, StepOk, Others, Same, Minting
  <2> QED  BY <2>5, <2>6, <2>7, <2>8, <2>9 DEF OnceInv
<1> QED  BY <1>5, <1>6 DEF MintBatchAttendance

LEMMA RecordKeepsOnce ==
  ASSUME SeedInv, RunInv, OnceInv, NEW r \in Requests, RecordMint(r), sure
  PROVE  OnceInv'
<1>1. /\ StepOk(r) /\ pc[r] = "record" /\ RequestsType /\ AlreadyMinted(who[r], day[r])'
      /\ UNCHANGED <<onChain, scans, todo>> /\ UNCHANGED <<resets>>
  BY RecordMintOk, RecordKeepsRun DEF RecordMint, SeedInv, TypeOK, history
<1>2. UNCHANGED <<kind, day, who>> /\ pc'[r] \in {"mint", "record"} /\ found'[r] \subseteq found[r]
  BY <1>1 DEF RecordMint, Goto, RequestsType
<1>3. \A p \in Persons, s \in Scenarios : AlreadyMinted(p, s) => AlreadyMinted(p, s)'
  <2> SUFFICES ASSUME NEW p \in Persons, NEW k \in Keys, logs[k].who = p
               PROVE  logs'[k].who = p
    BY DEF AlreadyMinted
  <2>1. logs \in [Keys -> Rows] /\ logs[k].tx # 0
    BY PersonFacts DEF SeedInv, TypeOK, TablesType, Rows, NoRow
  <2> QED  BY <2>1 DEF RecordMint
<1>4. UnmintedInv(r)' /\ (Running(r)' => Running(r))
  BY <1>1, <1>2 DEF OnceInv, UnmintedInv, Running, MintedNow, onChain
<1> QED  BY <1>1, <1>2, <1>3, <1>4, QuietKeeps

LEMMA ArriveKeepsOnce ==
  ASSUME SeedInv, RunInv, OnceInv, NEW r \in Requests, NEW k \in {"seed", "run"}, NEW s \in Played,
         Arrive(r, k, s), sure'
  PROVE  OnceInv'
<1>1. /\ StepOk(r) /\ pc[r] = "idle" /\ sure /\ (k = "run" => \A q \in Requests : ~Running(q))
      /\ UNCHANGED <<tables, onChain, resets, minting>> /\ RequestsType
      /\ pc' = [pc EXCEPT ![r] = "user"] /\ kind' = [kind EXCEPT ![r] = k] /\ UNCHANGED <<scans, chain, logs>>
  BY ArriveOk DEF Arrive, SeedInv, TypeOK, tables, onChain
<1>2. OneRun /\ NoTwins /\ MintsRecorded /\ \A c \in Requests : UnmintedInv(c)
  BY <1>1 DEF OnceInv
<1>3. OneRun'
  BY <1>1, <1>2 DEF OneRun, Running, RequestsType
<1>4. NoTwins'
  BY <1>1, <1>2 DEF NoTwins
<1>5. MintsRecorded'
  <2>1. ASSUME NEW n \in chain, n.era = resets
        PROVE  Recorded(n.trace)'
    <3>1. n.trace \in Traces /\ n.trace.day \in seeded /\ Recorded(n.trace)
      BY <1>2, <2>1 DEF SeedInv, TypeOK, TablesType, NFTs, RunInv, ChainInv, MintsRecorded
    <3>2. ChainGrows
      BY <1>1, ChainStays
    <3> QED  BY <1>1, <3>1, <3>2, RecordedStays, RowsStayKnown
  <2> QED  BY <1>1, <2>1 DEF MintsRecorded
<1>6. \A c \in Requests : UnmintedInv(c)'
  BY <1>1, <1>2 DEF UnmintedInv, minting, RequestsType, MintedNow
<1> QED  BY <1>3, <1>4, <1>5, <1>6 DEF OnceInv

LEMMA ResetKeepsOnce ==
  ASSUME SeedInv, RunInv, Reset
  PROVE  OnceInv'
<1>1. /\ resets \in Nat /\ resets' = resets + 1 /\ chain' = chain
      /\ \A n \in chain : n.era \in Nat /\ n.era <= resets
      /\ \A c \in Requests : pc'[c] = "idle"
  BY DEF Reset, onChain, SeedInv, TypeOK, TablesType, NFTs, RunInv, ChainInv
<1>2. \A n \in chain' : n.era # resets'
  BY <1>1
<1> QED  BY <1>1, <1>2 DEF OnceInv, OneRun, Running, NoTwins, MintsRecorded, UnmintedInv

LEMMA StillKeepsOnce ==
  ASSUME OnceInv, UNCHANGED vars
  PROVE  OnceInv'
BY DEF vars, tables, onChain, history, seeding, minting, OnceInv, OneRun, Running, NoTwins, MintsRecorded,
       Recorded, AlreadyMinted, UnmintedInv, MintedNow

LEMMA OnceInductive == SeedInv /\ RunInv /\ OnceInv /\ [Next]_vars => OnceInv'
<1> SUFFICES ASSUME SeedInv, RunInv, OnceInv, [Next]_vars PROVE OnceInv'
  OBVIOUS
<1>1. CASE ~sure'
  BY <1>1 DEF OnceInv
<1>2. CASE sure'
  <2>1. ASSUME NEW r \in Requests, Run(r)
        PROVE  OnceInv'
    <3>1. RecordFails(r) => ~sure'
      BY DEF RecordFails
    <3>2. ResolveDay(r) \/ CheckMinted(r) \/ RecordMint(r) \/ AnswerRun(r) \/ ReadFails(r) => sure
      BY <1>2 DEF ResolveDay, CheckMinted, RecordMint, AnswerRun, ReadFails, history
    <3> QED  BY <1>2, <2>1, <3>1, <3>2, ResolveKeepsOnce, CheckKeepsOnce, MintKeepsOnce, RecordKeepsOnce,
             AnswerKeepsOnce DEF Run
  <2>2. ASSUME NEW r \in Requests, Seed(r)
        PROVE  OnceInv'
    <3>1. sure
      BY <1>2, <2>2, SeedIsAway
    <3> QED  BY <2>2, <3>1, SeedKeepsOnce
  <2> QED  BY <1>2, <2>1, <2>2, AbandonKeepsOnce, ArriveKeepsOnce, ResetKeepsOnce, StillKeepsOnce DEF Next
<1> QED  BY <1>1, <1>2

\* Runs after one another mint a ride once, unless a mint was not recorded: a rider that
\* was minted has a row of the day, which alreadyMinted finds (runMint).
THEOREM RunsMintOnce == Spec => []MintedOnce
<1>1. Init => OnceInv
  BY DEF Init, OnceInv, OneRun, Running, NoTwins, MintsRecorded, UnmintedInv
<1>2. OnceInv => MintedOnce
  BY DEF OnceInv, NoTwins, MintedOnce
<1>3. Init => RunInv
  BY DEF Init, RunInv, ChainInv, LogsInv, RowInv, NoRow, RanInv, RunReqInv, CheckInv, BatchInv, RecordInv
<1> QED  BY <1>1, <1>2, <1>3, InitiallySeedInv, SeedInductive, RunInductive, OnceInductive, PTL DEF Spec
=============================================================================
