# A TLA+ verification of ThemeParkNFTEngine

ThemeParkNFTEngine (Go) sells tickets as vouchers, binds each ticket to a wristband
at the gate, counts the rides the wristband takes, and mints an NFT per ride at
the end of the day.  This directory models the services that keep state, checks
the models with TLC on small instances, and proves the most important properties
with TLAPS for every instance.  Paths below are relative to the repository
(`src/`); a line number is the place a definition or a hazard comes from.
`PROJECT.json` maps every definition to its lines.

Contents: 1 the system; 2 the modules; 3 the runs; 4 the proofs; 5 what is only
model-checked; 6 what the code does against its documents; 7 the plan; 8 what is
left out.

## 1. The system

| component | state it keeps | operations | talks to |
|---|---|---|---|
| Gate API (`cmd/gate`, `internal/gate`) | Redis `bind:wristband:*`, `bind:ticket:*`, `gracewb:*`, `qr:*`; Postgres `tickets.status` | QR generation, Bind, NFCCheck, Reset, ride Scan | Redis, Postgres, Kafka (producer), transaction check |
| Scan consumer (`cmd/consumer`, `internal/kafka`, `internal/pipeline`) | group offset, Redis `dedup:*` and daily ride sets, Postgres `scan_events`, `scan_events_outbox`, topic `ride-scans-dlq` | fetch, worker pool, Handle, retry, DLQ, commit, outbox drain | Kafka, Redis, Postgres |
| Batch minter (`cmd/minter`, `internal/minter`) | Postgres `mint_logs`, `pending_mints`; NFTs on Sui | resolve-day, run-day, claim-custody | Postgres, Sui, metadata cache |
| Voucher service (`cmd/voucher`, `internal/voucher`) | Postgres `users`, `participants`, `ticket_vouchers`, `pending_mints` | purchase, share, claim, delegate, pending, claim-custody | Postgres, wallet derivation |
| Metadata cache (`internal/storage`) | a map in the minter's memory under an RWMutex; pins on Pinata | GetOrPin | Pinata |
| Sui client (`internal/sui`) | semaphore, nothing durable | mint, transfer, retry on throttling | Sui RPC |
| Demo orchestrator (`cmd/demo`, `internal/demo`) | none of its own; it fills and empties the tables of the others | seed, run (seed, then probes or a mint), wallet view, reset | Postgres, Sui |
| Move contract (`move/`) | NFT objects | mint, mint_batch, burn, update | -- |
| Health, config, telemetry, auth glue, loadgen, benchmarks, migrations, frontend | none, or hand-run tools | -- | -- |

How they interact.  A voucher is claimed by an account or allocated to a participant;
nothing turns it into a row of `tickets` yet.  The gate binds a ticket
to a wristband (two Redis keys, set by one Lua script), promotes the link from
BINDING to BOUND once the transaction check passes, and publishes a scan for each ride.
The consumer reads the scans of a partition, claims a dedup marker, inserts the row,
adds the ride to the daily set or parks it in the outbox, and commits the offset.
At the end of the day the minter reads `scan_events`, resolves each participant's
wallet, and mints and records, or parks the rides of those without a wallet.

What is hard, and what makes each part correct:

* **Scan pipeline.**  Ten workers share a partition's messages; the marker, the
  row, the aggregate and the offset live in three systems and are written one after
  the other; any call may fail or lose its reply, the process may die, partitions
  are reassigned, markers expire, SIGTERM cancels the context under the workers.
  Correct means: no committed message is lost, no ride is counted that is not stored, the
  dedup shield neither lets two handlers in nor hides a message nobody handled,
  every message comes to an end and every parked row is replayed.
* **Gate binding.**  HTTP requests on one wristband overlap, each a sequence of
  Redis and Postgres calls; the promotion is a read followed by a write; ticket
  status and the grace cache are best-effort.  Correct means: one wristband per ticket
  and one ticket per wristband, the two keys agree, only a checked ticket rides, a
  stale "allowed" is not replayed, links end with the day.
* **QR token.**  Its window is counted in whole seconds on the clock of whichever
  gate looks at it, and its used-marker expires.  Correct means: one bind per token.
* **Batch minter.**  Calls overlap and are repeated; a transaction may be executed and
  its reply lost; recording follows minting without a transaction around both.
  Correct means: an NFT only for a ride that was taken, a log row only for an NFT
  that exists, an answer that is true, no ride minted twice, each mint attributed to its rider.
* **Voucher desk.**  A handler is a sequence of SQL statements without a transaction.
  A purchase numbers vouchers from 0 each time, delegation creates a participant and its
  wallet before it wins the voucher.  Correct means: a
  voucher is sold, allocated and claimed once, what a request was told stays true, an
  account has one participant, a dependent with a voucher has a wallet.
* **Custody claim.**  The NFTs of a dependent are transferred one by one, each by a transaction whose
  reply may be lost, then the participant is read and flipped.  Claims overlap, name the same NFTs, end halfway,
  and a repeated one fails at the first NFT that has already moved.  Correct means: a participant has an own
  wallet only when every NFT of the claim is in it, and they stay there.
* **Demo orchestrator.**  Seeds and runs are HTTP requests that may overlap; everything is get-or-create by
  single statements, and nothing makes a dependent's row unique; a request ends after any statement; a run
  asks `alreadyMinted` for all riders first and mints later; the wallet view explains an NFT by the rows of
  `mint_logs` and `participants`.  Correct means: what a seed has answered is there, whole; a run answered
  without an error has minted its day; NFTs land with the guardian, and the wallet view explains every
  recorded one; runs one after the other mint once.
* **Metadata cache, Sui client.**  The cache is looked up under the read lock and again
  under the write lock, which is held over two requests to Pinata; the client takes a permit of
  a semaphore for each of two RPCs per attempt and starts over when it is throttled.  Correct
  means: one document per ride, answered only when it is pinned; permits taken are RPCs in
  flight; no call sends a second transaction for one it executed; every call returns.

All of these hazards, with their lines, are listed in `PROJECT.json`.

## 2. The modules

| module | role |
|---|---|
| `ScanLedger` | abstract: a scan is recorded, then counted or owed; a debt is struck off once counted |
| `ScanPipeline` | `internal/kafka/consumer.go`, `internal/pipeline/handler.go`, their stores and the process around them |
| `BindingRegister` | abstract: a register of wristband-ticket links with a verified flag |
| `WristbandBinding` | Bind, NFCCheck, Reset (`internal/gate/binding.go`), Scan (`internal/gate/ride_scan.go`), the binding keys (`internal/redis/client.go`) |
| `QRToken` | `internal/gate/qr.go` and `MarkQRUsed` |
| `MintLedger` | abstract: NFTs for rides taken, log rows for NFTs minted |
| `MintDay` | `internal/minter`, the minter's two day routes, the demo's mint run, `mint_logs` and `pending_mints` |
| `VoucherBook` | abstract: a voucher is issued, then allocated once at most and claimed once at most |
| `MinterCalls` | what the next four share: the handlers in progress and what may fail |
| `CIDCache` | `internal/storage/cache.go`, the provider in `internal/minter`, the requests to Pinata |
| `SuiClient` | `internal/sui/client.go`: semaphore, attempts, backoff, cancellation |
| `CustodyClaim` | claim-custody of `cmd/minter/main.go`: owners of NFTs, claims, the flip of the participant |
| `MinterBackend` | the composition of these three: `mintOne`, claims of custody, probes |
| `DemoDay` | `internal/demo`: seeds, runs of a day, `alreadyMinted`, the wallet view, the reset |
| `VoucherDesk` | `cmd/voucher`, `internal/voucher`, and the tables `users`, `participants`, `ticket_vouchers` |
| `MC*` | values of the constants for TLC |
| `*Proofs` | theorems and their proofs; `DemoRunProofs` goes on where `DemoDayProofs` ends |

**ScanPipeline.**  One partition: `producer.go` hashes the key `trace_id`, so the copies of a
scan share a partition.  `log`, `committed`, `fetched`, `msgCh` are the partition, the group
offset, the reader and the channel of `Run`; `marker`, `events`, `counted`, `outbox`, `dlq` are the
stores, as sets of traces or offsets.  A worker is a program counter whose steps are the
calls of `processAndCommit` and `Handle` in order: `Take`, `Dedup`, `Insert`, `Aggregate`,
`Park`, `ClearDedup` (the deferred compensation), `Retry`, `WriteDLQ`, `Commit`.  Each call
succeeds, fails, or takes effect and reports an error; a DEL whose reply is lost may also be sent again by the Redis
client, by which time the marker it takes may be another worker's.  The drain is a further process
(`batch`, `replayed`).  The environment is `Crash`, `Shutdown` then `Exit` (SIGTERM),
`Rebalance`, `MarkerExpires`.  `Faults` says which of these happen.

**WristbandBinding.**  `fwd` and `rev` are the two keys of a link; `grace`, `ticket` and `published`
the cache, the status row and the scans in Kafka; `passed` is a history variable.
A request runs through the calls of its handler; a Lua script is one step,
`SetBindingStatus` is two (GET, then SET KEEPTTL), which is where its races come from.
`AdminAlone` restricts resets to wristbands nobody else is using: with it the
register holds, without it it does not (run `gate_race`).

**QRToken.**  Time is counted in ticks, `Second` ticks to the second, so that the rounding of
`time.Now().Unix()` is visible; `Ahead` gives each gate a clock of its own; `MaxDelay`
bounds the time between reading the clock and the SETNX.  The HMAC is not
modelled: a token a gate has issued verifies.

**MintDay.**  One mint date and one family per key of `mint_logs`.  `scans`, `chain`, `logs`,
`wallet`, `pending` are the stores; a call (`run-day`, `resolve-day`, or the demo's run, which
asks `alreadyMinted` first) lists the wallets, resolves participant after participant, then
mints and records participant after participant.  A transaction is executed, refused, executed with
its reply lost, or executed with failed effects whose status the client only logs ("abort").
The database's conflict rule is in `RecordMint`: the digest is replaced, the participant is kept.
Since `mint_logs` is keyed by the guardian's user, two members of a family on one ride share a row.

**VoucherDesk.**  `users`, `people` (a sequence: the id is the position), `sold`, `owner`, `holder` are the
tables, the last three the columns of `ticket_vouchers` (`sold` holds the number of the
purchase instead of a mark, so that it can be told whose row it is).  A request runs through the
statements of its handler (`pc`); what it read before its first write is read in the step in which it
arrives, later statements see the tables as they are then.  `Abandon` cuts a request short after any statement.
A magic link keeps no state, so a claim may arrive for any voucher, sold or not.
`answers` is a history of what successful requests were told.

**DemoDay.**  `users` and `linked`, `people`, `vouchers`, `scans` and `logs` are the tables; a person is a
guardian by its number, or a dependent by its name, its guardian and the copy, since nothing forbids a second row of one
dependent (2a calls the last guardian's dependent as 2c calls the first one's).  A request is a program counter over the statements of `SeedScenario`, with the
guardian and the ride it is at; a run then resolves the day, checks the riders one by one, and mints and records them.
`ResolveDay` is one step: it reads rides the run itself has seeded and which stay as they are until a reset.
`Reset` happens between requests, as one step; NFTs stay, and `era` tells those of before from those of after it.
A transaction of a run is executed, refused, executed with its reply lost, or executed with failed effects ("abort"):
the client returns its digest all the same, it is recorded, and the run shows it as failed only if its own look-up of the
status is answered.  `aborted` is the history of the rides this happened to.  A resolution or a look at `mint_logs` that
fails (`ReadFails`) is answered as well, with a step that names the failure but no failed mint; a record that fails
(`RecordFails`) is shown as the success it was.
`seeded` is a history of what was answered, `ran` one of the days of runs whose answer shows neither a failed mint nor a failed step,
`sure` says that since the reset every mint was
recorded and no two runs overlapped.  The four scenarios differ in who rides: `RidesItself`,
`HasDependent`, `LastGuardian`.  The probes of 2a write no table, so a run of 2a ends with its seed.

**MinterBackend.**  Composes `CIDCache`, `SuiClient` and `CustodyClaim`, which own disjoint variables, under
one program counter per handler (`job`, `left`).  Documents on Pinata are named by ride and
date, since they are made from nothing else; `documents` are those whose pin was confirmed,
so a lost answer is an error.  An attempt of the client is `Acquire`, `Build`, `Acquire`, `Execute`;
every outcome gives the permit back first and is then told apart by the text of the error.
`executed` counts the transactions of a call that took effect, whatever the client was told; a probe asks for a coin
first, by an RPC without a permit.
A claim of custody names a participant, a wallet and a set of NFTs (one named twice would end the claim like
one that has moved already).  `owner` is the chain's: a transfer takes effect only while the NFT is in the wallet of the
key that signs, the gas-pool key; an NFT anywhere else is refused.  After the last transfer the participant is read (`GetParticipant`)
and, if still custodial, written (`Flip`), two statements with room between them.  The minter has no probes and the
demo no claims; the model's one process does both, so it does all that either does.
Two outcomes the client cannot tell are in the model and out of the run: "echo", an executed
transaction whose error text happens to hold "429", and "abort", a transaction whose effects
failed.  Under the first a call may execute
two transactions, under the second its digest names one without effect, and a claim flips a wallet without its NFT;
`OneTransaction` and `WalletFollowsNFTs` exclude them.

## 3. The runs

| run | question | result |
|---|---|---|
| `pipeline_all` | two workers, every failure: types, and does the pipeline implement `ScanLedger`? | holds |
| `pipeline_live` | two workers, failing stores, rebalances, fairness: does a message vanish, is a marker left behind, do two handlers meet, does every message settle and every debt get paid? | all hold |
| `pipeline_crash` | one worker, crashes anywhere, nothing else fails: is a commit ever past an unsettled message? | violated: finding 1 |
| `pipeline_overtake` | two workers, no failure | violated: finding 2 |
| `gate_alone` | overlapping binds, checks and scans, orderly resets: keys, checks, cache, redemption, expiry, `BindingRegister` | all hold |
| `gate_race` | a reset overlaps a check | violated: finding 3 |
| `qr_window` | two tokens, two requests, two clocks, the tightest marker | used once |
| `mint_day` | two overlapping calls of any route with failures: true answers, log rows that name a rider of their ride, `MintLedger` | all hold |
| `voucher_desk` | purchases, claims, delegations and custody claims, two at a time, cut short anywhere: true answers, one participant per account, wallets of dependents, `VoucherBook` | all hold |
| `minter_backend` | two mints, claims of custody or probes over the cache and one permit, failing, throttled and cancelled: one document per ride, pinned when answered; permits and RPCs; one transaction per transfer; is a participant flipped only with its NFTs? is there a circle of waiting calls, or of a handler's steps? does every call return? | all hold |
| `demo_day` | two seeds or runs of any scenario, overlapping and cut short anywhere, and a reset: true seeds, true runs but for aborted mints, NFTs and wallet view of the guardian, one mint per ride | all hold |
| `mint_rerun` | run-day twice, in sequence, no failure | violated: finding 4 |

**Bounds, and why they are enough.**  *Pipeline:* one or two traces, two workers, two
messages (`MaxLog`), one retry, a channel of one or two.  Two workers and two
offsets are what an overtaking commit or a duplicate in flight needs; a second retry repeats
the first.  The theorems lift these bounds for the safety properties.
*Gate:* two wristbands, two tickets, two requests; each hazard is a pair
of requests on one wristband, and a second wristband for the same ticket.
*QR:* rotation and TTL are scaled to two and four seconds, two ticks to the second, with the slack an equality
(`SlackIsTight` in `MCQRToken`): a tick less would break the property, the horizon
covers a whole token life and a marker after it.  *Mint:* two participants, three scans, two calls in all (`MaxRuns`): enough for a guardian and a
dependent on the same ride, an overlap and a repetition.  *Voucher:* one buyer, two accounts,
two requests, at most two vouchers in a purchase, two purchases, two participants: a second purchase that
meets the first complete or cut short, two delegations of one account or voucher, a claim
beside a delegation.  One buyer is enough, as ids of different buyers differ; the
theorems have no bound on any of these.  *Minter backend:* two calls, two mints that share a ride and not the day, a claim of two NFTs, two attempts, and a configured concurrency of 0, which `NewClient` raises to
one permit: the tightest semaphore, a lock and a permit to wait for at once, an attempt that is repeated and
one that is the last.  Calls end and arrive without end, so nothing is used up: the claim is made again while it is in progress and after it has failed
halfway.  A second participant with a wallet of its own who claims the same NFTs was tried by hand (367,654 states, same result) and left out
of the run for its length; the theorem covers it.
*Demo:* two guardians, with the border between them (`Half`, `ProbeN`) where the scenarios draw it; one
ride each, two requests, two rows of a dependent, three transactions, one reset.  Two requests are an overlap, a seed
that meets what another left half made, a repeated run; three transactions are both riders of a day and one of them
again; a request after a reset finds the tables empty and NFTs
on chain.  Two rides each, with two
transactions, one row of a dependent and no reset, were tried by hand (552,911 states, same result); the theorems have no bound on any of these.
`CHECK_DEADLOCK FALSE`
appears where a bound ends the behaviour: the calls of `MintDay` and the requests of `DemoDay` are used up, the clock of
`QRToken` has reached its horizon.  The pipeline, the gate, the voucher desk and the
minter backend check deadlock.

**Fairness.**  `pipeline_live` and `minter_backend` need it.  In `pipeline_live`: weak fairness of `Fetch`, of each worker and of the
drain: they are goroutines in endless loops, which the Go scheduler runs.  A call is taken to
return, with a result or an error: the Redis and Kafka clients time out, a Postgres call ends at the
latest with its connection.  Strong fairness of a row's replay and of its DELETE: an outage of
Redis or Postgres ends, so a call repeated on every tick succeeds at some point.  Nothing is assumed
of the other failures; a message whose retries all fail goes to the dead-letter topic, and that
counts as settled.  In `minter_backend`: weak fairness of what a running goroutine does by itself, of RPCs, statements,
requests to Pinata (its HTTP client has a timeout of 30 s) and pauses, which return; strong fairness
of taking the lock and a permit, as Go queues who waits for an RWMutex or a channel.  That an RPC of
the Sui SDK returns, if only with its context, is an assumption.

**Mutants.**  Each property of a passing run has a mutant, a definition next to the one it
replaces with the change a plausible bug would make (a dropped guard, a forgotten
DELETE, a plain SET for KEEPTTL, an ignored error).  TLC finds the property violated
under each of them.

## 4. The proofs

All theorems are for arbitrary sets of workers, messages, wristbands, tickets, requests,
participants, calls, and so on.  A condition on the environment is a named definition or
assumption of the theorem; a theorem without one holds under every failure of the model.

`ScanPipelineProofs`
* `TypeCorrect`, `PipelineImplementsLedger`: no condition.  `LedgerInv`: what is counted,
  parked or listed is stored, what the drain is about to delete is counted, and a worker at
  `Aggregate` or `Park` has stored its scan.  It is needed because the refinement
  looks at the store only, while the order of the writes is in the program counters.
* `HandlerIsExclusive`: assumes that no marker expires and no reply is lost (a DEL sent again could take the marker of
  a worker that has claimed the scan since), nothing else.  `ExclusionInv` adds that
  the scan of a worker inside Handle has a marker.
* `MarkersAreBacked` (`Compensating`: the compensation does not fail itself, no reply is lost and
  the process does not die inside Handle; everything else may fail).
* `NothingEverVanishes` (`Compensated`: failures of Redis, Postgres and commit, expiry, rebalances, so the DLQ
  works too; and no crash).  `BackedInv` adds to the markers that what a worker is about to commit is covered by a
  settled scan or another worker, `ReachedInv` that an offset
  that was fetched is settled, or some copy of its scan is in flight.
* `OvertakenIsNotLost` (`Compensated`, and no crash), for any number of workers: what holds in spite of finding 2.  A commit
  may pass messages that are not settled, but each of them is still in flight, or a copy of its scan is
  (`CommittedIsAccounted`); so once channel and workers are empty everything behind the group's offset is settled
  (`DrainedIsSettled`).  From `ReachedInv`.  Loss takes an overtaking commit and then a crash, or a failure the
  compensation is not made for.
* `DebtsAreKept`: no condition, from `PipelineImplementsLedger`; what the ledger's steps add up to.
* `WorkersMakeProgress`: no condition.  `WorkersAdvance` orders the states of a worker by attempt, then by
  `StepRank` of the next call; no call goes back in that order.  Attempts and ranks are bounded, so a
  message takes a bounded number of calls.

`WristbandBindingProofs` (`Orderly`: resets overlap no other request on their wristband, and no key
expires under a request)
* `TypeCorrect`, `RedemptionFollowsRide` (`RedeemInv`): no condition.
* `KeysAlwaysAgree`, `NoDoubleBinding`, `RidesAreChecked`, `LinksAlwaysExpire`,
  `GateImplementsRegister`: `Orderly`, from `LinksInv`.  Its parts: a reset
  is alone, a request's link stays while the request needs it (`LinkHeld`), what a check
  decided is still so when it is written (`CheckHeld`), a BOUND link was checked
  (`BoundChecked`).  None of them is inductive alone.
* `WristbandsAreNotHandedOn`: `Orderly`, from the refinement: the register's links never move, and what is verified
  stood there before.
* `GraceStaysCurrent`: `Orderly`, no lost write of the cache, no reset cut between the
  delete and the clearing.  `GraceInv` follows the check that is about to cache.

`QRTokenProofs`
* `TypeCorrect`: no condition.  `TokensAreUsedOnce`: `Slack`, that is
  `(Rotation + 1) s + clock spread + request delay <= TTL`.  `UseInv`: a held token
  was verified in time, and the marker of a used token outlives the token.
  With the defaults (rotation 30 s, grace window 5 s, hence a TTL of 35 s) four seconds remain for clocks
  and slow requests.  The TTL is `GraceWindowSec + 30` and ignores
  `QR_ROTATION_SECONDS` (the plan says "TTL = rotation + skew",
  `implementation_plan.md:290`): a rotation of 34 s or more leaves no slack at all.

`MintDayProofs`
* `TypeCorrect`: no condition.  `AnswersAreTrue`, `MintDayImplementsLedger`: `NoAborts`,
  that is, a digest returned without an error is that of a transaction that succeeded,
  which `sui.Client` does not check (`client.go:173`).  `DayInv`: for each call, what it
  has done so far for the participants not reported in error, where `Parked`, `Settled`,
  `Upserting`, `Recording`, `Found` each cover a phase; and NFTs carry
  the numbers of transactions executed.  It carries over the steps of other calls because the
  stores only gain what a call relies on (`Grows`).
* `RowsAreAttributed`: `NoAborts`, from `DayInv`: what is recorded is the digest of a transaction that minted that
  ride for that member of the family (`RecordedIsMinted`).
* `NFTsAreEarned`: `NoAborts`, from the refinement.
* `OneRunMintsOnce`: `MaxRuns = 1`, any failure.  The positive counterpart of finding 4: what mints a ride twice is a
  second run, never a failure of the first (that the client executes one transaction per mint is `CallsExecuteOnce`).  `OnceInv`: of the participants the call has not minted for yet nothing is
  on chain (`Behind`), since each transaction is for another participant.

`VoucherDeskProofs` (no condition on failures: every request may be cut short anywhere)
* `TypeCorrect`.  Its part `Equipped` is what makes it inductive: a request stands before a
  statement only with what the statement writes.
* `AccountsAreUnique`: inductive as it is, given that participants keep their accounts.
* `DependentsAlwaysResolve`, from `ReadyForVoucher`: not only who holds a voucher but also who is about
  to get one has an account or has been given a wallet.
* `DeskImplementsBook`: from `TypeCorrect`; only three statements write a voucher.
* `VouchersAreWrittenOnce`, from the refinement: the book's entries are never overwritten.
* `AnswersAreTrue`, from `InsertedSoFar`: the rows a purchase has inserted so far carry its
  number, which the final answer then reports; and columns once set are never changed.

`MinterBackendProofs` (any number of calls, permits, attempts, rides and dates)
* `TypeCorrect`, `PermitsMatchRPCs`, `RidesHaveOneAsset`, `AssetsArePinned`: no condition on what fails.
  A step of a handler is a step of the cache, of the client, or of both (`StepOfParts`), so each half has an
  invariant of its own.  `CacheInv`: what was answered or is cached is confirmed, a ride's answers are what is cached
  for it, and who pins does so for a ride that is not cached; the last is what the double-check
  gives, and it stays true because only the holder of the lock writes the cache.  `ClientInv`:
  permits are the number of RPCs in flight, without which a release could not be shown to leave a natural number.
* `CallsExecuteOnce`, from `OnceInv`: while the client is at work nothing of the call was executed.
  The condition "neither echo nor abort" is part of `OneTransaction`.
* `WalletsFollow`, with "no abort" in the property: from `Quiet`, `Delivered` and `Settled`.  A call's digest is that of a transfer that took effect
  and the NFTs a claim is through with are in its wallet (`Delivered`), so are those of claims that flipped their
  participant (`Settled`), and a call has no answer while the client is at work (`Quiet`).  Other claims do not disturb this, because no transfer can
  take an NFT out of an own wallet (`OwnersStay`): the one fact everything rests on.
* `NoCircleOfWaiting`, from `CacheInv` and `ClientInv`: who waits for the lock waits for a call that is at Pinata, who waits for a
  permit waits for one with an RPC in flight, and neither of those waits for anybody.
* `HandlersMakeProgress`: no condition.  A handler is measured by its job, what is left of its list, then the step of the
  cache, or attempt and step of the client, in this order (`Advances`); every step of its own advances it, those of the
  others leave it where it is.  The lists of a call are finite and its attempts bounded, so it takes finitely many steps.

`DemoDayProofs`, `DemoRunProofs` (any number of guardians, rides, requests; every failure in `FaultKinds`, that is, requests and
statements that end anywhere, refused, lost and aborted mints; overlapping runs; resets between requests only)
* `TypeCorrect`, `SeedsAreTrue`: from `SeedInv`.  `PeopleInv` says that a wallet is the
  guardian's, `ScansInv` that a scan names the right person with wallet and
  voucher, `RequestInv` what a request has made so far (the guardians before `at`, the rides before
  `ride`), by which the last step of a seed knows the whole.
* `NFTsLandWithGuardian`, `RunsAreTrue`, `WalletsShowMints`: from `RunInv`, which says of each run that
  every ride of its day is served, or its rider's turn will come, or a mint has failed, and of each row that all rides its rider took that day
  are served, so that whom `alreadyMinted` strikes out has nothing left to be minted for.  Served means minted since the last reset, or
  named in a transaction that was executed since and aborted (`Served`): of those rides `RunsAreTrue` promises no NFT, and the
  code gives none (see the observations of section 6).
* `RunsMintOnce`: from `OnceInv`.  While `sure` holds there is one run, every rider with an NFT has a row of the day or
  is just being recorded, and riders the run has found unminted have no NFT of the day.

## 5. Model-checked only

`EveryMessageSettles`, `DebtsArePaid` and `EveryCallReturns`: liveness under fairness is outside what TLAPS
proves.  They hold for two workers and two messages in `pipeline_live`, for two calls in `minter_backend`.
What is proved of them is their safe half, for any number: no worker and no handler goes round in a circle
(`WorkersMakeProgress`, `HandlersMakeProgress`), and somebody can always move (`NoCircleOfWaiting`).
Conversely `OvertakenIsNotLost` and `OneRunMintsOnce` are not part of a run: they are what is left of the properties that the runs
`pipeline_overtake` and `mint_rerun` refute.  So are the consequences of the refinements and `WorkersAdvance`.  The findings
are counterexamples of TLC.  No definition is recursive, so no theorem rests on a bounded check of one.

## 6. Where the code and its documents disagree

1. `pipeline_crash` -- a crash between claiming the marker (`handler.go:63`) and the end of Handle
   leaves the marker; the redelivered message is taken for a duplicate and committed.
   `consumer.go:113-114`: "reprocessed on restart (zero silent loss, D5)".
2. `pipeline_overtake` -- each worker commits its own offset, and a later one covers an earlier
   message that is unfinished.  `consumer.go:145-147`: "The offset is never advanced unless the
   message is finalised."
3. `gate_race` -- `SetBindingStatus` reads and writes back; a reset between the two is undone on one side and the
   ticket can be bound twice.  `binding.go:10-12`: "can never double-win".
4. `mint_rerun` -- a second run-day mints every ride again.  `batch_mint.go:62-64`: "issues no
   duplicate tx".

Observations that no run states as a violation:

* `mint_logs` is unique by user, ride and date (`000001_init.up.sql:11`); the user is the guardian's, `participant_id` names the rider
  (`000004_mint_attribution.up.sql`).
  When two dependents of a family take the same ride, the second record replaces the digest and keeps the participant:
  the row names one of them and the transaction of the other.  `RowsNameRiders` is what remains true: it names a rider of that ride.
* A claim of custody that failed halfway cannot be completed by repeating it: the first NFT has moved and its
  transfer is refused.  "Skip already-transferred" is an
  unchecked item of the plan (`implementation_plan_week6.md:94`), not something the code claims.

* An aborted transaction counts as a mint (`client.go:173-178`): its digest is recorded (`batch_mint.go:101-111`), and the demo's next run finds the
  row, skips the rider as already minted and reports no failure (`scenarios.go:345-352`), although no NFT exists.  The run it happened
  in shows the failure only if its own look-up of the status is answered.  `RunIsTrue` excepts these rides; in `MintDay`
  they are excluded by `NoAborts`.
* A run of the demo whose resolution or check of `mint_logs` fails is answered 200 with no failed transaction (`scenarios.go:333-336`,
  `345-349`): `totals.failed` is 0 and nothing was minted; only the list of steps says so.
* A DEL of the compensation that is sent again after its reply was lost may take the marker of a worker that has claimed the scan
  in the meantime, and lets a second handler in (`HandlerIsExclusive` assumes it away).

## 7. The plan

Done, in this order: the pipeline and its ledger; the gate and its register;
the QR token; the mint day and its ledger; the voucher desk and its book; the minter's cache and
client; the demo; the custody claim, composed with cache and client; the theorems above.

Next, in order of importance:

1. A run of `VoucherDesk` on progress: a second purchase of a buyer fails at its first row although
   `implementation_plan.md:378` promises "N voucher rows".
2. The family without a `users` row, whose mints nobody records (`repository.go:163`), as a composition of
   `VoucherDesk` with `MintDay`.
3. `MintDay` over `MinterBackend`: the outcomes `MintDay` takes for granted ("refused", "lost", "abort") as
   the ones the client produces, and with it the custody claim of NFTs that a day has just minted.
4. A reset that overlaps other requests of the demo, with a statement of what can still be promised then.

## 8. Not modelled

* **Move contract.**  Each entry function acts on one object under a capability of the Move type
  system; there is no protocol between them.  `MintDay` uses `mint_batch` as one atomic step.
* **Transport and formats**: RPC encoding, JSON, HMAC, Pinata uploads, artwork, telemetry,
  configuration, the frontend, load generators, benchmarks, migrations.  They are I/O or hold
  no state; the UNIQUE constraints of the schema are part of the modules that write the tables.
* **Abstractions of `MintDay`**: wallet addresses (a wallet is its custody state), the
  `wallet_state` column of a parked row, the demo's shuffling of participants, the order of scan times.
  Wallets stop changing after the last call has started, since nothing reads them any more.
* **Abstractions of `ScanPipeline`**: several partitions, the limit and order of a drain pass,
  waiting times, the daily set's expiry (two days, longer than any scan is retried).
* **Abstractions of `WristbandBinding`**: token verification (in `QRToken`), refused requests that change
  nothing, the account's payment state (the check is a free choice).
* **Abstractions of `MinterBackend`**: the content of documents, a restart of the minter (the cache starts empty,
  so `OneAssetPerRide` is about one life of the process), missing configuration,
  which only refuses calls, `Ping` and the reads of the reader, which take no permit, the other columns of a participant.
* **Abstractions of `DemoDay`**: a reset that overlaps another request or is cut short between its
  tables (an operator's button; the answer of an overlapped request then means nothing), the probes' loop
  (each probe is a call of `MinterBackend`), names and emails, the order in which 2d
  shuffles its riders (any), the documents a mint pins first (their failure is a refused mint), the counts in the reply.
* **Abstractions of `VoucherDesk`**: user ids (an account is its email), names, a purchase of no vouchers,
  the signature and the 24 hours of a link, guardians of guardians beyond the id stored, the
  rows the demo seeds (in `DemoDay`).  `RecordPendingMint` writes the row that `UpsertPendingMint` of `MintDay` writes.
