---------------------------- MODULE ScanPipeline ----------------------------
(***************************************************************************)
(* The Kafka consumer of ride scans: the fetch loop and worker pool of     *)
(* internal/kafka/consumer.go, the handler and the outbox drain of         *)
(* internal/pipeline/handler.go, and the process around them               *)
(* (cmd/consumer).                                                         *)
(*                                                                         *)
(* One partition is modelled: messages are keyed by trace_id and hashed    *)
(* (producer.go), so all copies of a scan share a partition, and offsets   *)
(* of different partitions never meet.  Offsets count from 1.              *)
(***************************************************************************)
EXTENDS Naturals, Sequences

CONSTANTS
  Traces,               \* trace ids of the scans
  Poison,               \* a message parseMessage rejects
  Workers,              \* goroutines of the pool
  ChanCap,              \* capacity of msgCh
  MaxRetries,           \* ConsumerMaxRetries
  MaxLog,               \* bound: messages ever published
  Faults                \* which failures of the environment may happen

(***************************************************************************)
(* Failures, by the call or the event that suffers them:                   *)
(*   redis, pg, clear, dlq, commit  that call returns an error             *)
(*   reply     a call takes effect and its reply is lost                   *)
(*   ttl       a dedup marker expires while its scan may still be in use   *)
(*   rebalance the partition is revoked and assigned to the process again  *)
(*   idlecrash the process dies while no handler holds a dedup marker      *)
(*   crash     the process dies anywhere                                   *)
(*   shutdown  SIGTERM cancels the context of every call                   *)
(***************************************************************************)
FaultKinds == {"redis", "pg", "clear", "dlq", "commit", "reply", "ttl",
               "rebalance", "idlecrash", "crash", "shutdown"}

ASSUME PoisonAssumption == Poison \notin Traces
ASSUME BoundsAssumption == MaxRetries \in Nat /\ MaxLog \in Nat /\ ChanCap \in Nat
ASSUME FaultsAssumption == Faults \subseteq FaultKinds

VARIABLES
  log,                  \* the partition: one message per offset
  committed,            \* the consumer group's offset: messages 1..committed
  fetched,              \* the reader's position: messages 1..fetched
  msgCh,                \* offsets fetched and not yet taken by a worker
  dlq,                  \* offsets written to ride-scans-dlq
  marker,               \* Redis dedup:<trace> keys
  events,               \* traces with a row in scan_events
  counted,              \* traces whose ride is in the daily Redis set
  outbox,               \* traces with a row in scan_events_outbox
  pc, off, attempt,     \* per worker: next call, message, attempt index
  batch, replayed,      \* drain: rows listed; rows replayed, not yet deleted
  ctx                   \* "live", or "cancelled" by SIGTERM

kafka   == <<log, committed, fetched, msgCh, dlq>>
stores  == <<marker, events, counted, outbox>>
workers == <<pc, off, attempt>>
drain   == <<batch, replayed>>
vars    == <<kafka, stores, workers, drain, ctx>>

Offsets == 1 .. Len(log)
Steps   == {"idle", "dedup", "insert", "aggregate", "park", "clear", "failed",
            "dlq", "commit"}

\* The calls made between claiming the marker and returning from Handle.
Holding == {"insert", "aggregate", "park", "clear"}

TypeOK ==
  /\ log \in Seq(Traces \cup {Poison})
  /\ committed \in 0 .. Len(log)
  /\ fetched \in 0 .. Len(log)
  /\ msgCh \in Seq(Offsets)
  /\ dlq \subseteq Offsets
  /\ marker \subseteq Traces
  /\ events \subseteq Traces
  /\ counted \subseteq Traces
  /\ outbox \subseteq Traces
  /\ pc \in [Workers -> Steps]
  /\ off \in [Workers -> 0 .. Len(log)]
  /\ attempt \in [Workers -> 0 .. MaxRetries]
  /\ batch \subseteq Traces
  /\ replayed \subseteq Traces
  /\ ctx \in {"live", "cancelled"}
  /\ \A w \in Workers : pc[w] # "idle" => off[w] \in Offsets
  /\ \A w \in Workers : pc[w] \in Steps \ {"idle", "dlq", "commit"}
                          => log[off[w]] \in Traces

Init ==
  /\ log = <<>> /\ committed = 0 /\ fetched = 0 /\ msgCh = <<>> /\ dlq = {}
  /\ marker = {} /\ events = {} /\ counted = {} /\ outbox = {}
  /\ pc = [w \in Workers |-> "idle"]
  /\ off = [w \in Workers |-> 0]
  /\ attempt = [w \in Workers |-> 0]
  /\ batch = {} /\ replayed = {}
  /\ ctx = "live"

-----------------------------------------------------------------------------
(* Calls to the stores: a call succeeds only under a live context, fails   *)
(* with a failure of its kind or under a cancelled one, and has taken      *)
(* effect all the same when it is the reply that was lost.                 *)

Succeeds    == ctx = "live"
Fails(kind) == kind \in Faults \/ "reply" \in Faults \/ ctx = "cancelled"

\* The sets a failing call may leave behind that would have added x to S.
AfterError(S, x) == IF "reply" \in Faults THEN {S, S \cup {x}} ELSE {S}

\* Worker w holds a message at step s; Trace(w) is the scan it is about.
At(w, s) == pc[w] = s
Trace(w) == log[off[w]]

Goto(w, step) == pc' = [pc EXCEPT ![w] = step]

\* The worker is done with its message and waits for the next one.
Release(w) ==
  /\ Goto(w, "idle")
  /\ off' = [off EXCEPT ![w] = 0]
  /\ attempt' = [attempt EXCEPT ![w] = 0]

\* At step `from` the worker adds its scan to the store S (a variable).
Write(w, from, kind, S, next, onError) ==
  /\ At(w, from)
  /\ \/ Succeeds    /\ S' = S \cup {Trace(w)}           /\ Goto(w, next)
     \/ Fails(kind) /\ S' \in AfterError(S, Trace(w))    /\ Goto(w, onError)
  /\ UNCHANGED <<kafka, off, attempt, drain, ctx>>

-----------------------------------------------------------------------------
(* The topic and the fetch loop *)

\* The gate publishes a scan (again, when its client or the producer retries).
Publish ==
  /\ Len(log) < MaxLog
  /\ \E m \in Traces \cup {Poison} : log' = Append(log, m)
  /\ UNCHANGED <<committed, fetched, msgCh, dlq, stores, workers, drain, ctx>>

\* Run: FetchMessage, then the send on msgCh, which waits for room.
Fetch ==
  /\ ctx = "live"
  /\ fetched < Len(log)
  /\ Len(msgCh) < ChanCap
  /\ fetched' = fetched + 1
  /\ msgCh' = Append(msgCh, fetched + 1)
  /\ UNCHANGED <<log, committed, dlq, stores, workers, drain, ctx>>

\* A message parseMessage rejects goes to the DLQ.  Mutant: it is handled.
FirstStepUnparsed(m) == "dedup"
FirstStep(m) == IF m = Poison THEN "dlq" ELSE "dedup"

\* A worker receives from msgCh; processAndCommit parses the message.
Take(w) ==
  /\ At(w, "idle")
  /\ msgCh # <<>>
  /\ msgCh' = Tail(msgCh)
  /\ off' = [off EXCEPT ![w] = Head(msgCh)]
  /\ Goto(w, FirstStep(log[Head(msgCh)]))
  /\ UNCHANGED <<log, committed, fetched, dlq, stores, attempt, drain, ctx>>

-----------------------------------------------------------------------------
(* Handle *)

\* What Handle does with IsDuplicate's answer.  Mutant: it goes on all the same.
AfterDedupAlways(t) == "insert"
AfterDedup(t) == IF t \in marker THEN "commit" ELSE "insert"

\* IsDuplicate (SETNX): answered; failed, before the compensation is deferred;
\* or done, its reply lost, and sent again by the Redis client.
Dedup(w) ==
  /\ At(w, "dedup")
  /\ \/ Succeeds /\ marker' = marker \cup {Trace(w)} /\ Goto(w, AfterDedup(Trace(w)))
     \/ Fails("redis") /\ marker' \in AfterError(marker, Trace(w)) /\ Goto(w, "failed")
     \/ Succeeds /\ "reply" \in Faults /\ marker' = marker \cup {Trace(w)} /\ Goto(w, "commit")
  /\ UNCHANGED <<kafka, events, counted, outbox, off, attempt, drain, ctx>>

\* INSERT INTO scan_events ... ON CONFLICT (trace_id) DO NOTHING
Insert(w) ==
  Write(w, "insert", "pg", events, "aggregate", "clear") /\ UNCHANGED <<marker, counted, outbox>>

\* AddRideToUserSet
Aggregate(w) ==
  Write(w, "aggregate", "redis", counted, "commit", "park") /\ UNCHANGED <<marker, events, outbox>>

\* InsertOutbox ... ON CONFLICT (trace_id) DO NOTHING, after which Handle returns
\* nil.  Mutant: it returns nil whatever InsertOutbox says.
ParkErrorSwallowed(w) ==
  Write(w, "park", "pg", outbox, "commit", "commit") /\ UNCHANGED <<marker, events, counted>>
Park(w) ==
  Write(w, "park", "pg", outbox, "commit", "clear") /\ UNCHANGED <<marker, events, counted>>

\* The compensation: what it leaves of the markers.  Its own error is only
\* logged.  Mutant: there is no compensation.
ClearedNothing(t) == {marker}
Cleared(t) ==
  (IF Succeeds THEN {marker \ {t}} ELSE {})
    \cup (IF "clear" \in Faults \/ ctx = "cancelled" THEN {marker} ELSE {})

\* DEL: answered or failed; or done, its reply lost, and about to be sent again by the
\* Redis client.
ClearDedup(w) ==
  /\ At(w, "clear")
  /\ \/ marker' \in Cleared(Trace(w)) /\ Goto(w, "failed")
     \/ Succeeds /\ "reply" \in Faults /\ marker' = marker \ {Trace(w)} /\ UNCHANGED pc
  /\ UNCHANGED <<kafka, events, counted, outbox, off, attempt, drain, ctx>>

-----------------------------------------------------------------------------
(* processAndCommit after the handler *)

\* The loop's increment.  Mutant: it is forgotten.
NextAttemptSame(a) == a
NextAttempt(a) == a + 1

\* A failed attempt: wait and handle again (a cancelled context ends the wait),
\* or give the message up to the DLQ.
Retry(w) ==
  /\ At(w, "failed")
  /\ \/ /\ attempt[w] < MaxRetries
        /\ Goto(w, "dedup")
        /\ attempt' = [attempt EXCEPT ![w] = NextAttempt(@)]
        /\ UNCHANGED off
     \/ /\ attempt[w] < MaxRetries /\ ctx = "cancelled"
        /\ Release(w)
     \/ /\ attempt[w] = MaxRetries
        /\ Goto(w, "dlq")
        /\ UNCHANGED <<off, attempt>>
  /\ UNCHANGED <<kafka, stores, drain, ctx>>

\* writeDLQ.  On an error the worker drops the message, uncommitted.
WriteDLQ(w) ==
  /\ At(w, "dlq")
  /\ \/ Succeeds /\ dlq' = dlq \cup {off[w]} /\ Goto(w, "commit") /\ UNCHANGED <<off, attempt>>
     \/ Fails("dlq") /\ dlq' \in AfterError(dlq, off[w]) /\ Release(w)
  /\ UNCHANGED <<log, committed, fetched, msgCh, stores, drain, ctx>>

\* CommitMessages stores this message's offset, whatever was stored before; its
\* error leaves the message uncommitted, or committed with the reply lost.
Commit(w) ==
  /\ At(w, "commit")
  /\ \/ (Succeeds \/ "reply" \in Faults) /\ committed' = off[w]
     \/ Fails("commit") /\ UNCHANGED committed
  /\ Release(w)
  /\ UNCHANGED <<log, fetched, msgCh, dlq, stores, drain, ctx>>

-----------------------------------------------------------------------------
(* DrainOutbox, run on a ticker by one goroutine.  The order of the rows   *)
(* of a pass and its limit of 100 are left out.                            *)

DrainList ==
  /\ batch = {} /\ replayed = {}
  /\ Succeeds
  /\ batch' = outbox
  /\ UNCHANGED <<kafka, stores, workers, replayed, ctx>>

DrainReplay(t) ==
  /\ t \in batch /\ replayed = {}
  /\ Succeeds
  /\ counted' = counted \cup {t}
  /\ batch' = batch \ {t}
  /\ replayed' = {t}
  /\ UNCHANGED <<kafka, marker, events, outbox, workers, ctx>>

\* The row stays (BumpOutboxAttempts) and the pass goes on to the next one.
\* Mutant: and is deleted like a replayed one.
DrainReplayErrorDeletes(t) ==
  /\ t \in batch /\ replayed = {}
  /\ Fails("redis")
  /\ batch' = batch \ {t}
  /\ replayed' = {t}
  /\ UNCHANGED <<kafka, stores, workers, ctx>>

DrainReplayError(t) ==
  /\ t \in batch /\ replayed = {}
  /\ Fails("redis")
  /\ counted' \in AfterError(counted, t)
  /\ batch' = batch \ {t}
  /\ UNCHANGED <<kafka, marker, events, outbox, workers, replayed, ctx>>

\* DeleteOutbox.  Mutant: the row stays.
DrainDeleteNothing(t) ==
  /\ t \in replayed
  /\ Succeeds
  /\ replayed' = {}
  /\ UNCHANGED <<kafka, stores, workers, batch, ctx>>

DrainDelete(t) ==
  /\ t \in replayed
  /\ Succeeds
  /\ outbox' = outbox \ {t}
  /\ replayed' = {}
  /\ UNCHANGED <<kafka, marker, events, counted, workers, batch, ctx>>

\* A failed DELETE ends the pass.
DrainDeleteError(t) ==
  /\ t \in replayed
  /\ Fails("pg")
  /\ outbox' \in {outbox} \cup (IF "reply" \in Faults THEN {outbox \ {t}} ELSE {})
  /\ replayed' = {} /\ batch' = {}
  /\ UNCHANGED <<kafka, marker, events, counted, workers, ctx>>

-----------------------------------------------------------------------------
(* The environment *)

\* The process is gone and another starts from the group's offset.
RestartFromCommitted ==
  /\ fetched' = committed
  /\ msgCh' = <<>>
  /\ pc' = [w \in Workers |-> "idle"]
  /\ off' = [w \in Workers |-> 0]
  /\ attempt' = [w \in Workers |-> 0]
  /\ batch' = {} /\ replayed' = {}
  /\ ctx' = "live"
  /\ UNCHANGED <<log, committed, dlq, stores>>

Crash ==
  /\ \/ "crash" \in Faults
     \/ "idlecrash" \in Faults /\ \A w \in Workers : pc[w] \notin Holding
  /\ RestartFromCommitted

\* SIGTERM: the fetch loop stops, the workers finish what msgCh holds.
Shutdown ==
  /\ "shutdown" \in Faults
  /\ ctx = "live"
  /\ ctx' = "cancelled"
  /\ UNCHANGED <<kafka, stores, workers, drain>>

\* The workers are drained: Run returns; the service is started again.
Exit ==
  /\ ctx = "cancelled"
  /\ msgCh = <<>>
  /\ \A w \in Workers : pc[w] = "idle"
  /\ RestartFromCommitted

\* The reader starts over from the group's offset; the pool knows nothing of it.
Rebalance ==
  /\ "rebalance" \in Faults
  /\ ctx = "live"
  /\ fetched' = committed
  /\ UNCHANGED <<log, committed, msgCh, dlq, stores, workers, drain, ctx>>

\* A marker outlives DedupTTLSec.
MarkerExpires(t) ==
  /\ "ttl" \in Faults
  /\ t \in marker
  /\ marker' = marker \ {t}
  /\ UNCHANGED <<kafka, events, counted, outbox, workers, drain, ctx>>

-----------------------------------------------------------------------------
Work(w) ==
  \/ Take(w)
  \/ Dedup(w) \/ Insert(w) \/ Aggregate(w) \/ Park(w) \/ ClearDedup(w)
  \/ Retry(w) \/ WriteDLQ(w) \/ Commit(w)

Drain(t) ==
  \/ DrainReplay(t) \/ DrainReplayError(t)
  \/ DrainDelete(t) \/ DrainDeleteError(t)

Environment ==
  \/ Crash \/ Shutdown \/ Exit \/ Rebalance
  \/ \E t \in Traces : MarkerExpires(t)

Next ==
  \/ Publish \/ Fetch \/ DrainList \/ Environment
  \/ \E w \in Workers : Work(w)
  \/ \E t \in Traces : Drain(t)

Spec == Init /\ [][Next]_vars

\* The fetch loop, every worker and the drain's ticker keep running.  A replay
\* and its DELETE succeed eventually if tried forever: an outage ends.
Fairness ==
  /\ WF_vars(Fetch)
  /\ \A w \in Workers : WF_vars(Work(w))
  /\ WF_vars(DrainList)
  /\ \A t \in Traces : /\ WF_vars(Drain(t))
                       /\ SF_vars(DrainReplay(t))
                       /\ SF_vars(DrainDelete(t))

FairSpec == Spec /\ Fairness

-----------------------------------------------------------------------------
(* What has become of the messages *)

\* Offsets o and p carry the same scan.
SameScan(o, p) == o = p \/ (log[o] = log[p] /\ log[o] # Poison)

\* Message o is in the dead-letter topic, or its scan is stored and is
\* counted or will be by the drain.
Finalised(o) ==
  \/ o \in dlq
  \/ log[o] \in events /\ log[o] \in counted \cup outbox

Settled(o) == \E p \in Offsets : SameScan(o, p) /\ Finalised(p)

InFlight(o) ==
  \/ \E i \in DOMAIN msgCh : msgCh[i] = o
  \/ \E w \in Workers : pc[w] # "idle" /\ off[w] = o

\* Every offset the group has moved past belongs to a message whose scan is
\* settled ("the offset is never advanced unless the message is finalised",
\* processAndCommit; "zero silent loss", Run).
CommittedIsSettled == \A o \in 1 .. committed : Settled(o)

\* No fetched message vanishes inside the process: its scan is settled, or a
\* copy of it is still queued or in a worker's hands (the reliability contract
\* of Handle, with the compensation it relies on).
NothingVanishes ==
  \A o \in 1 .. fetched :
    Settled(o) \/ \E p \in Offsets : SameScan(o, p) /\ InFlight(p)

\* At most one worker is between claiming a scan's marker and leaving Handle:
\* the dedup shield makes the handler's body exclusive per trace.
HandlerExclusive ==
  \A v, w \in Workers :
    v # w /\ pc[v] \in Holding /\ pc[w] \in Holding => Trace(v) # Trace(w)

\* A marker is never left behind without a reason: the scan it hides from
\* redelivery is settled, or a worker is handling it.
MarkerBacked ==
  \A t \in marker :
    \/ \E o \in Offsets : log[o] = t /\ Settled(o)
    \/ \E w \in Workers : pc[w] \in Holding /\ Trace(w) = t

\* Every published message is settled in the end, by its handler or by the DLQ:
\* no retry, no failure and no other worker keeps it forever.
EveryMessageSettles ==
  \A o \in 1 .. MaxLog : o \in Offsets ~> (o \in Offsets /\ Settled(o))

\* A parked ride does not stay parked: the drain gets to it when Redis is back.
DebtsArePaid == \A t \in Traces : t \in outbox ~> t \notin outbox

Ledger == INSTANCE ScanLedger WITH recorded <- events, owed <- outbox

\* Through every failure, crash and redelivery, a ride is counted or parked
\* only for a scan already stored, and a parked row is deleted only once its
\* ride is counted (the order of the writes in Handle and in DrainOutbox).
ImplementsLedger == Ledger!Spec
=============================================================================
