-------------------------- MODULE ScanPipelineProofs --------------------------
(***************************************************************************)
(* Theorems about ScanPipeline for any scans, any number of workers and    *)
(* any length of the log.                                                  *)
(***************************************************************************)
EXTENDS ScanPipeline, SequenceTheorems, TLAPS

-----------------------------------------------------------------------------
(* Type correctness *)

\* TypeOK without the Kafka variables: what a step inside the process may disturb.
WorkersOK ==
  /\ pc \in [Workers -> Steps]
  /\ off \in [Workers -> 0 .. Len(log)]
  /\ attempt \in [Workers -> 0 .. MaxRetries]
  /\ \A w \in Workers : pc[w] # "idle" => off[w] \in Offsets
  /\ \A w \in Workers : pc[w] \in Steps \ {"idle", "dlq", "commit"}
                          => log[off[w]] \in Traces

\* A message in a worker's hands is in the log.
LEMMA TraceType ==
  ASSUME TypeOK, NEW w \in Workers, pc[w] \notin {"idle", "dlq", "commit"}
  PROVE  Trace(w) \in Traces /\ off[w] \in Offsets
BY DEF TypeOK, Trace

\* A worker that is done with its message.
LEMMA ReleaseType ==
  ASSUME TypeOK, NEW w \in Workers, Release(w), UNCHANGED log
  PROVE  WorkersOK'
BY BoundsAssumption DEF TypeOK, WorkersOK, Release, Goto, Steps, Offsets

\* A worker that goes on with its message.
LEMMA GotoType ==
  ASSUME TypeOK, NEW w \in Workers, NEW step \in Steps \ {"idle"}, Goto(w, step),
         UNCHANGED <<log, off, attempt>>, pc[w] # "idle",
         step \in {"dlq", "commit"} \/ pc[w] \notin {"dlq", "commit"}
  PROVE  WorkersOK'
BY DEF TypeOK, WorkersOK, Goto, Steps, Offsets

\* The DEL, answered or not: the worker goes on or stays, with the same message.
LEMMA ClearType ==
  ASSUME TypeOK, NEW w \in Workers, ClearDedup(w)
  PROVE  /\ WorkersOK' /\ marker' \subseteq Traces
         /\ pc[w] = "clear" /\ pc'[w] \in {"clear", "failed"} /\ UNCHANGED <<kafka, off>>
<1>1. /\ pc[w] = "clear" /\ UNCHANGED <<kafka, off, attempt>> /\ marker' \subseteq Traces
      /\ UNCHANGED log
      /\ Goto(w, "failed") \/ UNCHANGED pc
  BY DEF ClearDedup, Cleared, At, TypeOK, kafka
<1>2. CASE Goto(w, "failed")
  <2>1. WorkersOK'
    BY <1>1, <1>2, GotoType DEF Steps
  <2> QED  BY <1>1, <1>2, <2>1 DEF Goto, TypeOK
<1>3. CASE UNCHANGED pc
  <2>1. WorkersOK'
    BY <1>1, <1>3 DEF TypeOK, WorkersOK, Offsets
  <2> QED  BY <1>1, <1>3, <2>1
<1> QED  BY <1>1, <1>2, <1>3

\* TypeOK holds of every reachable state, whatever fails.
THEOREM TypeCorrect == Spec => []TypeOK
<1>1. Init => TypeOK
  BY BoundsAssumption DEF Init, TypeOK, Steps, Offsets
<1>2. TypeOK /\ [Next]_vars => TypeOK'
  <2> SUFFICES ASSUME TypeOK, [Next]_vars
               PROVE  TypeOK'
    OBVIOUS
  <2>1. CASE Publish
    <3>1. PICK m \in Traces \cup {Poison} : log' = Append(log, m)
      BY <2>1 DEF Publish
    <3>2. /\ log' \in Seq(Traces \cup {Poison}) /\ Len(log') = Len(log) + 1
          /\ Len(log) \in Nat
          /\ \A i \in 1 .. Len(log) : log'[i] = log[i]
      BY <3>1 DEF TypeOK
    <3>3. msgCh' \in Seq(Offsets')
      BY <2>1, <3>2 DEF Publish, TypeOK, Offsets
    <3> QED
      BY <2>1, <3>2, <3>3 DEF Publish, TypeOK, Offsets, stores, workers, drain
  <2>2. CASE Fetch
    <3>1. msgCh' \in Seq(Offsets) /\ fetched' \in 0 .. Len(log)
      BY <2>2 DEF Fetch, TypeOK, Offsets
    <3> QED  BY <2>2, <3>1 DEF Fetch, TypeOK, Offsets, stores, workers, drain
  <2>3. CASE DrainList
    BY <2>3 DEF DrainList, TypeOK, kafka, stores, workers, Offsets
  <2>4. CASE Environment
    <3>1. CASE RestartFromCommitted
      BY <3>1, BoundsAssumption DEF RestartFromCommitted, stores, TypeOK, Steps, Offsets
    <3>2. CASE Shutdown
      BY <3>2 DEF Shutdown, kafka, stores, workers, drain, TypeOK, Offsets
    <3>3. CASE Rebalance
      BY <3>3 DEF Rebalance, stores, workers, drain, TypeOK, Offsets
    <3>4. ASSUME NEW t \in Traces, MarkerExpires(t)
          PROVE  TypeOK'
      BY <3>4 DEF MarkerExpires, kafka, workers, drain, TypeOK, Offsets
    <3> QED  BY <2>4, <3>1, <3>2, <3>3, <3>4 DEF Environment, Crash, Exit
  <2>5. ASSUME NEW w \in Workers, Work(w)
        PROVE  TypeOK'
    <3> USE DEF kafka, stores, drain
    <3>1. CASE Take(w)
      <4>1. Head(msgCh) \in Offsets /\ Tail(msgCh) \in Seq(Offsets)
        BY <3>1 DEF Take, TypeOK
      <4>2. WorkersOK'
        BY <3>1, <4>1 DEF Take, At, Goto, FirstStep, TypeOK, WorkersOK, Steps, Offsets
      <4> QED  BY <3>1, <4>1, <4>2 DEF Take, TypeOK, WorkersOK, Offsets
    <3>2. CASE Dedup(w)
      <4>1. Trace(w) \in Traces
        BY <3>2, TraceType DEF Dedup, At
      <4>2. WorkersOK'
        BY <3>2, GotoType DEF Dedup, At, AfterDedup, Steps
      <4> QED  BY <3>2, <4>1, <4>2 DEF Dedup, AfterError, TypeOK, WorkersOK, Offsets
    <3>3. CASE Insert(w)
      <4>1. Trace(w) \in Traces
        BY <3>3, TraceType DEF Insert, Write, At
      <4>2. WorkersOK'
        BY <3>3, GotoType DEF Insert, Write, At, Steps
      <4> QED  BY <3>3, <4>1, <4>2 DEF Insert, Write, AfterError, TypeOK, WorkersOK, Offsets
    <3>4. CASE Aggregate(w)
      <4>1. Trace(w) \in Traces
        BY <3>4, TraceType DEF Aggregate, Write, At
      <4>2. WorkersOK'
        BY <3>4, GotoType DEF Aggregate, Write, At, Steps
      <4> QED  BY <3>4, <4>1, <4>2 DEF Aggregate, Write, AfterError, TypeOK, WorkersOK, Offsets
    <3>5. CASE Park(w)
      <4>1. Trace(w) \in Traces
        BY <3>5, TraceType DEF Park, Write, At
      <4>2. WorkersOK'
        BY <3>5, GotoType DEF Park, Write, At, Steps
      <4> QED  BY <3>5, <4>1, <4>2 DEF Park, Write, AfterError, TypeOK, WorkersOK, Offsets
    <3>6. CASE ClearDedup(w)
      <4>1. WorkersOK' /\ marker' \subseteq Traces
        BY <3>6, ClearType
      <4> QED  BY <3>6, <4>1 DEF ClearDedup, TypeOK, WorkersOK, Offsets
    <3>7. CASE Retry(w)
      <4>1. CASE Goto(w, "dedup") /\ attempt[w] < MaxRetries
                 /\ attempt' = [attempt EXCEPT ![w] = NextAttempt(@)] /\ UNCHANGED off
        BY <3>7, <4>1, BoundsAssumption
           DEF Retry, At, Goto, NextAttempt, TypeOK, Steps, Offsets
      <4>2. CASE Release(w)
        BY <3>7, <4>2, ReleaseType DEF Retry, TypeOK, WorkersOK, Offsets
      <4>3. CASE Goto(w, "dlq") /\ UNCHANGED <<off, attempt>>
        BY <3>7, <4>3, GotoType DEF Retry, At, TypeOK, WorkersOK, Steps, Offsets
      <4> QED  BY <3>7, <4>1, <4>2, <4>3 DEF Retry
    <3>8. CASE WriteDLQ(w)
      <4>1. WorkersOK'
        BY <3>8, GotoType, ReleaseType DEF WriteDLQ, At, Steps
      <4>2. off[w] \in Offsets
        BY <3>8 DEF WriteDLQ, At, TypeOK
      <4> QED  BY <3>8, <4>1, <4>2 DEF WriteDLQ, AfterError, TypeOK, WorkersOK, Offsets
    <3>9. CASE Commit(w)
      <4>1. WorkersOK'
        BY <3>9, ReleaseType DEF Commit
      <4> QED  BY <3>9, <4>1 DEF Commit, At, TypeOK, WorkersOK, Offsets
    <3> QED  BY <2>5, <3>1, <3>2, <3>3, <3>4, <3>5, <3>6, <3>7, <3>8, <3>9 DEF Work
  <2>6. ASSUME NEW t \in Traces, Drain(t)
        PROVE  TypeOK'
    BY <2>6 DEF Drain, DrainReplay, DrainReplayError, DrainDelete, DrainDeleteError,
                AfterError, kafka, stores, workers, TypeOK, Offsets
  <2>7. CASE UNCHANGED vars
    BY <2>7 DEF vars, kafka, stores, workers, drain, TypeOK, Offsets
  <2> QED  BY <2>1, <2>2, <2>3, <2>4, <2>5, <2>6, <2>7 DEF Next
<1> QED  BY <1>1, <1>2, PTL DEF Spec

-----------------------------------------------------------------------------
(* The ledger, whatever fails *)

\* Nothing is counted or parked that is not stored, and what the drain is about
\* to delete has been counted.
LedgerInv ==
  /\ counted \cup outbox \cup batch \subseteq events
  /\ replayed \subseteq counted
  /\ \A w \in Workers : pc[w] \in {"aggregate", "park"} => Trace(w) \in events

\* Nothing is ever taken back from the stores, the row of a counted scan apart.
LEMMA StoresGrow ==
  ASSUME TypeOK, LedgerInv, [Next]_vars
  PROVE  /\ events \subseteq events' /\ counted \subseteq counted'
         /\ outbox \ counted \subseteq outbox'
<1>1. ASSUME NEW w \in Workers, Work(w)
      PROVE  events \subseteq events' /\ counted \subseteq counted' /\ outbox \subseteq outbox'
  BY <1>1 DEF Work, Take, Dedup, Insert, Aggregate, Park, ClearDedup, Retry, WriteDLQ,
              Commit, Write, AfterError, stores
<1>2. ASSUME NEW t \in Traces, Drain(t)
      PROVE  /\ events \subseteq events' /\ counted \subseteq counted'
             /\ outbox \ counted \subseteq outbox'
  BY <1>2 DEF Drain, DrainReplay, DrainReplayError, DrainDelete, DrainDeleteError,
              AfterError, stores, LedgerInv
<1>3. CASE Environment
  BY <1>3 DEF Environment, Crash, Exit, Shutdown, Rebalance, MarkerExpires,
              RestartFromCommitted, stores
<1> QED  BY <1>1, <1>2, <1>3 DEF Next, Publish, Fetch, DrainList, vars, stores

\* Every action keeps what Handle owes the ledger between its writes.
LEMMA LedgerInductive ==
  ASSUME TypeOK, LedgerInv, [Next]_vars
  PROVE  LedgerInv'
<1> USE DEF LedgerInv
<1>1. CASE Publish
  <2>1. \A i \in Offsets : log'[i] = log[i]
    BY <1>1 DEF Publish, TypeOK, Offsets
  <2> QED  BY <1>1, <2>1 DEF Publish, stores, workers, drain, Trace, TypeOK
<1>2. CASE Fetch
  BY <1>2 DEF Fetch, stores, workers, drain, Trace
<1>3. CASE DrainList
  BY <1>3 DEF DrainList, kafka, stores, workers, Trace
<1>4. CASE Environment
  BY <1>4 DEF Environment, Crash, Exit, Shutdown, Rebalance, MarkerExpires,
              RestartFromCommitted, kafka, stores, workers, drain, Trace, TypeOK
<1>5. ASSUME NEW w \in Workers, Work(w)
      PROVE  LedgerInv'
  <2> USE DEF kafka, stores, drain, Goto, Release, Trace, At
  <2>1. CASE Take(w)
    BY <1>5, <2>1 DEF Take, FirstStep, TypeOK
  <2>2. CASE Dedup(w)
    BY <2>2 DEF Dedup, AfterDedup, TypeOK
  <2>3. CASE Insert(w)
    BY <2>3 DEF Insert, Write, AfterError, TypeOK
  <2>4. CASE Aggregate(w)
    <3>1. Trace(w) \in events
      BY <2>4 DEF Aggregate, Write
    <3>2. counted' \subseteq events /\ events' = events
      BY <2>4, <3>1 DEF Aggregate, Write, AfterError
    <3>3. replayed' \subseteq counted' /\ UNCHANGED <<batch, outbox>>
      BY <2>4 DEF Aggregate, Write, AfterError
    <3>4. \A v \in Workers : pc'[v] \in {"aggregate", "park"} => Trace(v)' \in events'
      BY <2>4, <3>1 DEF Aggregate, Write, TypeOK
    <3> QED  BY <3>2, <3>3, <3>4
  <2>5. CASE Park(w)
    <3>1. Trace(w) \in events /\ UNCHANGED <<log, off, events, counted, replayed, batch>>
      BY <2>5 DEF Park, Write
    <3>2. outbox' \subseteq outbox \cup {Trace(w)}
      BY <2>5 DEF Park, Write, AfterError
    <3>3. \A v \in Workers : pc'[v] \in {"aggregate", "park"} => pc'[v] = pc[v]
      BY <2>5 DEF Park, Write, TypeOK
    <3> QED  BY <3>1, <3>2, <3>3
  <2>6. CASE ClearDedup(w)
    BY <2>6 DEF ClearDedup, TypeOK
  <2>7. CASE Retry(w)
    BY <2>7 DEF Retry, TypeOK
  <2>8. CASE WriteDLQ(w)
    BY <2>8 DEF WriteDLQ, TypeOK
  <2>9. CASE Commit(w)
    BY <2>9 DEF Commit, TypeOK
  <2> QED  BY <1>5, <2>1, <2>2, <2>3, <2>4, <2>5, <2>6, <2>7, <2>8, <2>9 DEF Work
<1>6. ASSUME NEW t \in Traces, Drain(t)
      PROVE  LedgerInv'
  BY <1>6 DEF Drain, DrainReplay, DrainReplayError, DrainDelete, DrainDeleteError,
              AfterError, kafka, stores, workers, Trace
<1>7. CASE UNCHANGED vars
  BY <1>7 DEF vars, kafka, stores, workers, drain, Trace
<1> QED  BY <1>1, <1>2, <1>3, <1>4, <1>5, <1>6, <1>7 DEF Next

\* LedgerInv holds of every reachable state.
LEMMA LedgerAlways == Spec => []LedgerInv
<1>1. Init => LedgerInv
  BY DEF Init, LedgerInv
<1>2. TypeOK /\ LedgerInv /\ [Next]_vars => LedgerInv'
  BY LedgerInductive
<1> QED  BY <1>1, <1>2, TypeCorrect, PTL DEF Spec

\* A step that adds a scan to one store, or leaves the stores alone.
LEMMA WorkIsLedgerStep ==
  ASSUME TypeOK, LedgerInv, NEW w \in Workers, Work(w)
  PROVE  [Ledger!Next]_(Ledger!vars)
<1>1. CASE events' = events /\ counted' = counted /\ outbox' = outbox
  BY <1>1 DEF Ledger!vars
<1>2. CASE Insert(w)
  <2>1. Trace(w) \in Traces
    BY <1>2, TraceType DEF Insert, Write, At
  <2>2. CASE events' = events \cup {Trace(w)}
    <3>1. ASSUME NEW t \in Traces, t = Trace(w)
          PROVE  Ledger!Record(t)
      BY <1>2, <2>2, <3>1 DEF Insert, Ledger!Record
    <3> QED  BY <2>1, <3>1 DEF Ledger!Next
  <2> QED  BY <1>1, <1>2, <2>2 DEF Insert, Write, AfterError
<1>3. CASE Aggregate(w)
  <2>1. Trace(w) \in Traces /\ Trace(w) \in events
    BY <1>3, TraceType DEF Aggregate, Write, At, LedgerInv
  <2>2. CASE counted' = counted \cup {Trace(w)}
    <3>1. ASSUME NEW t \in Traces, t = Trace(w)
          PROVE  Ledger!Count(t)
      BY <1>3, <2>1, <2>2, <3>1 DEF Aggregate, Ledger!Count
    <3> QED  BY <2>1, <3>1 DEF Ledger!Next
  <2> QED  BY <1>1, <1>3, <2>2 DEF Aggregate, Write, AfterError
<1>4. CASE Park(w)
  <2>1. Trace(w) \in Traces /\ Trace(w) \in events
    BY <1>4, TraceType DEF Park, Write, At, LedgerInv
  <2>2. CASE outbox' = outbox \cup {Trace(w)}
    <3>1. ASSUME NEW t \in Traces, t = Trace(w)
          PROVE  Ledger!Owe(t)
      BY <1>4, <2>1, <2>2, <3>1 DEF Park, Ledger!Owe
    <3> QED  BY <2>1, <3>1 DEF Ledger!Next
  <2> QED  BY <1>1, <1>4, <2>2 DEF Park, Write, AfterError
<1>5. CASE Take(w) \/ Dedup(w) \/ ClearDedup(w) \/ Retry(w) \/ WriteDLQ(w) \/ Commit(w)
  BY <1>1, <1>5 DEF Take, Dedup, ClearDedup, Retry, WriteDLQ, Commit, stores
<1> QED  BY <1>2, <1>3, <1>4, <1>5 DEF Work

\* A step of the drain counts a scan, strikes one off, or changes nothing.
LEMMA DrainIsLedgerStep ==
  ASSUME TypeOK, LedgerInv, NEW t \in Traces, Drain(t)
  PROVE  [Ledger!Next]_(Ledger!vars)
<1>1. CASE events' = events /\ counted' = counted /\ outbox' = outbox
  BY <1>1 DEF Ledger!vars
<1>2. CASE t \in events /\ counted' = counted \cup {t} /\ UNCHANGED <<events, outbox>>
  BY <1>2 DEF Ledger!Next, Ledger!Count
<1>3. CASE t \in counted /\ outbox' = outbox \ {t} /\ UNCHANGED <<events, counted>>
  <2>1. CASE t \in outbox
    BY <1>3, <2>1 DEF Ledger!Next, Ledger!StrikeOff
  <2>2. CASE t \notin outbox
    BY <1>1, <1>3, <2>2
  <2> QED  BY <2>1, <2>2
<1> QED
  BY <1>1, <1>2, <1>3
     DEF Drain, DrainReplay, DrainReplayError, DrainDelete, DrainDeleteError, AfterError,
         stores, LedgerInv

\* The pipeline implements the ledger through every failure, crash and
\* redelivery: a ride is counted or parked only when its scan is stored, and a
\* parked row is deleted only when its ride is counted (Handle, DrainOutbox).
THEOREM PipelineImplementsLedger == Spec => ImplementsLedger
<1>1. Init => Ledger!Init
  BY DEF Init, Ledger!Init
<1>2. TypeOK /\ LedgerInv /\ [Next]_vars => [Ledger!Next]_(Ledger!vars)
  <2> SUFFICES ASSUME TypeOK, LedgerInv, [Next]_vars
               PROVE  [Ledger!Next]_(Ledger!vars)
    OBVIOUS
  <2>1. CASE UNCHANGED <<events, counted, outbox>>
    BY <2>1 DEF Ledger!vars
  <2>2. CASE Publish \/ Fetch \/ DrainList \/ Environment \/ UNCHANGED vars
    BY <2>1, <2>2
       DEF Publish, Fetch, DrainList, Environment, Crash, Exit, Shutdown, Rebalance,
           MarkerExpires, RestartFromCommitted, vars, stores
  <2>3. ASSUME NEW w \in Workers, Work(w)
        PROVE  [Ledger!Next]_(Ledger!vars)
    BY <2>3, WorkIsLedgerStep
  <2>4. ASSUME NEW t \in Traces, Drain(t)
        PROVE  [Ledger!Next]_(Ledger!vars)
    BY <2>4, DrainIsLedgerStep
  <2> QED  BY <2>2, <2>3, <2>4 DEF Next
<1> QED  BY <1>1, <1>2, TypeCorrect, LedgerAlways, PTL DEF Spec, ImplementsLedger, Ledger!Spec

-----------------------------------------------------------------------------
(* Exclusion in the handler, while no marker expires and no DEL is sent twice *)

\* A worker that is past the dedup check has its scan's marker.
ExclusionInv ==
  /\ HandlerExclusive
  /\ \A w \in Workers : pc[w] \in Holding => Trace(w) \in marker

\* Nobody enters the body of Handle and no marker is lost.
LEMMA ExclusionKept ==
  ASSUME ExclusionInv, marker \subseteq marker',
         \A v \in Workers : pc'[v] \in Holding => pc[v] \in Holding /\ Trace(v)' = Trace(v)
  PROVE  ExclusionInv'
BY DEF ExclusionInv, HandlerExclusive

\* A step of worker w on its own message cannot enter a body another is in.
LEMMA WorkExclusion ==
  ASSUME "reply" \notin Faults, TypeOK, ExclusionInv, NEW w \in Workers, Work(w)
  PROVE  ExclusionInv'
<1> USE DEF ExclusionInv, HandlerExclusive, Holding, kafka, stores, drain, Goto, Release,
            Trace, At, TypeOK
<1>1. CASE Take(w)
  BY <1>1 DEF Take, FirstStep
<1>2. CASE Dedup(w)
  <2>1. UNCHANGED <<log, off>> /\ marker \subseteq marker'
    BY <1>2 DEF Dedup, AfterError
  <2>2. \A v \in Workers : v # w => pc'[v] = pc[v]
    BY <1>2 DEF Dedup
  <2>3. CASE pc'[w] = "insert"
    <3>1. Trace(w) \notin marker /\ Trace(w) \in marker'
      BY <1>2, <2>3 DEF Dedup, AfterDedup
    <3>2. \A v \in Workers : v # w /\ pc[v] \in Holding => log[off[v]] # log[off[w]]
      BY <3>1
    <3> QED  BY <2>1, <2>2, <2>3, <3>1, <3>2
  <2>4. CASE pc'[w] # "insert"
    <3>1. pc'[w] \in {"failed", "commit"}
      BY <1>2, <2>4 DEF Dedup, AfterDedup
    <3> QED  BY <2>1, <2>2, <3>1
  <2> QED  BY <2>3, <2>4
<1>3. CASE Insert(w) \/ Aggregate(w) \/ Park(w)
  <2>1. pc[w] \in Holding /\ UNCHANGED <<log, off, marker>>
    BY <1>3 DEF Insert, Aggregate, Park, Write
  <2>2. \A v \in Workers : v # w => pc'[v] = pc[v]
    BY <1>3 DEF Insert, Aggregate, Park, Write
  <2> QED  BY <2>1, <2>2
<1>4. CASE ClearDedup(w)
  <2>1. \A v \in Workers : v # w /\ pc[v] \in Holding => Trace(v) # Trace(w)
    BY <1>4 DEF ClearDedup
  <2>2. marker \ {Trace(w)} \subseteq marker' /\ pc' = [pc EXCEPT ![w] = "failed"]
        /\ UNCHANGED <<log, off>>
    BY <1>4 DEF ClearDedup, Cleared
  <2> QED  BY <2>1, <2>2
<1>5. CASE Retry(w) \/ WriteDLQ(w) \/ Commit(w)
  <2>1. pc'[w] \notin Holding /\ UNCHANGED <<log, marker>>
    BY <1>5 DEF Retry, WriteDLQ, Commit
  <2>2. \A v \in Workers : v # w => pc'[v] = pc[v] /\ off'[v] = off[v]
    BY <1>5 DEF Retry, WriteDLQ, Commit
  <2>3. \A v \in Workers : pc'[v] \in Holding => pc[v] \in Holding /\ Trace(v)' = Trace(v)
    BY <2>1, <2>2
  <2> QED  BY <2>1, <2>3, ExclusionKept
<1> QED  BY <1>1, <1>2, <1>3, <1>4, <1>5 DEF Work

\* While no marker expires and no reply is lost, no two workers are ever in the body of
\* Handle with the same scan, whatever else fails and however many copies there are.  A
\* DEL whose reply was lost is sent again, and may by then delete another worker's marker.
THEOREM HandlerIsExclusive ==
  ASSUME "ttl" \notin Faults, "reply" \notin Faults
  PROVE  Spec => []HandlerExclusive
<1>1. Init => ExclusionInv
  BY DEF Init, ExclusionInv, HandlerExclusive, Holding
<1>2. TypeOK /\ ExclusionInv /\ [Next]_vars => ExclusionInv'
  <2> SUFFICES ASSUME TypeOK, ExclusionInv, [Next]_vars
               PROVE  ExclusionInv'
    OBVIOUS
  <2> USE DEF ExclusionInv, HandlerExclusive, Holding, Trace
  <2>1. CASE Publish
    <3>1. \A i \in Offsets : log'[i] = log[i]
      BY <2>1 DEF Publish, TypeOK, Offsets
    <3>2. \A w \in Workers : pc[w] \in Holding => Trace(w)' = Trace(w)
      BY <2>1, <3>1 DEF Publish, workers, TypeOK
    <3>3. UNCHANGED <<pc, marker>>
      BY <2>1 DEF Publish, stores, workers
    <3> QED  BY <3>2, <3>3, ExclusionKept
  <2>2. CASE Fetch \/ DrainList \/ UNCHANGED vars
    BY <2>2 DEF Fetch, DrainList, vars, kafka, stores, workers
  <2>3. CASE Environment
    BY <2>3 DEF Environment, Crash, Exit, Shutdown, Rebalance, MarkerExpires,
                RestartFromCommitted, kafka, stores, workers
  <2>4. ASSUME NEW w \in Workers, Work(w)
        PROVE  ExclusionInv'
    BY <2>4, WorkExclusion
  <2>5. ASSUME NEW t \in Traces, Drain(t)
        PROVE  ExclusionInv'
    BY <2>5 DEF Drain, DrainReplay, DrainReplayError, DrainDelete, DrainDeleteError,
                kafka, stores, workers
  <2> QED  BY <2>1, <2>2, <2>3, <2>4, <2>5 DEF Next
<1>3. ExclusionInv => HandlerExclusive
  BY DEF ExclusionInv
<1> QED  BY <1>1, <1>2, <1>3, TypeCorrect, PTL DEF Spec

-----------------------------------------------------------------------------
(* What has become of a message is never undone, whatever fails *)

\* Carrying the same scan is reflexive, symmetric and transitive.
LEMMA SameScanIsEquivalence ==
  ASSUME NEW o, NEW p, NEW q
  PROVE  /\ SameScan(o, o)
         /\ SameScan(o, p) => SameScan(p, o)
         /\ SameScan(o, p) /\ SameScan(p, q) => SameScan(o, q)
BY DEF SameScan

\* All copies of a scan are settled at once.
LEMMA SettledIsShared ==
  ASSUME NEW o, NEW p, SameScan(o, p), Settled(p)
  PROVE  Settled(o)
BY SameScanIsEquivalence DEF Settled

\* Messages are only appended, and dead letters stay.
LEMMA LogGrows ==
  ASSUME TypeOK, [Next]_vars
  PROVE  /\ dlq \subseteq dlq'
         /\ \A o \in Offsets : o \in Offsets' /\ log'[o] = log[o]
<1>1. CASE Publish
  BY <1>1 DEF Publish, TypeOK, Offsets
<1>2. ASSUME NEW w \in Workers, Work(w)
      PROVE  dlq \subseteq dlq' /\ log' = log
  BY <1>2 DEF Work, Take, Dedup, Insert, Aggregate, Park, ClearDedup, Retry, WriteDLQ,
              Commit, Write, AfterError, kafka
<1>3. ASSUME NEW t \in Traces, Drain(t)
      PROVE  dlq' = dlq /\ log' = log
  BY <1>3 DEF Drain, DrainReplay, DrainReplayError, DrainDelete, DrainDeleteError, kafka
<1>4. CASE Environment
  BY <1>4 DEF Environment, Crash, Exit, Shutdown, Rebalance, MarkerExpires,
              RestartFromCommitted, kafka, Offsets
<1> QED  BY <1>1, <1>2, <1>3, <1>4 DEF Next, Fetch, DrainList, vars, kafka, Offsets

\* What carries the same scan keeps carrying it.
LEMMA SameScanForever ==
  ASSUME TypeOK, [Next]_vars
  PROVE  \A o, p \in Offsets : SameScan(o, p) => SameScan(o, p)'
BY LogGrows DEF SameScan

\* A message once settled stays settled, through every failure and restart.
LEMMA SettledForever ==
  ASSUME TypeOK, LedgerInv, [Next]_vars
  PROVE  \A o \in Offsets : Settled(o) => Settled(o)'
<1> SUFFICES ASSUME NEW o \in Offsets, Settled(o)
             PROVE  Settled(o)'
  OBVIOUS
<1>1. PICK p \in Offsets : SameScan(o, p) /\ Finalised(p)
  BY DEF Settled
<1>2. p \in Offsets' /\ log'[p] = log[p] /\ SameScan(o, p)'
  BY <1>1, LogGrows, SameScanForever
<1>3. Finalised(p)'
  <2>1. CASE p \in dlq
    BY <2>1, LogGrows DEF Finalised
  <2>2. CASE log[p] \in events /\ log[p] \in counted \cup outbox
    BY <1>2, <2>2, StoresGrow DEF Finalised
  <2> QED  BY <1>1, <2>1, <2>2 DEF Finalised
<1> QED  BY <1>2, <1>3 DEF Settled

-----------------------------------------------------------------------------
(* The markers and the messages, under the failures that Handle's          *)
(* compensation is made for                                                *)

\* The compensation works: it does not fail itself, no reply is lost, and the process
\* does not die inside Handle.
Compensating == Faults \cap {"clear", "reply", "crash", "shutdown"} = {}

\* And the dead-letter topic takes what it is given.
Compensated ==
  Faults \subseteq {"redis", "pg", "commit", "ttl", "rebalance", "idlecrash"}

\* Message o is settled, or a worker that may not commit yet has its scan.
Covered(o) ==
  \/ Settled(o)
  \/ \E v \in Workers : pc[v] \notin {"idle", "commit"} /\ SameScan(o, off[v])

MarkerInv == ctx = "live" /\ MarkerBacked

\* MarkerBacked, and what a worker is about to commit is covered.
BackedInv ==
  /\ ctx = "live"
  /\ MarkerBacked
  /\ \A w \in Workers : pc[w] = "commit" => Covered(off[w])

\* A duplicate is covered by what its marker stands for.
LEMMA DuplicateIsCovered ==
  ASSUME TypeOK, BackedInv, NEW w \in Workers, pc[w] = "dedup", Trace(w) \in marker
  PROVE  \/ Settled(off[w])
         \/ \E v \in Workers : pc[v] \in Holding /\ SameScan(off[w], off[v])
<1>1. Trace(w) \in Traces /\ off[w] \in Offsets
  BY TraceType
<1>2. CASE \E o \in Offsets : log[o] = Trace(w) /\ Settled(o)
  <2>1. PICK o \in Offsets : SameScan(off[w], o) /\ Settled(o)
    BY <1>1, <1>2, PoisonAssumption DEF SameScan, Trace
  <2> QED  BY <2>1, SettledIsShared
<1>3. CASE \E v \in Workers : pc[v] \in Holding /\ Trace(v) = Trace(w)
  BY <1>1, <1>3, PoisonAssumption DEF SameScan, Trace
<1> QED  BY <1>2, <1>3 DEF BackedInv, MarkerBacked

\* A worker that finishes its calls for a message has settled it.
LEMMA DoneIsSettled ==
  ASSUME TypeOK, LedgerInv, NEW w \in Workers,
         Aggregate(w) \/ Park(w) \/ WriteDLQ(w), pc'[w] = "commit"
  PROVE  off[w] \in Offsets /\ Settled(off[w])'
<1> USE DEF Offsets
<1>1. off[w] \in Offsets /\ UNCHANGED <<log, off>>
  BY DEF Aggregate, Park, WriteDLQ, Write, At, TypeOK, Release, Goto, kafka
<1>2. Finalised(off[w])'
  <2>1. CASE Aggregate(w)
    BY <2>1, <1>1 DEF Aggregate, Write, At, Goto, TypeOK, LedgerInv, Trace, Finalised
  <2>2. CASE Park(w)
    BY <2>2, <1>1 DEF Park, Write, At, Goto, TypeOK, LedgerInv, Trace, Finalised
  <2>3. CASE WriteDLQ(w)
    BY <2>3, <1>1 DEF WriteDLQ, At, Goto, Release, TypeOK, Finalised
  <2> QED  BY <2>1, <2>2, <2>3
<1> QED  BY <1>1, <1>2 DEF Settled, SameScan

\* A worker's step concerns no other worker.
LEMMA OthersUntouched ==
  ASSUME TypeOK, NEW v \in Workers, NEW w \in Workers, Work(w), v # w
  PROVE  pc'[v] = pc[v] /\ off'[v] = off[v] /\ attempt'[v] = attempt[v]
<1>1. CASE Take(w) \/ Dedup(w) \/ ClearDedup(w)
  BY <1>1 DEF Take, Dedup, ClearDedup, Goto, TypeOK
<1>2. CASE Insert(w) \/ Aggregate(w) \/ Park(w)
  BY <1>2 DEF Insert, Aggregate, Park, Write, Goto, TypeOK
<1>3. CASE Retry(w) \/ WriteDLQ(w) \/ Commit(w)
  BY <1>3 DEF Retry, WriteDLQ, Commit, Goto, Release, TypeOK
<1> QED  BY <1>1, <1>2, <1>3 DEF Work

\* A worker leaves a message uncommitted and unfinished only by a failure that
\* Compensated excludes: what was covered stays covered.
LEMMA CoveredStable ==
  ASSUME TypeOK, LedgerInv, Compensated, BackedInv, [Next]_vars,
         ~Crash
  PROVE  \A o \in Offsets : Covered(o) => Covered(o)'
<1> SUFFICES ASSUME NEW o \in Offsets, Covered(o), ~Settled(o)
             PROVE  Covered(o)'
  BY SettledForever DEF Covered
<1>1. PICK v \in Workers : pc[v] \notin {"idle", "commit"} /\ SameScan(o, off[v])
  BY DEF Covered
<1>2. off[v] \in Offsets
  BY <1>1 DEF TypeOK
<1>3. CASE pc'[v] \notin {"idle", "commit"} /\ off'[v] = off[v]
  BY <1>1, <1>2, <1>3, SameScanForever DEF Covered
<1>4. CASE Dedup(v) /\ pc'[v] = "commit"
  <2>1. Trace(v) \in marker /\ pc[v] = "dedup"
    BY <1>4 DEF Dedup, At, Goto, AfterDedup, TypeOK, Compensated
  <2>2. CASE Settled(off[v])
    BY <1>1, <2>2, SettledIsShared
  <2>3. ASSUME NEW u \in Workers, pc[u] \in Holding, SameScan(off[v], off[u])
        PROVE  Covered(o)'
    <3>1. u # v /\ pc'[u] = pc[u] /\ off'[u] = off[u] /\ off[u] \in Offsets
      BY <1>4, <2>1, <2>3 DEF Dedup, Goto, Holding, TypeOK
    <3>2. SameScan(o, off[u])
      BY <1>1, <2>3, SameScanIsEquivalence
    <3> QED  BY <2>3, <3>1, <3>2, SameScanForever DEF Covered, Holding
  <2> QED  BY <2>1, <2>2, <2>3, DuplicateIsCovered
<1>5. CASE (Aggregate(v) \/ Park(v) \/ WriteDLQ(v)) /\ pc'[v] = "commit"
  <2>1. Settled(off[v])' /\ off'[v] = off[v]
    <3>1. off'[v] = off[v]
      BY <1>5 DEF Aggregate, Park, WriteDLQ, Write, Goto, Release, TypeOK
    <3> QED  BY <1>5, <3>1, DoneIsSettled
  <2>2. SameScan(o, off[v])'
    BY <1>1, <1>2, <2>1, SameScanForever
  <2> QED  BY <2>1, <2>2 DEF Covered, Settled, SameScan
<1>6. \/ pc'[v] \notin {"idle", "commit"} /\ off'[v] = off[v]
      \/ Dedup(v) /\ pc'[v] = "commit"
      \/ (Aggregate(v) \/ Park(v) \/ WriteDLQ(v)) /\ pc'[v] = "commit"
  <2>1. ASSUME NEW w \in Workers, Work(w), w # v
        PROVE  pc'[v] = pc[v] /\ off'[v] = off[v]
    BY <2>1, OthersUntouched
  <2>2. CASE Work(v)
    <3>1. CASE Dedup(v)
      BY <3>1 DEF Dedup, Goto, AfterDedup, TypeOK
    <3>2. CASE Aggregate(v) \/ Park(v)
      BY <3>2 DEF Aggregate, Park, Write, Goto, TypeOK
    <3>3. CASE Insert(v)
      BY <3>3 DEF Insert, Write, Goto, TypeOK
    <3>7. CASE ClearDedup(v)
      BY <3>7, ClearType
    <3>4. CASE Retry(v)
      BY <3>4 DEF Retry, Goto, TypeOK, BackedInv
    <3>5. CASE WriteDLQ(v)
      BY <3>5 DEF WriteDLQ, Goto, TypeOK, BackedInv, Fails, Compensated
    <3>6. ~Take(v) /\ ~Commit(v)
      BY <1>1 DEF Take, Commit, At
    <3> QED  BY <2>2, <3>1, <3>2, <3>3, <3>4, <3>5, <3>6, <3>7 DEF Work
  <2>3. CASE UNCHANGED <<pc, off>>
    BY <1>1, <2>3
  <2>4. ASSUME NEW t \in Traces, Drain(t)
        PROVE  UNCHANGED <<pc, off>>
    BY <2>4 DEF Drain, DrainReplay, DrainReplayError, DrainDelete, DrainDeleteError, workers
  <2>5. ASSUME Environment
        PROVE  UNCHANGED <<pc, off>>
    BY <2>5 DEF Environment, Exit, BackedInv, Shutdown, Rebalance, MarkerExpires, workers
  <2> QED
    BY <1>1, <2>1, <2>2, <2>3, <2>4, <2>5 DEF Next, Publish, Fetch, DrainList, vars, workers
<1> QED  BY <1>3, <1>4, <1>5, <1>6

\* Whoever holds a marker keeps it, settles its scan, or takes the marker back.
LEMMA MarkerBackedStep ==
  ASSUME TypeOK, LedgerInv, Compensating, MarkerInv, [Next]_vars
  PROVE  MarkerBacked'
<1> SUFFICES ASSUME NEW t \in marker'
             PROVE  \/ \E o \in Offsets' : log'[o] = t /\ Settled(o)'
                    \/ \E w \in Workers : pc'[w] \in Holding /\ Trace(w)' = t
  BY DEF MarkerBacked, Settled, Finalised, SameScan
<1>1. ASSUME NEW w \in Workers, Dedup(w), t \notin marker
      PROVE  pc'[w] \in Holding /\ Trace(w)' = t
  BY <1>1 DEF Dedup, AfterDedup, AfterError, Goto, Holding, Trace, At, TypeOK, Compensating,
              kafka
<1>2. CASE \E o \in Offsets : log[o] = t /\ Settled(o)
  BY <1>2, LogGrows, SettledForever
<1>3. ASSUME NEW v \in Workers, pc[v] \in Holding, Trace(v) = t
      PROVE  \/ \E o \in Offsets' : log'[o] = t /\ Settled(o)'
             \/ \E w \in Workers : pc'[w] \in Holding /\ Trace(w)' = t
  <2>1. off[v] \in Offsets /\ log'[off[v]] = log[off[v]] /\ off[v] \in Offsets'
    BY <1>3, LogGrows DEF TypeOK, Holding
  <2>2. CASE pc'[v] \in Holding /\ off'[v] = off[v]
    BY <1>3, <2>1, <2>2 DEF Trace
  <2>3. CASE (Aggregate(v) \/ Park(v)) /\ pc'[v] = "commit"
    <3>1. off'[v] = off[v] /\ Settled(off[v])'
      BY <2>3, DoneIsSettled DEF Aggregate, Park, Write
    <3>2. PICK o \in Offsets' : o = off[v] /\ o = off'[v]
      BY <2>1, <3>1
    <3>3. Settled(o)'
      BY <3>1, <3>2 DEF Settled, SameScan, Finalised
    <3> QED  BY <1>3, <2>1, <3>2, <3>3 DEF Trace
  <2>4. ~ClearDedup(v)
    BY <1>3 DEF ClearDedup, Cleared, MarkerInv, Compensating
  <2>5. CASE Work(v)
    <3>1. CASE Insert(v)
      BY <2>2, <3>1 DEF Insert, Write, Goto, Holding, TypeOK
    <3>2. CASE Aggregate(v) \/ Park(v)
      BY <2>2, <2>3, <3>2 DEF Aggregate, Park, Write, Goto, Holding, TypeOK
    <3>3. ~Take(v) /\ ~Dedup(v) /\ ~Retry(v) /\ ~WriteDLQ(v) /\ ~Commit(v)
      BY <1>3 DEF Take, Dedup, Retry, WriteDLQ, Commit, At, Holding
    <3> QED  BY <2>4, <2>5, <3>1, <3>2, <3>3 DEF Work
  <2>6. ASSUME NEW w \in Workers, Work(w), w # v
        PROVE  pc'[v] = pc[v] /\ off'[v] = off[v]
    BY <2>6, OthersUntouched
  <2>7. ASSUME Environment
        PROVE  UNCHANGED <<pc, off>>
    BY <1>3, <2>7
       DEF Environment, Crash, Exit, Shutdown, Rebalance, MarkerExpires, workers, MarkerInv,
           Compensating
  <2>8. ASSUME NEW u \in Traces, Drain(u)
        PROVE  UNCHANGED <<pc, off>>
    BY <2>8 DEF Drain, DrainReplay, DrainReplayError, DrainDelete, DrainDeleteError, workers
  <2> QED
    BY <1>3, <2>2, <2>5, <2>6, <2>7, <2>8 DEF Next, Publish, Fetch, DrainList, vars, workers
<1>4. CASE t \in marker
  BY <1>2, <1>3, <1>4 DEF MarkerInv, MarkerBacked
<1>5. CASE t \notin marker
  <2>1. \E w \in Workers : Dedup(w)
    <3>1. ASSUME NEW w \in Workers, Work(w)
          PROVE  Dedup(w) \/ marker' \subseteq marker
      BY <3>1 DEF Work, Take, Insert, Aggregate, Park, ClearDedup, Cleared, Retry, WriteDLQ,
                  Commit, Write, stores
    <3>2. ASSUME NEW u \in Traces, Drain(u)
          PROVE  marker' = marker
      BY <3>2 DEF Drain, DrainReplay, DrainReplayError, DrainDelete, DrainDeleteError, stores
    <3>3. CASE Environment
      BY <1>5, <3>3 DEF Environment, Crash, Exit, Shutdown, Rebalance, MarkerExpires,
                        RestartFromCommitted, stores
    <3> QED
      BY <1>5, <3>1, <3>2, <3>3 DEF Next, Publish, Fetch, DrainList, vars, stores
  <2> QED  BY <1>1, <1>5, <2>1
<1> QED  BY <1>4, <1>5

\* The compensation keeps markers backed, whatever happens to the dead letters.
LEMMA MarkersInductive ==
  ASSUME TypeOK, LedgerInv, Compensating, MarkerInv, [Next]_vars
  PROVE  MarkerInv'
<1>1. ctx' = "live"
  <2>1. ASSUME NEW w \in Workers, Work(w)
        PROVE  ctx' = ctx
    BY <2>1 DEF Work, Take, Dedup, Insert, Aggregate, Park, ClearDedup, Retry, WriteDLQ,
                Commit, Write
  <2>2. ASSUME NEW t \in Traces, Drain(t)
        PROVE  ctx' = ctx
    BY <2>2 DEF Drain, DrainReplay, DrainReplayError, DrainDelete, DrainDeleteError
  <2>3. CASE Environment
    BY <2>3 DEF Environment, Crash, Exit, Shutdown, Rebalance, MarkerExpires,
                RestartFromCommitted, MarkerInv, Compensating
  <2> QED
    BY <2>1, <2>2, <2>3 DEF Next, Publish, Fetch, DrainList, vars, MarkerInv
<1> QED  BY <1>1, MarkerBackedStep DEF MarkerInv

\* Every action of a compensated pipeline keeps markers backed.
LEMMA BackedInductive ==
  ASSUME TypeOK, LedgerInv, Compensated, BackedInv, [Next]_vars
  PROVE  BackedInv'
<1>1. ctx' = "live" /\ MarkerBacked'
  BY MarkersInductive DEF BackedInv, MarkerInv, Compensated, Compensating
<1>3. ASSUME NEW w \in Workers, pc'[w] = "commit"
      PROVE  Covered(off[w])'
  <2>1. ~Crash
    BY <1>3 DEF Crash, RestartFromCommitted
  <2>2. CASE pc[w] = "commit" /\ off'[w] = off[w]
    <3>1. PICK o \in Offsets : o = off[w] /\ Covered(o)
      BY <2>2 DEF BackedInv, TypeOK
    <3>2. Covered(o)'
      BY <2>1, <3>1, CoveredStable
    <3> QED  BY <2>2, <3>1, <3>2 DEF Covered, Settled, SameScan
  <2>3. CASE Dedup(w)
    <3>1. pc[w] = "dedup" /\ Trace(w) \in marker /\ off'[w] = off[w] /\ off[w] \in Offsets
      BY <1>3, <2>3 DEF Dedup, At, Goto, AfterDedup, TypeOK, Compensated
    <3>2. PICK o \in Offsets : o = off[w]
      BY <3>1
    <3>3. Covered(o)
      BY <3>1, <3>2, DuplicateIsCovered DEF Covered, Holding
    <3>4. Covered(o)'
      BY <2>1, <3>3, CoveredStable
    <3> QED  BY <3>1, <3>2, <3>4 DEF Covered, Settled, SameScan
  <2>4. CASE Aggregate(w) \/ Park(w) \/ WriteDLQ(w)
    BY <1>3, <2>4, DoneIsSettled DEF Covered
  <2>5. \/ pc[w] = "commit" /\ off'[w] = off[w]
        \/ Dedup(w) \/ Aggregate(w) \/ Park(w) \/ WriteDLQ(w)
    <3>1. CASE Work(w)
      <4>1. ~Take(w) /\ ~Insert(w) /\ ~Retry(w) /\ ~Commit(w)
        BY <1>3 DEF Take, FirstStep, Insert, Write, Retry, Commit, Goto, Release, TypeOK
      <4>2. ~ClearDedup(w)
        BY <1>3, ClearType
      <4> QED  BY <3>1, <4>1, <4>2 DEF Work
    <3>2. ASSUME NEW v \in Workers, Work(v), v # w
          PROVE  pc'[w] = pc[w] /\ off'[w] = off[w]
      BY <3>2, OthersUntouched
    <3>3. ASSUME Environment
          PROVE  UNCHANGED <<pc, off>>
      BY <2>1, <3>3 DEF Environment, Exit, BackedInv, Shutdown, Rebalance, MarkerExpires, workers
    <3>4. ASSUME NEW u \in Traces, Drain(u)
          PROVE  UNCHANGED <<pc, off>>
      BY <3>4 DEF Drain, DrainReplay, DrainReplayError, DrainDelete, DrainDeleteError, workers
    <3> QED
      BY <1>3, <3>1, <3>2, <3>3, <3>4 DEF Next, Publish, Fetch, DrainList, vars, workers
  <2> QED  BY <2>2, <2>3, <2>4, <2>5
<1> QED  BY <1>1, <1>3 DEF BackedInv

\* BackedInv holds of every reachable state of a compensated pipeline.
LEMMA BackedAlways ==
  ASSUME Compensated
  PROVE  Spec => []BackedInv
<1>1. Init => BackedInv
  BY DEF Init, BackedInv, MarkerBacked
<1>2. TypeOK /\ LedgerInv /\ BackedInv /\ [Next]_vars => BackedInv'
  BY BackedInductive
<1> QED  BY <1>1, <1>2, TypeCorrect, LedgerAlways, PTL DEF Spec

\* A dedup marker never hides a scan that is neither settled nor being handled,
\* as long as the compensation itself does not fail and the process does not die
\* inside Handle; an outage of the dead-letter topic does not matter.
THEOREM MarkersAreBacked ==
  ASSUME Compensating
  PROVE  Spec => []MarkerBacked
<1>1. Init => MarkerInv
  BY DEF Init, MarkerInv, MarkerBacked
<1>2. TypeOK /\ LedgerInv /\ MarkerInv /\ [Next]_vars => MarkerInv'
  BY MarkersInductive
<1>3. MarkerInv => MarkerBacked
  BY DEF MarkerInv
<1> QED  BY <1>1, <1>2, <1>3, TypeCorrect, LedgerAlways, PTL DEF Spec

-----------------------------------------------------------------------------
(* No message vanishes while the process lives *)

Accounted(o) == Settled(o) \/ \E p \in Offsets : SameScan(o, p) /\ InFlight(p)

\* A message in flight stays in flight, or its worker commits it.
LEMMA InFlightStable ==
  ASSUME TypeOK, Compensated, BackedInv, [Next]_vars, ~Crash,
         NEW p \in Offsets, InFlight(p)
  PROVE  InFlight(p)' \/ \E w \in Workers : Commit(w) /\ off[w] = p
<1>1. CASE /\ UNCHANGED <<pc, off>>
           /\ \A i \in DOMAIN msgCh : i \in DOMAIN msgCh' /\ msgCh'[i] = msgCh[i]
  BY <1>1 DEF InFlight
<1>2. ASSUME NEW w \in Workers, Work(w)
      PROVE  InFlight(p)' \/ \E v \in Workers : Commit(v) /\ off[v] = p
  <2>1. CASE Take(w)
    <3>1. ASSUME NEW i \in DOMAIN msgCh, msgCh[i] = p
          PROVE  InFlight(p)'
      <4>1. CASE i = 1
        <5>1. pc'[w] # "idle" /\ off'[w] = p
          BY <2>1, <3>1, <4>1 DEF Take, Goto, FirstStep, TypeOK
        <5> QED  BY <5>1 DEF InFlight
      <4>2. CASE i # 1
        <5>1. msgCh' = Tail(msgCh) /\ msgCh \in Seq(Offsets) /\ i \in 2 .. Len(msgCh)
          BY <2>1, <3>1, <4>2 DEF Take, TypeOK
        <5>2. i - 1 \in DOMAIN msgCh' /\ msgCh'[i - 1] = p
          BY <3>1, <5>1
        <5> QED  BY <5>2 DEF InFlight
      <4> QED  BY <4>1, <4>2
    <3>2. ASSUME NEW v \in Workers, pc[v] # "idle", off[v] = p
          PROVE  InFlight(p)'
      <4>1. v # w
        BY <2>1, <3>2 DEF Take, At
      <4>2. pc'[v] = pc[v] /\ off'[v] = off[v]
        BY <1>2, <4>1, OthersUntouched
      <4> QED  BY <3>2, <4>2 DEF InFlight
    <3> QED  BY <3>1, <3>2 DEF InFlight
  <2>2. CASE ~Take(w) /\ ~Commit(w)
    <3>1. msgCh' = msgCh /\ off' = off /\ pc'[w] # "idle"
      <4>1. CASE Retry(w) \/ WriteDLQ(w)
        BY <4>1 DEF Retry, WriteDLQ, Goto, Release, kafka, TypeOK, BackedInv, Fails, Compensated
      <4>2. CASE Dedup(w)
        BY <4>2 DEF Dedup, AfterDedup, Goto, kafka, TypeOK
      <4>4. CASE ClearDedup(w)
        BY <4>4, ClearType DEF kafka
      <4>3. CASE Insert(w) \/ Aggregate(w) \/ Park(w)
        BY <4>3 DEF Insert, Aggregate, Park, Write, Goto, kafka, TypeOK
      <4> QED  BY <1>2, <2>2, <4>1, <4>2, <4>3, <4>4 DEF Work
    <3>2. \A v \in Workers : pc[v] # "idle" => pc'[v] # "idle"
      BY <1>2, <3>1, OthersUntouched
    <3> QED  BY <3>1, <3>2 DEF InFlight
  <2>3. CASE Commit(w) /\ off[w] # p
    <3>1. msgCh' = msgCh /\ \A v \in Workers : v # w => pc'[v] = pc[v] /\ off'[v] = off[v]
      BY <1>2, <2>3, OthersUntouched DEF Commit
    <3> QED  BY <2>3, <3>1 DEF InFlight
  <2> QED  BY <2>1, <2>2, <2>3
<1>3. ASSUME NEW t \in Traces, Drain(t)
      PROVE  InFlight(p)'
  <2>1. UNCHANGED <<pc, off, msgCh>>
    BY <1>3 DEF Drain, DrainReplay, DrainReplayError, DrainDelete, DrainDeleteError,
                workers, kafka
  <2> QED  BY <2>1 DEF InFlight
<1>4. CASE Environment
  <2>1. UNCHANGED <<pc, off, msgCh>>
    BY <1>4 DEF Environment, Exit, BackedInv, Shutdown, Rebalance, MarkerExpires, workers,
                kafka
  <2> QED  BY <1>1, <2>1
<1>5. CASE Fetch
  BY <1>1, <1>5 DEF Fetch, workers, TypeOK
<1> QED
  BY <1>1, <1>2, <1>3, <1>4, <1>5 DEF Next, Publish, DrainList, vars, workers, kafka

\* A covered message is settled, or some copy of it is in flight.
LEMMA CoveredIsAccounted ==
  ASSUME TypeOK, NEW o, Covered(o)
  PROVE  Accounted(o)
BY DEF TypeOK, Covered, Accounted, InFlight

\* What is accounted for stays so, whatever a worker does to its copy.
LEMMA AccountedStable ==
  ASSUME TypeOK, TypeOK', LedgerInv, Compensated, BackedInv, [Next]_vars,
         ~Crash, NEW o \in Offsets, Accounted(o)
  PROVE  Accounted(o)'
<1>1. CASE Settled(o)
  BY <1>1, SettledForever DEF Accounted
<1>2. ASSUME NEW p \in Offsets, SameScan(o, p), InFlight(p)
      PROVE  Accounted(o)'
  <2>1. p \in Offsets' /\ SameScan(o, p)'
    BY <1>2, LogGrows, SameScanForever
  <2>2. CASE InFlight(p)'
    BY <2>1, <2>2 DEF Accounted
  <2>3. ASSUME NEW w \in Workers, Commit(w), off[w] = p
        PROVE  Accounted(o)'
    <3>1. Covered(p)
      BY <2>3 DEF Commit, At, BackedInv
    <3>2. Covered(o)
      BY <1>2, <3>1, SettledIsShared, SameScanIsEquivalence DEF Covered
    <3>3. Covered(o)'
      BY <3>2, CoveredStable
    <3>4. CASE Settled(o)'
      BY <3>4 DEF Accounted
    <3>5. ASSUME NEW v \in Workers, pc'[v] \notin {"idle", "commit"}, SameScan(o, off[v])'
          PROVE  Accounted(o)'
      BY <3>5 DEF TypeOK, Accounted, InFlight, SameScan
    <3> QED  BY <3>3, <3>4, <3>5 DEF Covered
  <2> QED  BY <1>2, <2>2, <2>3, InFlightStable
<1> QED  BY <1>1, <1>2 DEF Accounted

\* Message o has been fetched, at any time: the reader's position and the group's
\* offset may both go back.
Reached(o) ==
  \/ o <= fetched
  \/ o <= committed
  \/ \E p \in Offsets : o <= p /\ InFlight(p)

ReachedInv == \A o \in Offsets : Reached(o) => Accounted(o)

\* Only the fetch loop reaches a new message, and the next one.
LEMMA ReachedByFetch ==
  ASSUME TypeOK, TypeOK', [Next]_vars, NEW o \in Offsets', Reached(o)'
  PROVE  (o \in Offsets /\ Reached(o)) \/ (Fetch /\ o = fetched + 1)
<1>0. Len(log) \in Nat /\ Len(log') \in Nat /\ committed \in Nat /\ fetched \in Nat
  BY DEF TypeOK
<1>1. ASSUME Len(log') >= Len(log), fetched' \in {fetched, committed},
             committed' <= committed \/ \E p \in Offsets : committed' <= p /\ InFlight(p),
             \A p \in Offsets' : InFlight(p)' => p \in Offsets /\ InFlight(p)
      PROVE  o \in Offsets /\ Reached(o)
  <2>1. CASE o <= fetched'
    BY <1>1, <2>1 DEF TypeOK, Offsets, Reached
  <2>2. CASE o <= committed'
    BY <1>1, <2>2 DEF TypeOK, Offsets, Reached
  <2>3. ASSUME NEW p \in Offsets', o <= p, InFlight(p)'
        PROVE  o \in Offsets /\ Reached(o)
    BY <1>1, <2>3 DEF TypeOK, Offsets, Reached
  <2> QED  BY <2>1, <2>2, <2>3 DEF Reached
<1>2. CASE Publish
  <2>1. Len(log') = Len(log) + 1 /\ UNCHANGED <<fetched, committed, msgCh, pc, off>>
    BY <1>2 DEF Publish, workers, TypeOK
  <2>2. \A p \in Offsets' : InFlight(p)' => p \in Offsets /\ InFlight(p)
    BY <2>1 DEF InFlight, TypeOK
  <2> QED  BY <1>0, <1>1, <2>1, <2>2
<1>3. CASE Fetch
  <2>1. \A p \in Offsets' : InFlight(p)' => InFlight(p) \/ p = fetched + 1
    BY <1>3 DEF Fetch, workers, InFlight, TypeOK
  <2>2. o \in Offsets /\ fetched' = fetched + 1 /\ committed' = committed /\ log' = log
    BY <1>3 DEF Fetch, Offsets
  <2>3. CASE o <= fetched' \/ o <= committed'
    BY <1>0, <1>3, <2>2, <2>3 DEF Reached, Offsets
  <2>4. ASSUME NEW p \in Offsets, o <= p, InFlight(p)'
        PROVE  (o \in Offsets /\ Reached(o)) \/ (Fetch /\ o = fetched + 1)
    BY <1>0, <1>3, <2>1, <2>2, <2>4 DEF Reached, Offsets
  <2> QED  BY <2>2, <2>3, <2>4 DEF Reached, Offsets
<1>4. ASSUME NEW w \in Workers, Work(w)
      PROVE  o \in Offsets /\ Reached(o)
  <2>1. UNCHANGED <<log, fetched>>
    BY <1>4 DEF Work, Take, Dedup, Insert, Aggregate, Park, ClearDedup, Retry, WriteDLQ,
                Commit, Write, kafka
  <2>2. \/ committed' = committed
        \/ committed' = off[w] /\ off[w] \in Offsets /\ InFlight(off[w])
    BY <1>4 DEF Work, Take, Dedup, Insert, Aggregate, Park, ClearDedup, Retry, WriteDLQ,
                Commit, Write, kafka, At, TypeOK, InFlight
  <2>3. \A p \in Offsets : InFlight(p)' => InFlight(p)
    <3>1. CASE Take(w)
      <4>1. Head(msgCh) = msgCh[1] /\ 1 \in DOMAIN msgCh
            /\ \A i \in DOMAIN msgCh' : i + 1 \in DOMAIN msgCh /\ msgCh'[i] = msgCh[i + 1]
        BY <3>1 DEF Take, TypeOK
      <4>2. off'[w] = Head(msgCh)
        BY <3>1 DEF Take, TypeOK
      <4> QED  BY <1>4, <4>1, <4>2, OthersUntouched DEF InFlight
    <3>2. CASE ~Take(w)
      <4>1. msgCh' = msgCh /\ (pc'[w] # "idle" => pc[w] # "idle" /\ off'[w] = off[w])
        <5>1. CASE Retry(w) \/ WriteDLQ(w) \/ Commit(w)
          BY <5>1 DEF Retry, WriteDLQ, Commit, At, Goto, Release, kafka, TypeOK
        <5>2. CASE Dedup(w) \/ ClearDedup(w)
          BY <5>2 DEF Dedup, ClearDedup, At, kafka
        <5>3. CASE Insert(w) \/ Aggregate(w) \/ Park(w)
          BY <5>3 DEF Insert, Aggregate, Park, Write, At, kafka
        <5> QED  BY <1>4, <3>2, <5>1, <5>2, <5>3 DEF Work
      <4> QED  BY <1>4, <4>1, OthersUntouched DEF InFlight
    <3> QED  BY <3>1, <3>2
  <2> QED  BY <1>0, <1>1, <2>1, <2>2, <2>3 DEF Offsets
<1>5. ASSUME NEW t \in Traces, Drain(t)
      PROVE  o \in Offsets /\ Reached(o)
  <2>1. UNCHANGED <<kafka, workers>>
    BY <1>5 DEF Drain, DrainReplay, DrainReplayError, DrainDelete, DrainDeleteError
  <2> QED  BY <1>0, <1>1, <2>1 DEF kafka, workers, InFlight, Offsets
<1>6. CASE Environment
  <2>1. UNCHANGED <<log, committed>> /\ fetched' \in {fetched, committed}
    BY <1>6 DEF Environment, Crash, Exit, Shutdown, Rebalance, MarkerExpires,
                RestartFromCommitted, kafka
  <2>2. \/ UNCHANGED <<msgCh, pc, off>>
        \/ msgCh' = <<>> /\ \A w \in Workers : pc'[w] = "idle"
    <3>1. CASE RestartFromCommitted
      BY <3>1 DEF RestartFromCommitted
    <3> QED
      BY <1>6, <3>1 DEF Environment, Crash, Exit, Shutdown, Rebalance, MarkerExpires, kafka,
                        workers
  <2>3. \A p \in Offsets' : InFlight(p)' => p \in Offsets /\ InFlight(p)
    BY <2>1, <2>2 DEF InFlight, Offsets
  <2> QED  BY <1>0, <1>1, <2>1, <2>3
<1>7. CASE DrainList \/ UNCHANGED vars
  <2>1. UNCHANGED <<kafka, workers>>
    BY <1>7 DEF DrainList, vars
  <2> QED  BY <1>0, <1>1, <2>1 DEF kafka, workers, InFlight, Offsets
<1> QED  BY <1>2, <1>3, <1>4, <1>5, <1>6, <1>7 DEF Next

\* ReachedInv holds of every reachable state, as long as the process lives.
LEMMA ReachedAlways ==
  ASSUME Compensated, "idlecrash" \notin Faults
  PROVE  Spec => []ReachedInv
<1>1. Init => ReachedInv
  BY DEF Init, ReachedInv, Offsets
<1>2. TypeOK /\ TypeOK' /\ LedgerInv /\ BackedInv /\ ReachedInv /\ [Next]_vars => ReachedInv'
  <2> SUFFICES ASSUME TypeOK, TypeOK', LedgerInv, BackedInv, ReachedInv, [Next]_vars,
                      NEW o \in Offsets', Reached(o)'
               PROVE  Accounted(o)'
    BY DEF ReachedInv
  <2>1. ~Crash
    BY DEF Crash, Compensated
  <2>2. CASE o \in Offsets /\ Reached(o)
    BY <2>1, <2>2, AccountedStable DEF ReachedInv
  <2>3. CASE Fetch /\ o = fetched + 1
    <3>1. Len(msgCh) + 1 \in DOMAIN msgCh' /\ msgCh'[Len(msgCh) + 1] = o
      BY <2>3 DEF Fetch, TypeOK
    <3> QED  BY <3>1 DEF Accounted, InFlight, SameScan
  <2> QED  BY <2>2, <2>3, ReachedByFetch
<1> QED  BY <1>1, <1>2, TypeCorrect, LedgerAlways, BackedAlways, PTL DEF Spec

\* Whatever the number of workers, a message that was fetched is settled or still
\* in somebody's hands, as long as the process lives and the compensation and the
\* dead-letter topic do not fail (Handle's reliability contract).
THEOREM NothingEverVanishes ==
  ASSUME Compensated, "idlecrash" \notin Faults
  PROVE  Spec => []NothingVanishes
<1>1. TypeOK /\ ReachedInv => NothingVanishes
  <2> SUFFICES ASSUME TypeOK, ReachedInv, NEW o \in 1 .. fetched
               PROVE  Settled(o) \/ \E p \in Offsets : SameScan(o, p) /\ InFlight(p)
    BY DEF NothingVanishes
  <2>1. o \in Offsets /\ o <= fetched
    BY DEF TypeOK, Offsets
  <2> QED  BY <2>1 DEF ReachedInv, Reached, Accounted
<1> QED  BY <1>1, ReachedAlways, TypeCorrect, PTL

-----------------------------------------------------------------------------
(* Commits that overtake one another *)

\* The group's offset may be moved past a message that is not settled, by a worker that
\* was faster with a later one, but never past one that is nobody's any more ...
CommittedIsAccounted == \A o \in 1 .. committed : Accounted(o)

\* ... and once the pool has nothing left to do, all that is committed is settled.
Drained == msgCh = <<>> /\ \A w \in Workers : pc[w] = "idle"
DrainedIsSettled == Drained => CommittedIsSettled

\* With any number of workers, a commit that overtakes others loses nothing while the
\* process lives and the compensation and the dead-letter topic do not fail: what is
\* behind the group's offset is settled or in somebody's hands, and settled when the pool
\* has come to rest (processAndCommit, Run).
THEOREM OvertakenIsNotLost ==
  ASSUME Compensated, "idlecrash" \notin Faults
  PROVE  Spec => [](CommittedIsAccounted /\ DrainedIsSettled)
<1>1. TypeOK /\ ReachedInv => CommittedIsAccounted
  <2> SUFFICES ASSUME TypeOK, ReachedInv, NEW o \in 1 .. committed
               PROVE  Accounted(o)
    BY DEF CommittedIsAccounted
  <2>1. o \in Offsets /\ o <= committed
    BY DEF TypeOK, Offsets
  <2> QED  BY <2>1 DEF ReachedInv, Reached
<1>2. CommittedIsAccounted => DrainedIsSettled
  <2> SUFFICES ASSUME Drained, NEW o \in 1 .. committed, Accounted(o)
               PROVE  Settled(o)
    BY DEF CommittedIsAccounted, DrainedIsSettled, CommittedIsSettled
  <2>1. \A p \in Offsets : ~InFlight(p)
    BY DEF Drained, InFlight
  <2> QED  BY <2>1 DEF Accounted
<1> QED  BY <1>1, <1>2, ReachedAlways, TypeCorrect, PTL

-----------------------------------------------------------------------------
\* Through every failure, crash and redelivery no ride is counted or owed without its row
\* in scan_events, no row and no counted ride goes away again, and a debt leaves the
\* outbox only when its ride is in the set of the day (Handle, DrainOutbox).
THEOREM DebtsAreKept == Spec => Ledger!NothingIsLost /\ []Ledger!OnlyRecorded
<1>1. Ledger!Init => Ledger!OnlyRecorded
  BY DEF Ledger!Init, Ledger!OnlyRecorded
<1>2. Ledger!OnlyRecorded /\ [Ledger!Next]_(Ledger!vars) => Ledger!OnlyRecorded'
  BY DEF Ledger!OnlyRecorded, Ledger!Next, Ledger!Record, Ledger!Count, Ledger!Owe,
     Ledger!StrikeOff, Ledger!vars
<1>3. [Ledger!Next]_(Ledger!vars) => [Ledger!Keeps]_(Ledger!vars)
  BY DEF Ledger!Next, Ledger!Record, Ledger!Count, Ledger!Owe, Ledger!StrikeOff, Ledger!Keeps
<1> QED  BY <1>1, <1>2, <1>3, PipelineImplementsLedger, PTL
         DEF ImplementsLedger, Ledger!Spec, Ledger!NothingIsLost
-----------------------------------------------------------------------------
(* A worker's progress *)

\* How far along an attempt a step is.
StepRank == [s \in Steps |-> CASE s = "idle" -> 0 [] s = "dedup" -> 1 [] s = "insert" -> 2
                              [] s = "aggregate" -> 3 [] s = "park" -> 4 [] s = "clear" -> 5
                              [] s = "failed" -> 6 [] s = "dlq" -> 7 [] s = "commit" -> 8]

\* Worker w has gone on with its message: to a later call of the attempt, or to the
\* next attempt.
Onward(w) ==
  \/ StepRank[pc'[w]] > StepRank[pc[w]] /\ attempt'[w] = attempt[w]
  \/ attempt'[w] = attempt[w] + 1

Stands(w) == UNCHANGED <<pc[w], off[w], attempt[w]>>

\* A worker that keeps its message gets closer to the end of it with every call, and
\* nothing but its own calls moves it: attempts are bounded (TypeOK) and so are the
\* calls of one, and no duplicate, retry or other worker sends it back
\* (processAndCommit, Handle).  A DEL that is sent again leaves it where it is.
WorkersAdvance ==
  [][\A w \in Workers :
       pc[w] # "idle" /\ pc'[w] # "idle" => Stands(w) \/ (off'[w] = off[w] /\ Onward(w))]_vars

LEMMA StepRanks ==
  /\ StepRank["dedup"] = 1 /\ StepRank["insert"] = 2 /\ StepRank["aggregate"] = 3
  /\ StepRank["park"] = 4 /\ StepRank["clear"] = 5 /\ StepRank["failed"] = 6
  /\ StepRank["dlq"] = 7 /\ StepRank["commit"] = 8
BY DEF StepRank, Steps

\* A call of the worker's own that leaves it with a message.
LEMMA CallsGoOn ==
  ASSUME TypeOK, NEW w \in Workers, Work(w), pc[w] # "idle", pc'[w] # "idle"
  PROVE  Stands(w) \/ (off'[w] = off[w] /\ Onward(w))
<1> DEFINE To(s) == pc'[w] = s /\ attempt'[w] = attempt[w]
<1>1. ~Take(w)
  BY DEF Take, At
<1>2. ~Release(w)
  BY DEF Release, Goto, TypeOK
<1>3. \A s \in Steps : Goto(w, s) /\ UNCHANGED <<off, attempt>> => To(s) /\ off'[w] = off[w]
  BY DEF Goto, TypeOK
<1>4. ASSUME NEW s \in Steps, To(s), StepRank[s] > StepRank[pc[w]]
      PROVE  Onward(w)
  BY <1>4 DEF Onward
<1> HIDE DEF To
<1>5. CASE Dedup(w)
  <2>1. (To("commit") \/ To("insert") \/ To("failed")) /\ off'[w] = off[w]
    BY <1>3, <1>5 DEF Dedup, AfterDedup, Steps
  <2> QED  BY <1>4, <1>5, <2>1, StepRanks DEF Dedup, At, Steps
<1>6. CASE Insert(w)
  <2>1. (To("aggregate") \/ To("clear")) /\ off'[w] = off[w]
    BY <1>3, <1>6 DEF Insert, Write, Steps
  <2> QED  BY <1>4, <1>6, <2>1, StepRanks DEF Insert, Write, At, Steps
<1>7. CASE Aggregate(w)
  <2>1. (To("commit") \/ To("park")) /\ off'[w] = off[w]
    BY <1>3, <1>7 DEF Aggregate, Write, Steps
  <2> QED  BY <1>4, <1>7, <2>1, StepRanks DEF Aggregate, Write, At, Steps
<1>8. CASE Park(w)
  <2>1. (To("commit") \/ To("clear")) /\ off'[w] = off[w]
    BY <1>3, <1>8 DEF Park, Write, Steps
  <2> QED  BY <1>4, <1>8, <2>1, StepRanks DEF Park, Write, At, Steps
<1>9. CASE ClearDedup(w)
  <2>1. CASE UNCHANGED pc
    BY <1>9, <2>1 DEF ClearDedup, Stands
  <2>2. CASE Goto(w, "failed")
    <3>1. To("failed") /\ off'[w] = off[w]
      BY <1>3, <1>9, <2>2 DEF ClearDedup, Steps
    <3> QED  BY <1>4, <1>9, <3>1, StepRanks DEF ClearDedup, At, Steps
  <2> QED  BY <1>9, <2>1, <2>2 DEF ClearDedup
<1>10. CASE Retry(w)
  <2>1. CASE attempt' = [attempt EXCEPT ![w] = NextAttempt(@)] /\ UNCHANGED off
    BY <2>1 DEF Onward, NextAttempt, TypeOK
  <2>2. CASE Goto(w, "dlq") /\ UNCHANGED <<off, attempt>>
    <3>1. To("dlq") /\ off'[w] = off[w]
      BY <1>3, <2>2 DEF Steps
    <3> QED  BY <1>4, <1>10, <3>1, StepRanks DEF Retry, At, Steps
  <2> QED  BY <1>2, <1>10, <2>1, <2>2 DEF Retry
<1>11. CASE WriteDLQ(w)
  <2>1. To("commit") /\ off'[w] = off[w]
    BY <1>2, <1>3, <1>11 DEF WriteDLQ, Steps
  <2> QED  BY <1>4, <1>11, <2>1, StepRanks DEF WriteDLQ, At, Steps
<1>12. ~Commit(w)
  BY <1>2 DEF Commit
<1> QED  BY <1>1, <1>5, <1>6, <1>7, <1>8, <1>9, <1>10, <1>11, <1>12 DEF Work

\* No message keeps a worker forever, for any number of workers and of retries: each of
\* its calls brings it closer to the end, whatever fails and whatever the others do.
THEOREM WorkersMakeProgress == Spec => WorkersAdvance
<1>1. ASSUME TypeOK, [Next]_vars, ~UNCHANGED vars, NEW w \in Workers,
             pc[w] # "idle", pc'[w] # "idle"
      PROVE  Stands(w) \/ (off'[w] = off[w] /\ Onward(w))
  <2>1. CASE Work(w)
    BY <1>1, <2>1, CallsGoOn
  <2>2. ASSUME NEW v \in Workers, v # w, Work(v)
        PROVE  Stands(w)
    BY <1>1, <2>2, OthersUntouched DEF Stands
  <2>3. ~RestartFromCommitted
    BY <1>1 DEF RestartFromCommitted
  <2>4. ASSUME UNCHANGED workers
        PROVE  Stands(w)
    BY <2>4 DEF workers, Stands
  <2>5. CASE Publish \/ Fetch \/ DrainList
    BY <2>4, <2>5 DEF Publish, Fetch, DrainList
  <2>6. CASE Environment
    BY <2>3, <2>4, <2>6 DEF Environment, Crash, Exit, Shutdown, Rebalance, MarkerExpires
  <2>7. ASSUME NEW t \in Traces, Drain(t)
        PROVE  Stands(w)
    BY <2>4, <2>7 DEF Drain, DrainReplay, DrainReplayError, DrainDelete, DrainDeleteError
  <2> QED  BY <1>1, <2>1, <2>2, <2>5, <2>6, <2>7 DEF Next
<1>2. TypeOK /\ [Next]_vars =>
        [\A w \in Workers : pc[w] # "idle" /\ pc'[w] # "idle" =>
           Stands(w) \/ (off'[w] = off[w] /\ Onward(w))]_vars
  BY <1>1
<1> QED  BY <1>2, TypeCorrect, PTL DEF Spec, WorkersAdvance
=============================================================================
