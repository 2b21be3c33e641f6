----------------------------- MODULE SuiClient -----------------------------
(***************************************************************************)
(* sui.Client: MintBatchAttendance, TransferNFT and TransferSuiProbe build *)
(* a transaction by one RPC and execute it by another, each under a permit *)
(* of a semaphore.  An error that looks like throttling is retried from    *)
(* the build on after a pause; every other error is returned.              *)
(***************************************************************************)
EXTENDS MinterCalls, Naturals

CONSTANTS
  RPCMaxConcurrency,    \* SUI_RPC_MAX_CONCURRENCY
  MaxAttempts           \* 5 in the code

ASSUME ClientAssumption == RPCMaxConcurrency \in Nat /\ MaxAttempts \in Nat \ {0}

\* NewClient
Limit == IF RPCMaxConcurrency < 1 THEN 1 ELSE RPCMaxConcurrency

VARIABLES
  permits,              \* permits taken from the channel
  rpc,                  \* per call: where it is
  attempt,              \* per call: attempts that were throttled
  answer,               \* per call: what the client returned
  executed              \* per call: transactions of it that took effect

clientVars == <<permits, rpc, attempt, answer, executed>>

Waiting == {"waitBuild", "waitExecute"}
Flying == {"build", "execute"}

ClientTypeOK ==
  /\ permits \in 0 .. Limit
  /\ rpc \in [Calls -> {"out", "backoff"} \cup Waiting \cup Flying]
  /\ attempt \in [Calls -> 0 .. MaxAttempts - 1]
  /\ answer \in [Calls -> {"none", "digest", "error"}]
  /\ executed \in [Calls -> Nat]

ClientInit ==
  /\ permits = 0
  /\ rpc = [c \in Calls |-> "out"]
  /\ attempt = [c \in Calls |-> 0]
  /\ answer = [c \in Calls |-> "none"]
  /\ executed = [c \in Calls |-> 0]

-----------------------------------------------------------------------------
\* MintBatchAttendance, TransferNFT or TransferSuiProbe is called.
Begin(c) ==
  /\ rpc[c] = "out"
  /\ rpc' = [rpc EXCEPT ![c] = "waitBuild"]
  /\ attempt' = [attempt EXCEPT ![c] = 0]
  /\ answer' = [answer EXCEPT ![c] = "none"]
  /\ executed' = [executed EXCEPT ![c] = 0]
  /\ UNCHANGED permits

\* The client returns.
Answer(c, a) ==
  /\ rpc' = [rpc EXCEPT ![c] = "out"]
  /\ answer' = [answer EXCEPT ![c] = a]
  /\ UNCHANGED attempt

\* The call is through with the client.
LeaveClient(c) ==
  /\ rpc[c] = "out"
  /\ attempt' = [attempt EXCEPT ![c] = 0]
  /\ answer' = [answer EXCEPT ![c] = "none"]
  /\ executed' = [executed EXCEPT ![c] = 0]
  /\ UNCHANGED <<permits, rpc>>

Move(c, step) ==
  /\ rpc' = [rpc EXCEPT ![c] = step]
  /\ UNCHANGED <<attempt, answer>>

Acquire(c) ==
  /\ rpc[c] \in Waiting
  /\ permits < Limit
  /\ permits' = permits + 1
  /\ Move(c, IF rpc[c] = "waitBuild" THEN "build" ELSE "execute")
  /\ UNCHANGED executed

\* isThrottled
LooksThrottled(o) == o \in {"throttle", "echo"}

\* What follows an RPC with outcome o.  Mutant: every error is retried.
FollowRetryAll(c, o, next) ==
  \/ o = "ok" /\ next
  \/ o # "ok" /\ Move(c, "backoff")

Follow(c, o, next) ==
  \/ o \in {"ok", "abort"} /\ next
  \/ LooksThrottled(o) /\ Move(c, "backoff")
  \/ o \notin {"ok", "abort"} /\ ~LooksThrottled(o) /\ Answer(c, "error")

\* The permit goes back before the error is looked at.  Mutant: it goes back on success.
ReleaseOnSuccess(o) == permits' = IF o = "ok" THEN permits - 1 ELSE permits
Release(o) == permits' = permits - 1

\* MoveCall, TransferObject or TransferSui
Build(c) ==
  /\ rpc[c] = "build"
  /\ \E o \in {"ok"} \cup (Faults \cap {"throttle", "fail"}) :
       Release(o) /\ Follow(c, o, Move(c, "waitExecute"))
  /\ UNCHANGED executed

\* What may come of a transaction; the chain refuses one that is not valid.
Outcomes(valid) ==
  (Faults \cap {"throttle", "fail"})
    \cup IF valid THEN {"ok"} \cup (Faults \cap {"echo", "lost", "abort"}) ELSE {"invalid"}

\* SignAndExecuteTransactionBlock
Execute(c, valid) ==
  /\ rpc[c] = "execute"
  /\ \E o \in Outcomes(valid) :
       /\ Release(o)
       /\ Follow(c, o, Answer(c, "digest"))
       /\ executed' = [executed EXCEPT ![c] = IF o \in {"ok", "echo", "lost"} THEN @ + 1 ELSE @]

\* The pause is over.  Mutant: the attempt is not counted.
CountedNot(c) == attempt[c]
Counted(c) == attempt[c] + 1

Backoff(c) ==
  /\ rpc[c] = "backoff"
  /\ \/ Counted(c) = MaxAttempts /\ Answer(c, "error")
     \/ /\ Counted(c) < MaxAttempts
        /\ rpc' = [rpc EXCEPT ![c] = "waitBuild"]
        /\ attempt' = [attempt EXCEPT ![c] = Counted(c)]
        /\ UNCHANGED answer
  /\ UNCHANGED <<permits, executed>>

\* ctx.Done() while waiting for a permit or pausing
Cancel(c) ==
  /\ "gone" \in Faults
  /\ rpc[c] \in Waiting \cup {"backoff"}
  /\ Answer(c, "error")
  /\ UNCHANGED <<permits, executed>>

-----------------------------------------------------------------------------
\* However attempts fail, are throttled or cancelled, a permit is taken exactly
\* while its RPC is in flight: never more than the limit are, and none is lost ("N mints
\* never exceed SUI_RPC_MAX_CONCURRENCY in-flight calls", client.go:69-70).
PermitsAreInFlight ==
  /\ permits = Cardinality({c \in Calls : rpc[c] \in Flying})
  /\ permits <= Limit

\* A call executes one transaction at most, over all its attempts, and returns a digest
\* only for one it has executed.  "echo" and "abort" are the errors the client
\* cannot tell apart.
OneTransaction ==
  {"echo", "abort"} \cap Faults = {} =>
    \A c \in Calls :
      /\ executed[c] <= 1
      /\ answer[c] = "digest" => executed[c] = 1
=============================================================================
