--------------------------- MODULE MinterBackend ---------------------------
(***************************************************************************)
(* The handlers of the minter and of the demo over what they share in      *)
(* their process: the metadata cache and the Sui client.  A mint           *)
(* (BatchMint.mintOne) asks the cache for its rides one by one, then mints *)
(* by one transaction; a claim of custody transfers its NFTs one by one    *)
(* and flips the participant; a probe sends a coin.  The minter has no     *)
(* probes and the demo no claims: what either does is among what the one   *)
(* process here does.  mint_logs is in MintDay, the voucher service's      *)
(* participants are in VoucherDesk.                                        *)
(***************************************************************************)
EXTENDS CIDCache, SuiClient, CustodyClaim

CONSTANT Mints          \* what mints may be asked: rides of a day

ASSUME MintsAssumption == Mints \subseteq [rides : (SUBSET Rides) \ {{}}, date : Dates]

VARIABLES
  job,                  \* per call: what it is doing
  left                  \* per call: rides to ask for, or NFTs to transfer

vars == <<cacheVars, clientVars, custodyVars, job, left>>

Jobs == {"none", "pin", "coins", "send", "read", "flip"}

\* A call is in the cache or in the client only while its job is there, and what is left
\* to do is of the kind its job needs.
Placed(c) ==
  /\ job[c] = "pin" => left[c] \subseteq Rides /\ date[c] \in Dates
  /\ job[c] = "send" => left[c] \subseteq Objects
  /\ job[c] \notin {"pin", "send"} => left[c] = {}
  /\ job[c] # "pin" => at[c] = "out"
  /\ job[c] # "send" => rpc[c] = "out" /\ object[c] = None
  /\ claim[c] # NoClaim <=> object[c] # None \/ job[c] \in {"read", "flip"}

TypeOK ==
  /\ CacheTypeOK /\ ClientTypeOK /\ CustodyTypeOK
  /\ job \in [Calls -> Jobs]
  /\ left \in [Calls -> SUBSET (Rides \cup Objects)]
  /\ \A c \in Calls : Placed(c)

Init ==
  /\ CacheInit /\ ClientInit /\ CustodyInit
  /\ job = [c \in Calls |-> "none"]
  /\ left = [c \in Calls |-> {}]

-----------------------------------------------------------------------------
Become(c, j, rest) ==
  /\ job' = [job EXCEPT ![c] = j]
  /\ left' = [left EXCEPT ![c] = rest]

Finish(c) == Become(c, "none", {})

\* mintOne starts: the resolver only passes participants with rides on.
MintOne(c) ==
  /\ job[c] = "none"
  /\ \E m \in Mints : \E r \in m.rides :
       Become(c, "pin", m.rides \ {r}) /\ GetOrPin(c, r, m.date)
  /\ UNCHANGED <<clientVars, custodyVars>>

\* GetOrPin has returned.
AfterPin(c) ==
  /\ job[c] = "pin" /\ at[c] = "out"
  /\ \/ asset[c] = None /\ Finish(c) /\ LeaveCache(c) /\ UNCHANGED clientVars
     \/ /\ asset[c] # None
        /\ \E r \in left[c] : Become(c, "pin", left[c] \ {r}) /\ GetOrPin(c, r, date[c])
        /\ UNCHANGED clientVars
     \/ /\ asset[c] # None /\ left[c] = {}
        /\ Become(c, "send", {}) /\ LeaveCache(c) /\ Begin(c)
  /\ UNCHANGED custodyVars

\* TransferSuiProbe looks for a coin first, by an RPC that takes no permit.
Probe(c) ==
  /\ job[c] = "none"
  /\ Become(c, "coins", {})
  /\ UNCHANGED <<cacheVars, clientVars, custodyVars>>

GetCoins(c) ==
  /\ job[c] = "coins"
  /\ \/ Become(c, "send", {}) /\ Begin(c)
     \/ {"throttle", "fail", "gone"} \cap Faults # {} /\ Finish(c) /\ UNCHANGED clientVars
  /\ UNCHANGED <<cacheVars, custodyVars>>

\* POST /mint/claim-custody: the loop over nft_object_ids
ClaimCustody(c) ==
  /\ job[c] = "none"
  /\ \E k \in Bodies : \E o \in k.named :
       OpenClaim(c, k, o) /\ Become(c, "send", k.named \ {o}) /\ Begin(c)
  /\ UNCHANGED cacheVars

\* The client has returned: mints and probes are over, a claim goes on unless there was
\* an error.  Mutant: it goes on all the same.
GoesOnAnyway(c) == object[c] # None
GoesOn(c) == object[c] # None /\ answer[c] = "digest"

AfterAnswer(c) ==
  /\ job[c] = "send" /\ rpc[c] = "out"
  /\ \/ ~GoesOn(c) /\ Finish(c) /\ LeaveClient(c) /\ CloseClaim(c) /\ UNCHANGED <<wallet, claimed>>
     \/ /\ GoesOn(c)
        /\ \E o \in left[c] : Become(c, "send", left[c] \ {o}) /\ Begin(c) /\ NextObject(c, o)
     \/ GoesOn(c) /\ left[c] = {} /\ Become(c, "read", {}) /\ LeaveClient(c) /\ NextObject(c, None)
  /\ UNCHANGED cacheVars

\* voucher.ClaimCustody: the participant is read, then written.
GetParticipant(c) ==
  /\ job[c] = "read"
  /\ \/ IsCustodial(c) /\ Become(c, "flip", {}) /\ UNCHANGED custodyVars
     \/ /\ ~IsCustodial(c) \/ "gone" \in Faults
        /\ Finish(c) /\ CloseClaim(c) /\ UNCHANGED <<wallet, claimed>>
  /\ UNCHANGED <<cacheVars, clientVars>>

Flip(c) ==
  /\ job[c] = "flip"
  /\ Finish(c)
  /\ \/ SetParticipantWallet(c)
     \/ "gone" \in Faults /\ CloseClaim(c) /\ UNCHANGED <<wallet, claimed>>
  /\ UNCHANGED <<cacheVars, clientVars>>

InCache(c) ==
  /\ Lookup(c) \/ Lock(c) \/ PinFile(c) \/ PinJSON(c)
  /\ UNCHANGED <<clientVars, custodyVars, job, left>>

\* The transaction is executed; others are waited for or paused.
InChain(c) ==
  /\ Execute(c, Movable(c))
  /\ IF executed'[c] = executed[c] THEN UNCHANGED custodyVars ELSE TakesEffect(c)
  /\ UNCHANGED <<cacheVars, job, left>>

InClient(c) ==
  /\ Acquire(c) \/ Build(c) \/ Backoff(c) \/ Cancel(c)
  /\ UNCHANGED <<cacheVars, custodyVars, job, left>>

Next ==
  \E c \in Calls :
    \/ MintOne(c) \/ AfterPin(c) \/ Probe(c) \/ GetCoins(c)
    \/ ClaimCustody(c) \/ AfterAnswer(c) \/ GetParticipant(c) \/ Flip(c)
    \/ InCache(c) \/ InChain(c) \/ InClient(c)

Spec == Init /\ [][Next]_vars

-----------------------------------------------------------------------------
\* A goroutine that can go on does, statements, RPCs and requests to Pinata return, pauses
\* end: weak fairness.  Locks and permits are free only now and then, but who waits for an
\* RWMutex or a channel waits in a queue: strong fairness.
Fairness ==
  \A c \in Calls :
    /\ WF_vars(AfterPin(c) \/ GetCoins(c) \/ AfterAnswer(c) \/ GetParticipant(c) \/ Flip(c))
    /\ WF_vars((PinFile(c) \/ PinJSON(c)) /\ UNCHANGED <<clientVars, custodyVars, job, left>>)
    /\ WF_vars(InChain(c) \/ ((Build(c) \/ Backoff(c)) /\ UNCHANGED <<cacheVars, custodyVars, job, left>>))
    /\ SF_vars((Lookup(c) \/ Lock(c)) /\ UNCHANGED <<clientVars, custodyVars, job, left>>)
    /\ SF_vars(Acquire(c) /\ UNCHANGED <<cacheVars, custodyVars, job, left>>)

FairSpec == Spec /\ Fairness

\* Every mint, probe and claim of custody comes to its end: neither the write lock, held over
\* two requests to Pinata, nor the semaphore, taken twice per attempt, nor throttling
\* that does not stop keeps a call for ever.
EveryCallReturns == \A c \in Calls : (job[c] # "none") ~> (job[c] = "none")

\* Where a call is on its way: the order of the jobs, of the attempts, of the calls of an
\* attempt.  Rides and NFTs are got through one by one.
JobRank == [j \in Jobs |-> CASE j = "none" -> 0 [] j \in {"pin", "coins"} -> 1
              [] j = "send" -> 2 [] j = "read" -> 3 [] j = "flip" -> 4]
PinRank == [a \in {"out", "lookup", "lock", "artwork", "metadata"} |->
              CASE a = "lookup" -> 0 [] a = "lock" -> 1 [] a = "artwork" -> 2
                [] a = "metadata" -> 3 [] a = "out" -> 4]
RPCRank == [s \in {"out", "backoff"} \cup Waiting \cup Flying |->
              CASE s = "waitBuild" -> 0 [] s = "build" -> 1 [] s = "waitExecute" -> 2
                [] s = "execute" -> 3 [] s = "backoff" -> 4 [] s = "out" -> 5]

Advances(c) ==
  \/ JobRank[job'[c]] > JobRank[job[c]]
  \/ /\ job'[c] = job[c]
     /\ \/ left'[c] \subseteq left[c] /\ left'[c] # left[c]
        \/ /\ left'[c] = left[c]
           /\ \/ attempt'[c] > attempt[c]
              \/ /\ attempt'[c] = attempt[c]
                 /\ PinRank[at'[c]] + RPCRank[rpc'[c]] > PinRank[at[c]] + RPCRank[rpc[c]]

\* Every step of a handler is one of the finitely many to its end: whatever fails, throttles
\* or is found cached, a handler never comes back to where it has been (the loops of
\* mintOne, handleClaimCustody and withRetry).
HandlersAdvance ==
  [][\A c \in Calls :
       (job[c] # "none" /\ job'[c] # "none") =>
         \/ Advances(c)
         \/ UNCHANGED <<job[c], left[c], at[c], rpc[c], attempt[c], answer[c], asset[c]>>]_vars

\* What a handler waits for is free.
NotKeptWaiting(c) ==
  /\ at[c] \in {"lookup", "lock"} => lock = None
  /\ rpc[c] \in Waiting => permits < Limit

\* Handlers never all wait for each other: as long as one is in progress, one of them is
\* neither kept waiting by the write lock of the cache nor by the semaphore.
SomeoneMoves ==
  (\E c \in Calls : job[c] # "none") => \E c \in Calls : job[c] # "none" /\ NotKeptWaiting(c)
=============================================================================
