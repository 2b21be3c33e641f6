------------------------ MODULE MinterBackendProofs ------------------------
(***************************************************************************)
(* Theorems about the minter's shared cache and client and its claims of   *)
(* custody, for any number of calls, rides, dates, NFTs, permits and       *)
(* attempts, and whatever requests fail.                                   *)
(***************************************************************************)
EXTENDS MinterBackend, FiniteSetTheorems, TLAPS

USE CallsAssumption, NoDateAssumption, ClientAssumption

-----------------------------------------------------------------------------
(* What a step is, seen by the cache and seen by the client *)

CacheStep(c) ==
  \/ \E r \in Rides, d \in Dates : GetOrPin(c, r, d)
  \/ LeaveCache(c)
  \/ Lookup(c) \/ Lock(c) \/ PinFile(c) \/ PinJSON(c)

ClientStep(c) ==
  \/ Begin(c) \/ LeaveClient(c)
  \/ Acquire(c) \/ Build(c) \/ Backoff(c) \/ Cancel(c)
  \/ \E valid \in BOOLEAN : Execute(c, valid)

\* The step of call c
Step(c) ==
  \/ MintOne(c) \/ AfterPin(c) \/ Probe(c) \/ GetCoins(c)
  \/ ClaimCustody(c) \/ AfterAnswer(c) \/ GetParticipant(c) \/ Flip(c)
  \/ InCache(c) \/ InChain(c) \/ InClient(c)

\* A step of a call is a step of the cache, of the client, or of both.
LEMMA StepOfParts ==
  ASSUME TypeOK, NEW c \in Calls, Step(c)
  PROVE  (CacheStep(c) \/ UNCHANGED cacheVars) /\ (ClientStep(c) \/ UNCHANGED clientVars)
<1>1. CASE MintOne(c)
  BY <1>1, MintsAssumption DEF MintOne, CacheStep
<1>2. CASE AfterPin(c)
  <2>1. job[c] = "pin" => left[c] \subseteq Rides /\ date[c] \in Dates
    BY DEF TypeOK, Placed
  <2> QED  BY <1>2, <2>1 DEF AfterPin, CacheStep, ClientStep
<1>3. CASE Probe(c) \/ GetCoins(c) \/ ClaimCustody(c)
  BY <1>3 DEF Probe, GetCoins, ClaimCustody, ClientStep
<1>4. CASE AfterAnswer(c)
  BY <1>4 DEF AfterAnswer, ClientStep
<1>5. CASE GetParticipant(c) \/ Flip(c)
  BY <1>5 DEF GetParticipant, Flip
<1>6. CASE InCache(c)
  BY <1>6 DEF InCache, CacheStep
<1>7. CASE InChain(c)
  <2>1. Movable(c) \in BOOLEAN
    BY DEF Movable
  <2> QED  BY <1>7, <2>1 DEF InChain, ClientStep
<1>8. CASE InClient(c)
  BY <1>8 DEF InClient, ClientStep
<1> QED  BY <1>1, <1>2, <1>3, <1>4, <1>5, <1>6, <1>7, <1>8 DEF Step

-----------------------------------------------------------------------------
(* The cache *)

\* Documents answered or cached are confirmed, a ride's answers are what is cached for
\* it, and a call that is pinning does so for a ride that is not cached.
CacheInv ==
  /\ CacheTypeOK
  /\ given \subseteq documents
  /\ \A k \in given : cache[k[1]] = k[2]
  /\ \A r \in Rides : cache[r] # None => <<r, cache[r]>> \in documents
  /\ \A c \in Calls : at[c] \in {"artwork", "metadata"} => cache[ride[c]] = None

\* What a return of call c adds to the answers.
LEMMA ReturnGives ==
  ASSUME CacheTypeOK, NEW c \in Calls, at[c] # "out", NEW d \in Dates \cup {None}, Return(c, d)
  PROVE  /\ at' \in [Calls -> {"out", "lookup", "lock", "artwork", "metadata"}]
         /\ at'[c] = "out" /\ \A e \in Calls \ {c} : at'[e] = at[e]
         /\ asset' \in [Calls -> Dates \cup {None}]
         /\ given' \subseteq Keys
         /\ given' = IF d = None THEN given ELSE given \cup {<<ride[c], d>>}
BY DEF CacheTypeOK, Return, Keys

LEMMA CacheStepInv ==
  ASSUME CacheInv, NEW c \in Calls, CacheStep(c)
  PROVE  CacheInv'
<1> USE DEF CacheInv
<1>1. CASE \E r \in Rides, d \in Dates : GetOrPin(c, r, d)
  BY <1>1 DEF GetOrPin, CacheTypeOK
<1>2. CASE LeaveCache(c)
  BY <1>2 DEF LeaveCache, CacheTypeOK
<1>3. CASE Lookup(c)
  <2>1. ride[c] \in Rides /\ cache[ride[c]] \in Dates \cup {None}
    BY <1>3 DEF Lookup, CacheTypeOK
  <2>2. CASE cache[ride[c]] # None /\ Return(c, cache[ride[c]])
    BY <1>3, <2>1, <2>2, ReturnGives DEF Lookup, CacheTypeOK
  <2>3. CASE at' = [at EXCEPT ![c] = "lock"] /\ UNCHANGED <<asset, given>>
    BY <1>3, <2>1, <2>3 DEF Lookup, CacheTypeOK
  <2> QED  BY <1>3, <2>2, <2>3 DEF Lookup
<1>4. CASE Lock(c)
  <2>1. ride[c] \in Rides /\ cache[ride[c]] \in Dates \cup {None}
    BY <1>4 DEF Lock, CacheTypeOK
  <2>2. CASE CachedByNow(c) /\ Return(c, cache[ride[c]]) /\ UNCHANGED lock
    BY <1>4, <2>1, <2>2, ReturnGives DEF Lock, CachedByNow, CacheTypeOK
  <2>3. CASE ~CachedByNow(c) /\ lock' = c /\ at' = [at EXCEPT ![c] = "artwork"]
             /\ UNCHANGED <<asset, given>>
    BY <1>4, <2>1, <2>3 DEF Lock, CachedByNow, CacheTypeOK
  <2> QED  BY <1>4, <2>2, <2>3 DEF Lock
<1>5. ASSUME PinFails(c), UNCHANGED <<ride, date>>, at[c] \in {"artwork", "metadata"}
      PROVE  CacheInv'
  BY <1>5, ReturnGives DEF PinFails, CacheTypeOK
<1>6. CASE PinFile(c)
  <2>1. CASE at' = [at EXCEPT ![c] = "metadata"] /\ UNCHANGED <<cache, lock, documents, asset, given>>
    BY <1>6, <2>1 DEF PinFile, CacheTypeOK
  <2> QED  BY <1>5, <1>6, <2>1 DEF PinFile
<1>7. CASE PinJSON(c)
  <2>1. ride[c] \in Rides /\ date[c] \in Dates /\ cache[ride[c]] = None
    BY <1>7 DEF PinJSON, CacheTypeOK
  <2>2. CASE Confirm(c) /\ cache' = [cache EXCEPT ![ride[c]] = date[c]]
             /\ lock' = None /\ Return(c, date[c])
    <3>1. UNCHANGED <<ride, date>> /\ at[c] = "metadata" /\ lock = c
      BY <1>7 DEF PinJSON, CacheTypeOK
    <3>2. \A k \in given : k[1] # ride[c]
      BY <2>1 DEF CacheTypeOK, Keys
    <3> QED  BY <2>1, <2>2, <3>1, <3>2, ReturnGives DEF Confirm, CacheTypeOK, Keys
  <2> QED  BY <1>5, <1>7, <2>2 DEF PinJSON
<1> QED  BY <1>1, <1>2, <1>3, <1>4, <1>6, <1>7 DEF CacheStep

-----------------------------------------------------------------------------
(* The client *)

InFlight == {c \in Calls : rpc[c] \in Flying}

ClientInv == ClientTypeOK /\ PermitsAreInFlight

LEMMA InFlightFinite == IsFiniteSet(InFlight) /\ Cardinality(InFlight) \in Nat
BY FS_Subset, FS_CardinalityType DEF InFlight

\* A call that leaves its RPC was counted.
LEMMA OneLess ==
  ASSUME NEW c \in InFlight
  PROVE  /\ Cardinality(InFlight) \in Nat \ {0}
         /\ Cardinality(InFlight \ {c}) = Cardinality(InFlight) - 1
<1>1. /\ IsFiniteSet(InFlight \ {c})
      /\ Cardinality(InFlight \ {c}) = Cardinality(InFlight) - 1
  BY InFlightFinite, FS_RemoveElement
<1>2. Cardinality(InFlight \ {c}) \in Nat
  BY <1>1, FS_CardinalityType
<1> QED  BY <1>1, <1>2, InFlightFinite

\* A step of c that keeps the permits and does not enter or leave an RPC.
LEMMA SameFlight ==
  ASSUME ClientInv, UNCHANGED permits, ClientTypeOK', InFlight' = InFlight
  PROVE  ClientInv'
BY DEF ClientInv, PermitsAreInFlight, InFlight

\* What follows an RPC.
LEMMA Landing ==
  ASSUME ClientInv, NEW c \in Calls, rpc[c] \in Flying, NEW o, Release(o),
         rpc' \in [Calls -> {"out", "backoff"} \cup Waiting \cup Flying],
         rpc'[c] \notin Flying, \A e \in Calls \ {c} : rpc'[e] = rpc[e],
         UNCHANGED attempt, answer' \in [Calls -> {"none", "digest", "error"}],
         executed' \in [Calls -> Nat]
  PROVE  ClientInv'
<1>1. c \in InFlight /\ InFlight' = InFlight \ {c}
  BY DEF InFlight
<1>2. Limit \in Nat
  BY DEF Limit
<1>3. permits \in Nat \ {0} /\ permits' = Cardinality(InFlight')
  BY <1>1, OneLess DEF ClientInv, PermitsAreInFlight, InFlight, Release
<1> QED  BY <1>2, <1>3 DEF ClientInv, ClientTypeOK, PermitsAreInFlight, InFlight, Release

LEMMA ClientStepInv ==
  ASSUME ClientInv, NEW c \in Calls, ClientStep(c)
  PROVE  ClientInv'
<1>1. CASE Begin(c)
  <2>1. ClientTypeOK'
    <3>1. 0 \in 0 .. MaxAttempts - 1
      OBVIOUS
    <3> QED  BY <1>1, <3>1 DEF Begin, ClientInv, ClientTypeOK, Waiting, Flying
  <2>2. InFlight' = InFlight
    BY <1>1 DEF Begin, ClientInv, ClientTypeOK, InFlight, Flying
  <2> QED  BY <1>1, <2>1, <2>2, SameFlight DEF Begin
<1>2. CASE LeaveClient(c)
  BY <1>2, SameFlight DEF LeaveClient, ClientInv, ClientTypeOK, InFlight
<1>3. CASE Acquire(c)
  <2>1. c \notin InFlight /\ InFlight' = InFlight \cup {c}
    <3>1. /\ rpc[c] \in Waiting /\ rpc \in [Calls -> {"out", "backoff"} \cup Waiting \cup Flying]
          /\ \E step \in Flying : rpc' = [rpc EXCEPT ![c] = step]
      BY <1>3 DEF Acquire, Move, ClientInv, ClientTypeOK, Flying
    <3>2. Waiting \cap Flying = {}
      BY DEF Waiting, Flying
    <3> QED  BY <3>1, <3>2 DEF InFlight
  <2>2. Cardinality(InFlight') = Cardinality(InFlight) + 1
    BY <2>1, InFlightFinite, FS_AddElement
  <2>4. Limit \in Nat
    BY DEF Limit
  <2>3. ClientTypeOK'
    <3>1. permits' \in 0 .. Limit
      <4>1. permits \in 0 .. Limit
        BY DEF ClientInv, ClientTypeOK
      <4>2. permits < Limit /\ permits' = permits + 1
        BY <1>3 DEF Acquire
      <4> QED  BY <2>4, <4>1, <4>2
    <3> QED  BY <1>3, <3>1 DEF Acquire, Move, ClientInv, ClientTypeOK, Waiting, Flying
  <2>5. permits' = Cardinality(InFlight')
    BY <1>3, <2>2 DEF Acquire, ClientInv, PermitsAreInFlight, InFlight
  <2> QED  BY <2>3, <2>4, <2>5 DEF ClientInv, ClientTypeOK, PermitsAreInFlight, InFlight
<1>4. CASE Build(c)
  <2>1. PICK o : Release(o) /\ Follow(c, o, Move(c, "waitExecute"))
    BY <1>4 DEF Build
  <2>2. rpc[c] \in Flying /\ UNCHANGED executed
    BY <1>4 DEF Build, Flying
  <2>3. Move(c, "waitExecute") \/ Move(c, "backoff") \/ Answer(c, "error")
    BY <2>1 DEF Follow
  <2>4. /\ rpc' \in [Calls -> {"out", "backoff"} \cup Waiting \cup Flying]
        /\ rpc'[c] \notin Flying /\ \A e \in Calls \ {c} : rpc'[e] = rpc[e]
        /\ UNCHANGED attempt /\ answer' \in [Calls -> {"none", "digest", "error"}]
    BY <2>3 DEF Move, Answer, ClientInv, ClientTypeOK, Waiting, Flying
  <2>5. executed' \in [Calls -> Nat]
    BY <2>2 DEF ClientInv, ClientTypeOK
  <2> QED  BY <2>1, <2>2, <2>4, <2>5, Landing
<1>5. CASE \E valid \in BOOLEAN : Execute(c, valid)
  <2>1. PICK o : /\ Release(o) /\ Follow(c, o, Answer(c, "digest"))
                 /\ executed' = [executed EXCEPT ![c] = IF o \in {"ok", "echo", "lost"} THEN @ + 1 ELSE @]
    BY <1>5 DEF Execute
  <2>2. rpc[c] \in Flying /\ executed' \in [Calls -> Nat]
    BY <1>5, <2>1 DEF Execute, Flying, ClientInv, ClientTypeOK
  <2>3. Move(c, "backoff") \/ Answer(c, "error") \/ Answer(c, "digest")
    BY <2>1 DEF Follow
  <2>4. /\ rpc' \in [Calls -> {"out", "backoff"} \cup Waiting \cup Flying]
        /\ rpc'[c] \notin Flying /\ \A e \in Calls \ {c} : rpc'[e] = rpc[e]
        /\ UNCHANGED attempt /\ answer' \in [Calls -> {"none", "digest", "error"}]
    BY <2>3 DEF Move, Answer, ClientInv, ClientTypeOK, Waiting, Flying
  <2> QED  BY <2>1, <2>2, <2>4, Landing
<1>6. CASE Backoff(c)
  <2>1. ClientTypeOK'
    <3>1. CASE Counted(c) = MaxAttempts /\ Answer(c, "error")
      BY <1>6, <3>1 DEF Backoff, Answer, ClientInv, ClientTypeOK
    <3>2. CASE Counted(c) < MaxAttempts /\ rpc' = [rpc EXCEPT ![c] = "waitBuild"]
               /\ attempt' = [attempt EXCEPT ![c] = Counted(c)] /\ UNCHANGED answer
      <4>1. Counted(c) \in 0 .. MaxAttempts - 1
        <5>1. attempt[c] \in Nat
          BY DEF ClientInv, ClientTypeOK
        <5>2. Counted(c) < MaxAttempts
          BY <3>2
        <5> QED  BY <5>1, <5>2 DEF Counted
      <4> QED  BY <1>6, <3>2, <4>1 DEF Backoff, ClientInv, ClientTypeOK, Waiting
    <3> QED  BY <1>6, <3>1, <3>2 DEF Backoff
  <2>2. InFlight' = InFlight
    BY <1>6 DEF Backoff, Answer, ClientInv, ClientTypeOK, InFlight, Flying
  <2> QED  BY <1>6, <2>1, <2>2, SameFlight DEF Backoff
<1>7. CASE Cancel(c)
  BY <1>7, SameFlight DEF Cancel, Answer, ClientInv, ClientTypeOK, InFlight, Waiting, Flying
<1> QED  BY <1>1, <1>2, <1>3, <1>4, <1>5, <1>6, <1>7 DEF ClientStep

-----------------------------------------------------------------------------
(* The minter *)

Inv == TypeOK /\ CacheInv /\ ClientInv

LEMMA InvInit == Init => Inv
<1> SUFFICES ASSUME Init PROVE Inv
  OBVIOUS
<1>1. CacheInv
  BY DEF Init, CacheInit, CacheInv, CacheTypeOK
<1>2. ClientTypeOK
  BY DEF Init, ClientInit, ClientTypeOK, Limit
<1>3. PermitsAreInFlight
  <2>1. InFlight = {}
    BY DEF Init, ClientInit, InFlight, Flying
  <2> QED  BY <2>1, FS_EmptySet DEF Init, ClientInit, PermitsAreInFlight, InFlight, Limit
<1>4. TypeOK
  <2>1. CustodyTypeOK
    BY HeldAssumption DEF Init, CustodyInit, CustodyTypeOK
  <2> QED  BY <1>1, <1>2, <2>1
           DEF Init, CacheInit, ClientInit, CustodyInit, CacheInv, TypeOK, Placed, Jobs
<1> QED  BY <1>1, <1>2, <1>3, <1>4 DEF Inv, ClientInv

USE MintsAssumption, BodiesAssumption, WalletsAssumption

\* Call c claims k and transfers o from now on, the others what they did.
ClaimNow(c, k, o) ==
  /\ CustodyTypeOK' /\ claim'[c] = k /\ object'[c] = o
  /\ \A e \in Calls \ {c} : claim'[e] = claim[e] /\ object'[e] = object[e]

\* A claim is opened, goes on to another NFT or is over.
LEMMA ClaimMoves ==
  ASSUME CustodyTypeOK, NEW c \in Calls
  PROVE  /\ \A k \in Bodies, o \in Objects : OpenClaim(c, k, o) => ClaimNow(c, k, o)
         /\ \A o \in Objects \cup {None} : NextObject(c, o) => ClaimNow(c, claim[c], o)
         /\ CloseClaim(c) /\ UNCHANGED <<wallet, claimed>> => ClaimNow(c, NoClaim, None)
         /\ SetParticipantWallet(c) /\ claim[c] \in Bodies => ClaimNow(c, NoClaim, None)
<1> USE DEF ClaimNow
<1>1. ASSUME NEW k \in Bodies, NEW o \in Objects, OpenClaim(c, k, o)
      PROVE  ClaimNow(c, k, o)
  BY <1>1 DEF OpenClaim, CustodyTypeOK
<1>2. ASSUME NEW o \in Objects \cup {None}, NextObject(c, o)
      PROVE  ClaimNow(c, claim[c], o)
  BY <1>2 DEF NextObject, CustodyTypeOK
<1>3. ASSUME CloseClaim(c), UNCHANGED <<wallet, claimed>>
      PROVE  ClaimNow(c, NoClaim, None)
  BY <1>3 DEF CloseClaim, CustodyTypeOK
<1>4. ASSUME SetParticipantWallet(c), claim[c] \in Bodies
      PROVE  ClaimNow(c, NoClaim, None)
  <2>1. claim[c].to \in Wallets
    BY <1>4 DEF Claims
  <2> QED  BY <1>4, <2>1 DEF SetParticipantWallet, CloseClaim, CustodyTypeOK
<1> QED  BY <1>1, <1>2, <1>3, <1>4

\* A claim is transferring or has its participant flipped only while there is one.
LEMMA ClaimPlaced ==
  ASSUME TypeOK, NEW c \in Calls, object[c] # None \/ job[c] \in {"read", "flip"}
  PROVE  claim[c] \in Bodies /\ claim[c].to \in Wallets /\ claim[c].who \in People
<1>1. claim[c] \in Bodies
  BY DEF TypeOK, Placed, CustodyTypeOK
<1> QED  BY <1>1 DEF Claims

\* What a step on the chain does: it leaves the NFTs alone, or moves the one that c is
\* transferring out of the custodial wallet.
LEMMA ChainMoves ==
  ASSUME TypeOK, NEW c \in Calls, InChain(c)
  PROVE  /\ UNCHANGED <<wallet, claim, object, claimed>>
         /\ \/ UNCHANGED owner /\ (executed'[c] = executed[c] \/ object[c] = None)
            \/ /\ object[c] \in Objects /\ owner[object[c]] = Signer
               /\ owner' = [owner EXCEPT ![object[c]] = claim[c].to]
<1>1. CASE executed'[c] = executed[c]
  BY <1>1 DEF InChain, custodyVars
<1>2. CASE executed'[c] # executed[c]
  <2>1. TakesEffect(c) /\ Execute(c, Movable(c))
    BY <1>2 DEF InChain
  <2>2. PICK o \in Outcomes(Movable(c)) :
          executed' = [executed EXCEPT ![c] = IF o \in {"ok", "echo", "lost"} THEN @ + 1 ELSE @]
    BY <2>1 DEF Execute
  <2>3. o \in {"ok", "echo", "lost"}
    BY <1>2, <2>2 DEF TypeOK, ClientTypeOK
  <2>4. Movable(c)
    BY <2>2, <2>3 DEF Outcomes
  <2>5. object[c] \in Objects \cup {None}
    BY DEF TypeOK, CustodyTypeOK
  <2> QED  BY <2>1, <2>4, <2>5 DEF TakesEffect, Movable
<1> QED  BY <1>1, <1>2

\* The step of a call moves no other call, and leaves the call where its job is.
LEMMA PlacedNext ==
  ASSUME TypeOK, CacheTypeOK', ClientTypeOK', NEW c \in Calls, Step(c)
  PROVE  /\ CustodyTypeOK'
         /\ job' \in [Calls -> Jobs]
         /\ left' \in [Calls -> SUBSET (Rides \cup Objects)]
         /\ \A e \in Calls : Placed(e)'
<1> USE DEF TypeOK, ClaimNow
<1>0. /\ object[c] \in Objects \cup {None} /\ claim[c] \in Bodies \cup {NoClaim}
      /\ Placed(c) /\ \A e \in Calls : Placed(e)
  BY DEF CustodyTypeOK
<1>1. ASSUME NEW j \in Jobs, NEW R \in SUBSET (Rides \cup Objects), Become(c, j, R)
      PROVE  /\ job' \in [Calls -> Jobs] /\ job'[c] = j
             /\ left' \in [Calls -> SUBSET (Rides \cup Objects)] /\ left'[c] = R
             /\ \A e \in Calls \ {c} : job'[e] = job[e] /\ left'[e] = left[e]
  BY <1>1 DEF Become
<1>2. ASSUME NEW r, NEW d \in Dates, GetOrPin(c, r, d)
      PROVE  date'[c] = d /\ \A e \in Calls \ {c} : at'[e] = at[e] /\ date'[e] = date[e]
  BY <1>2 DEF GetOrPin, CacheTypeOK
<1>3. ASSUME LeaveCache(c)
      PROVE  at'[c] = "out" /\ \A e \in Calls \ {c} : at'[e] = at[e] /\ date'[e] = date[e]
  BY <1>3 DEF LeaveCache, CacheTypeOK
<1>4. ASSUME Begin(c)
      PROVE  \A e \in Calls \ {c} : rpc'[e] = rpc[e]
  BY <1>4 DEF Begin, ClientTypeOK
<1>5. ASSUME UNCHANGED custodyVars
      PROVE  CustodyTypeOK' /\ \A e \in Calls : claim'[e] = claim[e] /\ object'[e] = object[e]
  BY <1>5 DEF custodyVars, CustodyTypeOK
<1>6. CASE MintOne(c)
  <2>1. PICK m \in Mints, r \in Rides : Become(c, "pin", m.rides \ {r}) /\ GetOrPin(c, r, m.date)
    BY <1>6 DEF MintOne
  <2>2. m.rides \ {r} \subseteq Rides /\ m.date \in Dates /\ "pin" \in Jobs
    BY DEF Jobs
  <2>3. job[c] = "none" /\ UNCHANGED rpc /\ UNCHANGED custodyVars
    BY <1>6 DEF MintOne, clientVars
  <2> QED  BY <1>0, <1>1, <1>2, <1>5, <2>1, <2>2, <2>3 DEF Placed
<1>7. CASE AfterPin(c)
  <2>1. /\ job[c] = "pin" /\ at[c] = "out" /\ left[c] \subseteq Rides /\ date[c] \in Dates
        /\ UNCHANGED custodyVars
    BY <1>7 DEF AfterPin, Placed
  <2>2. CASE Finish(c) /\ LeaveCache(c) /\ UNCHANGED clientVars
    BY <1>0, <1>1, <1>3, <1>5, <2>1, <2>2 DEF Placed, clientVars, Finish, Jobs
  <2>3. CASE (\E r \in left[c] : Become(c, "pin", left[c] \ {r}) /\ GetOrPin(c, r, date[c])) /\ UNCHANGED clientVars
    <3>1. PICK r \in left[c] : Become(c, "pin", left[c] \ {r}) /\ GetOrPin(c, r, date[c])
      BY <2>3
    <3> QED  BY <1>0, <1>1, <1>2, <1>5, <2>1, <2>3, <3>1 DEF Placed, clientVars, Jobs
  <2>4. CASE Become(c, "send", {}) /\ LeaveCache(c) /\ Begin(c)
    BY <1>0, <1>1, <1>3, <1>4, <1>5, <2>1, <2>4 DEF Placed, Jobs
  <2> QED  BY <1>7, <2>2, <2>3, <2>4 DEF AfterPin
<1>8. CASE Probe(c)
  BY <1>0, <1>1, <1>5, <1>8 DEF Probe, Placed, cacheVars, clientVars, Jobs
<1>9. CASE GetCoins(c)
  <2>1. job[c] = "coins" /\ UNCHANGED <<at, date>> /\ UNCHANGED custodyVars
    BY <1>9 DEF GetCoins, cacheVars
  <2>2. CASE Become(c, "send", {}) /\ Begin(c)
    BY <1>0, <1>1, <1>4, <1>5, <2>1, <2>2 DEF Placed, Jobs
  <2>3. CASE Finish(c) /\ UNCHANGED clientVars
    BY <1>0, <1>1, <1>5, <2>1, <2>3 DEF Placed, clientVars, Finish, Jobs
  <2> QED  BY <1>9, <2>2, <2>3 DEF GetCoins
<1>10. CASE ClaimCustody(c)
  <2>1. PICK k \in Bodies : \E o \in k.named :
          OpenClaim(c, k, o) /\ Become(c, "send", k.named \ {o}) /\ Begin(c)
    BY <1>10 DEF ClaimCustody
  <2> PICK o \in k.named : OpenClaim(c, k, o) /\ Become(c, "send", k.named \ {o}) /\ Begin(c)
    BY <2>1
  <2>2. k.named \subseteq Objects /\ o \in Objects /\ k # NoClaim /\ o # None
    BY DEF Claims, NoClaim
  <2>3. job[c] = "none" /\ UNCHANGED <<at, date>>
    BY <1>10 DEF ClaimCustody, cacheVars
  <2>4. ClaimNow(c, k, o)
    BY <2>1, <2>2, ClaimMoves
  <2> QED  BY <1>0, <1>1, <1>4, <2>1, <2>2, <2>3, <2>4 DEF Placed, Jobs
<1>11. CASE AfterAnswer(c)
  <2>1. job[c] = "send" /\ rpc[c] = "out" /\ left[c] \subseteq Objects /\ UNCHANGED <<at, date>>
    BY <1>11 DEF AfterAnswer, Placed, cacheVars
  <2>2. CASE Finish(c) /\ LeaveClient(c) /\ CloseClaim(c) /\ UNCHANGED <<wallet, claimed>>
    <3>1. ClaimNow(c, NoClaim, None)
      BY <2>2, ClaimMoves
    <3> QED  BY <1>0, <1>1, <2>1, <2>2, <3>1 DEF Placed, LeaveClient, Finish, Jobs
  <2>3. CASE GoesOn(c) /\ \E o \in left[c] : Become(c, "send", left[c] \ {o}) /\ Begin(c) /\ NextObject(c, o)
    <3>1. PICK o \in left[c] : Become(c, "send", left[c] \ {o}) /\ Begin(c) /\ NextObject(c, o)
      BY <2>3
    <3>2. object[c] # None /\ o # None /\ o \in Objects
      BY <2>1, <2>3 DEF GoesOn
    <3>3. ClaimNow(c, claim[c], o)
      BY <3>1, <3>2, ClaimMoves
    <3> QED  BY <1>0, <1>1, <1>4, <2>1, <3>1, <3>2, <3>3 DEF Placed, Jobs
  <2>4. CASE GoesOn(c) /\ Become(c, "read", {}) /\ LeaveClient(c) /\ NextObject(c, None)
    <3>1. ClaimNow(c, claim[c], None)
      BY <2>4, ClaimMoves
    <3> QED  BY <1>0, <1>1, <2>1, <2>4, <3>1 DEF Placed, LeaveClient, GoesOn, Jobs
  <2> QED  BY <1>11, <2>2, <2>3, <2>4 DEF AfterAnswer
<1>12. CASE GetParticipant(c) \/ Flip(c)
  <2>1. job[c] \in {"read", "flip"} /\ UNCHANGED <<at, date, rpc>>
    BY <1>12 DEF GetParticipant, Flip, cacheVars, clientVars
  <2>2. CASE job[c] = "read" /\ Become(c, "flip", {}) /\ UNCHANGED custodyVars
    BY <1>0, <1>1, <1>5, <2>1, <2>2 DEF Placed, Jobs
  <2>3. CASE /\ Finish(c)
             /\ (CloseClaim(c) /\ UNCHANGED <<wallet, claimed>>) \/ SetParticipantWallet(c)
    <3>1. ClaimNow(c, NoClaim, None)
      BY <2>1, <2>3, ClaimMoves, ClaimPlaced
    <3> QED  BY <1>0, <1>1, <2>1, <2>3, <3>1 DEF Placed, Finish, Jobs
  <2> QED  BY <1>12, <2>2, <2>3 DEF GetParticipant, Flip
<1>13. CASE InCache(c)
  <2>1. UNCHANGED <<rpc, job, left, date>> /\ UNCHANGED custodyVars /\ at[c] # "out"
    BY <1>13 DEF InCache, Lookup, Lock, PinFile, PinJSON, clientVars
  <2>2. \A e \in Calls \ {c} : at'[e] = at[e]
    BY <1>13 DEF InCache, Lookup, Lock, PinFile, PinJSON, PinFails, Return, CacheTypeOK
  <2> QED  BY <1>0, <1>5, <2>1, <2>2 DEF Placed
<1>14. CASE InChain(c)
  <2>1. UNCHANGED <<at, date, job, left>> /\ rpc[c] # "out"
    BY <1>14 DEF InChain, Execute, cacheVars
  <2>2. \A e \in Calls \ {c} : rpc'[e] = rpc[e]
    BY <1>14 DEF InChain, Execute, Follow, Move, Answer, ClientTypeOK
  <2>3. CustodyTypeOK' /\ \A e \in Calls : claim'[e] = claim[e] /\ object'[e] = object[e]
    <3>1. UNCHANGED <<wallet, claim, object, claimed>>
      BY <1>14, ChainMoves
    <3>2. owner' \in [Objects -> Wallets \cup {Signer, None}]
      <4>1. CASE UNCHANGED owner
        BY <4>1 DEF CustodyTypeOK
      <4>2. CASE object[c] \in Objects /\ owner' = [owner EXCEPT ![object[c]] = claim[c].to]
        <5>1. claim[c].to \in Wallets
          BY <4>2, ClaimPlaced
        <5> QED  BY <4>2, <5>1 DEF CustodyTypeOK
      <4> QED  BY <1>14, <4>1, <4>2, ChainMoves
    <3> QED  BY <3>1, <3>2 DEF CustodyTypeOK
  <2> QED  BY <1>0, <2>1, <2>2, <2>3 DEF Placed
<1>15. CASE InClient(c)
  <2>1. UNCHANGED <<at, date, job, left>> /\ UNCHANGED custodyVars /\ rpc[c] # "out"
    BY <1>15 DEF InClient, Acquire, Build, Backoff, Cancel, Waiting, cacheVars
  <2>2. \A e \in Calls \ {c} : rpc'[e] = rpc[e]
    <3>1. CASE Build(c)
      BY <3>1 DEF Build, Follow, Move, Answer, ClientTypeOK
    <3> QED  BY <1>15, <3>1 DEF InClient, Acquire, Backoff, Cancel, Move, Answer, ClientTypeOK
  <2> QED  BY <1>0, <1>5, <2>1, <2>2 DEF Placed
<1> QED  BY <1>6, <1>7, <1>8, <1>9, <1>10, <1>11, <1>12, <1>13, <1>14, <1>15 DEF Step

LEMMA InvNext == Inv /\ [Next]_vars => Inv'
<1> SUFFICES ASSUME Inv, [Next]_vars PROVE Inv'
  OBVIOUS
<1>1. CASE UNCHANGED vars
  BY <1>1 DEF Inv, vars, cacheVars, clientVars, custodyVars, TypeOK, Placed, CacheInv,
       CacheTypeOK, ClientInv, ClientTypeOK, CustodyTypeOK, PermitsAreInFlight
<1>2. ASSUME NEW c \in Calls, Step(c)
      PROVE  Inv'
  <2>1. (CacheStep(c) \/ UNCHANGED cacheVars) /\ (ClientStep(c) \/ UNCHANGED clientVars)
    BY <1>2, StepOfParts DEF Inv
  <2>2. CacheInv'
    <3>1. CASE UNCHANGED cacheVars
      BY <3>1 DEF cacheVars, Inv, CacheInv, CacheTypeOK
    <3> QED  BY <2>1, <3>1, CacheStepInv DEF Inv
  <2>3. ClientInv'
    <3>1. CASE UNCHANGED clientVars
      BY <3>1 DEF clientVars, Inv, ClientInv, ClientTypeOK, PermitsAreInFlight
    <3> QED  BY <2>1, <3>1, ClientStepInv DEF Inv
  <2>4. /\ CustodyTypeOK'
        /\ job' \in [Calls -> Jobs]
        /\ left' \in [Calls -> SUBSET (Rides \cup Objects)]
        /\ \A e \in Calls : Placed(e)'
    BY <1>2, <2>2, <2>3, PlacedNext DEF Inv, CacheInv, ClientInv
  <2> QED  BY <2>2, <2>3, <2>4 DEF Inv, TypeOK, CacheInv, ClientInv
<1> QED  BY <1>1, <1>2 DEF Next, Step

LEMMA InvHolds == Spec => []Inv
BY InvInit, InvNext, PTL DEF Spec

\* No step finds a ride, a date or a place in the code it cannot be in, and the write
\* lock of the cache is held by exactly the call that pins.
THEOREM TypeCorrect == Spec => []TypeOK
<1>1. Inv => TypeOK
  BY DEF Inv
<1> QED  BY InvHolds, <1>1, PTL

\* Permits of the semaphore and RPCs in flight are the same number, at most the limit
\* (acquire and release of sui.Client).
THEOREM PermitsMatchRPCs == Spec => []PermitsAreInFlight
<1>1. Inv => PermitsAreInFlight
  BY DEF Inv, ClientInv
<1> QED  BY InvHolds, <1>1, PTL

\* The double-check of GetOrPin suffices for any number of overlapping calls: a ride
\* has one document.
THEOREM RidesHaveOneAsset == Spec => []OneAssetPerRide
<1>1. Inv => OneAssetPerRide
  BY DEF Inv, CacheInv, CacheTypeOK, Keys, OneAssetPerRide
<1> QED  BY InvHolds, <1>1, PTL

\* GetOrPin answers only documents whose pin was confirmed.
THEOREM AssetsArePinned == Spec => []GivenIsPinned
<1>1. Inv => GivenIsPinned
  BY DEF Inv, CacheInv, GivenIsPinned
<1> QED  BY InvHolds, <1>1, PTL

-----------------------------------------------------------------------------
(* One transaction per call *)

\* While the client is at work nothing of the call was executed and nothing answered.
OnceInv ==
  {"echo", "abort"} \cap Faults = {} =>
    \A c \in Calls :
      /\ executed[c] \in {0, 1}
      /\ rpc[c] # "out" => executed[c] = 0 /\ answer[c] = "none"
      /\ answer[c] = "digest" => executed[c] = 1

LEMMA OnceStep ==
  ASSUME ClientTypeOK, OnceInv, NEW c \in Calls, ClientStep(c)
  PROVE  OnceInv'
<1> SUFFICES ASSUME {"echo", "abort"} \cap Faults = {}
             PROVE  \A e \in Calls :
                      /\ executed'[e] \in {0, 1}
                      /\ rpc'[e] # "out" => executed'[e] = 0 /\ answer'[e] = "none"
                      /\ answer'[e] = "digest" => executed'[e] = 1
  BY DEF OnceInv
<1>1. \A e \in Calls :
        /\ executed[e] \in {0, 1}
        /\ rpc[e] # "out" => executed[e] = 0 /\ answer[e] = "none"
        /\ answer[e] = "digest" => executed[e] = 1
  BY DEF OnceInv
<1>2. CASE Begin(c)
  BY <1>1, <1>2 DEF Begin, ClientTypeOK
<1>3. CASE LeaveClient(c)
  BY <1>1, <1>3 DEF LeaveClient, ClientTypeOK
<1>4. CASE Acquire(c)
  BY <1>1, <1>4 DEF Acquire, Move, Waiting, ClientTypeOK
<1>5. CASE Build(c)
  <2>1. Move(c, "waitExecute") \/ Move(c, "backoff") \/ Answer(c, "error")
    BY <1>5 DEF Build, Follow
  <2> QED  BY <1>1, <1>5, <2>1 DEF Build, Move, Answer, ClientTypeOK
<1>6. CASE \E valid \in BOOLEAN : Execute(c, valid)
  <2>1. PICK o \in {"ok", "throttle", "fail", "lost", "invalid"} :
          /\ Follow(c, o, Answer(c, "digest"))
          /\ executed' = [executed EXCEPT ![c] = IF o \in {"ok", "echo", "lost"} THEN @ + 1 ELSE @]
    BY <1>6 DEF Execute, Outcomes
  <2>2. executed[c] = 0 /\ answer[c] = "none"
    BY <1>1, <1>6 DEF Execute
  <2>3. CASE o = "ok"
    <3>1. Answer(c, "digest")
      BY <2>1, <2>3 DEF Follow, LooksThrottled
    <3>2. executed' = [executed EXCEPT ![c] = 1]
      BY <2>1, <2>2, <2>3
    <3> QED  BY <1>1, <3>1, <3>2 DEF Answer, ClientTypeOK
  <2>4. CASE o = "throttle"
    BY <1>1, <2>1, <2>2, <2>4 DEF Follow, LooksThrottled, Move, ClientTypeOK
  <2>5. CASE o \in {"fail", "lost", "invalid"}
    BY <1>1, <2>1, <2>2, <2>5 DEF Follow, LooksThrottled, Answer, ClientTypeOK
  <2> QED  BY <2>1, <2>3, <2>4, <2>5
<1>7. CASE Backoff(c)
  BY <1>1, <1>7 DEF Backoff, Answer, ClientTypeOK
<1>8. CASE Cancel(c)
  BY <1>1, <1>8 DEF Cancel, Answer, Waiting, ClientTypeOK
<1> QED  BY <1>2, <1>3, <1>4, <1>5, <1>6, <1>7, <1>8 DEF ClientStep

\* Unless the client is misled about an error or an effect, a call never executes a
\* second transaction, and its digest is that of one it has executed.
THEOREM CallsExecuteOnce == Spec => []OneTransaction
<1>1. Init => OnceInv
  BY DEF Init, ClientInit, OnceInv
<1>2. Inv /\ OnceInv /\ [Next]_vars => OnceInv'
  <2> SUFFICES ASSUME Inv, OnceInv, [Next]_vars PROVE OnceInv'
    OBVIOUS
  <2>1. CASE UNCHANGED clientVars
    BY <2>1 DEF clientVars, OnceInv
  <2>2. ASSUME NEW c \in Calls, ClientStep(c)
        PROVE  OnceInv'
    BY <2>2, OnceStep DEF Inv, ClientInv
  <2>3. CASE UNCHANGED vars
    BY <2>1, <2>3 DEF vars
  <2> QED  BY <2>1, <2>2, <2>3, StepOfParts DEF Next, Step, Inv
<1>3. Inv /\ OnceInv => OneTransaction
  BY DEF Inv, OnceInv, OneTransaction
<1> QED  BY InvHolds, <1>1, <1>2, <1>3, PTL DEF Spec
-----------------------------------------------------------------------------
(* Custody *)

\* Nothing is answered while the client is at work.
Quiet == \A c \in Calls : rpc[c] # "out" => answer[c] = "none"

LEMMA QuietStep ==
  ASSUME ClientTypeOK, Quiet, NEW c \in Calls, ClientStep(c)
  PROVE  Quiet'
<1> USE DEF Quiet
<1>1. CASE Begin(c) \/ LeaveClient(c) \/ Acquire(c) \/ Backoff(c) \/ Cancel(c)
  BY <1>1 DEF Begin, LeaveClient, Acquire, Backoff, Cancel, Move, Answer, Waiting, ClientTypeOK
<1>2. CASE Build(c)
  <2>1. rpc[c] # "out" /\ (Move(c, "waitExecute") \/ Move(c, "backoff") \/ Answer(c, "error"))
    BY <1>2 DEF Build, Follow
  <2> QED  BY <2>1 DEF Move, Answer, ClientTypeOK
<1>3. CASE \E valid \in BOOLEAN : Execute(c, valid)
  <2>1. rpc[c] # "out" /\ (Move(c, "backoff") \/ Answer(c, "error") \/ Answer(c, "digest"))
    BY <1>3 DEF Execute, Follow
  <2> QED  BY <2>1 DEF Move, Answer, ClientTypeOK
<1> QED  BY <1>1, <1>2, <1>3 DEF ClientStep

\* An NFT that a claim is through with, or whose transfer was answered by a digest, is in
\* the wallet claimed for.
Moved(c) == claim[c].named \ (left[c] \cup {object[c]})

DeliveredBy(c) ==
  /\ \A o \in Moved(c) : owner[o] = claim[c].to
  /\ object[c] # None /\ answer[c] = "digest" => owner[object[c]] = claim[c].to

Delivered == \A c \in Calls : DeliveredBy(c)

Settled ==
  /\ \A k \in claimed : \A o \in k.named : owner[o] = k.to
  /\ \A p \in People : wallet[p] \in Wallets => \E k \in claimed : k.who = p /\ k.to = wallet[p]

\* NFTs that are in an own wallet stay there, whoever tries to transfer them.
LEMMA OwnersStay ==
  ASSUME TypeOK, NEW c \in Calls, Step(c)
  PROVE  \A o \in Objects : owner[o] \in Wallets => owner'[o] = owner[o]
<1>1. CASE UNCHANGED owner
  BY <1>1
<1>2. CASE InChain(c)
  BY <1>1, <1>2, ChainMoves DEF TypeOK, CustodyTypeOK
<1> QED
  BY <1>1, <1>2 DEF Step, MintOne, AfterPin, Probe, GetCoins, ClaimCustody, OpenClaim, AfterAnswer,
     NextObject, GetParticipant, Flip, SetParticipantWallet, CloseClaim, InCache, InClient, custodyVars

\* The digest of a transfer means that the NFT has moved.
LEMMA DigestMoves ==
  ASSUME TypeOK, Quiet, "abort" \notin Faults, NEW c \in Calls, InChain(c),
         object[c] # None, answer'[c] = "digest"
  PROVE  owner'[object[c]] = claim[c].to
<1>1. PICK o \in Outcomes(Movable(c)) :
        /\ Follow(c, o, Answer(c, "digest"))
        /\ executed' = [executed EXCEPT ![c] = IF o \in {"ok", "echo", "lost"} THEN @ + 1 ELSE @]
  BY DEF InChain, Execute
<1>2. answer[c] = "none"
  BY DEF InChain, Execute, Quiet
<1>3. o = "ok"
  BY <1>1, <1>2 DEF Follow, Move, Answer, Outcomes, TypeOK, ClientTypeOK
<1>4. executed'[c] # executed[c]
  BY <1>1, <1>3 DEF TypeOK, ClientTypeOK
<1>5. object[c] \in Objects /\ owner' = [owner EXCEPT ![object[c]] = claim[c].to]
  BY <1>4, ChainMoves
<1> QED  BY <1>5 DEF TypeOK, CustodyTypeOK

\* What the other calls have delivered, and what was claimed, no step takes back.
LEMMA OthersDelivered ==
  ASSUME TypeOK, TypeOK', Delivered, NEW c \in Calls, Step(c), NEW e \in Calls, e # c
  PROVE  DeliveredBy(e)'
<1>1. UNCHANGED <<claim[e], object[e], left[e], answer[e]>>
  <2>1. UNCHANGED <<claim[e], object[e]>>
    <3>1. CASE UNCHANGED <<claim, object>>
      BY <3>1
    <3> QED
      BY <3>1, ChainMoves
         DEF Step, MintOne, AfterPin, Probe, GetCoins, ClaimCustody, OpenClaim, AfterAnswer, NextObject,
             GetParticipant, Flip, SetParticipantWallet, CloseClaim, InCache, InClient, custodyVars,
             TypeOK, CustodyTypeOK
  <2>2. left'[e] = left[e]
    BY DEF Step, MintOne, AfterPin, Probe, GetCoins, ClaimCustody, AfterAnswer, GetParticipant, Flip,
           Finish, Become, InCache, InChain, InClient, TypeOK
  <2>3. answer'[e] = answer[e]
    <3>1. CASE UNCHANGED clientVars
      BY <3>1 DEF clientVars
    <3>2. CASE ClientStep(c)
      <4>1. CASE Build(c) \/ \E valid \in BOOLEAN : Execute(c, valid)
        BY <4>1 DEF Build, Execute, Follow, Move, Answer, TypeOK, ClientTypeOK
      <4> QED
        BY <3>2, <4>1 DEF ClientStep, Begin, LeaveClient, Acquire, Backoff, Cancel, Move, Answer,
           TypeOK, ClientTypeOK
    <3> QED  BY <3>1, <3>2, StepOfParts
  <2> QED  BY <2>1, <2>2, <2>3
<1>2. claim[e] \in Bodies \cup {NoClaim}
  BY DEF TypeOK, CustodyTypeOK
<1>3. claim[e].named \subseteq Objects /\ (claim[e] \in Bodies => claim[e].to \in Wallets)
  BY <1>2 DEF Claims, NoClaim
<1>4. claim[e] = NoClaim => Moved(e) = {}
  BY DEF Moved, NoClaim
<1>5. ASSUME NEW o \in Objects, claim[e] \in Bodies, owner[o] = claim[e].to
      PROVE  owner'[o] = claim'[e].to
  BY <1>1, <1>3, <1>5, OwnersStay
<1>6. Moved(e)' = Moved(e)
  BY <1>1 DEF Moved
<1>7. \A o \in Moved(e)' : owner'[o] = claim'[e].to
  BY <1>2, <1>3, <1>4, <1>5, <1>6 DEF Delivered, DeliveredBy, Moved
<1>8. ASSUME object'[e] # None, answer'[e] = "digest"
      PROVE  owner'[object'[e]] = claim'[e].to
  <2>1. object[e] \in Objects /\ claim[e] \in Bodies
    BY <1>1, <1>8, ClaimPlaced DEF TypeOK, CustodyTypeOK
  <2> QED  BY <1>1, <1>5, <1>8, <2>1 DEF Delivered, DeliveredBy
<1> QED  BY <1>7, <1>8 DEF DeliveredBy

LEMMA DeliveredStep ==
  ASSUME TypeOK, TypeOK', Quiet, Delivered, "abort" \notin Faults, NEW c \in Calls, Step(c)
  PROVE  Delivered'
<1> SUFFICES DeliveredBy(c)'
  BY OthersDelivered DEF Delivered
<1>0. /\ Placed(c) /\ Placed(c)' /\ ClientTypeOK /\ CustodyTypeOK /\ left \in [Calls -> SUBSET (Rides \cup Objects)]
      /\ claim[c] \in Bodies \cup {NoClaim} /\ object[c] \in Objects \cup {None}
  BY DEF TypeOK, CustodyTypeOK
<1>1. ASSUME claim'[c] = NoClaim
      PROVE  DeliveredBy(c)'
  BY <1>0, <1>1 DEF DeliveredBy, Moved, NoClaim, Placed
<1>2. CASE MintOne(c) \/ AfterPin(c) \/ Probe(c) \/ GetCoins(c)
  <2>1. claim'[c] = NoClaim
    BY <1>0, <1>2 DEF MintOne, AfterPin, Probe, GetCoins, Placed, custodyVars
  <2> QED  BY <1>1, <2>1
<1>3. CASE ClaimCustody(c)
  <2>1. PICK k \in Bodies : \E o \in k.named :
          OpenClaim(c, k, o) /\ Become(c, "send", k.named \ {o}) /\ Begin(c)
    BY <1>3 DEF ClaimCustody
  <2>2. PICK o \in k.named : OpenClaim(c, k, o) /\ Become(c, "send", k.named \ {o}) /\ Begin(c)
    BY <2>1
  <2>3. claim'[c] = k /\ object'[c] = o
    BY <1>0, <2>2 DEF OpenClaim, CustodyTypeOK
  <2>4. left'[c] = k.named \ {o}
    BY <2>2 DEF Become, TypeOK
  <2>5. answer'[c] = "none"
    BY <2>2 DEF Begin, ClientTypeOK, TypeOK
  <2> QED  BY <2>3, <2>4, <2>5 DEF DeliveredBy, Moved
<1>4. CASE AfterAnswer(c)
  <2>1. UNCHANGED owner
    BY <1>4 DEF AfterAnswer, CloseClaim, NextObject
  <2>2. CASE CloseClaim(c)
    <3>1. claim'[c] = NoClaim
      BY <1>0, <2>2 DEF CloseClaim, CustodyTypeOK
    <3> QED  BY <1>1, <3>1
  <2>3. ASSUME NEW o \in Objects \cup {None}, NextObject(c, o), GoesOn(c), answer'[c] = "none",
               left[c] \subseteq left'[c] \cup {o}
        PROVE  DeliveredBy(c)'
    <3>1. claim'[c] = claim[c] /\ object'[c] = o
      BY <1>0, <2>3 DEF NextObject, CustodyTypeOK
    <3>2. \A p \in Moved(c)' : p \in Moved(c) \/ p = object[c]
      BY <2>3, <3>1 DEF Moved
    <3>3. owner[object[c]] = claim[c].to
      BY <2>3 DEF GoesOn, Delivered, DeliveredBy
    <3> QED  BY <2>1, <2>3, <3>1, <3>2, <3>3 DEF Delivered, DeliveredBy
  <2>4. CASE \E o \in left[c] : Become(c, "send", left[c] \ {o}) /\ Begin(c) /\ NextObject(c, o)
    <3>1. PICK o \in left[c] : Become(c, "send", left[c] \ {o}) /\ Begin(c) /\ NextObject(c, o)
      BY <2>4
    <3>2. left'[c] = left[c] \ {o} /\ answer'[c] = "none" /\ left[c] \subseteq Objects
      BY <1>0, <1>4, <3>1 DEF Become, Begin, ClientTypeOK, AfterAnswer, Placed
    <3>3. CASE GoesOn(c)
      BY <2>3, <3>1, <3>2, <3>3
    <3>4. CASE ~GoesOn(c)
      BY <1>4, <2>2, <3>4 DEF AfterAnswer
    <3> QED  BY <3>3, <3>4
  <2>5. CASE GoesOn(c) /\ left[c] = {} /\ LeaveClient(c) /\ NextObject(c, None)
    <3>1. answer'[c] = "none"
      BY <1>0, <2>5 DEF LeaveClient, ClientTypeOK
    <3> QED  BY <2>3, <2>5, <3>1
  <2> QED  BY <1>4, <2>2, <2>4, <2>5 DEF AfterAnswer
<1>5. CASE GetParticipant(c) \/ Flip(c)
  <2>1. CASE CloseClaim(c)
    <3>1. claim'[c] = NoClaim
      BY <1>0, <2>1 DEF CloseClaim, CustodyTypeOK
    <3> QED  BY <1>1, <3>1
  <2>2. CASE job[c] = "read" /\ Become(c, "flip", {}) /\ UNCHANGED custodyVars
    <3>1. left[c] = {} /\ left'[c] = {} /\ object[c] = None /\ UNCHANGED <<owner, claim, object>>
      BY <1>0, <2>2 DEF Placed, Become, custodyVars
    <3> QED  BY <3>1 DEF Moved, Delivered, DeliveredBy
  <2> QED  BY <1>5, <2>1, <2>2 DEF GetParticipant, Flip, SetParticipantWallet
<1>6. ASSUME UNCHANGED <<owner, claim, object, left>>, answer'[c] # "digest" \/ answer'[c] = answer[c]
      PROVE  DeliveredBy(c)'
  BY <1>6 DEF Moved, Delivered, DeliveredBy
<1>7. CASE InCache(c)
  BY <1>6, <1>7 DEF InCache, custodyVars, clientVars
<1>8. CASE InClient(c)
  <2>1. answer'[c] # "digest" \/ answer'[c] = answer[c]
    <3>1. CASE Build(c)
      BY <1>0, <3>1 DEF Build, Follow, Move, Answer, ClientTypeOK
    <3> QED  BY <1>0, <1>8, <3>1 DEF InClient, Acquire, Backoff, Cancel, Move, Answer, ClientTypeOK
  <2> QED  BY <1>6, <1>8, <2>1 DEF InClient, custodyVars
<1>9. CASE InChain(c)
  <2>1. UNCHANGED <<claim, object, left>>
    BY <1>9, ChainMoves DEF InChain
  <2>2. Moved(c)' = Moved(c)
    BY <2>1 DEF Moved
  <2>3. ASSUME NEW o \in Moved(c)
        PROVE  owner'[o] = claim[c].to
    <3>1. o \in Objects /\ owner[o] = claim[c].to /\ claim[c] \in Bodies
      BY <1>0, <2>3 DEF Moved, Delivered, DeliveredBy, NoClaim, Claims
    <3>2. claim[c].to \in Wallets
      BY <3>1 DEF Claims
    <3> QED  BY <3>1, <3>2, OwnersStay
  <2>4. object'[c] # None /\ answer'[c] = "digest" => owner'[object'[c]] = claim'[c].to
    BY <1>9, <2>1, DigestMoves
  <2> QED  BY <2>1, <2>2, <2>3, <2>4 DEF DeliveredBy
<1> QED  BY <1>2, <1>3, <1>4, <1>5, <1>7, <1>8, <1>9 DEF Step

\* The participant is flipped when every NFT has moved.
LEMMA SettledStep ==
  ASSUME TypeOK, TypeOK', Delivered, Settled, NEW c \in Calls, Step(c)
  PROVE  Settled'
<1>0. CustodyTypeOK /\ Placed(c)
  BY DEF TypeOK
<1>1. ASSUME NEW k \in claimed, NEW o \in k.named
      PROVE  owner'[o] = k.to
  <2>1. o \in Objects /\ k.to \in Wallets /\ owner[o] = k.to
    BY <1>0 DEF Settled, CustodyTypeOK, Claims
  <2> QED  BY <2>1, OwnersStay
<1>2. CASE UNCHANGED <<wallet, claimed>>
  BY <1>1, <1>2 DEF Settled
<1>3. CASE job[c] = "flip" /\ SetParticipantWallet(c)
  <2>1. /\ claim[c] \in Bodies /\ claim[c].who \in People /\ left[c] = {} /\ object[c] = None
        /\ claim[c].named \subseteq Objects
    BY <1>0, <1>3, ClaimPlaced DEF Placed, Claims
  <2>2. UNCHANGED owner /\ claimed' = claimed \cup {claim[c]}
        /\ wallet' = [wallet EXCEPT ![claim[c].who] = claim[c].to]
    BY <1>3 DEF SetParticipantWallet, CloseClaim
  <2>3. \A o \in claim[c].named : o \in Moved(c)
    BY <2>1 DEF Moved
  <2>4. \A o \in claim[c].named : owner'[o] = claim[c].to
    BY <2>2, <2>3 DEF Delivered, DeliveredBy
  <2>5. ASSUME NEW p \in People, wallet'[p] \in Wallets
        PROVE  \E k \in claimed' : k.who = p /\ k.to = wallet'[p]
    <3>1. CASE p = claim[c].who
      BY <1>0, <2>1, <2>2, <3>1 DEF CustodyTypeOK
    <3>2. CASE p # claim[c].who
      BY <1>0, <2>1, <2>2, <2>5, <3>2 DEF CustodyTypeOK, Settled
    <3> QED  BY <3>1, <3>2
  <2> QED  BY <1>1, <2>2, <2>4, <2>5 DEF Settled
<1> QED
  BY <1>2, <1>3, ChainMoves
     DEF Step, MintOne, AfterPin, Probe, GetCoins, ClaimCustody, OpenClaim, AfterAnswer, NextObject,
         GetParticipant, Flip, InCache, InClient, custodyVars

\* A participant whose wallet was claimed has in it every NFT of the claim, for any number
\* of claims that overlap, compete for NFTs and fail anywhere (main.go:247-266).
THEOREM WalletsFollow == Spec => []WalletFollowsNFTs
<1> DEFINE ClaimsInv == Quiet /\ ("abort" \notin Faults => Delivered /\ Settled)
<1>1. Init => ClaimsInv
  <2> SUFFICES ASSUME Init PROVE ClaimsInv
    OBVIOUS
  <2>1. Quiet
    BY DEF Init, ClientInit, Quiet
  <2>2. Delivered
    BY DEF Init, CustodyInit, Delivered, DeliveredBy, Moved, NoClaim
  <2>3. Settled
    BY DEF Init, CustodyInit, Settled
  <2> QED  BY <2>1, <2>2, <2>3
<1>2. TypeOK /\ TypeOK' /\ ClaimsInv /\ [Next]_vars => ClaimsInv'
  <2> SUFFICES ASSUME TypeOK, TypeOK', ClaimsInv, [Next]_vars PROVE ClaimsInv'
    OBVIOUS
  <2>1. CASE UNCHANGED vars
    BY <2>1 DEF vars, clientVars, custodyVars, Quiet, Delivered, DeliveredBy, Moved, Settled
  <2>2. ASSUME NEW c \in Calls, Step(c)
        PROVE  ClaimsInv'
    <3>1. Quiet'
      <4>1. CASE UNCHANGED clientVars
        BY <4>1 DEF clientVars, Quiet
      <4> QED  BY <2>2, <4>1, StepOfParts, QuietStep DEF TypeOK
    <3> QED  BY <2>2, <3>1, DeliveredStep, SettledStep
  <2> QED  BY <2>1, <2>2 DEF Next, Step
<1>3. ClaimsInv => WalletFollowsNFTs
  BY DEF Settled, WalletFollowsNFTs
<1> QED  BY <1>1, <1>2, <1>3, TypeCorrect, PTL DEF Spec

-----------------------------------------------------------------------------
(* Progress *)

\* The write lock is held by a call that stands before Pinata, a permit by one that stands
\* before an RPC: neither of them waits for anything of this process, so that the two
\* never close a circle (GetOrPin, acquire).
THEOREM NoCircleOfWaiting == Spec => []SomeoneMoves
<1>1. ASSUME Inv
      PROVE  SomeoneMoves
  <2>0. TypeOK /\ CacheTypeOK /\ ClientTypeOK /\ PermitsAreInFlight
    BY <1>1 DEF Inv, TypeOK, ClientInv
  <2> SUFFICES ASSUME NEW d \in Calls, job[d] # "none"
               PROVE  \E c \in Calls : job[c] # "none" /\ NotKeptWaiting(c)
    BY DEF SomeoneMoves
  <2>1. CASE lock # None
    <3>1. lock \in Calls /\ at[lock] \in {"artwork", "metadata"}
      BY <2>0, <2>1 DEF CacheTypeOK
    <3>2. job[lock] = "pin" /\ rpc[lock] = "out"
      BY <2>0, <3>1 DEF TypeOK, Placed
    <3> QED  BY <3>1, <3>2 DEF NotKeptWaiting, Waiting
  <2>2. CASE lock = None /\ permits < Limit
    BY <2>2 DEF NotKeptWaiting
  <2>3. CASE lock = None /\ ~(permits < Limit)
    <3>1. permits # 0
      BY <2>0, <2>3 DEF Limit, ClientTypeOK
    <3>2. InFlight # {}
      BY <2>0, <3>1, FS_EmptySet DEF PermitsAreInFlight, InFlight
    <3>3. PICK c \in InFlight : TRUE
      BY <3>2
    <3>4. c \in Calls /\ rpc[c] \in Flying
      BY DEF InFlight
    <3>5. rpc[c] # "out" /\ rpc[c] \notin Waiting
      BY <3>4 DEF Flying, Waiting
    <3>6. job[c] = "send"
      BY <2>0, <3>4, <3>5 DEF TypeOK, Placed
    <3> QED  BY <2>3, <3>4, <3>5, <3>6 DEF NotKeptWaiting
  <2> QED  BY <2>1, <2>2, <2>3
<1> QED  BY <1>1, InvHolds, PTL

\* Where call e is, and that a step leaves it there.
Unmoved(e) == UNCHANGED <<job[e], left[e], at[e], rpc[e], attempt[e], answer[e], asset[e]>>

LEMMA CacheLeavesOthers ==
  ASSUME CacheTypeOK, NEW c \in Calls, CacheStep(c), NEW e \in Calls \ {c}
  PROVE  at'[e] = at[e] /\ asset'[e] = asset[e]
<1>1. ASSUME NEW d, Return(c, d)
      PROVE  at'[e] = at[e] /\ asset'[e] = asset[e]
  BY <1>1 DEF Return, CacheTypeOK
<1>2. CASE (\E r \in Rides, d \in Dates : GetOrPin(c, r, d)) \/ LeaveCache(c)
  BY <1>2 DEF GetOrPin, LeaveCache, CacheTypeOK
<1>3. CASE Lookup(c) \/ Lock(c)
  BY <1>1, <1>3 DEF Lookup, Lock, CacheTypeOK
<1>4. CASE PinFile(c) \/ PinJSON(c)
  BY <1>1, <1>4 DEF PinFile, PinJSON, PinFails, CacheTypeOK
<1> QED  BY <1>2, <1>3, <1>4 DEF CacheStep

LEMMA ClientLeavesOthers ==
  ASSUME ClientTypeOK, NEW c \in Calls, ClientStep(c), NEW e \in Calls \ {c}
  PROVE  rpc'[e] = rpc[e] /\ attempt'[e] = attempt[e] /\ answer'[e] = answer[e]
<1>1. ASSUME NEW s, Move(c, s)
      PROVE  rpc'[e] = rpc[e] /\ attempt'[e] = attempt[e] /\ answer'[e] = answer[e]
  BY <1>1 DEF Move, ClientTypeOK
<1>2. ASSUME NEW a, Answer(c, a)
      PROVE  rpc'[e] = rpc[e] /\ attempt'[e] = attempt[e] /\ answer'[e] = answer[e]
  BY <1>2 DEF Answer, ClientTypeOK
<1>3. CASE Begin(c) \/ LeaveClient(c)
  BY <1>3 DEF Begin, LeaveClient, ClientTypeOK
<1>4. CASE Acquire(c) \/ Cancel(c)
  BY <1>1, <1>2, <1>4 DEF Acquire, Cancel
<1>5. CASE Backoff(c)
  BY <1>2, <1>5 DEF Backoff, ClientTypeOK
<1>6. CASE Build(c)
  <2>1. (\E s : Move(c, s)) \/ Answer(c, "error")
    BY <1>6 DEF Build, Follow
  <2> QED  BY <1>1, <1>2, <2>1
<1>7. CASE \E valid \in BOOLEAN : Execute(c, valid)
  <2>1. Move(c, "backoff") \/ Answer(c, "error") \/ Answer(c, "digest")
    BY <1>7 DEF Execute, Follow
  <2> QED  BY <1>1, <1>2, <2>1
<1> QED  BY <1>3, <1>4, <1>5, <1>6, <1>7 DEF ClientStep

\* A step of one call leaves the others where they are.
LEMMA OthersUnmoved ==
  ASSUME TypeOK, NEW c \in Calls, Step(c), NEW e \in Calls \ {c}
  PROVE  Unmoved(e)
<1>1. at'[e] = at[e] /\ asset'[e] = asset[e]
  <2>1. CASE UNCHANGED cacheVars
    BY <2>1 DEF cacheVars
  <2> QED  BY <2>1, StepOfParts, CacheLeavesOthers DEF TypeOK
<1>2. rpc'[e] = rpc[e] /\ attempt'[e] = attempt[e] /\ answer'[e] = answer[e]
  <2>1. CASE UNCHANGED clientVars
    BY <2>1 DEF clientVars
  <2> QED  BY <2>1, StepOfParts, ClientLeavesOthers DEF TypeOK
<1>3. job'[e] = job[e] /\ left'[e] = left[e]
  <2>1. ASSUME NEW j, NEW rest, Become(c, j, rest)
        PROVE  job'[e] = job[e] /\ left'[e] = left[e]
    BY <2>1 DEF Become, TypeOK
  <2>2. (\E j, rest : Become(c, j, rest)) \/ UNCHANGED <<job, left>>
    BY DEF Step, MintOne, AfterPin, Probe, GetCoins, ClaimCustody, AfterAnswer, GetParticipant,
       Flip, InCache, InChain, InClient, Finish
  <2> QED  BY <2>1, <2>2
<1> QED  BY <1>1, <1>2, <1>3 DEF Unmoved

\* The ranks, one by one.
LEMMA RPCRanks ==
  /\ RPCRank["waitBuild"] = 0 /\ RPCRank["build"] = 1 /\ RPCRank["waitExecute"] = 2
  /\ RPCRank["execute"] = 3 /\ RPCRank["backoff"] = 4 /\ RPCRank["out"] = 5
BY DEF RPCRank, Waiting, Flying

LEMMA PinRanks ==
  /\ PinRank["lookup"] = 0 /\ PinRank["lock"] = 1 /\ PinRank["artwork"] = 2
  /\ PinRank["metadata"] = 3 /\ PinRank["out"] = 4
BY DEF PinRank

LEMMA JobRanks ==
  /\ JobRank["pin"] = 1 /\ JobRank["coins"] = 1 /\ JobRank["send"] = 2
  /\ JobRank["read"] = 3 /\ JobRank["flip"] = 4
BY DEF JobRank, Jobs

\* A call inside the client.
LEMMA ClientAdvances ==
  ASSUME TypeOK, NEW c \in Calls, UNCHANGED <<job, left, at>>,
         Acquire(c) \/ Build(c) \/ Backoff(c) \/ Cancel(c) \/ Execute(c, Movable(c))
  PROVE  Advances(c)
<1>0. /\ rpc \in [Calls -> {"out", "backoff"} \cup Waiting \cup Flying]
      /\ attempt \in [Calls -> 0 .. MaxAttempts - 1] /\ MaxAttempts \in Nat
      /\ PinRank[at'[c]] = PinRank[at[c]] /\ PinRank[at[c]] \in 0 .. 4
  BY PinRanks DEF TypeOK, ClientTypeOK, CacheTypeOK
<1>1. ASSUME attempt'[c] = attempt[c], RPCRank[rpc'[c]] > RPCRank[rpc[c]],
             RPCRank[rpc'[c]] \in 0 .. 5, RPCRank[rpc[c]] \in 0 .. 5
      PROVE  Advances(c)
  BY <1>0, <1>1 DEF Advances
<1>2. ASSUME NEW s \in {"build", "waitExecute", "execute", "backoff"}, Move(c, s)
      PROVE  rpc'[c] = s /\ attempt'[c] = attempt[c]
  BY <1>0, <1>2 DEF Move
<1>3. ASSUME NEW a, Answer(c, a)
      PROVE  rpc'[c] = "out" /\ attempt'[c] = attempt[c]
  BY <1>0, <1>3 DEF Answer
<1>4. CASE Acquire(c)
  BY <1>0, <1>1, <1>2, <1>4, RPCRanks DEF Acquire, Waiting
<1>5. CASE Build(c)
  <2>1. Move(c, "waitExecute") \/ Move(c, "backoff") \/ Answer(c, "error")
    BY <1>5 DEF Build, Follow
  <2>2. rpc'[c] \in {"waitExecute", "backoff", "out"} /\ attempt'[c] = attempt[c]
    BY <1>2, <1>3, <2>1
  <2>3. rpc[c] = "build"
    BY <1>5 DEF Build
  <2> QED  BY <1>1, <2>2, <2>3, RPCRanks
<1>6. CASE Execute(c, Movable(c))
  <2>1. Move(c, "backoff") \/ Answer(c, "error") \/ Answer(c, "digest")
    BY <1>6 DEF Execute, Follow
  <2>2. rpc'[c] \in {"backoff", "out"} /\ attempt'[c] = attempt[c]
    BY <1>2, <1>3, <2>1
  <2>3. rpc[c] = "execute"
    BY <1>6 DEF Execute
  <2> QED  BY <1>1, <2>2, <2>3, RPCRanks
<1>7. CASE Backoff(c)
  <2>1. CASE Answer(c, "error")
    <3>1. rpc[c] = "backoff"
      BY <1>7 DEF Backoff
    <3> QED  BY <1>1, <1>3, <2>1, <3>1, RPCRanks
  <2>2. CASE attempt' = [attempt EXCEPT ![c] = Counted(c)]
    <3>1. attempt'[c] > attempt[c]
      BY <1>0, <2>2 DEF Counted
    <3> QED  BY <3>1 DEF Advances
  <2> QED  BY <1>7, <2>1, <2>2 DEF Backoff
<1>8. CASE Cancel(c)
  <2>1. rpc[c] \in {"waitBuild", "waitExecute", "backoff"} /\ Answer(c, "error")
    BY <1>8 DEF Cancel, Waiting
  <2> QED  BY <1>1, <1>3, <2>1, RPCRanks
<1> QED  BY <1>4, <1>5, <1>6, <1>7, <1>8

\* A call inside the cache.
LEMMA CacheAdvances ==
  ASSUME TypeOK, NEW c \in Calls, UNCHANGED <<job, left, rpc, attempt>>,
         Lookup(c) \/ Lock(c) \/ PinFile(c) \/ PinJSON(c)
  PROVE  Advances(c)
<1>0. /\ at \in [Calls -> {"out", "lookup", "lock", "artwork", "metadata"}]
      /\ rpc[c] \in {"out", "backoff", "waitBuild", "waitExecute", "build", "execute"}
      /\ RPCRank[rpc[c]] \in 0 .. 5 /\ RPCRank[rpc'[c]] = RPCRank[rpc[c]]
  <2>1. rpc[c] \in {"out", "backoff", "waitBuild", "waitExecute", "build", "execute"}
    BY DEF TypeOK, ClientTypeOK, Waiting, Flying
  <2>2. RPCRank[rpc[c]] \in 0 .. 5
    BY <2>1, RPCRanks
  <2> QED  BY <2>1, <2>2 DEF TypeOK, CacheTypeOK
<1>1. ASSUME PinRank[at'[c]] > PinRank[at[c]], PinRank[at'[c]] \in 0 .. 4, PinRank[at[c]] \in 0 .. 4
      PROVE  Advances(c)
  BY <1>0, <1>1 DEF Advances
<1>2. ASSUME NEW d, Return(c, d)
      PROVE  at'[c] = "out"
  BY <1>0, <1>2 DEF Return
<1>3. CASE Lookup(c)
  <2>1. at[c] = "lookup" /\ at'[c] \in {"out", "lock"}
    BY <1>0, <1>2, <1>3 DEF Lookup
  <2> QED  BY <1>1, <2>1, PinRanks
<1>4. CASE Lock(c)
  <2>1. at[c] = "lock" /\ at'[c] \in {"out", "artwork"}
    BY <1>0, <1>2, <1>4 DEF Lock
  <2> QED  BY <1>1, <2>1, PinRanks
<1>5. CASE PinFile(c)
  <2>1. at[c] = "artwork" /\ at'[c] \in {"out", "metadata"}
    BY <1>0, <1>2, <1>5 DEF PinFile, PinFails
  <2> QED  BY <1>1, <2>1, PinRanks
<1>6. CASE PinJSON(c)
  <2>1. at[c] = "metadata" /\ at'[c] = "out"
    BY <1>0, <1>2, <1>6 DEF PinJSON, PinFails
  <2> QED  BY <1>1, <2>1, PinRanks
<1> QED  BY <1>3, <1>4, <1>5, <1>6

\* Whatever the step of a call in progress, it ends the call or brings it closer to its end.
LEMMA CallAdvances ==
  ASSUME TypeOK, NEW c \in Calls, Step(c), job[c] # "none", job'[c] # "none"
  PROVE  Advances(c)
<1>0. job \in [Calls -> Jobs] /\ left \in [Calls -> SUBSET (Rides \cup Objects)]
  BY DEF TypeOK
<1>1. ASSUME NEW j, NEW rest, Become(c, j, rest)
      PROVE  job'[c] = j /\ left'[c] = rest
  BY <1>0, <1>1 DEF Become
<1>2. ASSUME NEW j, NEW o \in left[c], j = job[c], Become(c, j, left[c] \ {o})
      PROVE  Advances(c)
  <2>1. job'[c] = job[c] /\ left'[c] = left[c] \ {o}
    BY <1>1, <1>2
  <2> QED  BY <2>1 DEF Advances
<1>3. ASSUME NEW j \in {"send", "read", "flip"}, NEW rest, Become(c, j, rest),
             JobRank[j] > JobRank[job[c]]
      PROVE  Advances(c)
  BY <1>1, <1>3 DEF Advances
<1>4. ~Finish(c)
  BY <1>1 DEF Finish
<1>5. CASE MintOne(c) \/ Probe(c) \/ ClaimCustody(c) \/ Flip(c)
  BY <1>4, <1>5 DEF MintOne, Probe, ClaimCustody, Flip
<1>6. CASE AfterPin(c)
  <2>1. job[c] = "pin" /\ ((\E r \in left[c] : Become(c, "pin", left[c] \ {r})) \/ Become(c, "send", {}))
    BY <1>4, <1>6 DEF AfterPin
  <2>2. CASE \E r \in left[c] : Become(c, "pin", left[c] \ {r})
    BY <1>2, <2>1, <2>2
  <2>3. CASE Become(c, "send", {})
    BY <1>3, <2>1, <2>3, JobRanks
  <2> QED  BY <2>1, <2>2, <2>3
<1>7. CASE GetCoins(c)
  BY <1>3, <1>4, <1>7, JobRanks DEF GetCoins
<1>8. CASE AfterAnswer(c)
  <2>1. job[c] = "send" /\ ((\E o \in left[c] : Become(c, "send", left[c] \ {o})) \/ Become(c, "read", {}))
    BY <1>4, <1>8 DEF AfterAnswer
  <2>2. CASE \E o \in left[c] : Become(c, "send", left[c] \ {o})
    BY <1>2, <2>1, <2>2
  <2>3. CASE Become(c, "read", {})
    BY <1>3, <2>1, <2>3, JobRanks
  <2> QED  BY <2>1, <2>2, <2>3
<1>9. CASE GetParticipant(c)
  BY <1>3, <1>4, <1>9, JobRanks DEF GetParticipant
<1>10. CASE InCache(c)
  BY <1>10, CacheAdvances DEF InCache, clientVars
<1>11. CASE InChain(c)
  BY <1>11, ClientAdvances DEF InChain, cacheVars
<1>12. CASE InClient(c)
  BY <1>12, ClientAdvances DEF InClient, cacheVars
<1> QED  BY <1>5, <1>6, <1>7, <1>8, <1>9, <1>10, <1>11, <1>12 DEF Step

\* No handler goes round in a circle, for any number of calls and attempts: each of its
\* steps comes closer to its end, those of the others leave it where it is (mintOne,
\* handleClaimCustody, withRetry).
THEOREM HandlersMakeProgress == Spec => HandlersAdvance
<1>1. ASSUME TypeOK, [Next]_vars
      PROVE  [\A c \in Calls :
                (job[c] # "none" /\ job'[c] # "none") =>
                  \/ Advances(c)
                  \/ UNCHANGED <<job[c], left[c], at[c], rpc[c], attempt[c], answer[c], asset[c]>>]_vars
  <2> SUFFICES ASSUME ~UNCHANGED vars, NEW c \in Calls, job[c] # "none", job'[c] # "none"
               PROVE  Advances(c) \/ Unmoved(c)
    BY DEF Unmoved
  <2>1. PICK d \in Calls : Step(d)
    BY <1>1 DEF Next, Step
  <2> QED  BY <1>1, <2>1, OthersUnmoved, CallAdvances
<1> QED  BY <1>1, TypeCorrect, PTL DEF Spec, HandlersAdvance
=============================================================================
