------------------------------ MODULE CIDCache ------------------------------
(***************************************************************************)
(* storage.CIDCache: the artwork and the metadata of a ride are pinned     *)
(* once per ride type and reused for every NFT.  The cache is a map in the *)
(* memory of the minter under an RWMutex; the write lock is held during    *)
(* both calls of Pinata.  A document is named by what it is made from:     *)
(* pinning the same content again answers the same CID.                    *)
(***************************************************************************)
EXTENDS MinterCalls

CONSTANTS Rides, Dates

ASSUME NoDateAssumption == None \notin Rides \cup Dates

VARIABLES
  cache,                \* per ride: the date its cached documents were made for
  lock,                 \* the call that has the write lock
  documents,            \* metadata Pinata has confirmed, by ride and date
  at, ride, date,       \* per call: where it is in GetOrPin, for which ride and date
  asset,                \* per call: the date of the documents it was answered
  given                 \* history: the documents GetOrPin has answered

cacheVars == <<cache, lock, documents, at, ride, date, asset, given>>

Keys == Rides \X Dates

CacheTypeOK ==
  /\ cache \in [Rides -> Dates \cup {None}]
  /\ lock \in Calls \cup {None}
  /\ documents \subseteq Keys /\ given \subseteq Keys
  /\ at \in [Calls -> {"out", "lookup", "lock", "artwork", "metadata"}]
  /\ ride \in [Calls -> Rides \cup {None}] /\ date \in [Calls -> Dates \cup {None}]
  /\ asset \in [Calls -> Dates \cup {None}]
  /\ \A c \in Calls :
       /\ at[c] \in {"artwork", "metadata"} <=> lock = c
       /\ at[c] # "out" => ride[c] \in Rides /\ date[c] \in Dates

CacheInit ==
  /\ cache = [r \in Rides |-> None]
  /\ lock = None
  /\ documents = {} /\ given = {}
  /\ at = [c \in Calls |-> "out"]
  /\ ride = [c \in Calls |-> None]
  /\ date = [c \in Calls |-> None]
  /\ asset = [c \in Calls |-> None]

-----------------------------------------------------------------------------
\* Call c asks for ride r and date d.
GetOrPin(c, r, d) ==
  /\ at[c] = "out"
  /\ at' = [at EXCEPT ![c] = "lookup"]
  /\ ride' = [ride EXCEPT ![c] = r]
  /\ date' = [date EXCEPT ![c] = d]
  /\ asset' = [asset EXCEPT ![c] = None]
  /\ UNCHANGED <<cache, lock, documents, given>>

\* GetOrPin returns the documents of date d; None is an error.
Return(c, d) ==
  /\ at' = [at EXCEPT ![c] = "out"]
  /\ asset' = [asset EXCEPT ![c] = d]
  /\ given' = IF d = None THEN given ELSE given \cup {<<ride[c], d>>}

\* The call is through with the cache.
LeaveCache(c) ==
  /\ at[c] = "out"
  /\ ride' = [ride EXCEPT ![c] = None]
  /\ date' = [date EXCEPT ![c] = None]
  /\ asset' = [asset EXCEPT ![c] = None]
  /\ UNCHANGED <<cache, lock, documents, at, given>>

\* The fast path.  The read lock waits for a call that has the write lock.
Lookup(c) ==
  /\ at[c] = "lookup" /\ lock = None
  /\ \/ cache[ride[c]] # None /\ Return(c, cache[ride[c]])
     \/ cache[ride[c]] = None /\ at' = [at EXCEPT ![c] = "lock"] /\ UNCHANGED <<asset, given>>
  /\ UNCHANGED <<cache, lock, documents, ride, date>>

\* The double-check under the write lock.  Mutant: there is none.
CachedByNowNever(c) == FALSE
CachedByNow(c) == cache[ride[c]] # None

Lock(c) ==
  /\ at[c] = "lock" /\ lock = None
  /\ \/ CachedByNow(c) /\ Return(c, cache[ride[c]]) /\ UNCHANGED lock
     \/ /\ ~CachedByNow(c)
        /\ lock' = c
        /\ at' = [at EXCEPT ![c] = "artwork"]
        /\ UNCHANGED <<asset, given>>
  /\ UNCHANGED <<cache, documents, ride, date>>

\* A request of Pinata fails.  Mutant: there is no deferred Unlock.
PinFailsLocked(c) ==
  /\ "pin" \in Faults
  /\ Return(c, None)
  /\ UNCHANGED <<cache, lock, documents>>

PinFails(c) ==
  /\ "pin" \in Faults
  /\ lock' = None
  /\ Return(c, None)
  /\ UNCHANGED <<cache, documents>>

\* The artwork; its document is the metadata that names it.
PinFile(c) ==
  /\ at[c] = "artwork"
  /\ \/ /\ at' = [at EXCEPT ![c] = "metadata"]
        /\ UNCHANGED <<cache, lock, documents, asset, given>>
     \/ PinFails(c)
  /\ UNCHANGED <<ride, date>>

Confirm(c) == documents' = documents \cup {<<ride[c], date[c]>>}

\* Mutant: the error of the request is ignored.
PinJSONIgnored(c) ==
  /\ at[c] = "metadata"
  /\ Confirm(c) \/ UNCHANGED documents
  /\ cache' = [cache EXCEPT ![ride[c]] = date[c]]
  /\ lock' = None
  /\ Return(c, date[c])
  /\ UNCHANGED <<ride, date>>

PinJSON(c) ==
  /\ at[c] = "metadata"
  /\ \/ /\ Confirm(c)
        /\ cache' = [cache EXCEPT ![ride[c]] = date[c]]
        /\ lock' = None
        /\ Return(c, date[c])
     \/ PinFails(c)
  /\ UNCHANGED <<ride, date>>

-----------------------------------------------------------------------------
\* All calls are answered the same documents for a ride, whatever their dates and
\* however they overlap: "pinned to IPFS once per ride type and reused across all NFTs"
\* (cache.go:11-12).
OneAssetPerRide == \A k, l \in given : k[1] = l[1] => k = l

\* Documents that GetOrPin answers are on Pinata, wherever earlier calls for the ride have
\* failed: an NFT never names metadata that nobody has pinned.
GivenIsPinned == given \subseteq documents
=============================================================================
