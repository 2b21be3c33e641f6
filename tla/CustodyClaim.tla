---------------------------- MODULE CustodyClaim ----------------------------
(***************************************************************************)
(* A claim of custody, POST /mint/claim-custody: the NFTs it names are     *)
(* transferred from the custodial wallet to a participant's own wallet,    *)
(* one after the other, then the participant's row is flipped to it.       *)
(***************************************************************************)
EXTENDS MinterCalls

CONSTANTS
  Objects,              \* NFTs a claim may name
  People,               \* participants
  Wallets,              \* own wallets a claim may name
  Signer,               \* the custodial wallet, whose key signs the transfers
  Bodies,               \* what a claim may say
  Held,                 \* NFTs that are in it at first
  Dependents            \* participants that are custodial at first

Claims == [who : People, to : Wallets, named : (SUBSET Objects) \ {{}}]
NoClaim == [who |-> None, to |-> None, named |-> {}]

ASSUME BodiesAssumption == Bodies \subseteq Claims
ASSUME HeldAssumption == Held \subseteq Objects /\ Dependents \subseteq People
ASSUME WalletsAssumption ==
  Signer \notin Wallets \cup {None} /\ None \notin Wallets \cup Objects

VARIABLES
  owner,                \* NFTs: the wallet they are in, None for any other
  wallet,               \* participants: Signer while they are custodial, None if they never
                        \* were, else their own wallet
  claim,                \* per call: what it claims
  object,               \* per call: the NFT the client is transferring
  claimed               \* history: claims that have flipped their participant

custodyVars == <<owner, wallet, claim, object, claimed>>

CustodyTypeOK ==
  /\ owner \in [Objects -> Wallets \cup {Signer, None}]
  /\ wallet \in [People -> Wallets \cup {Signer, None}]
  /\ claim \in [Calls -> Bodies \cup {NoClaim}]
  /\ object \in [Calls -> Objects \cup {None}]
  /\ claimed \subseteq Bodies

CustodyInit ==
  /\ owner = [o \in Objects |-> IF o \in Held THEN Signer ELSE None]
  /\ wallet = [p \in People |-> IF p \in Dependents THEN Signer ELSE None]
  /\ claim = [c \in Calls |-> NoClaim]
  /\ object = [c \in Calls |-> None]
  /\ claimed = {}

-----------------------------------------------------------------------------
\* A claim k comes in; o is the first NFT of it.
OpenClaim(c, k, o) ==
  /\ claim' = [claim EXCEPT ![c] = k]
  /\ object' = [object EXCEPT ![c] = o]
  /\ UNCHANGED <<owner, wallet, claimed>>

NextObject(c, o) ==
  /\ object' = [object EXCEPT ![c] = o]
  /\ UNCHANGED <<owner, wallet, claim, claimed>>

CloseClaim(c) ==
  /\ claim' = [claim EXCEPT ![c] = NoClaim]
  /\ object' = [object EXCEPT ![c] = None]
  /\ UNCHANGED owner

\* The chain accepts a transfer signed by the owner only.
Movable(c) == object[c] = None \/ owner[object[c]] = Signer

\* The transaction of c is executed.
TakesEffect(c) ==
  /\ owner' = IF object[c] = None THEN owner ELSE [owner EXCEPT ![object[c]] = claim[c].to]
  /\ UNCHANGED <<wallet, claim, object, claimed>>

\* GetParticipant: only a dependent is flipped.
IsCustodial(c) == wallet[claim[c].who] = Signer

SetParticipantWallet(c) ==
  /\ wallet' = [wallet EXCEPT ![claim[c].who] = claim[c].to]
  /\ claimed' = claimed \cup {claim[c]}
  /\ CloseClaim(c)

-----------------------------------------------------------------------------
\* A participant is flipped to a wallet only when every NFT of the claim is in it, and all
\* stay there, although claims overlap, name the same NFTs for other wallets, and
\* are cut short anywhere ("transferred", main.go:266-271).  An "abort" is not noticed.
WalletFollowsNFTs ==
  "abort" \notin Faults =>
    /\ \A k \in claimed : \A o \in k.named : owner[o] = k.to
    /\ \A p \in People : wallet[p] \in Wallets => \E k \in claimed : k.who = p /\ k.to = wallet[p]
=============================================================================
