---------------------------- MODULE VoucherBook ----------------------------
(***************************************************************************)
(* What the voucher table promises: a voucher is issued once, is allocated *)
(* to one participant at most, and only before it is claimed, and is       *)
(* claimed by one account at most.  None of this is ever undone.           *)
(***************************************************************************)
CONSTANTS
  Vouchers, Emails,
  None, Nobody          \* the values of a voucher without owner, without participant

VARIABLES
  sold,                 \* vouchers with a row
  owner,                \* the account that claimed a voucher
  holder                \* the participant a voucher is allocated to

vars == <<sold, owner, holder>>

Init ==
  /\ sold = {}
  /\ owner = [v \in Vouchers |-> None]
  /\ holder = [v \in Vouchers |-> Nobody]

Open(v) == v \in sold /\ owner[v] = None

Issue(v) ==
  /\ v \notin sold
  /\ sold' = sold \cup {v}
  /\ UNCHANGED <<owner, holder>>

Claim(v) ==
  /\ Open(v)
  /\ \E e \in Emails : owner' = [owner EXCEPT ![v] = e]
  /\ UNCHANGED <<sold, holder>>

\* Only the entry of v changes.
Allocate(v) ==
  /\ Open(v) /\ holder[v] = Nobody
  /\ holder' = [holder EXCEPT ![v] = holder'[v]]
  /\ UNCHANGED <<sold, owner>>

Next == \E v \in Vouchers : Issue(v) \/ Claim(v) \/ Allocate(v)

Spec == Init /\ [][Next]_vars

-----------------------------------------------------------------------------
(* What the book's steps add up to *)

\* The entries are written once, no sale, claim or allocation is overwritten or undone;
\* and a voucher that was claimed is not allocated afterwards.
Written ==
  /\ sold \subseteq sold'
  /\ \A v \in Vouchers :
       /\ owner[v] # None => owner'[v] = owner[v] /\ holder'[v] = holder[v]
       /\ holder[v] # Nobody => holder'[v] = holder[v]

WrittenOnce == [][Written]_vars

\* No voucher is given to anybody before it is sold.
OnlySoldAreGiven ==
  \A v \in Vouchers : owner[v] # None \/ holder[v] # Nobody => v \in sold
=============================================================================
