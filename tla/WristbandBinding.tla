-------------------------- MODULE WristbandBinding --------------------------
(***************************************************************************)
(* The gate API's wristband lifecycle: Bind, NFCCheck and Reset of         *)
(* internal/gate/binding.go and Scan of internal/gate/ride_scan.go, as     *)
(* concurrent HTTP requests over the binding keys in Redis and the ticket  *)
(* rows in Postgres.  Every call to a store is a step of its own.          *)
(***************************************************************************)
EXTENDS Naturals

CONSTANTS
  Wristbands, Tickets,
  Requests,             \* HTTP requests that may be in progress at once
  None,
  Faults,               \* which failures may happen
  AdminAlone            \* TRUE: a reset overlaps no other request on its wristband

(***************************************************************************)
(*   ticketwrite  a best-effort update of the ticket's status is lost      *)
(*   gracewrite   a best-effort write of the grace cache is lost           *)
(*   gone         a request ends before its next call: that call failed,   *)
(*                the client hung up or the gate died, except after a      *)
(*                reset has deleted the binding                            *)
(*   gonereset    the same, and in the middle of a reset too               *)
(*   dayend       the binding keys reach their EXPIREAT while the gate is  *)
(*                in use; at night they always do                          *)
(***************************************************************************)
FaultKinds == {"ticketwrite", "gracewrite", "gone", "gonereset", "dayend"}

ASSUME FaultsAssumption == Faults \subseteq FaultKinds
ASSUME AdminAssumption == AdminAlone \in BOOLEAN

VARIABLES
  fwd,                  \* bind:wristband:<uid>, the binding or None
  rev,                  \* bind:ticket:<id>, the wristband or None
  grace,                \* gracewb:<uid>, the cached decision
  ticket,               \* tickets.status in Postgres
  published,            \* tickets with a scan event in Kafka
  passed,               \* history: tickets checked since they were last linked
  pc, uid, tid,         \* per request: next call, wristband, ticket of its binding
  snapshot,             \* per request: the ticket SetBindingStatus read back
  decision              \* per request: what the transaction check decided

stores   == <<fwd, rev, grace, ticket, published, passed>>
requests == <<pc, uid, tid, snapshot, decision>>
vars     == <<stores, requests>>

TicketStatus == {"CLAIMED", "PENDING_ENTRY", "ACTIVE", "USED"}
Decision     == {"none", "allowed", "denied"}

\* ttl: the key has an expiry.
Binding == [ticket : Tickets, status : {"BINDING", "BOUND"}, ttl : BOOLEAN]

ASSUME NoneAssumption == None \notin Wristbands \cup Tickets \cup Binding

Steps == {"idle", "link", "pending",
          "get", "reread", "write", "activate", "cache",
          "delete", "forget", "claim",
          "publish", "redeem"}

TypeOK ==
  /\ fwd \in [Wristbands -> Binding \cup {None}]
  /\ rev \in [Tickets -> Wristbands \cup {None}]
  /\ grace \in [Wristbands -> Decision]
  /\ ticket \in [Tickets -> TicketStatus]
  /\ published \subseteq Tickets
  /\ passed \subseteq Tickets
  /\ pc \in [Requests -> Steps]
  /\ uid \in [Requests -> Wristbands \cup {None}]
  /\ tid \in [Requests -> Tickets \cup {None}]
  /\ snapshot \in [Requests -> Tickets \cup {None}]
  /\ decision \in [Requests -> Decision]
  /\ \A r \in Requests : pc[r] # "idle" => uid[r] \in Wristbands
  /\ \A r \in Requests : pc[r] \notin {"idle", "get"} => tid[r] \in Tickets
  /\ \A r \in Requests : pc[r] = "write" => snapshot[r] \in Tickets

\* Vouchers have been claimed: every ticket is CLAIMED and nothing is bound.
Init ==
  /\ fwd = [w \in Wristbands |-> None]
  /\ rev = [t \in Tickets |-> None]
  /\ grace = [w \in Wristbands |-> "none"]
  /\ ticket = [t \in Tickets |-> "CLAIMED"]
  /\ published = {} /\ passed = {}
  /\ pc = [r \in Requests |-> "idle"]
  /\ uid = [r \in Requests |-> None]
  /\ tid = [r \in Requests |-> None]
  /\ snapshot = [r \in Requests |-> None]
  /\ decision = [r \in Requests |-> "none"]

-----------------------------------------------------------------------------
Linked(w) == fwd[w] # None

\* Requests in progress on wristband w, and whether one of them is a reset.
Busy(w)      == \E r \in Requests : pc[r] # "idle" /\ uid[r] = w
Resetting(w) == \E r \in Requests :
                  pc[r] \in {"delete", "forget", "claim"} /\ uid[r] = w

\* Request r arrives for wristband w; t is the ticket it is about, if known.
Arrive(r, w, t, step) ==
  /\ pc[r] = "idle"
  /\ AdminAlone => ~Resetting(w)
  /\ pc' = [pc EXCEPT ![r] = step]
  /\ uid' = [uid EXCEPT ![r] = w]
  /\ tid' = [tid EXCEPT ![r] = t]
  /\ UNCHANGED <<stores, snapshot, decision>>

\* Request r makes the call it stands at and stands at the next one.
Step(r, from, to) ==
  /\ pc[r] = from
  /\ pc' = [pc EXCEPT ![r] = to]
  /\ UNCHANGED <<uid, tid, snapshot, decision>>

\* Request r is answered.
Answer(r) ==
  /\ pc' = [pc EXCEPT ![r] = "idle"]
  /\ uid' = [uid EXCEPT ![r] = None]
  /\ tid' = [tid EXCEPT ![r] = None]
  /\ snapshot' = [snapshot EXCEPT ![r] = None]
  /\ decision' = [decision EXCEPT ![r] = "none"]

\* What a best-effort write of new over old may leave.
BestEffort(kind, old, new) == {new} \cup (IF kind \in Faults THEN {old} ELSE {})

\* setTicketStatus: no condition on the status the ticket has.
SetTicketStatus(t, status) ==
  BestEffort("ticketwrite", ticket, [ticket EXCEPT ![t] = status])

SetWristbandGrace(w, d) == BestEffort("gracewrite", grace, [grace EXCEPT ![w] = d])

-----------------------------------------------------------------------------
(* Bind.  The QR is good and used for the first time; one that is refused  *)
(* changes nothing here.                                                   *)

\* ticketOwnerEmail rejects a ticket that is USED (or EXPIRED).
BindArrives(r, w, t) ==
  /\ ticket[t] # "USED"
  /\ Arrive(r, w, t, "link")

\* The script's two conditions.  Mutant: it looks at the wristband's key only.
FreeWristband(w, t) == ~Linked(w)
Free(w, t) == rev[t] = None /\ ~Linked(w)

\* bindScript: both keys are free and both are set, or nothing changes.
BindLink(r) ==
  LET w == uid[r]
      t == tid[r]
  IN  /\ pc[r] = "link"
      /\ \/ /\ Free(w, t)
            /\ rev' = [rev EXCEPT ![t] = w]
            /\ fwd' = [fwd EXCEPT ![w] =
                         [ticket |-> t, status |-> "BINDING", ttl |-> TRUE]]
            /\ passed' = passed \ {t}
            /\ Step(r, "link", "pending")
         \/ /\ ~Free(w, t)
            /\ Answer(r)
            /\ UNCHANGED <<rev, fwd, passed>>
      /\ UNCHANGED <<grace, ticket, published>>

\* setTicketStatus(PENDING_ENTRY), best-effort
BindPending(r) ==
  /\ pc[r] = "pending"
  /\ ticket' \in SetTicketStatus(tid[r], "PENDING_ENTRY")
  /\ Answer(r)
  /\ UNCHANGED <<fwd, rev, grace, published, passed>>

-----------------------------------------------------------------------------
(* NFCCheck.  A cached decision is replayed as the answer and changes      *)
(* nothing: a check goes on only when there is none.                       *)

CheckArrives(r, w) ==
  /\ grace[w] = "none"
  /\ Arrive(r, w, None, "get")

\* GetBinding, then CheckTxnCapability, which may go either way.
CheckGet(r) ==
  /\ pc[r] = "get"
  /\ \/ /\ Linked(uid[r])
        /\ tid' = [tid EXCEPT ![r] = fwd[uid[r]].ticket]
        /\ \/ /\ decision' = [decision EXCEPT ![r] = "allowed"]
              /\ passed' = passed \cup {fwd[uid[r]].ticket}
              /\ pc' = [pc EXCEPT ![r] = "reread"]
           \/ /\ decision' = [decision EXCEPT ![r] = "denied"]
              /\ pc' = [pc EXCEPT ![r] = "cache"]
              /\ UNCHANGED passed
        /\ UNCHANGED <<uid, snapshot>>
     \/ /\ ~Linked(uid[r])
        /\ Answer(r)
        /\ UNCHANGED passed
  /\ UNCHANGED <<fwd, rev, grace, ticket, published>>

\* SetBindingStatus reads the binding again ...
CheckReread(r) ==
  /\ pc[r] = "reread"
  /\ \/ /\ Linked(uid[r])
        /\ snapshot' = [snapshot EXCEPT ![r] = fwd[uid[r]].ticket]
        /\ pc' = [pc EXCEPT ![r] = "write"]
        /\ UNCHANGED <<uid, tid, decision>>
     \/ ~Linked(uid[r]) /\ Answer(r)
  /\ UNCHANGED stores

\* The value written back.  KEEPTTL keeps the expiry the key has: a key that is
\* gone is created again, with none.  Mutant: a plain SET drops the expiry.
PromotedPlainSet(w, t) == [ticket |-> t, status |-> "BOUND", ttl |-> FALSE]
Promoted(w, t) ==
  [ticket |-> t, status |-> "BOUND", ttl |-> Linked(w) /\ fwd[w].ttl]

\* ... and writes it back BOUND.
CheckWrite(r) ==
  /\ Step(r, "write", "activate")
  /\ fwd' = [fwd EXCEPT ![uid[r]] = Promoted(uid[r], snapshot[r])]
  /\ UNCHANGED <<rev, grace, ticket, published, passed>>

\* setTicketStatus(ACTIVE), best-effort
CheckActivate(r) ==
  /\ Step(r, "activate", "cache")
  /\ ticket' \in SetTicketStatus(tid[r], "ACTIVE")
  /\ UNCHANGED <<fwd, rev, grace, published, passed>>

\* SetWristbandGrace, best-effort
CheckCache(r) ==
  /\ pc[r] = "cache"
  /\ grace' \in SetWristbandGrace(uid[r], decision[r])
  /\ Answer(r)
  /\ UNCHANGED <<fwd, rev, ticket, published, passed>>

-----------------------------------------------------------------------------
(* Reset, the admin's undo *)

\* GetBinding: no binding, no reset.  Mutant: the binding is not read first.
ResetArrivesUnread(r, w) ==
  /\ AdminAlone => ~Busy(w)
  /\ Arrive(r, w, None, "delete")

ResetArrives(r, w) ==
  /\ Linked(w)
  /\ AdminAlone => ~Busy(w)
  /\ Arrive(r, w, fwd[w].ticket, "delete")

\* deleteBindingScript deletes the wristband's key and the ticket key it names.
\* Mutant: the ticket's key is forgotten.
ResetDeleteForward(r) ==
  /\ Step(r, "delete", "forget")
  /\ fwd' = [fwd EXCEPT ![uid[r]] = None]
  /\ UNCHANGED <<rev, grace, ticket, published, passed>>

ResetDelete(r) ==
  /\ Step(r, "delete", "forget")
  /\ LET w == uid[r]
     IN  /\ rev' = [t \in Tickets |->
                      IF Linked(w) /\ fwd[w].ticket = t THEN None ELSE rev[t]]
         /\ fwd' = [fwd EXCEPT ![w] = None]
  /\ UNCHANGED <<grace, ticket, published, passed>>

\* ClearWristbandGrace, best-effort.  Mutant: the cached decision stays.
ResetForgetNothing(r) ==
  /\ Step(r, "forget", "claim")
  /\ UNCHANGED stores

ResetForget(r) ==
  /\ Step(r, "forget", "claim")
  /\ grace' \in SetWristbandGrace(uid[r], "none")
  /\ UNCHANGED <<fwd, rev, ticket, published, passed>>

\* setTicketStatus(CLAIMED), best-effort
ResetClaim(r) ==
  /\ pc[r] = "claim"
  /\ ticket' \in SetTicketStatus(tid[r], "CLAIMED")
  /\ Answer(r)
  /\ UNCHANGED <<fwd, rev, grace, published, passed>>

-----------------------------------------------------------------------------
(* A ride scan *)

\* Only a BOUND wristband goes on.  Mutant: any bound one does.
MayRideLinked(w) == Linked(w)
MayRide(w) == Linked(w) /\ fwd[w].status = "BOUND"

\* GetBinding and the two rejections
ScanArrives(r, w) ==
  /\ MayRide(w)
  /\ Arrive(r, w, fwd[w].ticket, "publish")

\* PublishScanEvent.  Mutant: its error is ignored.
ScanPublishUnsure(r) ==
  /\ Step(r, "publish", "redeem")
  /\ published' \in {published, published \cup {tid[r]}}
  /\ UNCHANGED <<fwd, rev, grace, ticket, passed>>

ScanPublish(r) ==
  /\ Step(r, "publish", "redeem")
  /\ published' = published \cup {tid[r]}
  /\ UNCHANGED <<fwd, rev, grace, ticket, passed>>

\* markTicketUsed: UPDATE ... WHERE status='ACTIVE', best-effort
ScanRedeem(r) ==
  /\ pc[r] = "redeem"
  /\ IF ticket[tid[r]] = "ACTIVE"
       THEN ticket' \in SetTicketStatus(tid[r], "USED")
       ELSE UNCHANGED ticket
  /\ Answer(r)
  /\ UNCHANGED <<fwd, rev, grace, published, passed>>

-----------------------------------------------------------------------------
(* The environment *)

\* A request ends where it stands.
Abandon(r) ==
  /\ pc[r] # "idle"
  /\ \/ "gone" \in Faults /\ pc[r] # "forget"
     \/ "gonereset" \in Faults
  /\ Answer(r)
  /\ UNCHANGED stores

\* GraceWindowSec is over.
GraceExpires(w) ==
  /\ grace[w] # "none"
  /\ grace' = [grace EXCEPT ![w] = "none"]
  /\ UNCHANGED <<fwd, rev, ticket, published, passed, requests>>

\* The bindings made on one day, those of the wristbands W, expire at the same
\* second, on both sides.
DayEnds ==
  /\ \/ "dayend" \in Faults
     \/ /\ \A r \in Requests : pc[r] = "idle"
        /\ \A w \in Wristbands : grace[w] = "none"
  /\ \E W \in SUBSET Wristbands :
       /\ fwd' = [w \in Wristbands |->
                    IF w \in W /\ Linked(w) /\ fwd[w].ttl THEN None ELSE fwd[w]]
       /\ rev' = [t \in Tickets |-> IF rev[t] \in W THEN None ELSE rev[t]]
  /\ UNCHANGED <<grace, ticket, published, passed, requests>>

-----------------------------------------------------------------------------
Bind(r) ==
  \/ \E w \in Wristbands, t \in Tickets : BindArrives(r, w, t)
  \/ BindLink(r) \/ BindPending(r)

NFCCheck(r) ==
  \/ \E w \in Wristbands : CheckArrives(r, w)
  \/ CheckGet(r) \/ CheckReread(r) \/ CheckWrite(r)
  \/ CheckActivate(r) \/ CheckCache(r)

Reset(r) ==
  \/ \E w \in Wristbands : ResetArrives(r, w)
  \/ ResetDelete(r) \/ ResetForget(r) \/ ResetClaim(r)

Scan(r) ==
  \/ \E w \in Wristbands : ScanArrives(r, w)
  \/ ScanPublish(r) \/ ScanRedeem(r)

Next ==
  \/ \E r \in Requests : Bind(r) \/ NFCCheck(r) \/ Reset(r) \/ Scan(r) \/ Abandon(r)
  \/ \E w \in Wristbands : GraceExpires(w)
  \/ DayEnds

Spec == Init /\ [][Next]_vars

-----------------------------------------------------------------------------
\* A ticket is on one wristband at most: concurrent requests never bind it
\* twice (binding.go, M3.5).
OneWristbandPerTicket ==
  \A v, w \in Wristbands :
    v # w /\ Linked(v) /\ Linked(w) => fwd[v].ticket # fwd[w].ticket

\* The two keys of a link say the same: the wristband's key names a ticket
\* exactly when that ticket's key names the wristband.
KeysAgree ==
  \A w \in Wristbands, t \in Tickets :
    Linked(w) /\ fwd[w].ticket = t <=> rev[t] = w

\* A wristband is BOUND only for a ticket whose own account passed the
\* transaction check since it was linked, and only such a ticket gets rides
\* (NFCCheck promotes what it checked; Scan insists on BOUND).
OnlyCheckedTicketsRide ==
  /\ \A w \in Wristbands : Linked(w) /\ fwd[w].status = "BOUND" => fwd[w].ticket \in passed
  /\ \A r \in Requests : pc[r] = "publish" => tid[r] \in passed

\* A cached "allowed" is about the binding the wristband has now: a stale
\* decision is not replayed for a wristband bound anew (Reset, R24).
GraceIsCurrent ==
  \A w \in Wristbands :
    Linked(w) /\ grace[w] = "allowed" => fwd[w].status = "BOUND"

\* A ticket is redeemed only after a ride of it was published (Scan, M4.7).
RedeemedAfterRide == \A t \in Tickets : ticket[t] = "USED" => t \in published

\* No link outlives the day: every binding key has an expiry (KEEPTTL "never
\* extends the disposable link's life").
LinksExpire == \A w \in Wristbands : Linked(w) => fwd[w].ttl

Register == INSTANCE BindingRegister WITH
  link <- [w \in Wristbands |-> IF Linked(w) THEN fwd[w].ticket ELSE None],
  verified <- {w \in Wristbands : Linked(w) /\ fwd[w].status = "BOUND"}

\* The steps of all requests together look like atomic operations on a register
\* of links (R19: the binding in Redis is the source of truth for admission).
ImplementsRegister == Register!Spec
=============================================================================
