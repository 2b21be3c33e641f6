----------------------- MODULE WristbandBindingProofs -----------------------
(***************************************************************************)
(* Theorems about WristbandBinding for any wristbands, tickets, number of  *)
(* concurrent requests and any of the failures.                            *)
(***************************************************************************)
EXTENDS WristbandBinding, TLAPS

-----------------------------------------------------------------------------
(* Type correctness, in two halves: the stores and the requests *)

StoresOK ==
  /\ fwd \in [Wristbands -> Binding \cup {None}]
  /\ rev \in [Tickets -> Wristbands \cup {None}]
  /\ grace \in [Wristbands -> Decision]
  /\ ticket \in [Tickets -> TicketStatus]
  /\ published \subseteq Tickets
  /\ passed \subseteq Tickets

RequestsOK ==
  /\ pc \in [Requests -> Steps]
  /\ uid \in [Requests -> Wristbands \cup {None}]
  /\ tid \in [Requests -> Tickets \cup {None}]
  /\ snapshot \in [Requests -> Tickets \cup {None}]
  /\ decision \in [Requests -> Decision]
  /\ \A r \in Requests : pc[r] # "idle" => uid[r] \in Wristbands
  /\ \A r \in Requests : pc[r] \notin {"idle", "get"} => tid[r] \in Tickets
  /\ \A r \in Requests : pc[r] = "write" => snapshot[r] \in Tickets

\* The two halves are TypeOK.
LEMMA TypeHalves == TypeOK <=> StoresOK /\ RequestsOK
BY DEF TypeOK, StoresOK, RequestsOK

\* An arriving request is well-typed and no store changes.
LEMMA ArriveType ==
  ASSUME TypeOK, NEW r \in Requests, NEW w \in Wristbands,
         NEW t \in Tickets \cup {None}, NEW step \in Steps \ {"idle", "write"},
         step = "get" \/ t \in Tickets,
         Arrive(r, w, t, step)
  PROVE  TypeOK'
BY DEF TypeOK, Arrive, stores, Steps

\* A request that goes on to its next call with the ticket it has.
LEMMA StepType ==
  ASSUME TypeOK, NEW r \in Requests, NEW from \in Steps \ {"idle", "get"},
         NEW to \in Steps \ {"idle", "write"}, Step(r, from, to)
  PROVE  RequestsOK'
BY DEF TypeOK, RequestsOK, Step, Steps

\* An answered request has no state.
LEMMA AnswerType ==
  ASSUME TypeOK, NEW r \in Requests, Answer(r)
  PROVE  RequestsOK'
BY DEF TypeOK, RequestsOK, Answer, Steps, Decision

\* What a best-effort write leaves of the statuses and of the grace cache.
LEMMA BestEffortType ==
  ASSUME TypeOK, NEW t \in Tickets, NEW status \in TicketStatus,
         NEW w \in Wristbands, NEW d \in Decision
  PROVE  /\ SetTicketStatus(t, status) \subseteq [Tickets -> TicketStatus]
         /\ SetWristbandGrace(w, d) \subseteq [Wristbands -> Decision]
BY DEF TypeOK, SetTicketStatus, SetWristbandGrace, BestEffort

\* TypeOK holds of every reachable state, whatever fails and however requests
\* overlap.
THEOREM TypeCorrect == Spec => []TypeOK
<1>1. Init => TypeOK
  BY DEF Init, TypeOK, Decision, TicketStatus, Steps
<1>2. TypeOK /\ [Next]_vars => TypeOK'
  <2> SUFFICES ASSUME TypeOK, [Next]_vars
               PROVE  TypeOK'
    OBVIOUS
  <2> USE DEF Decision, TicketStatus
  <2>1. ASSUME NEW r \in Requests, Bind(r)
        PROVE  TypeOK'
    <3>1. ASSUME NEW w \in Wristbands, NEW t \in Tickets, BindArrives(r, w, t)
          PROVE  TypeOK'
      BY <3>1, ArriveType DEF BindArrives, Steps
    <3>2. CASE BindLink(r)
      <4>1. StoresOK'
        <5>1. uid[r] \in Wristbands /\ tid[r] \in Tickets
          BY <3>2 DEF BindLink, TypeOK
        <5>2. [ticket |-> tid[r], status |-> "BINDING", ttl |-> TRUE] \in Binding
          BY <5>1 DEF Binding
        <5> QED  BY <3>2, <5>1, <5>2 DEF BindLink, TypeOK, StoresOK
      <4>2. RequestsOK'
        BY <3>2, StepType, AnswerType DEF BindLink, Steps
      <4> QED  BY <4>1, <4>2, TypeHalves DEF TypeOK, StoresOK, RequestsOK
    <3>3. CASE BindPending(r)
      <4>1. StoresOK'
        BY <3>3, BestEffortType DEF BindPending, TypeOK, StoresOK
      <4>2. RequestsOK'
        BY <3>3, AnswerType DEF BindPending
      <4> QED  BY <4>1, <4>2, TypeHalves DEF TypeOK, StoresOK, RequestsOK
    <3> QED  BY <2>1, <3>1, <3>2, <3>3 DEF Bind
  <2>2. ASSUME NEW r \in Requests, NFCCheck(r)
        PROVE  TypeOK'
    <3>1. ASSUME NEW w \in Wristbands, CheckArrives(r, w)
          PROVE  TypeOK'
      BY <3>1, ArriveType DEF CheckArrives, Steps
    <3>2. CASE CheckGet(r)
      <4>1. StoresOK'
        BY <3>2 DEF CheckGet, Linked, TypeOK, StoresOK, Binding
      <4>2. RequestsOK'
        <5>1. CASE Linked(uid[r])
          <6>1. fwd[uid[r]].ticket \in Tickets
            BY <3>2, <5>1 DEF CheckGet, Linked, TypeOK, Binding
          <6> QED  BY <3>2, <5>1, <6>1 DEF CheckGet, TypeOK, RequestsOK, Steps
        <5>2. CASE ~Linked(uid[r])
          BY <3>2, <5>2, AnswerType DEF CheckGet
        <5> QED  BY <5>1, <5>2
      <4> QED  BY <4>1, <4>2, TypeHalves DEF TypeOK, StoresOK, RequestsOK
    <3>3. CASE CheckReread(r)
      <4>1. StoresOK'
        BY <3>3 DEF CheckReread, stores, TypeOK, StoresOK
      <4>2. RequestsOK'
        <5>1. CASE Linked(uid[r])
          <6>1. fwd[uid[r]].ticket \in Tickets
            BY <3>3, <5>1 DEF CheckReread, Linked, TypeOK, Binding
          <6> QED  BY <3>3, <5>1, <6>1 DEF CheckReread, TypeOK, RequestsOK, Steps
        <5>2. CASE ~Linked(uid[r])
          BY <3>3, <5>2, AnswerType DEF CheckReread
        <5> QED  BY <5>1, <5>2
      <4> QED  BY <4>1, <4>2, TypeHalves DEF TypeOK, StoresOK, RequestsOK
    <3>4. CASE CheckWrite(r)
      <4>1. StoresOK'
        BY <3>4 DEF CheckWrite, Step, Promoted, Linked, TypeOK, StoresOK, Binding
      <4>2. RequestsOK'
        BY <3>4, StepType DEF CheckWrite, Steps
      <4> QED  BY <4>1, <4>2, TypeHalves DEF TypeOK, StoresOK, RequestsOK
    <3>5. CASE CheckActivate(r)
      <4>1. StoresOK'
        BY <3>5, BestEffortType DEF CheckActivate, Step, Steps, TypeOK, StoresOK
      <4>2. RequestsOK'
        BY <3>5, StepType DEF CheckActivate, Steps
      <4> QED  BY <4>1, <4>2, TypeHalves DEF TypeOK, StoresOK, RequestsOK
    <3>6. CASE CheckCache(r)
      <4>1. StoresOK'
        BY <3>6, BestEffortType DEF CheckCache, Steps, TypeOK, StoresOK
      <4>2. RequestsOK'
        BY <3>6, AnswerType DEF CheckCache
      <4> QED  BY <4>1, <4>2, TypeHalves DEF TypeOK, StoresOK, RequestsOK
    <3> QED  BY <2>2, <3>1, <3>2, <3>3, <3>4, <3>5, <3>6 DEF NFCCheck
  <2>3. ASSUME NEW r \in Requests, Reset(r)
        PROVE  TypeOK'
    <3>1. ASSUME NEW w \in Wristbands, ResetArrives(r, w)
          PROVE  TypeOK'
      <4>1. fwd[w].ticket \in Tickets
        BY <3>1 DEF ResetArrives, Linked, TypeOK, Binding
      <4> QED  BY <3>1, <4>1, ArriveType DEF ResetArrives, Steps
    <3>2. CASE ResetDelete(r)
      <4>1. StoresOK'
        BY <3>2 DEF ResetDelete, Step, TypeOK, StoresOK
      <4>2. RequestsOK'
        BY <3>2, StepType DEF ResetDelete, Steps
      <4> QED  BY <4>1, <4>2, TypeHalves DEF TypeOK, StoresOK, RequestsOK
    <3>3. CASE ResetForget(r)
      <4>1. StoresOK'
        BY <3>3, BestEffortType DEF ResetForget, Step, Steps, TypeOK, StoresOK
      <4>2. RequestsOK'
        BY <3>3, StepType DEF ResetForget, Steps
      <4> QED  BY <4>1, <4>2, TypeHalves DEF TypeOK, StoresOK, RequestsOK
    <3>4. CASE ResetClaim(r)
      <4>1. StoresOK'
        BY <3>4, BestEffortType DEF ResetClaim, Steps, TypeOK, StoresOK
      <4>2. RequestsOK'
        BY <3>4, AnswerType DEF ResetClaim
      <4> QED  BY <4>1, <4>2, TypeHalves DEF TypeOK, StoresOK, RequestsOK
    <3> QED  BY <2>3, <3>1, <3>2, <3>3, <3>4 DEF Reset
  <2>4. ASSUME NEW r \in Requests, Scan(r)
        PROVE  TypeOK'
    <3>1. ASSUME NEW w \in Wristbands, ScanArrives(r, w)
          PROVE  TypeOK'
      <4>1. fwd[w].ticket \in Tickets
        BY <3>1 DEF ScanArrives, MayRide, Linked, TypeOK, Binding
      <4> QED  BY <3>1, <4>1, ArriveType DEF ScanArrives, Steps
    <3>2. CASE ScanPublish(r)
      <4>1. StoresOK'
        BY <3>2 DEF ScanPublish, Step, Steps, TypeOK, StoresOK
      <4>2. RequestsOK'
        BY <3>2, StepType DEF ScanPublish, Steps
      <4> QED  BY <4>1, <4>2, TypeHalves DEF TypeOK, StoresOK, RequestsOK
    <3>3. CASE ScanRedeem(r)
      <4>1. StoresOK'
        BY <3>3, BestEffortType DEF ScanRedeem, Steps, TypeOK, StoresOK
      <4>2. RequestsOK'
        BY <3>3, AnswerType DEF ScanRedeem
      <4> QED  BY <4>1, <4>2, TypeHalves DEF TypeOK, StoresOK, RequestsOK
    <3> QED  BY <2>4, <3>1, <3>2, <3>3 DEF Scan
  <2>5. ASSUME NEW r \in Requests, Abandon(r)
        PROVE  TypeOK'
    <3>1. StoresOK'
      BY <2>5 DEF Abandon, stores, TypeOK, StoresOK
    <3>2. RequestsOK'
      BY <2>5, AnswerType DEF Abandon
    <3> QED  BY <3>1, <3>2, TypeHalves DEF TypeOK, StoresOK, RequestsOK
  <2>6. ASSUME NEW w \in Wristbands, GraceExpires(w)
        PROVE  TypeOK'
    BY <2>6 DEF GraceExpires, requests, TypeOK
  <2>7. CASE DayEnds
    BY <2>7 DEF DayEnds, requests, TypeOK
  <2>8. CASE UNCHANGED vars
    BY <2>8 DEF vars, stores, requests, TypeOK
  <2> QED  BY <2>1, <2>2, <2>3, <2>4, <2>5, <2>6, <2>7, <2>8 DEF Next
<1> QED  BY <1>1, <1>2, PTL DEF Spec

-----------------------------------------------------------------------------
(* Links, when a reset overlaps no other request on its wristband and no   *)
(* key expires under a request                                             *)

Orderly == AdminAlone /\ "dayend" \notin Faults

ResetSteps == {"delete", "forget", "claim"}

ResetAlone ==
  \A q, r \in Requests :
    q # r /\ pc[q] \in ResetSteps /\ pc[r] # "idle" => uid[q] # uid[r]

\* Once a request has found or made a link, the link stays until it is done.
LinkHeld ==
  \A r \in Requests :
    pc[r] \notin {"idle", "link", "get", "forget", "claim"}
      => Linked(uid[r]) /\ fwd[uid[r]].ticket = tid[r]

\* What a check has decided is still so when it writes it down.
CheckHeld ==
  \A r \in Requests :
    /\ pc[r] \in {"reread", "write", "publish"} => tid[r] \in passed
    /\ pc[r] = "write" => snapshot[r] = tid[r]

BoundChecked ==
  \A w \in Wristbands :
    Linked(w) /\ fwd[w].status = "BOUND" => fwd[w].ticket \in passed

LinksInv ==
  /\ TypeOK
  /\ KeysAgree
  /\ LinksExpire
  /\ ResetAlone
  /\ LinkHeld
  /\ CheckHeld
  /\ BoundChecked

\* Requests that move without touching a binding key.
LEMMA LinksUntouched ==
  ASSUME LinksInv, UNCHANGED <<fwd, rev, passed>>
  PROVE  KeysAgree' /\ LinksExpire' /\ BoundChecked'
BY DEF LinksInv, KeysAgree, LinksExpire, BoundChecked, Linked

\* An arriving request sees no reset on its wristband, a reset sees no request.
LEMMA ArriveInv ==
  ASSUME LinksInv, Orderly, NEW r \in Requests, NEW w \in Wristbands,
         NEW t \in Tickets \cup {None},
         NEW step \in {"link", "get", "delete", "publish"},
         Arrive(r, w, t, step),
         step \in {"delete", "publish"} => Linked(w) /\ fwd[w].ticket = t,
         step = "delete" => ~Busy(w),
         step = "publish" => t \in passed
  PROVE  ResetAlone' /\ LinkHeld' /\ CheckHeld'
<1>1. ResetAlone'
  BY DEF LinksInv, TypeOK, Orderly, Arrive, ResetAlone, ResetSteps, Busy, Resetting
<1>2. LinkHeld' /\ CheckHeld'
  BY DEF LinksInv, TypeOK, Arrive, stores, LinkHeld, CheckHeld, Linked
<1> QED  BY <1>1, <1>2

\* An answered request holds nothing.
LEMMA AnswerInv ==
  ASSUME LinksInv, NEW r \in Requests, Answer(r), UNCHANGED <<fwd, passed>>
  PROVE  ResetAlone' /\ LinkHeld' /\ CheckHeld'
BY DEF LinksInv, TypeOK, Answer, ResetAlone, ResetSteps, LinkHeld, CheckHeld, Linked

\* A request that goes on without touching the wristband's key.
LEMMA StepInv ==
  ASSUME LinksInv, NEW r \in Requests, NEW from \in Steps, NEW to \in Steps,
         Step(r, from, to), UNCHANGED <<fwd, passed>>,
         <<from, to>> \in {<<"activate", "cache">>, <<"forget", "claim">>,
                           <<"publish", "redeem">>}
  PROVE  ResetAlone' /\ LinkHeld' /\ CheckHeld'
BY DEF LinksInv, TypeOK, Step, ResetAlone, ResetSteps, LinkHeld, CheckHeld, Linked

\* LinksInv is inductive: the links survive any interleaving of orderly requests.
LEMMA LinksInductive ==
  ASSUME Orderly, LinksInv, [Next]_vars, TypeOK'
  PROVE  LinksInv'
<1> USE DEF ResetSteps
<1>1. ASSUME NEW r \in Requests, Bind(r)
      PROVE  LinksInv'
  <2>1. ASSUME NEW w \in Wristbands, NEW t \in Tickets, BindArrives(r, w, t)
        PROVE  LinksInv'
    BY <2>1, ArriveInv, LinksUntouched DEF BindArrives, Arrive, stores, LinksInv
  <2>2. CASE BindLink(r)
    <3>1. CASE ~Free(uid[r], tid[r])
      BY <2>2, <3>1, AnswerInv, LinksUntouched DEF BindLink, LinksInv
    <3>2. CASE Free(uid[r], tid[r])
      <4>1. uid[r] \in Wristbands /\ tid[r] \in Tickets /\ pc[r] = "link"
        BY <2>2 DEF BindLink, LinksInv, TypeOK
      <4>2. /\ [ticket |-> tid[r], status |-> "BINDING", ttl |-> TRUE] # None
            /\ \A w \in Wristbands : ~Linked(w) \/ fwd[w].ticket # tid[r]
        <5>1. [ticket |-> tid[r], status |-> "BINDING", ttl |-> TRUE] \in Binding
          BY <4>1 DEF Binding
        <5>2. ASSUME NEW w \in Wristbands
              PROVE  ~(Linked(w) /\ fwd[w].ticket = tid[r])
          <6>1. rev[tid[r]] # w
            BY <3>2, NoneAssumption DEF Free
          <6> QED  BY <4>1, <6>1 DEF LinksInv, KeysAgree
        <5> QED  BY <5>1, <5>2, NoneAssumption
      <4>3. KeysAgree'
        BY <2>2, <3>2, <4>1, <4>2, NoneAssumption
           DEF BindLink, Free, Linked, LinksInv, TypeOK, KeysAgree
      <4>4. LinksExpire' /\ BoundChecked'
        BY <2>2, <3>2, <4>1, <4>2
           DEF BindLink, Free, Linked, LinksInv, TypeOK, LinksExpire, BoundChecked
      <4>5. ResetAlone'
        BY <2>2, <3>2, <4>1 DEF BindLink, Step, LinksInv, TypeOK, ResetAlone
      <4>6. LinkHeld' /\ CheckHeld'
        BY <2>2, <3>2, <4>1, <4>2
           DEF BindLink, Step, Free, Linked, LinksInv, TypeOK, LinkHeld, CheckHeld
      <4> QED  BY <4>3, <4>4, <4>5, <4>6 DEF LinksInv
    <3> QED  BY <3>1, <3>2
  <2>3. CASE BindPending(r)
    BY <2>3, AnswerInv, LinksUntouched DEF BindPending, LinksInv
  <2> QED  BY <1>1, <2>1, <2>2, <2>3 DEF Bind
<1>2. ASSUME NEW r \in Requests, NFCCheck(r)
      PROVE  LinksInv'
  <2>1. ASSUME NEW w \in Wristbands, CheckArrives(r, w)
        PROVE  LinksInv'
    BY <2>1, ArriveInv, LinksUntouched DEF CheckArrives, Arrive, stores, LinksInv
  <2>2. CASE CheckGet(r)
    <3>1. CASE ~Linked(uid[r])
      BY <2>2, <3>1, AnswerInv, LinksUntouched DEF CheckGet, LinksInv
    <3>2. CASE Linked(uid[r])
      <4>1. uid[r] \in Wristbands /\ pc[r] = "get"
        BY <2>2 DEF CheckGet, LinksInv, TypeOK
      <4>2. KeysAgree' /\ LinksExpire' /\ BoundChecked'
        BY <2>2, <3>2, <4>1
           DEF CheckGet, LinksInv, KeysAgree, LinksExpire, BoundChecked, Linked
      <4>3. ResetAlone'
        BY <2>2, <3>2, <4>1 DEF CheckGet, LinksInv, TypeOK, ResetAlone
      <4>4. LinkHeld' /\ CheckHeld'
        BY <2>2, <3>2, <4>1 DEF CheckGet, LinksInv, TypeOK, LinkHeld, CheckHeld, Linked
      <4> QED  BY <4>2, <4>3, <4>4 DEF LinksInv
    <3> QED  BY <3>1, <3>2
  <2>3. CASE CheckReread(r)
    <3>1. CASE ~Linked(uid[r])
      BY <2>3, <3>1, AnswerInv, LinksUntouched DEF CheckReread, stores, LinksInv
    <3>2. CASE Linked(uid[r])
      <4>1. uid[r] \in Wristbands /\ pc[r] = "reread"
        BY <2>3 DEF CheckReread, LinksInv, TypeOK
      <4>2. KeysAgree' /\ LinksExpire' /\ BoundChecked'
        BY <2>3, LinksUntouched DEF CheckReread, stores
      <4>3. ResetAlone'
        BY <2>3, <3>2, <4>1 DEF CheckReread, LinksInv, TypeOK, ResetAlone
      <4>4. LinkHeld' /\ CheckHeld'
        BY <2>3, <3>2, <4>1
           DEF CheckReread, stores, LinksInv, TypeOK, LinkHeld, CheckHeld, Linked
      <4> QED  BY <4>2, <4>3, <4>4 DEF LinksInv
    <3> QED  BY <3>1, <3>2
  <2>4. CASE CheckWrite(r)
    <3>1. /\ uid[r] \in Wristbands /\ pc[r] = "write"
          /\ Linked(uid[r]) /\ fwd[uid[r]].ticket = snapshot[r]
          /\ snapshot[r] = tid[r] /\ tid[r] \in passed /\ tid[r] \in Tickets
      BY <2>4 DEF CheckWrite, Step, LinksInv, TypeOK, LinkHeld, CheckHeld
    <3>2. Linked(uid[r])' /\ fwd'[uid[r]] = Promoted(uid[r], snapshot[r])
      <4>1. Promoted(uid[r], snapshot[r]) \in Binding
        BY <3>1 DEF Promoted, LinksInv, TypeOK, Linked, Binding
      <4> QED
        BY <2>4, <3>1, <4>1, NoneAssumption DEF CheckWrite, Step, LinksInv, TypeOK, Linked
    <3>3. KeysAgree'
      BY <2>4, <3>1, <3>2 DEF CheckWrite, Step, Promoted, Linked, LinksInv, TypeOK, KeysAgree
    <3>4. LinksExpire' /\ BoundChecked'
      BY <2>4, <3>1, <3>2
         DEF CheckWrite, Promoted, Linked, LinksInv, TypeOK, LinksExpire, BoundChecked
    <3>5. ResetAlone'
      BY <2>4, <3>1 DEF CheckWrite, Step, LinksInv, TypeOK, ResetAlone
    <3>6. LinkHeld' /\ CheckHeld'
      BY <2>4, <3>1, <3>2
         DEF CheckWrite, Step, Promoted, Linked, LinksInv, TypeOK, LinkHeld, CheckHeld
    <3> QED  BY <3>3, <3>4, <3>5, <3>6 DEF LinksInv
  <2>5. CASE CheckActivate(r)
    BY <2>5, StepInv, LinksUntouched DEF CheckActivate, LinksInv, Steps
  <2>6. CASE CheckCache(r)
    BY <2>6, AnswerInv, LinksUntouched DEF CheckCache, LinksInv
  <2> QED  BY <1>2, <2>1, <2>2, <2>3, <2>4, <2>5, <2>6 DEF NFCCheck
<1>3. ASSUME NEW r \in Requests, Reset(r)
      PROVE  LinksInv'
  <2>1. ASSUME NEW w \in Wristbands, ResetArrives(r, w)
        PROVE  LinksInv'
    <3>1. fwd[w].ticket \in Tickets
      BY <2>1 DEF ResetArrives, Linked, LinksInv, TypeOK, Binding
    <3> QED
      BY <2>1, <3>1, ArriveInv, LinksUntouched
         DEF ResetArrives, Arrive, stores, LinksInv, Orderly
  <2>2. CASE ResetDelete(r)
    <3>1. uid[r] \in Wristbands /\ pc[r] = "delete" /\ tid[r] \in Tickets
          /\ Linked(uid[r]) /\ fwd[uid[r]].ticket = tid[r]
      BY <2>2 DEF ResetDelete, Step, LinksInv, TypeOK, LinkHeld
    <3>2. KeysAgree'
      BY <2>2, <3>1, NoneAssumption DEF ResetDelete, LinksInv, TypeOK, KeysAgree, Linked
    <3>3. LinksExpire' /\ BoundChecked'
      BY <2>2, <3>1 DEF ResetDelete, LinksInv, TypeOK, LinksExpire, BoundChecked, Linked
    <3>4. ResetAlone'
      BY <2>2, <3>1 DEF ResetDelete, Step, LinksInv, TypeOK, ResetAlone
    <3>5. LinkHeld' /\ CheckHeld'
      BY <2>2, <3>1
         DEF ResetDelete, Step, LinksInv, TypeOK, LinkHeld, CheckHeld, ResetAlone, Linked
    <3> QED  BY <3>2, <3>3, <3>4, <3>5 DEF LinksInv
  <2>3. CASE ResetForget(r)
    BY <2>3, StepInv, LinksUntouched DEF ResetForget, LinksInv, Steps
  <2>4. CASE ResetClaim(r)
    BY <2>4, AnswerInv, LinksUntouched DEF ResetClaim, LinksInv
  <2> QED  BY <1>3, <2>1, <2>2, <2>3, <2>4 DEF Reset
<1>4. ASSUME NEW r \in Requests, Scan(r)
      PROVE  LinksInv'
  <2>1. ASSUME NEW w \in Wristbands, ScanArrives(r, w)
        PROVE  LinksInv'
    <3>1. fwd[w].ticket \in Tickets /\ fwd[w].ticket \in passed
      BY <2>1 DEF ScanArrives, MayRide, Linked, LinksInv, TypeOK, Binding, BoundChecked
    <3> QED
      BY <2>1, <3>1, ArriveInv, LinksUntouched
         DEF ScanArrives, MayRide, Arrive, stores, LinksInv
  <2>2. CASE ScanPublish(r)
    BY <2>2, StepInv, LinksUntouched DEF ScanPublish, LinksInv, Steps
  <2>3. CASE ScanRedeem(r)
    BY <2>3, AnswerInv, LinksUntouched DEF ScanRedeem, LinksInv
  <2> QED  BY <1>4, <2>1, <2>2, <2>3 DEF Scan
<1>5. ASSUME NEW r \in Requests, Abandon(r)
      PROVE  LinksInv'
  BY <1>5, AnswerInv, LinksUntouched DEF Abandon, stores, LinksInv
<1>6. ASSUME NEW w \in Wristbands, GraceExpires(w)
      PROVE  LinksInv'
  BY <1>6, LinksUntouched
     DEF GraceExpires, requests, LinksInv, ResetAlone, LinkHeld, CheckHeld, Linked
<1>7. CASE DayEnds
  <2>1. \A r \in Requests : pc[r] = "idle"
    BY <1>7 DEF DayEnds, Orderly
  <2>2. PICK W \in SUBSET Wristbands :
          /\ fwd' = [w \in Wristbands |->
                       IF w \in W /\ Linked(w) /\ fwd[w].ttl THEN None ELSE fwd[w]]
          /\ rev' = [t \in Tickets |-> IF rev[t] \in W THEN None ELSE rev[t]]
    BY <1>7 DEF DayEnds
  <2>3. \A w \in Wristbands : fwd'[w] = IF w \in W THEN None ELSE fwd[w]
    BY <2>2 DEF Linked, LinksInv, LinksExpire
  <2>5. KeysAgree'
    BY <2>2, <2>3, NoneAssumption DEF KeysAgree, Linked, LinksInv, TypeOK
  <2>6. LinksExpire' /\ BoundChecked'
    BY <1>7, <2>3 DEF DayEnds, LinksExpire, BoundChecked, Linked, LinksInv
  <2>4. ResetAlone' /\ LinkHeld' /\ CheckHeld'
    BY <1>7, <2>1 DEF DayEnds, requests, ResetAlone, LinkHeld, CheckHeld
  <2> QED  BY <1>1, <2>4, <2>5, <2>6 DEF LinksInv
<1>8. CASE UNCHANGED vars
  BY <1>8, LinksUntouched
     DEF vars, stores, requests, LinksInv, ResetAlone, LinkHeld, CheckHeld, Linked
<1> QED  BY <1>1, <1>2, <1>3, <1>4, <1>5, <1>6, <1>7, <1>8 DEF Next

\* LinksInv holds of every reachable state when requests are orderly.
LEMMA LinksAlways ==
  ASSUME Orderly
  PROVE  Spec => []LinksInv
<1>1. Init => LinksInv
  <2> SUFFICES ASSUME Init
               PROVE  LinksInv
    OBVIOUS
  <2>1. TypeOK
    BY DEF Init, TypeOK, Decision, TicketStatus, Steps
  <2>2. KeysAgree /\ LinksExpire /\ BoundChecked
    BY NoneAssumption DEF Init, KeysAgree, LinksExpire, BoundChecked, Linked
  <2>3. ResetAlone /\ LinkHeld /\ CheckHeld
    BY DEF Init, ResetAlone, ResetSteps, LinkHeld, CheckHeld
  <2> QED  BY <2>1, <2>2, <2>3 DEF LinksInv
<1>2. TypeOK' /\ LinksInv /\ [Next]_vars => LinksInv'
  BY LinksInductive
<1> QED  BY <1>1, <1>2, TypeCorrect, PTL DEF Spec

\* The two keys of every link agree, for orderly requests (bindScript and
\* deleteBindingScript change them together, and nothing else disagrees).
THEOREM KeysAlwaysAgree ==
  ASSUME Orderly
  PROVE  Spec => []KeysAgree
<1>1. LinksInv => KeysAgree
  BY DEF LinksInv
<1> QED  BY <1>1, LinksAlways, PTL

\* No ticket is ever on two wristbands, for orderly requests (Bind, M3.5).
THEOREM NoDoubleBinding ==
  ASSUME Orderly
  PROVE  Spec => []OneWristbandPerTicket
<1>1. LinksInv => OneWristbandPerTicket
  <2> SUFFICES ASSUME LinksInv, NEW v \in Wristbands, NEW w \in Wristbands,
                      v # w, Linked(v), Linked(w)
               PROVE  fwd[v].ticket # fwd[w].ticket
    BY DEF OneWristbandPerTicket
  <2>1. fwd[v].ticket \in Tickets /\ rev[fwd[v].ticket] = v
    BY DEF LinksInv, TypeOK, KeysAgree, Linked, Binding
  <2>2. fwd[w].ticket \in Tickets /\ rev[fwd[w].ticket] = w
    BY DEF LinksInv, TypeOK, KeysAgree, Linked, Binding
  <2> QED  BY <2>1, <2>2
<1> QED  BY <1>1, LinksAlways, PTL

\* A wristband is BOUND, and a ride is published, only for a ticket checked
\* since it was linked, for orderly requests (NFCCheck, Scan).
THEOREM RidesAreChecked ==
  ASSUME Orderly
  PROVE  Spec => []OnlyCheckedTicketsRide
<1>1. LinksInv => OnlyCheckedTicketsRide
  BY DEF LinksInv, BoundChecked, CheckHeld, OnlyCheckedTicketsRide
<1> QED  BY <1>1, LinksAlways, PTL

\* No binding outlives the day, for orderly requests (SetBindingStatus, KEEPTTL).
THEOREM LinksAlwaysExpire ==
  ASSUME Orderly
  PROVE  Spec => []LinksExpire
<1>1. LinksInv => LinksExpire
  BY DEF LinksInv
<1> QED  BY <1>1, LinksAlways, PTL

-----------------------------------------------------------------------------
(* Redemption, however requests overlap and whatever fails *)

\* A scan redeems only after its publish; a ticket that is USED was published.
RedeemInv ==
  /\ RedeemedAfterRide
  /\ \A r \in Requests : pc[r] = "redeem" => tid[r] \in published

\* A ticket turns USED only once a ride of it is in Kafka (Scan, markTicketUsed).
THEOREM RedemptionFollowsRide == Spec => []RedeemedAfterRide
<1>1. Init => RedeemInv
  BY DEF Init, RedeemInv, RedeemedAfterRide
<1>2. TypeOK /\ RedeemInv /\ [Next]_vars => RedeemInv'
  <2> SUFFICES ASSUME TypeOK, RedeemInv, [Next]_vars
               PROVE  RedeemInv'
    OBVIOUS
  <2> USE DEF RedeemInv, RedeemedAfterRide
  <2>1. ASSUME NEW r \in Requests, Bind(r)
        PROVE  RedeemInv'
    BY <2>1 DEF Bind, BindArrives, BindLink, BindPending, Arrive, Step, Answer,
                stores, SetTicketStatus, BestEffort, TypeOK
  <2>2. ASSUME NEW r \in Requests, NFCCheck(r)
        PROVE  RedeemInv'
    BY <2>2 DEF NFCCheck, CheckArrives, CheckGet, CheckReread, CheckWrite,
                CheckActivate, CheckCache, Arrive, Step, Answer,
                stores, SetTicketStatus, BestEffort, TypeOK
  <2>3. ASSUME NEW r \in Requests, Reset(r)
        PROVE  RedeemInv'
    BY <2>3 DEF Reset, ResetArrives, ResetDelete, ResetForget, ResetClaim, Arrive, Step,
                Answer, stores, SetTicketStatus, BestEffort, TypeOK
  <2>4. ASSUME NEW r \in Requests, Scan(r)
        PROVE  RedeemInv'
    BY <2>4 DEF Scan, ScanArrives, ScanPublish, ScanRedeem, Arrive, Step,
                Answer, stores, SetTicketStatus, BestEffort, TypeOK
  <2>5. ASSUME NEW r \in Requests, Abandon(r)
        PROVE  RedeemInv'
    BY <2>5 DEF Abandon, Answer, stores, TypeOK
  <2>6. ASSUME NEW w \in Wristbands, GraceExpires(w)
        PROVE  RedeemInv'
    BY <2>6 DEF GraceExpires, requests
  <2>7. CASE DayEnds
    BY <2>7 DEF DayEnds, requests
  <2>8. CASE UNCHANGED vars
    BY <2>8 DEF vars, stores, requests
  <2> QED  BY <2>1, <2>2, <2>3, <2>4, <2>5, <2>6, <2>7, <2>8 DEF Next
<1>3. RedeemInv => RedeemedAfterRide
  BY DEF RedeemInv
<1> QED  BY <1>1, <1>2, <1>3, TypeCorrect, PTL DEF Spec

-----------------------------------------------------------------------------
(* The grace cache, when no reset is cut short and no write of it is lost *)

Forgetting(w) == \E r \in Requests : pc[r] = "forget" /\ uid[r] = w

\* A cached "allowed" is about a BOUND wristband, or is being forgotten and the
\* wristband is unlinked; a check about to cache "allowed" has made it BOUND.
GraceInv ==
  /\ \A w \in Wristbands :
       grace[w] = "allowed" => (Linked(w) /\ fwd[w].status = "BOUND") \/ Forgetting(w)
  /\ \A r \in Requests :
       pc[r] = "activate" \/ (pc[r] = "cache" /\ decision[r] = "allowed")
         => fwd[uid[r]].status = "BOUND"
  /\ \A w \in Wristbands : Forgetting(w) => ~Linked(w)

\* A step that leaves the keys and the cache alone and starts or ends no forgetting.
LEMMA GraceUntouched ==
  ASSUME GraceInv, UNCHANGED <<fwd, grace>>,
         \A w \in Wristbands : Forgetting(w) <=> Forgetting(w)',
         \A r \in Requests :
           pc'[r] = "activate" \/ (pc'[r] = "cache" /\ decision'[r] = "allowed")
             => fwd[uid'[r]].status = "BOUND"
  PROVE  GraceInv'
BY DEF GraceInv, Linked

\* Every action keeps a cached "allowed" on a BOUND wristband.
LEMMA GraceInductive ==
  ASSUME Orderly, {"gracewrite", "gonereset"} \cap Faults = {},
         LinksInv, GraceInv, [Next]_vars
  PROVE  GraceInv'
<1> USE DEF LinksInv, TypeOK
<1>1. ASSUME NEW r \in Requests, Bind(r)
      PROVE  GraceInv'
  <2>1. ASSUME NEW w \in Wristbands, NEW t \in Tickets, BindArrives(r, w, t)
        PROVE  GraceInv'
    BY <2>1, GraceUntouched DEF BindArrives, Arrive, stores, Forgetting, GraceInv
  <2>2. CASE BindLink(r)
    <3>1. CASE ~Free(uid[r], tid[r])
      BY <2>2, <3>1, GraceUntouched DEF BindLink, Answer, Forgetting, GraceInv
    <3>2. CASE Free(uid[r], tid[r])
      <4>1. uid[r] \in Wristbands /\ ~Linked(uid[r]) /\ pc[r] = "link"
        BY <2>2, <3>2 DEF BindLink, Free
      <4>2. ~Forgetting(uid[r])
        BY <4>1 DEF Forgetting, ResetAlone, ResetSteps
      <4>3. ASSUME NEW w \in Wristbands, grace'[w] = "allowed"
            PROVE  (Linked(w)' /\ fwd'[w].status = "BOUND") \/ Forgetting(w)'
        <5>1. w # uid[r]
          BY <2>2, <4>1, <4>2, <4>3 DEF BindLink, GraceInv
        <5>2. Forgetting(w) => Forgetting(w)'
          BY <2>2, <3>2, <4>1 DEF BindLink, Step, Forgetting
        <5>3. fwd'[w] = fwd[w] /\ grace'[w] = grace[w]
          BY <2>2, <3>2, <5>1 DEF BindLink
        <5> QED  BY <4>3, <5>2, <5>3 DEF GraceInv, Linked
      <4>4. ASSUME NEW q \in Requests,
                   pc'[q] = "activate" \/ (pc'[q] = "cache" /\ decision'[q] = "allowed")
            PROVE  fwd'[uid'[q]].status = "BOUND"
        <5>1. q # r /\ uid[q] \in Wristbands /\ Linked(uid[q])
          BY <2>2, <3>2, <4>1, <4>4 DEF BindLink, Step, LinkHeld
        <5>2. uid[q] # uid[r]
          BY <4>1, <5>1
        <5> QED  BY <2>2, <3>2, <4>1, <4>4, <5>1, <5>2 DEF BindLink, Step, GraceInv
      <4>5. ASSUME NEW w \in Wristbands, Forgetting(w)'
            PROVE  ~Linked(w)'
        <5>1. Forgetting(w)
          BY <2>2, <3>2, <4>1, <4>5 DEF BindLink, Step, Forgetting
        <5>2. w # uid[r]
          BY <4>2, <5>1
        <5> QED  BY <2>2, <3>2, <5>1, <5>2 DEF BindLink, GraceInv, Linked
      <4> QED  BY <4>3, <4>4, <4>5 DEF GraceInv
    <3> QED  BY <3>1, <3>2
  <2>3. CASE BindPending(r)
    BY <2>3, GraceUntouched DEF BindPending, Answer, Forgetting, GraceInv
  <2> QED  BY <1>1, <2>1, <2>2, <2>3 DEF Bind
<1>2. ASSUME NEW r \in Requests, NFCCheck(r)
      PROVE  GraceInv'
  <2>1. ASSUME NEW w \in Wristbands, CheckArrives(r, w)
        PROVE  GraceInv'
    BY <2>1, GraceUntouched DEF CheckArrives, Arrive, stores, Forgetting, GraceInv
  <2>2. CASE CheckGet(r)
    BY <2>2, GraceUntouched DEF CheckGet, Answer, Forgetting, GraceInv
  <2>3. CASE CheckReread(r)
    BY <2>3, GraceUntouched DEF CheckReread, Answer, stores, Forgetting, GraceInv
  <2>4. CASE CheckWrite(r)
    <3>1. uid[r] \in Wristbands /\ Linked(uid[r]) /\ pc[r] = "write"
      BY <2>4 DEF CheckWrite, Step, LinkHeld
    <3>2. fwd'[uid[r]].status = "BOUND"
      BY <2>4, <3>1 DEF CheckWrite, Promoted
    <3>3. \A w \in Wristbands : Forgetting(w) <=> Forgetting(w)'
      BY <2>4, <3>1 DEF CheckWrite, Step, Forgetting
    <3>4. \A w \in Wristbands : w # uid[r] => fwd'[w] = fwd[w]
      BY <2>4 DEF CheckWrite
    <3>5. Linked(uid[r])'
      <4>1. Promoted(uid[r], snapshot[r]) \in Binding
        BY <3>1 DEF Promoted, Linked, Binding, LinksInv, TypeOK
      <4> QED  BY <2>4, <3>1, <4>1, NoneAssumption DEF CheckWrite, Step, Linked
    <3>6. \A w \in Wristbands :
            grace'[w] = "allowed" => (Linked(w)' /\ fwd'[w].status = "BOUND") \/ Forgetting(w)'
      BY <2>4, <3>2, <3>3, <3>4, <3>5 DEF CheckWrite, Step, Linked, GraceInv
    <3>7. \A q \in Requests :
            pc'[q] = "activate" \/ (pc'[q] = "cache" /\ decision'[q] = "allowed")
              => fwd'[uid'[q]].status = "BOUND"
      BY <2>4, <3>2, <3>4 DEF CheckWrite, Step, GraceInv
    <3>8. \A w \in Wristbands : Forgetting(w)' => ~Linked(w)'
      BY <2>4, <3>1, <3>3, <3>4 DEF CheckWrite, Step, Linked, GraceInv
    <3> QED  BY <3>6, <3>7, <3>8 DEF GraceInv
  <2>5. CASE CheckActivate(r)
    BY <2>5, GraceUntouched DEF CheckActivate, Step, Forgetting, GraceInv
  <2>6. CASE CheckCache(r)
    <3>1. uid[r] \in Wristbands /\ Linked(uid[r]) /\ pc[r] = "cache"
      BY <2>6 DEF CheckCache, LinkHeld
    <3>2. grace' = [grace EXCEPT ![uid[r]] = decision[r]]
      BY <2>6 DEF CheckCache, SetWristbandGrace, BestEffort
    <3>3. \A w \in Wristbands : Forgetting(w) <=> Forgetting(w)'
      BY <2>6, <3>1 DEF CheckCache, Answer, Forgetting
    <3>4. ASSUME NEW w \in Wristbands, grace'[w] = "allowed"
          PROVE  (Linked(w)' /\ fwd'[w].status = "BOUND") \/ Forgetting(w)'
      BY <2>6, <3>1, <3>2, <3>3, <3>4 DEF CheckCache, Linked, GraceInv
    <3>5. ASSUME NEW q \in Requests,
                 pc'[q] = "activate" \/ (pc'[q] = "cache" /\ decision'[q] = "allowed")
          PROVE  fwd'[uid'[q]].status = "BOUND"
      BY <2>6, <3>5 DEF CheckCache, Answer, GraceInv
    <3>6. \A w \in Wristbands : Forgetting(w)' => ~Linked(w)'
      BY <2>6, <3>3 DEF CheckCache, Linked, GraceInv
    <3> QED  BY <3>4, <3>5, <3>6 DEF GraceInv
  <2> QED  BY <1>2, <2>1, <2>2, <2>3, <2>4, <2>5, <2>6 DEF NFCCheck
<1>3. ASSUME NEW r \in Requests, Reset(r)
      PROVE  GraceInv'
  <2>1. ASSUME NEW w \in Wristbands, ResetArrives(r, w)
        PROVE  GraceInv'
    BY <2>1, GraceUntouched DEF ResetArrives, Arrive, stores, Forgetting, GraceInv
  <2>2. CASE ResetDelete(r)
    <3>1. uid[r] \in Wristbands /\ pc[r] = "delete"
      BY <2>2 DEF ResetDelete, Step
    <3>2. Forgetting(uid[r])' /\ \A w \in Wristbands : Forgetting(w) => Forgetting(w)'
      BY <2>2, <3>1 DEF ResetDelete, Step, Forgetting
    <3>3. \A w \in Wristbands : w # uid[r] => fwd'[w] = fwd[w]
      BY <2>2 DEF ResetDelete
    <3>4. ASSUME NEW w \in Wristbands, grace'[w] = "allowed"
          PROVE  (Linked(w)' /\ fwd'[w].status = "BOUND") \/ Forgetting(w)'
      <4>1. CASE w = uid[r]
        BY <2>2, <3>2, <4>1 DEF ResetDelete, Step, Forgetting
      <4>2. CASE w # uid[r]
        BY <2>2, <3>2, <3>3, <3>4, <4>2 DEF ResetDelete, Linked, GraceInv
      <4> QED  BY <4>1, <4>2
    <3>5. ASSUME NEW q \in Requests,
                 pc'[q] = "activate" \/ (pc'[q] = "cache" /\ decision'[q] = "allowed")
          PROVE  fwd'[uid'[q]].status = "BOUND"
      <4>1. q # r /\ pc[q] # "idle" /\ uid[q] \in Wristbands
        BY <2>2, <3>1, <3>5 DEF ResetDelete, Step
      <4>2. uid[q] # uid[r]
        BY <3>1, <4>1 DEF ResetAlone, ResetSteps
      <4> QED  BY <2>2, <3>3, <3>5, <4>1, <4>2 DEF ResetDelete, Step, GraceInv
    <3>6. ASSUME NEW w \in Wristbands, Forgetting(w)'
          PROVE  ~Linked(w)'
      <4>1. CASE w = uid[r]
        BY <2>2, <4>1 DEF ResetDelete, Linked
      <4>2. CASE w # uid[r]
        BY <2>2, <3>1, <3>3, <3>6, <4>2 DEF ResetDelete, Step, Forgetting, Linked, GraceInv
      <4> QED  BY <4>1, <4>2
    <3> QED  BY <3>4, <3>5, <3>6 DEF GraceInv
  <2>3. CASE ResetForget(r)
    <3>1. uid[r] \in Wristbands /\ pc[r] = "forget"
      BY <2>3 DEF ResetForget, Step
    <3>2. grace' = [grace EXCEPT ![uid[r]] = "none"]
      BY <2>3 DEF ResetForget, SetWristbandGrace, BestEffort
    <3>3. \A w \in Wristbands : w # uid[r] => (Forgetting(w) => Forgetting(w)')
      BY <2>3 DEF ResetForget, Step, Forgetting
    <3>4. ASSUME NEW w \in Wristbands, grace'[w] = "allowed"
          PROVE  (Linked(w)' /\ fwd'[w].status = "BOUND") \/ Forgetting(w)'
      <4>1. w # uid[r] /\ grace[w] = "allowed"
        BY <3>1, <3>2, <3>4
      <4> QED  BY <2>3, <3>3, <4>1 DEF ResetForget, Linked, GraceInv
    <3>5. ASSUME NEW q \in Requests,
                 pc'[q] = "activate" \/ (pc'[q] = "cache" /\ decision'[q] = "allowed")
          PROVE  fwd'[uid'[q]].status = "BOUND"
      BY <2>3, <3>5 DEF ResetForget, Step, GraceInv
    <3>6. ASSUME NEW w \in Wristbands, Forgetting(w)'
          PROVE  ~Linked(w)'
      <4>1. Forgetting(w)
        BY <2>3, <3>6 DEF ResetForget, Step, Forgetting
      <4> QED  BY <2>3, <4>1 DEF ResetForget, Linked, GraceInv
    <3> QED  BY <3>4, <3>5, <3>6 DEF GraceInv
  <2>4. CASE ResetClaim(r)
    BY <2>4, GraceUntouched DEF ResetClaim, Answer, Forgetting, GraceInv
  <2> QED  BY <1>3, <2>1, <2>2, <2>3, <2>4 DEF Reset
<1>4. ASSUME NEW r \in Requests, Scan(r)
      PROVE  GraceInv'
  BY <1>4, GraceUntouched DEF Scan, ScanArrives, ScanPublish, ScanRedeem, Arrive, Step,
                              Answer, stores, Forgetting, GraceInv
<1>5. ASSUME NEW r \in Requests, Abandon(r)
      PROVE  GraceInv'
  BY <1>5, GraceUntouched DEF Abandon, Answer, stores, Forgetting, GraceInv
<1>6. ASSUME NEW w \in Wristbands, GraceExpires(w)
      PROVE  GraceInv'
  BY <1>6 DEF GraceExpires, requests, Forgetting, GraceInv, Linked
<1>7. CASE DayEnds
  BY <1>7 DEF DayEnds, Orderly, requests, Forgetting, GraceInv
<1>8. CASE UNCHANGED vars
  BY <1>8 DEF vars, stores, requests, Forgetting, GraceInv, Linked
<1> QED  BY <1>1, <1>2, <1>3, <1>4, <1>5, <1>6, <1>7, <1>8 DEF Next

\* A cached "allowed" never speaks for a wristband that was bound anew: resets
\* are orderly and none is cut between DeleteBinding and ClearWristbandGrace.
THEOREM GraceStaysCurrent ==
  ASSUME Orderly, {"gracewrite", "gonereset"} \cap Faults = {}
  PROVE  Spec => []GraceIsCurrent
<1>1. Init => GraceInv
  BY DEF Init, GraceInv, Forgetting
<1>2. LinksInv /\ GraceInv /\ [Next]_vars => GraceInv'
  BY GraceInductive
<1>3. LinksInv /\ GraceInv => GraceIsCurrent
  <2> SUFFICES ASSUME LinksInv, GraceInv, NEW w \in Wristbands,
                      Linked(w), grace[w] = "allowed"
               PROVE  fwd[w].status = "BOUND"
    BY DEF GraceIsCurrent
  <2> QED  BY DEF GraceInv
<1> QED  BY <1>1, <1>2, <1>3, LinksAlways, PTL DEF Spec

-----------------------------------------------------------------------------
(* The links are those of an atomic register *)

\* What the register sees of wristband w.
LinkOf(w) == IF Linked(w) THEN fwd[w].ticket ELSE None
Verified  == {w \in Wristbands : Linked(w) /\ fwd[w].status = "BOUND"}

\* One orderly step links, promotes, unlinks, or changes no link.
LEMMA RegisterStep ==
  ASSUME Orderly, LinksInv, LinksInv', [Next]_vars
  PROVE  [Register!Next]_(Register!vars)
<1> USE DEF LinkOf, Verified
<1>1. CASE fwd' = fwd
  BY <1>1 DEF Register!vars, Linked
<1>2. ASSUME NEW r \in Requests, BindLink(r), fwd' # fwd
      PROVE  Register!Next
  <2>1. /\ uid[r] \in Wristbands /\ tid[r] \in Tickets /\ Free(uid[r], tid[r])
        /\ fwd' = [fwd EXCEPT ![uid[r]] =
                     [ticket |-> tid[r], status |-> "BINDING", ttl |-> TRUE]]
    BY <1>2 DEF BindLink, LinksInv, TypeOK
  <2>2. [ticket |-> tid[r], status |-> "BINDING", ttl |-> TRUE] # None
    <3>1. [ticket |-> tid[r], status |-> "BINDING", ttl |-> TRUE] \in Binding
      BY <2>1 DEF Binding
    <3> QED  BY <3>1, NoneAssumption
  <2>3. \A w \in Wristbands : LinkOf(w) # tid[r]
    BY <2>1, NoneAssumption DEF Free, LinksInv, KeysAgree, Linked
  <2>4. \A w \in Wristbands : LinkOf(w)' = IF w = uid[r] THEN tid[r] ELSE LinkOf(w)
    BY <2>1, <2>2 DEF LinksInv, TypeOK, Linked
  <2>5. Verified' = Verified
    BY <2>1, <2>2 DEF LinksInv, TypeOK, Linked, Free
  <2>6. LinkOf(uid[r]) = None
    BY <2>1 DEF Free
  <2>7. ASSUME NEW w \in Wristbands, NEW t \in Tickets, w = uid[r], t = tid[r]
        PROVE  Register!Link(w, t)
    BY <2>3, <2>4, <2>5, <2>6, <2>7 DEF Register!Link
  <2> QED  BY <2>1, <2>7 DEF Register!Next
<1>3. ASSUME NEW r \in Requests, CheckWrite(r)
      PROVE  Register!Next
  <2>1. /\ uid[r] \in Wristbands /\ Linked(uid[r])
        /\ fwd[uid[r]].ticket = snapshot[r] /\ snapshot[r] \in Tickets
        /\ fwd' = [fwd EXCEPT ![uid[r]] = Promoted(uid[r], snapshot[r])]
    BY <1>3 DEF CheckWrite, Step, LinksInv, TypeOK, LinkHeld, CheckHeld
  <2>2. Promoted(uid[r], snapshot[r]) # None
    <3>1. Promoted(uid[r], snapshot[r]) \in Binding
      BY <2>1 DEF Promoted, Linked, Binding, LinksInv, TypeOK
    <3> QED  BY <3>1, NoneAssumption
  <2>3. \A w \in Wristbands : LinkOf(w)' = LinkOf(w)
    BY <2>1, <2>2 DEF Promoted, LinksInv, TypeOK, Linked
  <2>4. Verified' = Verified \cup {uid[r]}
    BY <2>1, <2>2 DEF Promoted, LinksInv, TypeOK, Linked
  <2>5. LinkOf(uid[r]) # None
    BY <2>1, NoneAssumption
  <2> QED  BY <2>1, <2>3, <2>4, <2>5 DEF Register!Next, Register!Promote
<1>4. ASSUME NEW r \in Requests, ResetDelete(r)
      PROVE  Register!Next
  <2>1. uid[r] \in Wristbands /\ fwd' = [fwd EXCEPT ![uid[r]] = None]
    BY <1>4 DEF ResetDelete, Step, LinksInv, TypeOK
  <2>2. PICK W \in SUBSET Wristbands : W = {uid[r]}
    BY <2>1
  <2>3. \A w \in Wristbands : LinkOf(w)' = IF w \in W THEN None ELSE LinkOf(w)
    BY <2>1, <2>2 DEF LinksInv, TypeOK, Linked
  <2>4. Verified' = Verified \ W
    BY <2>1, <2>2 DEF LinksInv, TypeOK, Linked
  <2>5. Register!Unlink(W)
    BY <2>3, <2>4 DEF Register!Unlink
  <2> QED  BY <2>5 DEF Register!Next
<1>5. CASE DayEnds
  <2>1. PICK W \in SUBSET Wristbands :
          fwd' = [w \in Wristbands |->
                    IF w \in W /\ Linked(w) /\ fwd[w].ttl THEN None ELSE fwd[w]]
    BY <1>5 DEF DayEnds
  <2>2. \A w \in Wristbands : LinkOf(w)' = IF w \in W THEN None ELSE LinkOf(w)
    BY <2>1 DEF LinksInv, LinksExpire, Linked
  <2>3. Verified' = Verified \ W
    BY <2>1 DEF LinksInv, LinksExpire, Linked
  <2> QED  BY <2>2, <2>3 DEF Register!Next, Register!Unlink
<1>6. \/ fwd' = fwd
      \/ \E r \in Requests : BindLink(r) \/ CheckWrite(r) \/ ResetDelete(r)
      \/ DayEnds
  <2>1. ASSUME NEW r \in Requests, Bind(r) \/ NFCCheck(r) \/ Reset(r) \/ Scan(r) \/ Abandon(r)
        PROVE  fwd' = fwd \/ BindLink(r) \/ CheckWrite(r) \/ ResetDelete(r)
    BY <2>1
       DEF Bind, BindArrives, BindPending, NFCCheck, CheckArrives, CheckGet, CheckReread,
           CheckActivate, CheckCache, Reset, ResetArrives, ResetForget, ResetClaim, Scan,
           ScanArrives, ScanPublish, ScanRedeem, Abandon, Arrive, stores
  <2> QED  BY <2>1 DEF Next, GraceExpires, vars, stores
<1> QED  BY <1>1, <1>2, <1>3, <1>4, <1>5, <1>6

\* Orderly requests together behave as an atomic register of links: the binding
\* in Redis can be trusted as the one authority on who wears which wristband.
THEOREM GateImplementsRegister ==
  ASSUME Orderly
  PROVE  Spec => ImplementsRegister
<1>1. Init => Register!Init
  BY DEF Init, Register!Init, Linked
<1>2. LinksInv /\ LinksInv' /\ [Next]_vars => [Register!Next]_(Register!vars)
  BY RegisterStep
<1> QED  BY <1>1, <1>2, LinksAlways, PTL DEF Spec, ImplementsRegister, Register!Spec

\* Orderly requests never hand a wristband from one ticket to another without its link
\* having ended, and what a passed check verifies is the link it was made of: a read
\* taken before a reset never promotes what was bound after it (SetBindingStatus).
THEOREM WristbandsAreNotHandedOn ==
  ASSUME Orderly
  PROVE  Spec => Register!LinksDoNotMove /\ Register!VerifiedInPlace
<1>1. ASSUME [Register!Next]_(Register!vars), NEW w \in Wristbands
      PROVE  LinkOf(w) # None => LinkOf(w)' \in {LinkOf(w), None}
  BY <1>1 DEF Register!Next, Register!Link, Register!Promote, Register!Unlink, Register!vars, LinkOf
<1>2. ASSUME TypeOK, TypeOK', [Register!Next]_(Register!vars), NEW w \in Wristbands, w \in Verified'
      PROVE  LinkOf(w) # None /\ LinkOf(w)' = LinkOf(w)
  <2>1. LinkOf(w)' # None
    BY <1>2, NoneAssumption DEF LinkOf, Verified, TypeOK, Linked, Binding
  <2>2. w \in Verified => LinkOf(w) # None
    BY <1>2, NoneAssumption DEF LinkOf, Verified, TypeOK, Linked, Binding
  <2>3. ASSUME NEW v \in Wristbands, NEW t \in Tickets, Register!Link(v, t)
        PROVE  w \in Verified
    BY <1>2, <2>3 DEF Register!Link, Verified
  <2>4. ASSUME NEW v \in Wristbands, Register!Promote(v)
        PROVE  LinkOf(w) # None
    <3>1. LinkOf(w)' = LinkOf(w)
      BY <2>4 DEF Register!Promote, LinkOf
    <3> QED  BY <2>1, <3>1
  <2>5. ASSUME NEW W \in SUBSET Wristbands, Register!Unlink(W)
        PROVE  w \in Verified
    BY <1>2, <2>5 DEF Register!Unlink, Verified
  <2>6. ASSUME UNCHANGED Register!vars
        PROVE  w \in Verified
    <3>1. Verified' = Verified
      BY <2>6, Zenon DEF Register!vars, Verified
    <3> QED  BY <1>2, <3>1
  <2>7. LinkOf(w) # None
    BY <1>2, <2>2, <2>3, <2>4, <2>5, <2>6 DEF Register!Next, Verified
  <2> QED  BY <1>1, <1>2, <2>1, <2>7
<1>3. [Register!Next]_(Register!vars) => [Register!Stay]_(Register!vars)
  BY <1>1 DEF Register!Stay, LinkOf
<1>4. TypeOK /\ TypeOK' /\ [Register!Next]_(Register!vars) => [Register!InPlace]_(Register!vars)
  BY <1>2 DEF Register!InPlace, LinkOf, Verified
<1> QED  BY <1>3, <1>4, GateImplementsRegister, TypeCorrect, PTL
         DEF ImplementsRegister, Register!Spec, Register!LinksDoNotMove, Register!VerifiedInPlace
=============================================================================
