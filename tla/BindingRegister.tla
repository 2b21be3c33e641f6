-------------------------- MODULE BindingRegister --------------------------
(***************************************************************************)
(* What the gate's binding store promises, as one register changed in      *)
(* atomic steps: a wristband is linked to at most one ticket and a ticket  *)
(* to at most one wristband; a link starts unverified, may be promoted,    *)
(* and ends.  WristbandBinding implements it with two Redis keys per link. *)
(***************************************************************************)
CONSTANTS Wristbands, Tickets, None

VARIABLES
  link,                 \* the ticket a wristband stands for, or None
  verified              \* wristbands whose transaction check has passed

vars == <<link, verified>>

Init ==
  /\ link = [w \in Wristbands |-> None]
  /\ verified = {}

Link(w, t) ==
  /\ link[w] = None
  /\ \A v \in Wristbands : link[v] # t
  /\ link' = [link EXCEPT ![w] = t]
  /\ UNCHANGED verified

Promote(w) ==
  /\ link[w] # None
  /\ verified' = verified \cup {w}
  /\ UNCHANGED link

\* A reset ends one link, the close of the day all of them.
Unlink(W) ==
  /\ link' = [w \in Wristbands |-> IF w \in W THEN None ELSE link[w]]
  /\ verified' = verified \ W

Next ==
  \/ \E w \in Wristbands, t \in Tickets : Link(w, t)
  \/ \E w \in Wristbands : Promote(w)
  \/ \E W \in SUBSET Wristbands : Unlink(W)

Spec == Init /\ [][Next]_vars

-----------------------------------------------------------------------------
(* What the register's steps add up to *)

\* A wristband is never handed from one ticket to another: its link ends first (Bind
\* refuses a wristband that is bound, 409).
Stay == \A w \in Wristbands : link[w] # None => link'[w] \in {link[w], None}

LinksDoNotMove == [][Stay]_vars

\* A passed check counts for the link it was made of: a wristband that is verified after
\* a step stood for the same ticket before it (SetBindingStatus).
InPlace == \A w \in verified' : link[w] # None /\ link'[w] = link[w]

VerifiedInPlace == [][InPlace]_vars
=============================================================================
