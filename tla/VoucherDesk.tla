---------------------------- MODULE VoucherDesk ----------------------------
(***************************************************************************)
(* The voucher service (cmd/voucher, internal/voucher) over the tables     *)
(* users, participants and ticket_vouchers: purchase, share, claim,        *)
(* delegate and claim-custody as concurrent HTTP requests.  Every SQL      *)
(* statement is a step; it commits on its own, no handler uses a           *)
(* transaction.                                                            *)
(***************************************************************************)
EXTENDS Naturals, Sequences

CONSTANTS
  Emails, Buyers,       \* accounts, and those of them that buy
  Wallets,              \* addresses sent as own_wallet
  None,                 \* no account; the empty address
  Requests,             \* HTTP requests that may be in progress at once
  MaxQuantity,          \* bound: vouchers in a purchase
  MaxOrders,            \* bound: purchases
  MaxPeople             \* bound: participants

ASSUME BoundsAssumption == MaxQuantity \in Nat /\ MaxOrders \in Nat /\ MaxPeople \in Nat
ASSUME EmailsAssumption == Buyers \subseteq Emails /\ None \notin Emails

\* "voucher-<purchaser>-<index>"
Vouchers == Buyers \X (0 .. MaxQuantity - 1)

VARIABLES
  users,                \* accounts with a row in users
  people,               \* participants, in the order of their ids, from 1
  sold,                 \* vouchers with a row in ticket_vouchers
  owner,                \* owner_id; a voucher is CLAIMED when it has one
  holder,               \* participant_id; 0 is NULL
  orders,               \* purchases so far
  answers,              \* history: what successful requests were answered
  pc, email, vid,       \* per request: next statement, account, voucher
  who,                  \* per request: participant (before create: the guardian or 0)
  order, quantity       \* per purchase: its number, how many vouchers it asks for

tables   == <<users, people, sold, owner, holder>>
requests == <<pc, email, vid, who, order, quantity>>
vars     == <<tables, orders, answers, requests>>

WalletStates == {"NONE", "OWN_NON_CUSTODIAL", "CUSTODIAL_PROXY"}

\* custodialWalletFor derives an address from the id: the id stands for it.
People == [account : Emails \cup {None}, guardian : Nat,
           wallet : WalletStates, address : Wallets \cup {None} \cup Nat]

Steps == {"idle", "buyer", "insert", "register", "claim",
          "create", "provision", "allocate", "flip"}

\* What an answer says: the voucher, and the order it was sold in, the account that
\* has it or the participant that holds it.
Answers == [said : {"sold"}, voucher : Vouchers, to : Nat \ {0}]
             \cup [said : {"claimed"}, voucher : Vouchers, to : Emails]
             \cup [said : {"allocated"}, voucher : Vouchers, to : Nat \ {0}]

Ids == 1 .. Len(people)

TablesType ==
  /\ users \subseteq Emails
  /\ people \in Seq(People)
  /\ sold \in [Vouchers -> 0 .. MaxOrders]
  /\ owner \in [Vouchers -> Emails \cup {None}]
  /\ holder \in [Vouchers -> 0 .. Len(people)]
  /\ orders \in 0 .. MaxOrders
  /\ answers \subseteq Answers

RequestsType ==
  /\ pc \in [Requests -> Steps]
  /\ email \in [Requests -> Emails \cup {None}]
  /\ vid \in [Requests -> Vouchers \cup {None}]
  /\ who \in [Requests -> 0 .. Len(people)]
  /\ order \in [Requests -> 0 .. MaxOrders]
  /\ quantity \in [Requests -> 0 .. MaxQuantity]

\* A request has what its next statement writes.
Equipped(r) ==
  /\ pc[r] \in {"buyer", "insert", "register", "claim"} => email[r] \in Emails
  /\ pc[r] \in {"buyer", "insert"} => email[r] \in Buyers /\ order[r] # 0 /\ quantity[r] # 0
  /\ pc[r] \notin {"idle", "flip"} => vid[r] \in Vouchers
  /\ pc[r] \in {"provision", "allocate", "flip"} => who[r] \in Ids
  /\ pc[r] = "create" /\ email[r] = None => who[r] \in Ids

TypeOK == TablesType /\ RequestsType /\ \A r \in Requests : Equipped(r)

Init ==
  /\ users = {} /\ people = <<>>
  /\ sold = [v \in Vouchers |-> 0]
  /\ owner = [v \in Vouchers |-> None]
  /\ holder = [v \in Vouchers |-> 0]
  /\ orders = 0 /\ answers = {}
  /\ pc = [r \in Requests |-> "idle"]
  /\ email = [r \in Requests |-> None]
  /\ vid = [r \in Requests |-> None]
  /\ who = [r \in Requests |-> 0]
  /\ order = [r \in Requests |-> 0]
  /\ quantity = [r \in Requests |-> 0]

-----------------------------------------------------------------------------
\* Request r arrives and stands before the statement `step`.
Arrive(r, step, e, v, p) ==
  /\ pc[r] = "idle"
  /\ pc' = [pc EXCEPT ![r] = step]
  /\ email' = [email EXCEPT ![r] = e]
  /\ vid' = [vid EXCEPT ![r] = v]
  /\ who' = [who EXCEPT ![r] = p]

Goto(r, step) ==
  /\ pc' = [pc EXCEPT ![r] = step]
  /\ UNCHANGED <<email, order, quantity>>

\* Request r is answered, or ends for another reason.
Done(r) ==
  /\ pc' = [pc EXCEPT ![r] = "idle"]
  /\ email' = [email EXCEPT ![r] = None]
  /\ vid' = [vid EXCEPT ![r] = None]
  /\ who' = [who EXCEPT ![r] = 0]
  /\ order' = [order EXCEPT ![r] = 0]
  /\ quantity' = [quantity EXCEPT ![r] = 0]

Say(what, V, x) == answers' = answers \cup {[said |-> what, voucher |-> v, to |-> x] : v \in V}

\* CreateUser: INSERT ... ON CONFLICT (email) DO UPDATE
CreateUser(r, from, to) ==
  /\ pc[r] = from
  /\ users' = users \cup {email[r]}
  /\ Goto(r, to)
  /\ UNCHANGED <<people, sold, owner, holder, orders, answers, vid, who>>

-----------------------------------------------------------------------------
(* Purchase *)

PurchaseArrives(r, e, q) ==
  /\ orders < MaxOrders
  /\ Arrive(r, "buyer", e, <<e, 0>>, 0)
  /\ orders' = orders + 1
  /\ order' = [order EXCEPT ![r] = orders + 1]
  /\ quantity' = [quantity EXCEPT ![r] = q]
  /\ UNCHANGED <<tables, answers>>

\* voucher_id is UNIQUE.  Mutant: the INSERT replaces the row.
TakenNever(v) == FALSE
Taken(v) == sold[v] # 0

\* CreateVouchers inserts one row after the other.  The indexes start from 0 in every
\* purchase: an index that is taken ends it, and what it has inserted stays.
CreateVouchers(r) ==
  LET v == vid[r]
      n == v[2] + 1
  IN  /\ pc[r] = "insert"
      /\ \/ Taken(v) /\ Done(r) /\ UNCHANGED <<sold, answers>>
         \/ /\ ~Taken(v)
            /\ sold' = [sold EXCEPT ![v] = order[r]]
            /\ \/ /\ n < quantity[r]
                  /\ vid' = [vid EXCEPT ![r] = <<email[r], n>>]
                  /\ UNCHANGED <<pc, email, who, order, quantity, answers>>
               \/ /\ n >= quantity[r]
                  /\ Say("sold", {email[r]} \X (0 .. n - 1), order[r])
                  /\ Done(r)
      /\ UNCHANGED <<users, people, owner, holder, orders>>

Purchase(r) ==
  \/ \E e \in Buyers, q \in 1 .. MaxQuantity : PurchaseArrives(r, e, q)
  \/ CreateUser(r, "buyer", "insert")
  \/ CreateVouchers(r)

-----------------------------------------------------------------------------
(* Share and claim *)

\* A magic link keeps no state in the service: Share signs any voucher id, sold or
\* not, and VerifyMagicLink hands it back for 24 hours.  So a claim may arrive for any
\* voucher at any time; the caller says for which account.
ClaimArrives(r, v, e) ==
  /\ Arrive(r, "register", e, v, 0)
  /\ UNCHANGED <<tables, orders, answers, order, quantity>>

\* WHERE status='UNCLAIMED'.  Mutant: the condition is dropped.
UnclaimedSold(v) == sold[v] # 0
Unclaimed(v) == sold[v] # 0 /\ owner[v] = None

\* No look at participant_id: an allocated voucher goes to whoever has the link.
ClaimVoucher(r) ==
  /\ pc[r] = "claim"
  /\ \/ /\ Unclaimed(vid[r])
        /\ owner' = [owner EXCEPT ![vid[r]] = email[r]]
        /\ Say("claimed", {vid[r]}, email[r])
     \/ ~Unclaimed(vid[r]) /\ UNCHANGED <<owner, answers>>
  /\ Done(r)
  /\ UNCHANGED <<users, people, sold, holder, orders>>

Claim(r) ==
  \/ \E v \in Vouchers, e \in Emails : ClaimArrives(r, v, e)
  \/ CreateUser(r, "register", "claim")
  \/ ClaimVoucher(r)

-----------------------------------------------------------------------------
(* Delegate *)

\* GetParticipantByEmail: an account that has a participant keeps it.
DelegateAccountArrives(r, v, e) ==
  /\ \/ \E p \in Ids : people[p].account = e /\ Arrive(r, "allocate", None, v, p)
     \/ (\A p \in Ids : people[p].account # e) /\ Arrive(r, "create", e, v, 0)
  /\ UNCHANGED <<tables, orders, answers, order, quantity>>

\* GetParticipant, of a guardian there is.  Mutant: it is not looked up.
GuardiansAny == 0 .. Len(people)
Guardians == Ids

DelegateDependentArrives(r, v, g) ==
  /\ Arrive(r, "create", None, v, g)
  /\ UNCHANGED <<tables, orders, answers, order, quantity>>

\* idx_participants_account_email is UNIQUE.  Mutant: it is a plain index.
AccountTakenNever(e) == FALSE
AccountTaken(e) == e # None /\ \E p \in Ids : people[p].account = e

\* A dependent gets its wallet before its voucher.  Mutant: it gets none.
AfterCreateAllocate(e) == "allocate"
AfterCreate(e) == IF e = None THEN "provision" ELSE "allocate"

CreateParticipant(r) ==
  /\ pc[r] = "create"
  /\ \/ AccountTaken(email[r]) /\ Done(r) /\ UNCHANGED people
     \/ /\ ~AccountTaken(email[r])
        /\ Len(people) < MaxPeople
        /\ people' = Append(people, [account |-> email[r], guardian |-> who[r],
                                     wallet |-> "NONE", address |-> None])
        /\ who' = [who EXCEPT ![r] = Len(people) + 1]
        /\ Goto(r, AfterCreate(email[r]))
        /\ UNCHANGED vid
  /\ UNCHANGED <<users, sold, owner, holder, orders, answers>>

\* SetParticipantWallet: no condition on the wallet the participant has.
SetParticipantWallet(p, state, addr) ==
  people' = [people EXCEPT ![p].wallet = state, ![p].address = addr]

Provision(r) ==
  /\ pc[r] = "provision"
  /\ SetParticipantWallet(who[r], "CUSTODIAL_PROXY", who[r])
  /\ Goto(r, "allocate")
  /\ UNCHANGED <<users, sold, owner, holder, orders, answers, vid, who>>

\* WHERE status='UNCLAIMED' AND participant_id IS NULL.  Mutant: the second part is
\* forgotten.
FreeUnclaimed(v) == Unclaimed(v)
Free(v) == Unclaimed(v) /\ holder[v] = 0

\* DelegateVoucher.  A participant created for a voucher that is lost stays.
DelegateVoucher(r) ==
  /\ pc[r] = "allocate"
  /\ \/ /\ Free(vid[r])
        /\ holder' = [holder EXCEPT ![vid[r]] = who[r]]
        /\ Say("allocated", {vid[r]}, who[r])
     \/ ~Free(vid[r]) /\ UNCHANGED <<holder, answers>>
  /\ Done(r)
  /\ UNCHANGED <<users, people, sold, owner, orders>>

Delegate(r) ==
  \/ \E v \in Vouchers, e \in Emails : DelegateAccountArrives(r, v, e)
  \/ \E v \in Vouchers, g \in Guardians : DelegateDependentArrives(r, v, g)
  \/ CreateParticipant(r) \/ Provision(r) \/ DelegateVoucher(r)

-----------------------------------------------------------------------------
(* Claim of custody: the state is read, and written by a later statement; nothing *)
(* looks at own_wallet, which may be empty                                       *)

ClaimCustodyArrives(r, p) ==
  /\ people[p].wallet = "CUSTODIAL_PROXY"
  /\ Arrive(r, "flip", None, None, p)
  /\ UNCHANGED <<tables, orders, answers, order, quantity>>

ClaimCustodyFlip(r, w) ==
  /\ pc[r] = "flip"
  /\ SetParticipantWallet(who[r], "OWN_NON_CUSTODIAL", w)
  /\ Done(r)
  /\ UNCHANGED <<users, sold, owner, holder, orders, answers>>

ClaimCustody(r) ==
  \/ \E p \in Ids : ClaimCustodyArrives(r, p)
  \/ \E w \in Wallets \cup {None} : ClaimCustodyFlip(r, w)

-----------------------------------------------------------------------------
\* A statement fails, the client hangs up, or the service dies: no statement of
\* the request follows.
Abandon(r) ==
  /\ pc[r] # "idle"
  /\ Done(r)
  /\ UNCHANGED <<tables, orders, answers>>

Next ==
  \E r \in Requests :
    Purchase(r) \/ Claim(r) \/ Delegate(r) \/ ClaimCustody(r) \/ Abandon(r)

Spec == Init /\ [][Next]_vars

-----------------------------------------------------------------------------
\* What a request was told stays true: a voucher of a purchase is that purchase's, a
\* claimed voucher belongs to the account, an allocated one to the participant
\* (the 409 of claim and delegate, ErrVoucherAllocated).
AnswerIsTrue ==
  \A a \in answers :
    a.to = CASE a.said = "sold"      -> sold[a.voucher]
             [] a.said = "claimed"   -> owner[a.voucher]
             [] a.said = "allocated" -> holder[a.voucher]

\* However delegations of one account overlap, it has one participant (R28; what
\* DayResolver and GetParticipantByEmail take for granted).
OneParticipantPerAccount ==
  \A p, q \in Ids : people[p].account = people[q].account /\ people[p].account # None => p = q

\* ResolveMintWallet
Pending(p) ==
  \/ people[p].wallet = "NONE"
  \/ people[p].wallet = "OWN_NON_CUSTODIAL" /\ people[p].address = None

\* A dependent that holds a voucher is not pending, wherever a delegation was cut short:
\* "dependents never sit in a forever-pending state" (R31).  The exception is its own
\* doing: a claim of custody that names no wallet.
ClaimedWithoutWallet(p) == people[p].wallet = "OWN_NON_CUSTODIAL"

DependentsResolve ==
  \A v \in Vouchers :
    holder[v] # 0 /\ people[holder[v]].account = None /\ Pending(holder[v])
      => ClaimedWithoutWallet(holder[v])

Book == INSTANCE VoucherBook WITH
  sold <- {v \in Vouchers : sold[v] # 0}, Nobody <- 0

\* Whatever overlaps or fails, the vouchers are issued, allocated and claimed as
\* in one book (models.ErrAlreadyAllocated, "already delegated/claimed").
ImplementsVoucherBook == Book!Spec
=============================================================================
