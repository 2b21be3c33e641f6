------------------------- MODULE VoucherDeskProofs -------------------------
(***************************************************************************)
(* Theorems about the voucher desk, for any accounts, quantities and       *)
(* number of concurrent requests, each cut short anywhere: the tables stay *)
(* well-typed and implement the book of vouchers, answers stay true, an    *)
(* account has one participant, and a dependent with a voucher has a       *)
(* wallet.                                                                 *)
(***************************************************************************)
EXTENDS VoucherDesk, SequenceTheorems, TLAPS

USE BoundsAssumption, EmailsAssumption

Addresses == Wallets \cup {None} \cup Nat

\* Writing a wallet leaves the participants, their accounts and the wallets of the
\* others.
LEMMA WalletWrite ==
  ASSUME people \in Seq(People), NEW p \in Ids, NEW state \in WalletStates,
         NEW addr \in Addresses, SetParticipantWallet(p, state, addr)
  PROVE  /\ people' \in Seq(People) /\ Len(people') = Len(people)
         /\ \A q \in Ids : people'[q].account = people[q].account
         /\ \A q \in Ids \ {p} : people'[q] = people[q]
         /\ people'[p].wallet = state
<1> DEFINE once == [people[p] EXCEPT !.wallet = state]
           twice == [once EXCEPT !.address = addr]
<1>1. people[p] \in People
  BY ElementOfSeq DEF Ids
<1>2. once \in People /\ twice \in People
  BY <1>1 DEF People, Addresses
<1>3. twice.wallet = state /\ twice.account = people[p].account
  BY <1>1 DEF People
<1>4. people' = [people EXCEPT ![p] = twice]
  BY DEF SetParticipantWallet, Ids
<1> HIDE DEF once, twice
<1>5. /\ people' \in Seq(People) /\ Len(people') = Len(people)
      /\ \A q \in Ids : people'[q] = IF q = p THEN twice ELSE people[q]
  BY <1>2, <1>4, ExceptSeq DEF Ids
<1> QED  BY <1>3, <1>5

\* A new participant gets the next id, and leaves the others.
LEMMA ParticipantInsert ==
  ASSUME people \in Seq(People), NEW x \in People, people' = Append(people, x)
  PROVE  /\ people' \in Seq(People) /\ Len(people') = Len(people) + 1 /\ Len(people) \in Nat
         /\ \A q \in Ids : people'[q] = people[q]
         /\ people'[Len(people) + 1] = x
         /\ Ids' = Ids \cup {Len(people) + 1}
<1>1. /\ people' \in Seq(People) /\ Len(people') = Len(people) + 1 /\ Len(people) \in Nat
      /\ \A q \in Ids : people'[q] = people[q]
      /\ people'[Len(people) + 1] = x
  BY AppendProperties, LenProperties DEF Ids
<1> QED  BY <1>1 DEF Ids

\* An answered request asks for nothing more, and the others stand where they stood.
LEMMA DoneType ==
  ASSUME TypeOK, Len(people) \in Nat, NEW r \in Requests, Done(r), Len(people') = Len(people)
  PROVE  RequestsType' /\ \A c \in Requests : Equipped(c)'
<1>1. RequestsType'
  BY DEF Done, TypeOK, RequestsType, Steps
<1>2. Equipped(r)'
  BY DEF Done, Equipped, TypeOK, RequestsType
<1>3. ASSUME NEW c \in Requests, c # r
      PROVE  Equipped(c)'
  BY <1>3 DEF Done, Equipped, TypeOK, RequestsType, Ids
<1> QED  BY <1>1, <1>2, <1>3

\* A request that arrives stands before its first statement, equipped for it.
LEMMA ArriveType ==
  ASSUME TypeOK, Len(people) \in Nat, NEW r \in Requests, NEW step \in Steps,
         NEW e \in Emails \cup {None}, NEW v \in Vouchers \cup {None},
         NEW p \in 0 .. Len(people), Arrive(r, step, e, v, p), UNCHANGED people,
         order' \in [Requests -> 0 .. MaxOrders], quantity' \in [Requests -> 0 .. MaxQuantity],
         \A c \in Requests \ {r} : order'[c] = order[c] /\ quantity'[c] = quantity[c],
         step \in {"buyer", "register"} => e \in Emails,
         step = "buyer" => e \in Buyers /\ order'[r] # 0 /\ quantity'[r] # 0,
         step \notin {"insert", "claim", "idle"},
         step # "flip" => v \in Vouchers,
         step \in {"provision", "allocate", "flip"} => p \in Ids,
         step = "create" /\ e = None => p \in Ids
  PROVE  RequestsType' /\ \A c \in Requests : Equipped(c)'
<1>1. RequestsType'
  BY DEF Arrive, TypeOK, RequestsType
<1>2. pc'[r] = step /\ email'[r] = e /\ vid'[r] = v /\ who'[r] = p
  BY DEF Arrive, TypeOK, RequestsType
<1>3. Equipped(r)'
  BY <1>2 DEF Equipped, Ids
<1>4. ASSUME NEW c \in Requests, c # r
      PROVE  Equipped(c)'
  <2>1. /\ pc'[c] = pc[c] /\ email'[c] = email[c] /\ vid'[c] = vid[c] /\ who'[c] = who[c]
        /\ order'[c] = order[c] /\ quantity'[c] = quantity[c]
    BY <1>4 DEF Arrive, TypeOK, RequestsType
  <2> QED  BY <2>1 DEF Equipped, TypeOK, Ids
<1> QED  BY <1>1, <1>3, <1>4

\* A request that goes on has to be equipped for its next statement.
LEMMA GotoType ==
  ASSUME TypeOK, Len(people) \in Nat, Len(people') \in Nat, Len(people') >= Len(people),
         NEW r \in Requests, NEW step \in Steps, Goto(r, step), UNCHANGED vid,
         who' \in [Requests -> 0 .. Len(people')],
         \A c \in Requests \ {r} : who'[c] = who[c],
         Equipped(r)'
  PROVE  RequestsType' /\ \A c \in Requests : Equipped(c)'
<1>1. RequestsType'
  BY DEF Goto, TypeOK, RequestsType
<1>2. ASSUME NEW c \in Requests, c # r
      PROVE  Equipped(c)'
  BY <1>2 DEF Goto, Equipped, TypeOK, RequestsType, Ids
<1> QED  BY <1>1, <1>2

-----------------------------------------------------------------------------
\* Reachable states are well-typed; in particular a request stands before a write only
\* with the account, voucher or participant that it writes.
THEOREM TypeCorrect == Spec => []TypeOK
<1>1. Init => TypeOK
  BY EmptySeq DEF Init, TypeOK, TablesType, RequestsType, Equipped, Steps, Ids, Vouchers
<1>2. ASSUME TypeOK, [Next]_vars
      PROVE  TypeOK'
  <2> USE <1>2
  <2>0. Len(people) \in Nat /\ people \in Seq(People) /\ TablesType /\ RequestsType
        /\ (\A c \in Requests : Equipped(c)) /\ (UNCHANGED people => Ids' = Ids)
    BY LenProperties DEF TypeOK, TablesType, Ids
  <2>1. ASSUME NEW r \in Requests, NEW e \in Buyers, NEW q \in 1 .. MaxQuantity,
               PurchaseArrives(r, e, q)
        PROVE  TypeOK'
    <3>1. <<e, 0>> \in Vouchers /\ e \in Emails /\ 0 \in 0 .. Len(people) /\ "buyer" \in Steps
      BY <2>0 DEF Vouchers, Steps
    <3>2. orders + 1 \in 1 .. MaxOrders /\ TablesType' /\ UNCHANGED people
      BY <2>0, <2>1 DEF PurchaseArrives, TablesType, tables
    <3>3. /\ order' \in [Requests -> 0 .. MaxOrders] /\ quantity' \in [Requests -> 0 .. MaxQuantity]
          /\ \A c \in Requests \ {r} : order'[c] = order[c] /\ quantity'[c] = quantity[c]
          /\ order'[r] # 0 /\ quantity'[r] # 0
      BY <2>0, <2>1, <3>2 DEF PurchaseArrives, RequestsType
    <3>4. Arrive(r, "buyer", e, <<e, 0>>, 0)
      BY <2>1 DEF PurchaseArrives
    <3>5. RequestsType' /\ \A c \in Requests : Equipped(c)'
      BY <2>0, <3>1, <3>2, <3>3, <3>4, ArriveType
    <3> QED  BY <3>2, <3>5 DEF TypeOK
  <2>2. ASSUME NEW r \in Requests, NEW step \in Steps, NEW e \in Emails \cup {None},
               NEW v \in Vouchers, NEW p \in 0 .. Len(people),
               Arrive(r, step, e, v, p), UNCHANGED <<tables, orders, answers, order, quantity>>,
               step \in {"register", "create", "allocate"},
               step = "register" => e \in Emails,
               step = "allocate" \/ (step = "create" /\ e = None) => p \in Ids
        PROVE  TypeOK'
    <3>1. TablesType' /\ UNCHANGED people
      BY <2>0, <2>2 DEF TablesType, tables
    <3>2. /\ order' \in [Requests -> 0 .. MaxOrders] /\ quantity' \in [Requests -> 0 .. MaxQuantity]
          /\ UNCHANGED <<order, quantity>>
      BY <2>0, <2>2 DEF RequestsType
    <3>3. /\ step \notin {"buyer", "insert", "claim", "idle", "provision", "flip"}
          /\ step = "allocate" => p \in Ids
          /\ step = "create" /\ e = None => p \in Ids
      BY <2>2
    <3>4. RequestsType' /\ \A c \in Requests : Equipped(c)'
      BY <2>0, <2>2, <3>1, <3>2, <3>3, ArriveType
    <3> QED  BY <3>1, <3>4 DEF TypeOK
  <2>3. ASSUME NEW r \in Requests, NEW from, NEW to \in Steps, CreateUser(r, from, to),
               <<from, to>> \in {<<"buyer", "insert">>, <<"register", "claim">>}
        PROVE  TypeOK'
    <3>1. Equipped(r) /\ pc[r] = from /\ email[r] \in Emails /\ Goto(r, to)
      BY <2>0, <2>3 DEF CreateUser, Equipped
    <3>2. TablesType' /\ UNCHANGED <<people, vid, who>>
      BY <2>0, <2>3, <3>1 DEF CreateUser, TablesType
    <3>3. Equipped(r)'
      BY <2>0, <2>3, <3>1, <3>2 DEF Equipped, Goto, RequestsType
    <3>4. RequestsType' /\ \A c \in Requests : Equipped(c)'
      BY <2>0, <3>1, <3>2, <3>3, <2>3, GotoType DEF RequestsType
    <3> QED  BY <3>2, <3>4 DEF TypeOK
  <2>4. ASSUME NEW r \in Requests, CreateVouchers(r)
        PROVE  TypeOK'
    <3>1. /\ email[r] \in Buyers /\ order[r] \in 1 .. MaxOrders /\ quantity[r] \in 1 .. MaxQuantity
          /\ vid[r] \in Vouchers /\ vid[r][2] \in Nat /\ pc[r] = "insert"
      <4>1. Equipped(r) /\ pc[r] = "insert"
        BY <2>0, <2>4 DEF CreateVouchers
      <4> QED  BY <2>0, <4>1 DEF Equipped, RequestsType, Vouchers
    <3>2. UNCHANGED <<users, people, owner, holder, orders>>
      BY <2>4 DEF CreateVouchers
    <3>3. CASE Taken(vid[r])
      <4>1. Done(r) /\ UNCHANGED <<sold, answers>>
        BY <2>4, <3>3 DEF CreateVouchers
      <4>2. TablesType'
        BY <2>0, <3>2, <4>1 DEF TablesType
      <4> QED  BY <2>0, <3>2, <4>1, <4>2, DoneType DEF TypeOK
    <3>4. CASE ~Taken(vid[r])
      <4>1. sold' \in [Vouchers -> 0 .. MaxOrders]
        BY <2>0, <2>4, <3>1, <3>4 DEF CreateVouchers, TablesType
      <4>2. CASE vid[r][2] + 1 < quantity[r]
        <5>1. <<email[r], vid[r][2] + 1>> \in Vouchers
          BY <3>1, <4>2 DEF Vouchers
        <5>2. /\ vid' = [vid EXCEPT ![r] = <<email[r], vid[r][2] + 1>>]
              /\ UNCHANGED <<pc, email, who, order, quantity, answers>>
          BY <2>4, <3>1, <3>4, <4>2 DEF CreateVouchers
        <5>3. TablesType'
          BY <2>0, <3>2, <4>1, <5>2 DEF TablesType
        <5>4. RequestsType'
          BY <2>0, <3>2, <5>1, <5>2 DEF RequestsType
        <5>5. \A c \in Requests : Equipped(c)'
          BY <2>0, <3>2, <5>1, <5>2 DEF RequestsType, Equipped, Ids
        <5> QED  BY <5>3, <5>4, <5>5 DEF TypeOK
      <4>3. CASE vid[r][2] + 1 >= quantity[r]
        <5>1. {email[r]} \X (0 .. vid[r][2]) \subseteq Vouchers
          BY <3>1 DEF Vouchers
        <5>2. Say("sold", {email[r]} \X (0 .. vid[r][2]), order[r]) /\ Done(r)
          <6>1. (vid[r][2] + 1) - 1 = vid[r][2] /\ ~(vid[r][2] + 1 < quantity[r])
            BY <3>1, <4>3
          <6>2. Say("sold", {email[r]} \X (0 .. (vid[r][2] + 1) - 1), order[r]) /\ Done(r)
            BY <2>4, <3>4, <6>1 DEF CreateVouchers
          <6> QED  BY <6>1, <6>2
        <5>3. answers' \subseteq Answers
          BY <2>0, <3>1, <5>1, <5>2 DEF Say, Answers, TablesType
        <5>4. TablesType'
          BY <2>0, <3>2, <4>1, <5>3 DEF TablesType
        <5> QED  BY <2>0, <3>2, <5>2, <5>4, DoneType DEF TypeOK
      <4> QED  BY <3>1, <4>2, <4>3
    <3> QED  BY <3>3, <3>4
  <2>5. ASSUME NEW r \in Requests, ClaimVoucher(r)
        PROVE  TypeOK'
    <3>1. vid[r] \in Vouchers /\ email[r] \in Emails
      BY <2>0, <2>5 DEF ClaimVoucher, Equipped
    <3>2. owner' \in [Vouchers -> Emails \cup {None}] /\ answers' \subseteq Answers
      <4>1. CASE Say("claimed", {vid[r]}, email[r]) /\ owner' = [owner EXCEPT ![vid[r]] = email[r]]
        <5>1. [said |-> "claimed", voucher |-> vid[r], to |-> email[r]] \in Answers
          BY <3>1 DEF Answers
        <5> QED  BY <2>0, <3>1, <4>1, <5>1 DEF Say, TablesType
      <4> QED  BY <2>0, <2>5, <4>1 DEF ClaimVoucher, TablesType
    <3>3. TablesType' /\ Done(r) /\ UNCHANGED people
      BY <2>0, <2>5, <3>2 DEF ClaimVoucher, TablesType
    <3> QED  BY <2>0, <3>3, DoneType DEF TypeOK
  <2>6. ASSUME NEW r \in Requests, CreateParticipant(r)
        PROVE  TypeOK'
    <3>1. CASE AccountTaken(email[r])
      <4>1. TablesType' /\ Done(r) /\ UNCHANGED people
        BY <2>0, <2>6, <3>1 DEF CreateParticipant, TablesType
      <4> QED  BY <2>0, <4>1, DoneType DEF TypeOK
    <3>2. CASE ~AccountTaken(email[r])
      <4> DEFINE x == [account |-> email[r], guardian |-> who[r],
                       wallet |-> "NONE", address |-> None]
      <4>1. x \in People
        BY <2>0 DEF RequestsType, People, WalletStates
      <4>2. people' = Append(people, x)
        BY <2>6, <3>2 DEF CreateParticipant
      <4>3. people' \in Seq(People) /\ Len(people') = Len(people) + 1
        BY <2>0, <4>1, <4>2, ParticipantInsert
      <4> HIDE DEF x
      <4>4. /\ AfterCreate(email[r]) \in {"provision", "allocate"} /\ vid[r] \in Vouchers
            /\ AfterCreate(email[r]) \in Steps
        BY <2>0, <2>6 DEF AfterCreate, CreateParticipant, Equipped, Steps
      <4>5. /\ who' = [who EXCEPT ![r] = Len(people) + 1] /\ Goto(r, AfterCreate(email[r]))
            /\ UNCHANGED vid
        BY <2>6, <3>2 DEF CreateParticipant
      <4>6. TablesType'
        BY <2>0, <2>6, <4>3 DEF CreateParticipant, TablesType
      <4>7. Equipped(r)'
        BY <2>0, <4>3, <4>4, <4>5 DEF Equipped, Goto, RequestsType, Ids
      <4>8. who' \in [Requests -> 0 .. Len(people')] /\ \A c \in Requests \ {r} : who'[c] = who[c]
        BY <2>0, <4>3, <4>5 DEF RequestsType
      <4>9. RequestsType' /\ \A c \in Requests : Equipped(c)'
        BY <2>0, <4>3, <4>4, <4>5, <4>7, <4>8, GotoType
      <4> QED  BY <4>6, <4>9 DEF TypeOK
    <3> QED  BY <3>1, <3>2
  <2>7. ASSUME NEW r \in Requests, Provision(r)
        PROVE  TypeOK'
    <3>1. Equipped(r) /\ pc[r] = "provision"
      BY <2>0, <2>7 DEF Provision
    <3>2. who[r] \in Ids /\ vid[r] \in Vouchers /\ who[r] \in Addresses
      BY <2>0, <3>1 DEF Equipped, Addresses, Ids
    <3>3. people' \in Seq(People) /\ Len(people') = Len(people)
      BY <2>0, <2>7, <3>2, WalletWrite DEF Provision, WalletStates
    <3>4. TablesType' /\ UNCHANGED <<vid, who>> /\ Goto(r, "allocate") /\ "allocate" \in Steps
      BY <2>0, <2>7, <3>3 DEF Provision, TablesType, Steps
    <3>5. Equipped(r)'
      BY <2>0, <3>2, <3>3, <3>4 DEF Equipped, Goto, RequestsType, Ids
    <3>6. RequestsType' /\ \A c \in Requests : Equipped(c)'
      BY <2>0, <3>3, <3>4, <3>5, GotoType DEF RequestsType
    <3> QED  BY <3>4, <3>6 DEF TypeOK
  <2>8. ASSUME NEW r \in Requests, DelegateVoucher(r)
        PROVE  TypeOK'
    <3>1. vid[r] \in Vouchers /\ who[r] \in 1 .. Len(people)
      BY <2>0, <2>8 DEF DelegateVoucher, Equipped, Ids
    <3>2. holder' \in [Vouchers -> 0 .. Len(people)] /\ answers' \subseteq Answers
      <4>1. CASE Say("allocated", {vid[r]}, who[r]) /\ holder' = [holder EXCEPT ![vid[r]] = who[r]]
        <5>1. [said |-> "allocated", voucher |-> vid[r], to |-> who[r]] \in Answers
          BY <2>0, <3>1 DEF Answers
        <5> QED  BY <2>0, <3>1, <4>1, <5>1 DEF Say, TablesType
      <4> QED  BY <2>0, <2>8, <4>1 DEF DelegateVoucher, TablesType
    <3>3. TablesType' /\ Done(r) /\ UNCHANGED people
      BY <2>0, <2>8, <3>2 DEF DelegateVoucher, TablesType
    <3> QED  BY <2>0, <3>3, DoneType DEF TypeOK
  <2>9. ASSUME NEW r \in Requests, NEW p \in Ids, ClaimCustodyArrives(r, p)
        PROVE  TypeOK'
    <3>1. TablesType' /\ UNCHANGED <<people, order, quantity>> /\ "flip" \in Steps
      BY <2>0, <2>9 DEF ClaimCustodyArrives, TablesType, tables, Steps
    <3>2. Arrive(r, "flip", None, None, p) /\ p \in 0 .. Len(people)
      BY <2>0, <2>9 DEF ClaimCustodyArrives, Ids
    <3>3. RequestsType' /\ \A c \in Requests : Equipped(c)'
      BY <2>0, <2>9, <3>1, <3>2, ArriveType DEF RequestsType
    <3> QED  BY <3>1, <3>3 DEF TypeOK
  <2>10. ASSUME NEW r \in Requests, NEW w \in Wallets \cup {None}, ClaimCustodyFlip(r, w)
         PROVE  TypeOK'
    <3>1. who[r] \in Ids /\ w \in Addresses
      BY <2>0, <2>10 DEF ClaimCustodyFlip, Equipped, Addresses
    <3>2. people' \in Seq(People) /\ Len(people') = Len(people)
      BY <2>0, <2>10, <3>1, WalletWrite DEF ClaimCustodyFlip, WalletStates
    <3>3. TablesType' /\ Done(r)
      BY <2>0, <2>10, <3>2 DEF ClaimCustodyFlip, TablesType
    <3> QED  BY <2>0, <3>2, <3>3, DoneType DEF TypeOK
  <2>11. ASSUME NEW r \in Requests, Abandon(r)
         PROVE  TypeOK'
    <3>1. TablesType' /\ Done(r) /\ UNCHANGED people
      BY <2>0, <2>11 DEF Abandon, TablesType, tables
    <3> QED  BY <2>0, <3>1, DoneType DEF TypeOK
  <2>12. ASSUME UNCHANGED vars
         PROVE  TypeOK'
    BY <2>0, <2>12 DEF TypeOK, TablesType, RequestsType, Equipped, vars, tables, requests
  <2>13. ASSUME NEW r \in Requests, Delegate(r)
         PROVE  TypeOK'
    <3>1. ASSUME NEW v \in Vouchers, NEW e \in Emails, DelegateAccountArrives(r, v, e)
          PROVE  TypeOK'
      <4>1. CASE \E p \in Ids : Arrive(r, "allocate", None, v, p)
        BY <2>0, <2>2, <3>1, <4>1 DEF DelegateAccountArrives, Steps, Ids
      <4>2. CASE Arrive(r, "create", e, v, 0)
        BY <2>0, <2>2, <3>1, <4>2 DEF DelegateAccountArrives, Steps
      <4> QED  BY <3>1, <4>1, <4>2 DEF DelegateAccountArrives
    <3>2. ASSUME NEW v \in Vouchers, NEW g \in Guardians, DelegateDependentArrives(r, v, g)
          PROVE  TypeOK'
      BY <2>0, <2>2, <3>2 DEF DelegateDependentArrives, Guardians, Steps, Ids
    <3> QED  BY <2>6, <2>7, <2>8, <2>13, <3>1, <3>2 DEF Delegate
  <2>14. ASSUME NEW r \in Requests, Claim(r)
         PROVE  TypeOK'
    <3>1. ASSUME NEW v \in Vouchers, NEW e \in Emails, ClaimArrives(r, v, e)
          PROVE  TypeOK'
      BY <2>0, <2>2, <3>1 DEF ClaimArrives, Steps
    <3> QED  BY <2>3, <2>5, <2>14, <3>1 DEF Claim, Steps
  <2>15. ASSUME NEW r \in Requests, Purchase(r)
         PROVE  TypeOK'
    <3>1. CASE \E e \in Buyers, q \in 1 .. MaxQuantity : PurchaseArrives(r, e, q)
      BY <2>1, <3>1
    <3>2. CASE CreateUser(r, "buyer", "insert")
      BY <2>3, <3>2 DEF Steps
    <3> QED  BY <2>4, <2>15, <3>1, <3>2 DEF Purchase
  <2>16. ASSUME NEW r \in Requests, ClaimCustody(r)
         PROVE  TypeOK'
    BY <2>9, <2>10, <2>16 DEF ClaimCustody
  <2> QED  BY <2>11, <2>12, <2>13, <2>14, <2>15, <2>16 DEF Next
<1> QED  BY <1>1, <1>2, PTL DEF Spec

-----------------------------------------------------------------------------
\* The statements that write a voucher, and those that write a participant.
LEMMA VoucherSteps ==
  ASSUME Next
  PROVE  \/ UNCHANGED <<sold, owner, holder, answers>>
         \/ \E r \in Requests : CreateVouchers(r) \/ ClaimVoucher(r) \/ DelegateVoucher(r)
<1>1. PICK r \in Requests :
        Purchase(r) \/ Claim(r) \/ Delegate(r) \/ ClaimCustody(r) \/ Abandon(r)
  BY DEF Next
<1>2. CASE Purchase(r)
  BY <1>2 DEF Purchase, PurchaseArrives, CreateUser, tables
<1>3. CASE Claim(r)
  BY <1>3 DEF Claim, ClaimArrives, CreateUser, tables
<1>4. CASE Delegate(r)
  BY <1>4 DEF Delegate, DelegateAccountArrives, DelegateDependentArrives, CreateParticipant,
              Provision, tables
<1>5. CASE ClaimCustody(r) \/ Abandon(r)
  BY <1>5 DEF ClaimCustody, ClaimCustodyArrives, ClaimCustodyFlip, Abandon, tables
<1> QED  BY <1>1, <1>2, <1>3, <1>4, <1>5

LEMMA PeopleSteps ==
  ASSUME TypeOK, Next
  PROVE  \/ UNCHANGED people
         \/ \E r \in Requests : CreateParticipant(r)
         \/ \E p \in Ids, state \in WalletStates \ {"NONE"}, addr \in Addresses :
              SetParticipantWallet(p, state, addr)
<1>1. PICK r \in Requests :
        Purchase(r) \/ Claim(r) \/ Delegate(r) \/ ClaimCustody(r) \/ Abandon(r)
  BY DEF Next
<1>2. CASE Purchase(r)
  BY <1>2 DEF Purchase, PurchaseArrives, CreateUser, CreateVouchers, tables
<1>3. CASE Claim(r)
  BY <1>3 DEF Claim, ClaimArrives, CreateUser, ClaimVoucher, tables
<1>4. CASE Delegate(r)
  <2>1. CASE Provision(r)
    <3>1. who[r] \in Ids /\ who[r] \in Addresses
      BY <2>1, LenProperties DEF Provision, TypeOK, TablesType, RequestsType, Equipped, Ids, Addresses
    <3> QED  BY <2>1, <3>1 DEF Provision, WalletStates
  <2> QED  BY <1>4, <2>1 DEF Delegate, DelegateAccountArrives, DelegateDependentArrives,
                             DelegateVoucher, tables
<1>5. CASE ClaimCustody(r) \/ Abandon(r)
  <2>1. ASSUME NEW w \in Wallets \cup {None}, ClaimCustodyFlip(r, w)
        PROVE  who[r] \in Ids /\ w \in Addresses
    BY <2>1 DEF ClaimCustodyFlip, TypeOK, Equipped, Addresses
  <2> QED  BY <1>5, <2>1 DEF ClaimCustody, ClaimCustodyArrives, ClaimCustodyFlip, Abandon,
                             WalletStates, tables
<1> QED  BY <1>1, <1>2, <1>3, <1>4, <1>5

\* A step is a step of one request.
LEMMA OthersWait ==
  ASSUME TypeOK, NEW r \in Requests,
         Purchase(r) \/ Claim(r) \/ Delegate(r) \/ ClaimCustody(r) \/ Abandon(r)
  PROVE  \A c \in Requests \ {r} :
           /\ pc'[c] = pc[c] /\ email'[c] = email[c] /\ vid'[c] = vid[c]
           /\ who'[c] = who[c] /\ order'[c] = order[c]
<1> USE DEF TypeOK, RequestsType
<1>1. CASE Purchase(r)
  BY <1>1 DEF Purchase, PurchaseArrives, CreateUser, CreateVouchers, Arrive, Goto, Done
<1>2. CASE Claim(r)
  BY <1>2 DEF Claim, ClaimArrives, CreateUser, ClaimVoucher, Arrive, Goto, Done
<1>3. CASE Delegate(r)
  BY <1>3 DEF Delegate, DelegateAccountArrives, DelegateDependentArrives, CreateParticipant,
              Provision, DelegateVoucher, Arrive, Goto, Done
<1>4. CASE ClaimCustody(r) \/ Abandon(r)
  BY <1>4 DEF ClaimCustody, ClaimCustodyArrives, ClaimCustodyFlip, Abandon, Arrive, Done
<1> QED  BY <1>1, <1>2, <1>3, <1>4

\* An account keeps its participant, and a participant its account.
LEMMA PeopleStay ==
  ASSUME TypeOK, Next
  PROVE  \A p \in Ids :
           /\ p \in Ids' /\ people'[p].account = people[p].account
           /\ people[p].wallet # "NONE" => people'[p].wallet # "NONE"
<1>0. people \in Seq(People) /\ Len(people) \in Nat
  BY LenProperties DEF TypeOK, TablesType
<1>1. CASE UNCHANGED people
  BY <1>1 DEF Ids
<1>2. ASSUME NEW r \in Requests, CreateParticipant(r)
      PROVE  \A p \in Ids : p \in Ids' /\ people'[p] = people[p]
  <2>1. CASE UNCHANGED people
    BY <2>1 DEF Ids
  <2> DEFINE x == [account |-> email[r], guardian |-> who[r], wallet |-> "NONE", address |-> None]
  <2>2. CASE people' = Append(people, x)
    <3>1. x \in People
      BY LenProperties DEF TypeOK, RequestsType, TablesType, People, WalletStates
    <3> HIDE DEF x
    <3> QED  BY <1>0, <2>2, <3>1, ParticipantInsert
  <2> QED  BY <1>2, <2>1, <2>2 DEF CreateParticipant
<1>3. ASSUME NEW q \in Ids, NEW state \in WalletStates \ {"NONE"}, NEW addr \in Addresses,
             SetParticipantWallet(q, state, addr)
      PROVE  \A p \in Ids :
               /\ p \in Ids' /\ people'[p].account = people[p].account
               /\ people[p].wallet # "NONE" => people'[p].wallet # "NONE"
  <2>1. /\ Len(people') = Len(people)
        /\ \A p \in Ids : people'[p].account = people[p].account
        /\ \A p \in Ids \ {q} : people'[p] = people[p]
        /\ people'[q].wallet = state
    BY <1>0, <1>3, WalletWrite
  <2> QED  BY <2>1 DEF Ids
<1> QED  BY <1>1, <1>2, <1>3, PeopleSteps

-----------------------------------------------------------------------------
\* An account never gets a second participant: the unique index decides between
\* delegations that both found none.
THEOREM AccountsAreUnique == Spec => []OneParticipantPerAccount
<1>1. Init => OneParticipantPerAccount
  BY EmptySeq DEF Init, OneParticipantPerAccount, Ids
<1>2. ASSUME TypeOK, OneParticipantPerAccount, [Next]_vars
      PROVE  OneParticipantPerAccount'
  <2> USE <1>2
  <2>0. people \in Seq(People) /\ Len(people) \in Nat
    BY LenProperties DEF TypeOK, TablesType
  <2>1. CASE UNCHANGED people
    BY <2>1 DEF OneParticipantPerAccount, Ids
  <2>2. ASSUME NEW r \in Requests, CreateParticipant(r)
        PROVE  OneParticipantPerAccount'
    <3>1. CASE AccountTaken(email[r])
      BY <2>1, <2>2, <3>1 DEF CreateParticipant
    <3>2. CASE ~AccountTaken(email[r])
      <4> DEFINE x == [account |-> email[r], guardian |-> who[r],
                       wallet |-> "NONE", address |-> None]
      <4>1. x \in People /\ x.account = email[r]
        BY <2>0 DEF TypeOK, RequestsType, People, WalletStates
      <4>2. people' = Append(people, x)
        BY <2>2, <3>2 DEF CreateParticipant
      <4> HIDE DEF x
      <4>3. /\ \A q \in Ids : people'[q] = people[q]
            /\ people'[Len(people) + 1] = x
            /\ Ids' = Ids \cup {Len(people) + 1}
        BY <2>0, <4>1, <4>2, ParticipantInsert
      <4> QED  BY <3>2, <4>1, <4>3 DEF OneParticipantPerAccount, AccountTaken
    <3> QED  BY <3>1, <3>2
  <2>3. ASSUME NEW q \in Ids, NEW state \in WalletStates, NEW addr \in Addresses,
               SetParticipantWallet(q, state, addr)
        PROVE  OneParticipantPerAccount'
    <3>1. Len(people') = Len(people) /\ \A p \in Ids : people'[p].account = people[p].account
      BY <2>0, <2>3, WalletWrite
    <3> QED  BY <3>1 DEF OneParticipantPerAccount, Ids
  <2> QED  BY <2>1, <2>2, <2>3, PeopleSteps DEF vars, tables
<1> QED  BY <1>1, <1>2, TypeCorrect, PTL DEF Spec

\* A participant that is an account's, or has had a wallet.
Ready(p) == people[p].account = None => people[p].wallet # "NONE"

\* Only such participants get a voucher: a dependent that is about to get one has
\* been provisioned, and nothing takes a wallet away.
ReadyForVoucher ==
  /\ \A r \in Requests : pc[r] = "allocate" => Ready(who[r])
  /\ \A v \in Vouchers : holder[v] # 0 => Ready(holder[v])

\* A dependent with a voucher has a wallet, wherever delegations were cut short.
THEOREM DependentsAlwaysResolve == Spec => []DependentsResolve
<1>1. Init => ReadyForVoucher
  BY DEF Init, ReadyForVoucher
<1>2. ASSUME TypeOK, ReadyForVoucher, [Next]_vars
      PROVE  ReadyForVoucher'
  <2> USE <1>2
  <2>0. /\ TablesType /\ RequestsType /\ Len(people) \in Nat /\ people \in Seq(People)
        /\ \A c \in Requests : Equipped(c)
    BY LenProperties DEF TypeOK, TablesType
  <2>1. CASE UNCHANGED vars
    BY <2>1 DEF ReadyForVoucher, Ready, vars, tables, requests
  <2>2. ASSUME NEW p \in Ids, Ready(p), Next
        PROVE  people'[p].account = None => people'[p].wallet # "NONE"
    BY <2>2, PeopleStay DEF Ready
  <2>3. CASE Next
    <3>1. ASSUME NEW r \in Requests, pc'[r] = "allocate"
          PROVE  Ready(who[r])'
      <4>1. PICK a \in Requests :
              Purchase(a) \/ Claim(a) \/ Delegate(a) \/ ClaimCustody(a) \/ Abandon(a)
        BY <2>3 DEF Next
      <4>2. CASE r # a
        <5>1. pc[r] = "allocate" /\ who'[r] = who[r]
          BY <3>1, <4>1, <4>2, OthersWait
        <5>2. who[r] \in Ids /\ Ready(who[r])
          BY <2>0, <5>1 DEF Equipped, ReadyForVoucher
        <5> QED  BY <2>2, <2>3, <5>1, <5>2 DEF Ready
      <4>3. CASE r = a
        <5>1. CASE \E v \in Vouchers, e \in Emails : DelegateAccountArrives(r, v, e)
          BY <2>0, <3>1, <5>1 DEF DelegateAccountArrives, Arrive, RequestsType, Ready, tables
        <5>2. CASE CreateParticipant(r)
          <6> DEFINE x == [account |-> email[r], guardian |-> who[r],
                           wallet |-> "NONE", address |-> None]
          <6>1. /\ people' = Append(people, x) /\ who' = [who EXCEPT ![r] = Len(people) + 1]
                /\ email[r] # None
            BY <2>0, <3>1, <5>2 DEF CreateParticipant, Done, Goto, AfterCreate, RequestsType
          <6>2. x \in People /\ x.account # None
            BY <2>0, <6>1 DEF RequestsType, People, WalletStates
          <6> HIDE DEF x
          <6>3. people'[Len(people) + 1] = x /\ who'[r] = Len(people) + 1
            BY <2>0, <6>1, <6>2, ParticipantInsert DEF RequestsType
          <6> QED  BY <6>2, <6>3 DEF Ready
        <5>3. CASE Provision(r)
          <6>1. who[r] \in Ids /\ who[r] \in Addresses
            BY <2>0, <5>3 DEF Provision, Equipped, Ids, Addresses
          <6>2. people'[who[r]].wallet = "CUSTODIAL_PROXY" /\ who'[r] = who[r]
            BY <2>0, <5>3, <6>1, WalletWrite DEF Provision, WalletStates
          <6> QED  BY <6>2 DEF Ready
        <5>4. CASE Purchase(r) \/ Claim(r) \/ ClaimCustody(r) \/ Abandon(r)
          BY <2>0, <3>1, <5>4
             DEF Purchase, PurchaseArrives, CreateUser, CreateVouchers, Claim, ClaimArrives,
                 ClaimVoucher, ClaimCustody, ClaimCustodyArrives, ClaimCustodyFlip, Abandon,
                 Arrive, Goto, Done, RequestsType
        <5>5. CASE DelegateVoucher(r)
          BY <2>0, <3>1, <5>5 DEF DelegateVoucher, Done, RequestsType
        <5>6. ASSUME NEW v \in Vouchers, NEW g \in Guardians, DelegateDependentArrives(r, v, g)
              PROVE  FALSE
          BY <2>0, <3>1, <5>6 DEF DelegateDependentArrives, Arrive, RequestsType
        <5> QED  BY <4>1, <4>3, <5>1, <5>2, <5>3, <5>4, <5>5, <5>6 DEF Delegate
      <4> QED  BY <4>2, <4>3
    <3>2. ASSUME NEW v \in Vouchers, holder'[v] # 0
          PROVE  Ready(holder[v])'
      <4>1. CASE holder'[v] = holder[v]
        <5>1. holder[v] \in Ids /\ Ready(holder[v])
          BY <2>0, <3>2, <4>1 DEF ReadyForVoucher, TablesType, Ids
        <5> QED  BY <2>2, <2>3, <4>1, <5>1 DEF Ready
      <4>2. CASE holder'[v] # holder[v]
        <5>1. PICK r \in Requests : CreateVouchers(r) \/ ClaimVoucher(r) \/ DelegateVoucher(r)
          BY <2>3, <4>2, VoucherSteps
        <5>2. DelegateVoucher(r)
          BY <4>2, <5>1 DEF CreateVouchers, ClaimVoucher
        <5>3. holder'[v] = who[r] /\ pc[r] = "allocate" /\ UNCHANGED people
          BY <2>0, <4>2, <5>2 DEF DelegateVoucher, TablesType
        <5> QED  BY <5>3 DEF ReadyForVoucher, Ready
      <4> QED  BY <4>1, <4>2
    <3> QED  BY <3>1, <3>2 DEF ReadyForVoucher
  <2> QED  BY <2>1, <2>3
<1>3. TypeOK /\ ReadyForVoucher => DependentsResolve
  BY DEF ReadyForVoucher, Ready, DependentsResolve, Pending, ClaimedWithoutWallet
<1> QED  BY <1>1, <1>2, <1>3, TypeCorrect, PTL DEF Spec

-----------------------------------------------------------------------------
\* The desk implements the book: each voucher is issued, allocated and claimed once,
\* and is not allocated after it was claimed.
THEOREM DeskImplementsBook == Spec => ImplementsVoucherBook
<1>1. Init => Book!Init
  BY DEF Init, Book!Init
<1>2. ASSUME TypeOK, [Next]_vars
      PROVE  [Book!Next]_Book!vars
  <2> USE <1>2
  <2>0. TablesType /\ RequestsType /\ \A c \in Requests : Equipped(c)
    BY DEF TypeOK
  <2>1. CASE UNCHANGED <<sold, owner, holder>>
    BY <2>1 DEF Book!vars
  <2>2. ASSUME NEW r \in Requests, CreateVouchers(r), ~Taken(vid[r])
        PROVE  Book!Next
    <3>1. vid[r] \in Vouchers /\ order[r] \in 1 .. MaxOrders
      <4>1. pc[r] = "insert" /\ Equipped(r)
        BY <2>0, <2>2 DEF CreateVouchers
      <4> QED  BY <2>0, <4>1 DEF Equipped, RequestsType
    <3>2. sold' = [sold EXCEPT ![vid[r]] = order[r]] /\ sold[vid[r]] = 0 /\ UNCHANGED <<owner, holder>>
      BY <2>2 DEF CreateVouchers, Taken
    <3>3. Book!Issue(vid[r])
      BY <2>0, <3>1, <3>2 DEF Book!Issue, TablesType
    <3> QED  BY <3>1, <3>3, Zenon DEF Book!Next, Book!Issue
  <2>3. ASSUME NEW r \in Requests, ClaimVoucher(r), Unclaimed(vid[r])
        PROVE  Book!Next
    <3>1. vid[r] \in Vouchers /\ email[r] \in Emails
      BY <2>0, <2>3 DEF ClaimVoucher, Equipped
    <3>2. Book!Claim(vid[r])
      BY <2>3, <3>1 DEF ClaimVoucher, Unclaimed, Book!Claim, Book!Open
    <3> QED  BY <3>1, <3>2 DEF Book!Next
  <2>4. ASSUME NEW r \in Requests, DelegateVoucher(r), Free(vid[r])
        PROVE  Book!Next
    <3>1. vid[r] \in Vouchers
      BY <2>0, <2>4 DEF DelegateVoucher, Equipped
    <3>2. holder' = [holder EXCEPT ![vid[r]] = holder'[vid[r]]]
      BY <2>0, <2>4, <3>1 DEF DelegateVoucher, TablesType
    <3>3. Book!Allocate(vid[r])
      BY <2>4, <3>1, <3>2 DEF DelegateVoucher, Free, Unclaimed, Book!Allocate, Book!Open
    <3> QED  BY <3>1, <3>3 DEF Book!Next
  <2>5. CASE Next
    <3>1. ASSUME NEW r \in Requests, CreateVouchers(r) \/ ClaimVoucher(r) \/ DelegateVoucher(r)
          PROVE  UNCHANGED <<sold, owner, holder>> \/ Book!Next
      BY <2>2, <2>3, <2>4, <3>1 DEF CreateVouchers, ClaimVoucher, DelegateVoucher
    <3> QED  BY <2>1, <2>5, <3>1, VoucherSteps
  <2> QED  BY <2>1, <2>5 DEF vars, tables
<1> QED  BY <1>1, <1>2, TypeCorrect, PTL DEF Spec, ImplementsVoucherBook, Book!Spec

-----------------------------------------------------------------------------
\* What a purchase has inserted so far carries its order.
InsertedSoFar ==
  \A r \in Requests : pc[r] \in {"buyer", "insert"} =>
    /\ vid[r][1] = email[r]
    /\ \A j \in 0 .. vid[r][2] - 1 : sold[<<email[r], j>>] = order[r]

AnswerHolds(a) ==
  a.to = CASE a.said = "sold"      -> sold[a.voucher]
           [] a.said = "claimed"   -> owner[a.voucher]
           [] a.said = "allocated" -> holder[a.voucher]

\* Answers stay true: no later statement of any request undoes what one was told.
THEOREM AnswersAreTrue == Spec => []AnswerIsTrue
<1>1. Init => InsertedSoFar /\ AnswerIsTrue
  BY DEF Init, InsertedSoFar, AnswerIsTrue
<1>2. ASSUME TypeOK, InsertedSoFar, AnswerIsTrue, [Next]_vars
      PROVE  InsertedSoFar' /\ AnswerIsTrue'
  <2> USE <1>2
  <2>0. TablesType /\ RequestsType /\ \A c \in Requests : Equipped(c)
    BY DEF TypeOK
  <2>1. CASE UNCHANGED vars
    BY <2>1 DEF InsertedSoFar, AnswerIsTrue, vars, tables, requests
  <2>2. ASSUME Next
        PROVE  \A v \in Vouchers :
                 /\ sold[v] # 0 => sold'[v] = sold[v]
                 /\ owner[v] # None => owner'[v] = owner[v]
                 /\ holder[v] # 0 => holder'[v] = holder[v]
    <3>1. CASE UNCHANGED <<sold, owner, holder>>
      BY <3>1
    <3>2. ASSUME NEW r \in Requests, CreateVouchers(r) \/ ClaimVoucher(r) \/ DelegateVoucher(r)
          PROVE  /\ UNCHANGED sold \/ (sold[vid[r]] = 0 /\ sold' = [sold EXCEPT ![vid[r]] = order[r]])
                 /\ \/ UNCHANGED owner
                    \/ owner[vid[r]] = None /\ owner' = [owner EXCEPT ![vid[r]] = email[r]]
                 /\ \/ UNCHANGED holder
                    \/ holder[vid[r]] = 0 /\ holder' = [holder EXCEPT ![vid[r]] = who[r]]
      BY <3>2 DEF CreateVouchers, ClaimVoucher, DelegateVoucher, Taken, Free, Unclaimed
    <3>3. CASE \E r \in Requests : CreateVouchers(r) \/ ClaimVoucher(r) \/ DelegateVoucher(r)
      BY <2>0, <3>2, <3>3 DEF TablesType
    <3> QED  BY <2>2, <3>1, <3>3, VoucherSteps
  <2>3. ASSUME NEW r \in Requests, pc[r] \in {"buyer", "insert"}
        PROVE  /\ email[r] \in Buyers /\ order[r] \in 1 .. MaxOrders
               /\ vid[r] \in Vouchers /\ vid[r][2] \in 0 .. MaxQuantity - 1
               /\ vid[r] = <<email[r], vid[r][2]>>
               /\ \A j \in 0 .. vid[r][2] - 1 :
                    <<email[r], j>> \in Vouchers /\ sold[<<email[r], j>>] = order[r]
    <3>1. email[r] \in Buyers /\ order[r] \in 1 .. MaxOrders /\ vid[r] \in Vouchers
      <4>1. Equipped(r)
        BY <2>0
      <4> QED  BY <2>0, <2>3, <4>1 DEF Equipped, RequestsType
    <3>2. /\ vid[r][2] \in 0 .. MaxQuantity - 1 /\ vid[r][2] \in Nat
          /\ vid[r] = <<vid[r][1], vid[r][2]>>
      BY <3>1 DEF Vouchers
    <3>3. \A j \in 0 .. vid[r][2] - 1 : <<email[r], j>> \in Vouchers
      BY <3>1, <3>2 DEF Vouchers
    <3> QED  BY <2>3, <3>1, <3>2, <3>3 DEF InsertedSoFar
  <2>4. ASSUME NEW r \in Requests, CreateVouchers(r), ~Taken(vid[r])
        PROVE  \A j \in 0 .. vid[r][2] : sold'[<<email[r], j>>] = order[r]
    <3>1. pc[r] \in {"buyer", "insert"} /\ sold' = [sold EXCEPT ![vid[r]] = order[r]]
      BY <2>4 DEF CreateVouchers
    <3>2. \A j \in 0 .. vid[r][2] : j = vid[r][2] \/ j \in 0 .. vid[r][2] - 1
      BY <2>3, <3>1
    <3>3. /\ vid[r] = <<email[r], vid[r][2]>> /\ vid[r] \in Vouchers
          /\ \A j \in 0 .. vid[r][2] - 1 :
               <<email[r], j>> \in Vouchers /\ sold[<<email[r], j>>] = order[r]
      BY <2>3, <3>1
    <3>4. sold'[vid[r]] = order[r] /\ \A v \in Vouchers : sold[v] = order[r] => sold'[v] = order[r]
      BY <2>0, <3>1, <3>3 DEF TablesType
    <3> QED  BY <3>2, <3>3, <3>4
  <2>5. ASSUME Next, NEW r \in Requests, pc'[r] \in {"buyer", "insert"}
        PROVE  /\ vid'[r][1] = email'[r]
               /\ \A j \in 0 .. vid'[r][2] - 1 : sold'[<<email'[r], j>>] = order'[r]
    <3>1. PICK a \in Requests :
            Purchase(a) \/ Claim(a) \/ Delegate(a) \/ ClaimCustody(a) \/ Abandon(a)
      BY <2>5 DEF Next
    <3>2. CASE pc[r] = pc'[r] /\ UNCHANGED <<email[r], vid[r], order[r]>>
      BY <2>2, <2>3, <2>5, <3>2
    <3>3. CASE r = a
      <4>1. ASSUME NEW e \in Buyers, NEW q \in 1 .. MaxQuantity, PurchaseArrives(r, e, q)
            PROVE  vid'[r] = <<e, 0>> /\ email'[r] = e
        BY <2>0, <4>1 DEF PurchaseArrives, Arrive, RequestsType
      <4>2. CASE CreateUser(r, "buyer", "insert")
        <5>1. pc[r] = "buyer" /\ UNCHANGED <<email, vid, order, sold>>
          BY <4>2 DEF CreateUser, Goto
        <5> QED  BY <2>3, <5>1
      <4>3. CASE CreateVouchers(r)
        <5>1. ~Taken(vid[r]) /\ vid' = [vid EXCEPT ![r] = <<email[r], vid[r][2] + 1>>]
              /\ UNCHANGED <<email, order>> /\ pc[r] = "insert"
          BY <2>0, <2>5, <4>3 DEF CreateVouchers, Done, RequestsType
        <5>2. vid'[r] = <<email[r], vid[r][2] + 1>> /\ (vid[r][2] + 1) - 1 = vid[r][2]
          BY <2>0, <2>3, <5>1 DEF RequestsType
        <5> QED  BY <2>4, <4>3, <5>1, <5>2
      <4>4. ~(Claim(r) \/ Delegate(r) \/ ClaimCustody(r) \/ Abandon(r))
        BY <2>0, <2>5 DEF Claim, ClaimArrives, CreateUser, ClaimVoucher, Delegate,
             DelegateAccountArrives, DelegateDependentArrives, CreateParticipant, AfterCreate,
             Provision, DelegateVoucher, ClaimCustody, ClaimCustodyArrives, ClaimCustodyFlip,
             Abandon, Arrive, Goto, Done, RequestsType
      <4> QED  BY <3>1, <3>3, <4>1, <4>2, <4>3, <4>4 DEF Purchase
    <3>4. CASE r # a
      BY <3>1, <3>2, <3>4, OthersWait
    <3> QED  BY <3>3, <3>4
  <2>6. ASSUME Next, NEW a \in answers
        PROVE  a.to = CASE a.said = "sold"      -> sold'[a.voucher]
                        [] a.said = "claimed"   -> owner'[a.voucher]
                        [] a.said = "allocated" -> holder'[a.voucher]
    <3>1. AnswerHolds(a) /\ a \in Answers
      BY <2>0 DEF AnswerIsTrue, AnswerHolds, TablesType
    <3>2. a.voucher \in Vouchers
      BY <3>1 DEF Answers
    <3>3. CASE a.said = "sold"
      <4>1. a.to # 0 /\ a.to = sold[a.voucher]
        BY <3>1, <3>3 DEF Answers, AnswerHolds
      <4> QED  BY <2>2, <2>6, <3>2, <3>3, <4>1
    <3>4. CASE a.said = "claimed"
      <4>1. a.to # None /\ a.to = owner[a.voucher]
        BY <3>1, <3>4 DEF Answers, AnswerHolds
      <4> QED  BY <2>2, <2>6, <3>2, <3>4, <4>1
    <3>5. CASE a.said = "allocated"
      <4>1. a.to # 0 /\ a.to = holder[a.voucher]
        BY <3>1, <3>5 DEF Answers, AnswerHolds
      <4> QED  BY <2>2, <2>6, <3>2, <3>5, <4>1
    <3> QED  BY <3>1, <3>3, <3>4, <3>5 DEF Answers
  <2>7. ASSUME Next, NEW a \in answers', a \notin answers
        PROVE  a.to = CASE a.said = "sold"      -> sold'[a.voucher]
                        [] a.said = "claimed"   -> owner'[a.voucher]
                        [] a.said = "allocated" -> holder'[a.voucher]
    <3>1. PICK r \in Requests : CreateVouchers(r) \/ ClaimVoucher(r) \/ DelegateVoucher(r)
      BY <2>7, VoucherSteps
    <3>2. CASE CreateVouchers(r)
      <4>1. /\ ~Taken(vid[r]) /\ pc[r] = "insert"
            /\ Say("sold", {email[r]} \X (0 .. (vid[r][2] + 1) - 1), order[r])
        BY <2>7, <3>2 DEF CreateVouchers
      <4>2. (vid[r][2] + 1) - 1 = vid[r][2]
        BY <2>3, <4>1
      <4>3. PICK v \in {email[r]} \X (0 .. vid[r][2]) :
              a = [said |-> "sold", voucher |-> v, to |-> order[r]]
        BY <2>7, <4>1, <4>2 DEF Say
      <4>4. sold'[v] = order[r]
        BY <2>4, <3>2, <4>1, <4>3
      <4> QED  BY <4>3, <4>4
    <3>3. CASE ClaimVoucher(r)
      <4>1. /\ Say("claimed", {vid[r]}, email[r]) /\ owner' = [owner EXCEPT ![vid[r]] = email[r]]
            /\ pc[r] = "claim"
        BY <2>7, <3>3 DEF ClaimVoucher
      <4>2. vid[r] \in Vouchers /\ a = [said |-> "claimed", voucher |-> vid[r], to |-> email[r]]
        BY <2>0, <2>7, <4>1 DEF Say, Equipped
      <4> QED  BY <2>0, <4>1, <4>2 DEF TablesType
    <3>4. CASE DelegateVoucher(r)
      <4>1. /\ Say("allocated", {vid[r]}, who[r]) /\ holder' = [holder EXCEPT ![vid[r]] = who[r]]
            /\ pc[r] = "allocate"
        BY <2>7, <3>4 DEF DelegateVoucher
      <4>2. vid[r] \in Vouchers /\ a = [said |-> "allocated", voucher |-> vid[r], to |-> who[r]]
        BY <2>0, <2>7, <4>1 DEF Say, Equipped
      <4> QED  BY <2>0, <4>1, <4>2 DEF TablesType
    <3> QED  BY <3>1, <3>2, <3>3, <3>4
  <2>8. CASE Next
    <3>1. InsertedSoFar'
      BY <2>5, <2>8 DEF InsertedSoFar
    <3>2. AnswerIsTrue'
      BY <2>6, <2>7, <2>8 DEF AnswerIsTrue
    <3> QED  BY <3>1, <3>2
  <2> QED  BY <2>1, <2>8
<1> QED  BY <1>1, <1>2, TypeCorrect, PTL DEF Spec

-----------------------------------------------------------------------------
\* What the desk does with a voucher is done once and in order: nothing is sold, claimed
\* or allocated over an earlier entry, nothing is given that is not sold, and a voucher
\* its buyer's account has claimed is not delegated any more, however requests overlap
\* and wherever they end (ClaimVoucher, DelegateVoucher).
THEOREM VouchersAreWrittenOnce == Spec => Book!WrittenOnce /\ []Book!OnlySoldAreGiven
<1>1. Book!Init => Book!OnlySoldAreGiven
  BY DEF Book!Init, Book!OnlySoldAreGiven
<1>2. ASSUME TablesType, Book!OnlySoldAreGiven, [Book!Next]_Book!vars
      PROVE  Book!OnlySoldAreGiven' /\ [Book!Written]_Book!vars
  <2> USE <1>2
  <2>1. ASSUME NEW v \in Vouchers, Book!Issue(v)
        PROVE  Book!OnlySoldAreGiven' /\ Book!Written
    BY <2>1 DEF Book!Issue, Book!OnlySoldAreGiven, Book!Written
  <2>2. ASSUME NEW v \in Vouchers, Book!Claim(v)
        PROVE  Book!OnlySoldAreGiven' /\ Book!Written
    <3>1. /\ sold[v] # 0 /\ owner[v] = None /\ UNCHANGED holder
          /\ {u \in Vouchers : sold'[u] # 0} = {u \in Vouchers : sold[u] # 0}
      BY <2>2 DEF Book!Claim, Book!Open
    <3>2. \A u \in Vouchers \ {v} : owner'[u] = owner[u]
      BY <2>2 DEF Book!Claim, TablesType
    <3> QED  BY <3>1, <3>2 DEF Book!OnlySoldAreGiven, Book!Written
  <2>3. ASSUME NEW v \in Vouchers, Book!Allocate(v)
        PROVE  Book!OnlySoldAreGiven' /\ Book!Written
    <3>1. /\ sold[v] # 0 /\ owner[v] = None /\ holder[v] = 0 /\ UNCHANGED owner
          /\ {u \in Vouchers : sold'[u] # 0} = {u \in Vouchers : sold[u] # 0}
      BY <2>3 DEF Book!Allocate, Book!Open
    <3>2. \A u \in Vouchers \ {v} : holder'[u] = holder[u]
      BY <2>3 DEF Book!Allocate, TablesType
    <3> QED  BY <3>1, <3>2 DEF Book!OnlySoldAreGiven, Book!Written
  <2>4. CASE UNCHANGED Book!vars
    BY <2>4 DEF Book!vars, Book!OnlySoldAreGiven
  <2> QED  BY <2>1, <2>2, <2>3, <2>4 DEF Book!Next
<1>3. TypeOK => TablesType
  BY DEF TypeOK
<1> QED  BY <1>1, <1>2, <1>3, DeskImplementsBook, TypeCorrect, PTL
         DEF ImplementsVoucherBook, Book!Spec, Book!WrittenOnce
=============================================================================
