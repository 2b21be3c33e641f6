--------------------------- MODULE QRTokenProofs ---------------------------
(***************************************************************************)
(* A token is used once, whatever the numbers of gates, requests and       *)
(* tokens, as long as Slack holds.  The marker of a used token is compared *)
(* with the last tick at which a request may still hold that token.        *)
(***************************************************************************)
EXTENDS QRToken, TLAPS

\* Rounding down to whole seconds loses less than a second.
LEMMA UnixRounds ==
  ASSUME NEW x \in Nat
  PROVE  /\ x \div Second \in Nat
         /\ (x \div Second) * Second <= x
         /\ x < (x \div Second + 1) * Second
BY ClockAssumption, SMTT(30)

\* The tick the second s begins with.
Starts(s) == s * Second

\* Ticks add up; those of a duration are a natural number.
LEMMA StartsAdds ==
  ASSUME NEW s \in Int, NEW n \in Nat
  PROVE  Starts(s + n) = Starts(s) + Starts(n) /\ Starts(s) \in Int /\ Starts(n) \in Nat
BY ClockAssumption, SMTT(30) DEF Starts

\* A clock reading is the second the gate's clock is in.
LEMMA ClockReading ==
  ASSUME TypeOK, NEW g \in Gates
  PROVE  /\ Unix(g) \in Nat
         /\ Starts(Unix(g)) <= now + Ahead[g]
         /\ now + Ahead[g] < Starts(Unix(g) + 1)
         /\ Ahead[g] \in 0 .. Spread
<1>1. now + Ahead[g] \in Nat /\ Ahead[g] \in 0 .. Spread
  BY ClockAssumption DEF TypeOK
<1> QED  BY <1>1, UnixRounds DEF Unix, Starts

-----------------------------------------------------------------------------
\* Reachable states are well-typed, and no clock reading is from the future.
THEOREM TypeCorrect == Spec => []TypeOK
<1>1. Init => TypeOK
  BY ClockAssumption DEF Init, TypeOK, NotIssued
<1>2. ASSUME TypeOK, [Next]_vars
      PROVE  TypeOK'
  <2>1. ASSUME NEW k \in Tokens, NEW g \in Gates, Generate(k, g)
        PROVE  TypeOK'
    <3>1. Unix(g) \in Int /\ Unix(g) * Second <= now + Spread
      BY <1>2, ClockReading, ClockAssumption DEF Starts, TypeOK
    <3> QED  BY <1>2, <2>1, <3>1 DEF Generate, TypeOK, requests, NotIssued
  <2>2. ASSUME NEW r \in Requests, NEW k \in Tokens, NEW g \in Gates, Verify(r, k, g)
        PROVE  TypeOK'
    BY <1>2, <2>2 DEF Verify, Verifies, TypeOK
  <2>3. ASSUME NEW r \in Requests, MarkQRUsed(r)
        PROVE  TypeOK'
    <3>1. MarkedUntil \in Nat
      BY <1>2, ClockAssumption, WindowAssumption DEF MarkedUntil, TypeOK
    <3>2. /\ tok' = [tok EXCEPT ![r] = None] /\ since' = [since EXCEPT ![r] = 0]
          /\ UNCHANGED <<now, stamp>>
      BY <2>3 DEF MarkQRUsed, Done
    <3>3. marker' \in [Tokens -> Nat] /\ uses' \in [Tokens -> Nat]
      BY <1>2, <2>3, <3>1 DEF MarkQRUsed, TypeOK
    <3> QED  BY <1>2, <3>2, <3>3, NoneAssumption, ClockAssumption DEF TypeOK
  <2>4. ASSUME NEW r \in Requests, Abandon(r)
        PROVE  TypeOK'
    BY <1>2, <2>4, ClockAssumption DEF Abandon, Done, TypeOK
  <2>5. CASE Tick
    BY <1>2, <2>5, ClockAssumption DEF Tick, TypeOK, requests
  <2>6. CASE UNCHANGED vars
    BY <1>2, <2>6 DEF vars, TypeOK, requests
  <2> QED  BY <1>2, <2>1, <2>2, <2>3, <2>4, <2>5, <2>6 DEF Next
<1> QED  BY <1>1, <1>2, PTL DEF Spec

-----------------------------------------------------------------------------
\* A token in a request's hands was verified in time, not too long ago.
HeldInTime ==
  \A r \in Requests : tok[r] # None =>
    /\ since[r] < Starts(stamp[tok[r]] + Rotation + 1)
    /\ now <= since[r] + MaxDelay

\* The marker of a used token outlives the token: it was set no earlier than the
\* second the token was generated in.
MarkerOutlives ==
  \A k \in Tokens : uses[k] > 0 =>
    stamp[k] # NotIssued /\ Starts(stamp[k] + MarkerTTL) <= marker[k] + Spread

UseInv == TypeOK /\ HeldInTime /\ MarkerOutlives /\ OneTimeUse

\* With enough slack the marker of a used token is there for every request that
\* still holds the token.
LEMMA HeldFindsMarker ==
  ASSUME Slack, UseInv, NEW r \in Requests, tok[r] # None, uses[tok[r]] > 0
  PROVE  Used(tok[r])
<1>1. tok[r] \in Tokens /\ stamp[tok[r]] \in Int
  BY DEF UseInv, TypeOK
<1>2. PICK s \in Int : s = stamp[tok[r]]
  BY <1>1
<1>3. /\ Starts(s + (Rotation + 1)) = Starts(s) + Starts(Rotation + 1)
      /\ Starts(s + MarkerTTL) = Starts(s) + Starts(MarkerTTL)
      /\ Starts(s) \in Int /\ Starts(Rotation + 1) \in Nat /\ Starts(MarkerTTL) \in Nat
  <2>1. Rotation + 1 \in Nat /\ MarkerTTL \in Nat
    BY WindowAssumption
  <2> QED  BY <1>2, <2>1, StartsAdds
<1>4. s + Rotation + 1 = s + (Rotation + 1)
  BY <1>2, WindowAssumption
<1>5. /\ since[r] < Starts(s) + Starts(Rotation + 1)
      /\ now <= since[r] + MaxDelay
      /\ Starts(s) + Starts(MarkerTTL) <= marker[tok[r]] + Spread
  BY <1>1, <1>2, <1>3, <1>4 DEF UseInv, HeldInTime, MarkerOutlives
<1>6. /\ Starts(Rotation + 1) + Spread + MaxDelay <= Starts(MarkerTTL)
      /\ since[r] \in Nat /\ now \in Nat /\ marker[tok[r]] \in Nat
      /\ Spread \in Nat /\ MaxDelay \in Nat
  BY <1>1, ClockAssumption DEF Slack, UseInv, TypeOK, Starts
<1> QED  BY <1>3, <1>5, <1>6 DEF Used

\* A token that verifies was generated, and its last second has not passed.
LEMMA VerifiedInTime ==
  ASSUME TypeOK, NEW k \in Tokens, NEW g \in Gates, Verifies(k, g)
  PROVE  now < Starts(stamp[k] + Rotation + 1)
<1>1. /\ Unix(g) \in Nat /\ now + Ahead[g] < Starts(Unix(g) + 1) /\ Ahead[g] \in Nat
      /\ now \in Nat /\ stamp[k] \in Int
  BY ClockReading, ClockAssumption DEF TypeOK
<1>2. PICK n \in Nat : stamp[k] + Rotation + 1 = Unix(g) + 1 + n
  <2>1. stamp[k] + Rotation - Unix(g) \in Nat
    BY <1>1, WindowAssumption DEF Verifies
  <2> QED  BY <1>1, <2>1, WindowAssumption
<1>3. Starts(stamp[k] + Rotation + 1) >= Starts(Unix(g) + 1)
  <2>1. Starts(Unix(g) + 1 + n) = Starts(Unix(g) + 1) + Starts(n)
    <3>1. Unix(g) + 1 \in Int
      BY <1>1
    <3> QED  BY <3>1, StartsAdds
  <2>2. Starts(n) \in Nat /\ Starts(Unix(g) + 1) \in Int
    <3>1. Unix(g) + 1 \in Int
      BY <1>1
    <3> QED  BY <3>1, StartsAdds
  <2> QED  BY <1>2, <2>1, <2>2
<1>4. Starts(stamp[k] + Rotation + 1) \in Int /\ Starts(Unix(g) + 1) \in Int
  <2>1. stamp[k] + Rotation + 1 \in Int /\ Unix(g) + 1 \in Int /\ 0 \in Nat
    BY <1>1, WindowAssumption
  <2> QED  BY <2>1, StartsAdds
<1> QED  BY <1>1, <1>3, <1>4

\* UseInv is inductive under Slack.
LEMMA UseInductive ==
  ASSUME Slack, UseInv, [Next]_vars, TypeOK'
  PROVE  UseInv'
<1> USE DEF UseInv
<1>1. ASSUME NEW k \in Tokens, NEW g \in Gates, Generate(k, g)
      PROVE  UseInv'
  <2>1. \A r \in Requests : tok[r] # k
    BY <1>1, NoneAssumption DEF Generate, TypeOK
  <2>2. uses[k] = 0
    BY <1>1 DEF Generate, MarkerOutlives, TypeOK
  <2>3. /\ \A j \in Tokens : j # k => stamp'[j] = stamp[j]
        /\ UNCHANGED <<now, marker, uses, tok, since>>
    BY <1>1 DEF Generate, requests, TypeOK
  <2>4. HeldInTime'
    BY <2>1, <2>3 DEF HeldInTime, TypeOK
  <2>5. MarkerOutlives' /\ OneTimeUse'
    BY <2>2, <2>3 DEF MarkerOutlives, OneTimeUse, TypeOK
  <2> QED  BY <2>4, <2>5
<1>2. ASSUME NEW r \in Requests, NEW k \in Tokens, NEW g \in Gates, Verify(r, k, g)
      PROVE  UseInv'
  <2>1. now < Starts(stamp[k] + Rotation + 1)
    BY <1>2, VerifiedInTime DEF Verify
  <2>2. HeldInTime'
    BY <1>2, <2>1, ClockAssumption DEF Verify, HeldInTime, TypeOK
  <2>3. MarkerOutlives' /\ OneTimeUse'
    BY <1>2 DEF Verify, MarkerOutlives, OneTimeUse
  <2> QED  BY <2>2, <2>3
<1>3. ASSUME NEW r \in Requests, MarkQRUsed(r)
      PROVE  UseInv'
  <2>1. /\ tok[r] \in Tokens /\ tok' = [tok EXCEPT ![r] = None]
        /\ since' = [since EXCEPT ![r] = 0] /\ UNCHANGED <<now, stamp>>
    BY <1>3 DEF MarkQRUsed, Done, TypeOK
  <2>2. HeldInTime'
    BY <2>1 DEF HeldInTime, TypeOK
  <2>3. CASE Used(tok[r])
    BY <1>3, <2>1, <2>2, <2>3 DEF MarkQRUsed, MarkerOutlives, OneTimeUse
  <2>4. CASE ~Used(tok[r])
    <3>1. uses[tok[r]] = 0
      BY <1>3, <2>1, <2>4, HeldFindsMarker DEF MarkQRUsed, TypeOK
    <3>2. /\ marker' = [marker EXCEPT ![tok[r]] = MarkedUntil]
          /\ uses' = [uses EXCEPT ![tok[r]] = @ + 1]
      BY <1>3, <2>4 DEF MarkQRUsed
    <3>3. Starts(stamp[tok[r]] + MarkerTTL) <= MarkedUntil + Spread
      <4>1. /\ stamp[tok[r]] \in Int /\ stamp[tok[r]] # NotIssued
            /\ Starts(stamp[tok[r]]) <= now + Spread
        BY <1>3, <2>1 DEF MarkQRUsed, TypeOK, Starts
      <4>2. /\ Starts(stamp[tok[r]] + MarkerTTL) = Starts(stamp[tok[r]]) + Starts(MarkerTTL)
            /\ Starts(stamp[tok[r]]) \in Int /\ Starts(MarkerTTL) \in Nat
        <5>1. MarkerTTL \in Nat
          BY WindowAssumption
        <5> QED  BY <4>1, <5>1, StartsAdds
      <4>3. now \in Nat /\ Spread \in Nat
        BY ClockAssumption DEF TypeOK
      <4>4. MarkedUntil = now + Starts(MarkerTTL)
        BY DEF MarkedUntil, Starts
      <4> QED  BY <4>1, <4>2, <4>3, <4>4
    <3>4. stamp[tok[r]] # NotIssued
      BY <1>3, <2>1 DEF MarkQRUsed, TypeOK
    <3>5. MarkerOutlives'
      BY <2>1, <3>2, <3>3, <3>4 DEF MarkerOutlives, TypeOK
    <3>6. OneTimeUse'
      BY <2>1, <3>1, <3>2 DEF OneTimeUse, TypeOK
    <3> QED  BY <2>2, <3>5, <3>6
  <2> QED  BY <2>3, <2>4
<1>4. ASSUME NEW r \in Requests, Abandon(r)
      PROVE  UseInv'
  BY <1>4 DEF Abandon, Done, HeldInTime, MarkerOutlives, OneTimeUse, TypeOK
<1>5. CASE Tick
  <2>1. now' = now + 1 /\ UNCHANGED <<stamp, marker, uses, tok, since>>
    BY <1>5 DEF Tick, requests
  <2>2. HeldInTime'
    BY <1>5, <2>1, ClockAssumption DEF Tick, HeldInTime, TypeOK
  <2> QED  BY <2>1, <2>2 DEF MarkerOutlives, OneTimeUse
<1>6. CASE UNCHANGED vars
  BY <1>6 DEF vars, requests, HeldInTime, MarkerOutlives, OneTimeUse
<1> QED  BY <1>1, <1>2, <1>3, <1>4, <1>5, <1>6 DEF Next

\* With enough slack no token ever binds twice (VerifyQROTP, MarkQRUsed, R21).
THEOREM TokensAreUsedOnce == Slack => (Spec => []OneTimeUse)
<1> SUFFICES ASSUME Slack PROVE Spec => []OneTimeUse
  OBVIOUS
<1>1. Init => HeldInTime /\ MarkerOutlives /\ OneTimeUse
  BY DEF Init, HeldInTime, MarkerOutlives, OneTimeUse
<1>2. UseInv /\ [Next]_vars /\ TypeOK' => UseInv'
  BY UseInductive
<1> QED  BY <1>1, <1>2, TypeCorrect, PTL DEF Spec, UseInv
=============================================================================
