--------------------------- MODULE DemoDayProofs ---------------------------
(***************************************************************************)
(* Theorems about the seeds of the demo, for any number of guardians,      *)
(* rides, copies of a dependent, requests and resets, and whatever fails:  *)
(* types, and what an answered seed has seeded is there.                   *)
(***************************************************************************)
EXTENDS DemoDay, TLAPS

USE SizeAssumption, FaultsAssumption, PlayedAssumption, NamesAssumption

-----------------------------------------------------------------------------
(* What is seeded *)

LEMMA LastIsGuardian ==
  ASSUME NEW s \in Scenarios
  PROVE  LastGuardian(s) \in Guardians /\ (s # "2a" => LastGuardian(s) = N)
BY DEF LastGuardian, Guardians

\* A guardian rides or has a dependent who does, not both.
LEMMA OneRider ==
  ASSUME NEW s \in Scenarios, NEW i \in Guardians
  PROVE  ~(RidesItself(s, i) /\ HasDependent(s, i))
BY DEF Scenarios, Guardians, RidesItself, HasDependent

LEMMA PersonFacts ==
  /\ \A i \in Guardians : Guardian(i) \in Persons /\ Guardian(i).of = i /\ ~IsDependent(Guardian(i))
  /\ \A p \in Persons : p.of \in Guardians /\ p # Nobody
BY DEF Guardian, Persons, IsDependent, Guardians

LEMMA DependentIsName ==
  ASSUME NEW s \in Scenarios, NEW i \in Guardians
  PROVE  Dependent(s, i) \in 1 .. N
BY DEF Dependent, Guardians

\* The rides of a scenario, one by one.
LEMMA RidesOfScenario ==
  ASSUME NEW s \in Scenarios, NEW t \in TracesOf(s)
  PROVE  /\ t \in Traces /\ t.day = s /\ s # "2a" /\ t.n \in Guardians /\ t.ride \in Rides
         /\ t = Trace(s, t.kind, t.n, t.ride)
         /\ \/ t.kind = "guardian" /\ RidesItself(s, t.n)
            \/ t.kind = "dependent" /\ HasDependent(s, t.n)
<1>1. t \in Traces
  BY DEF Traces
<1>2. CASE \E i \in {j \in Guardians : RidesItself(s, j)}, r \in Rides : t = Trace(s, "guardian", i, r)
  BY <1>1, <1>2 DEF Trace, RidesItself, Scenarios
<1>3. CASE \E i \in {j \in Guardians : s # "2a" /\ HasDependent(s, j)}, r \in Rides :
             t = Trace(s, "dependent", i, r)
  BY <1>1, <1>3 DEF Trace
<1> QED  BY <1>2, <1>3 DEF TracesOf

LEMMA RideIsOfScenario ==
  ASSUME NEW s \in Scenarios, NEW i \in Guardians, NEW r \in Rides
  PROVE  /\ RidesItself(s, i) => Trace(s, "guardian", i, r) \in TracesOf(s)
         /\ s # "2a" /\ HasDependent(s, i) => Trace(s, "dependent", i, r) \in TracesOf(s)
BY DEF TracesOf

LEMMA TraceIsOfItsDay ==
  ASSUME NEW t \in Traces
  PROVE  t.day \in Scenarios /\ t \in TracesOf(t.day)
<1>1. PICK s : s \in Scenarios /\ t \in TracesOf(s)
  BY DEF Traces
<1> QED  BY <1>1, RidesOfScenario

\* A guardian's family takes a ride of a day once: what a row of mint_logs is named by.
LEMMA TraceIsKeyed ==
  ASSUME NEW s \in Scenarios, NEW t \in TracesOf(s), NEW u \in TracesOf(s),
         t.n = u.n, t.ride = u.ride
  PROVE  t = u
<1>1. t.kind = u.kind
  BY RidesOfScenario, OneRider
<1> QED  BY <1>1, RidesOfScenario

-----------------------------------------------------------------------------
(* How a request moves *)

\* Request c is where it was.
Same(c) ==
  /\ pc'[c] = pc[c] /\ kind'[c] = kind[c] /\ day'[c] = day[c] /\ at'[c] = at[c]
  /\ ride'[c] = ride[c] /\ who'[c] = who[c] /\ todo'[c] = todo[c] /\ found'[c] = found[c]
  /\ digest'[c] = digest[c] /\ failed'[c] = failed[c]
Others(r) == \A c \in Requests \ {r} : Same(c)

\* Request r moves within its seeding, the variables of its run stay.
Moves(r, step, i, n, p) ==
  /\ pc' = [pc EXCEPT ![r] = step] /\ at' = [at EXCEPT ![r] = i]
  /\ ride' = [ride EXCEPT ![r] = n] /\ who' = [who EXCEPT ![r] = p]
  /\ UNCHANGED <<kind, day, minting>>

AllSteps == {"idle"} \cup SeedSteps \cup RunSteps

LEMMA MovesType ==
  ASSUME RequestsType, NEW r \in Requests, NEW step \in AllSteps, NEW i \in Guardians,
         NEW n \in Rides, NEW p \in Persons \cup {Nobody}, Moves(r, step, i, n, p)
  PROVE  /\ RequestsType' /\ Others(r)
         /\ pc'[r] = step /\ at'[r] = i /\ ride'[r] = n /\ who'[r] = p
         /\ day'[r] = day[r] /\ kind'[r] = kind[r] /\ found'[r] = found[r]
BY DEF RequestsType, Moves, Others, Same, AllSteps, minting

LEMMA GotoMoves ==
  ASSUME RequestsType, NEW r \in Requests, NEW step, Goto(r, step), UNCHANGED minting
  PROVE  Moves(r, step, at[r], ride[r], who[r])
BY DEF Moves, Goto, RequestsType

LEMMA AtMoves ==
  ASSUME RequestsType, NEW r \in Requests, NEW step, NEW p, At(r, step, p), UNCHANGED minting
  PROVE  Moves(r, step, at[r], ride[r], p)
BY DEF Moves, At, RequestsType

\* Request r is idle again.
Over(r) ==
  /\ pc'[r] = "idle" /\ day'[r] = "2a" /\ at'[r] = 1 /\ ride'[r] = 1 /\ who'[r] = Nobody
  /\ todo'[r] = {} /\ found'[r] = {}

LEMMA EndIsOver ==
  ASSUME RequestsType, NEW r \in Requests, End(r)
  PROVE  RequestsType' /\ Others(r) /\ Over(r)
<1>1. 1 \in Guardians /\ 1 \in Rides /\ "2a" \in Scenarios
  BY DEF Guardians, Rides, Scenarios
<1> QED  BY <1>1 DEF RequestsType, End, Others, Same, Over

\* After a guardian comes the next one, the run of the day or the end.
Onward(r) ==
  \/ /\ at[r] < LastGuardian(day[r]) /\ at[r] + 1 \in Guardians
     /\ Moves(r, "user", at[r] + 1, 1, Nobody) /\ UNCHANGED seeded
  \/ /\ at[r] >= LastGuardian(day[r]) /\ seeded' = seeded \cup {day[r]}
     /\ \/ kind[r] = "run" /\ day[r] # "2a" /\ Moves(r, "resolve", at[r], ride[r], who[r])
        \/ Over(r)

LEMMA NextGuardianMoves ==
  ASSUME RequestsType, NEW r \in Requests, NextGuardian(r)
  PROVE  RequestsType' /\ Others(r) /\ Onward(r)
<1>1. /\ 1 \in Rides /\ at[r] \in Guardians /\ ride[r] \in Rides /\ day[r] \in Scenarios
      /\ who[r] \in Persons \cup {Nobody}
  BY DEF RequestsType, Rides
<1>2. CASE /\ at[r] < LastGuardian(day[r])
           /\ pc' = [pc EXCEPT ![r] = "user"]
           /\ at' = [at EXCEPT ![r] = at[r] + 1]
           /\ ride' = [ride EXCEPT ![r] = 1]
           /\ who' = [who EXCEPT ![r] = Nobody]
           /\ UNCHANGED <<kind, day, minting, seeded>>
  <2>1. at[r] + 1 \in Guardians
    BY <1>1, <1>2, LastIsGuardian DEF Guardians
  <2>2. Moves(r, "user", at[r] + 1, 1, Nobody) /\ "user" \in AllSteps
    BY <1>2 DEF Moves, AllSteps, SeedSteps
  <2> QED  BY <1>1, <1>2, <2>1, <2>2, MovesType DEF Onward
<1>3. CASE /\ at[r] >= LastGuardian(day[r])
           /\ seeded' = seeded \cup {day[r]}
           /\ kind[r] = "run" /\ day[r] # "2a" /\ Goto(r, "resolve") /\ UNCHANGED minting
  <2>1. Moves(r, "resolve", at[r], ride[r], who[r]) /\ "resolve" \in AllSteps
    BY <1>3, GotoMoves DEF AllSteps, RunSteps
  <2> QED  BY <1>1, <1>3, <2>1, MovesType DEF Onward
<1>4. CASE at[r] >= LastGuardian(day[r]) /\ seeded' = seeded \cup {day[r]} /\ End(r)
  BY <1>4, EndIsOver DEF Onward
<1> QED  BY <1>2, <1>3, <1>4 DEF NextGuardian, Onward

LEMMA NextRideMoves ==
  ASSUME RequestsType, NEW r \in Requests, NEW step \in AllSteps, NextRide(r, step)
  PROVE  /\ RequestsType' /\ Others(r)
         /\ \/ /\ ride[r] < RidesEach /\ UNCHANGED seeded
               /\ pc'[r] = step /\ at'[r] = at[r] /\ ride'[r] = ride[r] + 1
               /\ who'[r] = who[r] /\ day'[r] = day[r]
            \/ ride[r] >= RidesEach /\ Onward(r)
<1>1. /\ at[r] \in Guardians /\ ride[r] \in Rides /\ who[r] \in Persons \cup {Nobody}
  BY DEF RequestsType
<1>2. CASE /\ ride[r] < RidesEach
           /\ pc' = [pc EXCEPT ![r] = step]
           /\ ride' = [ride EXCEPT ![r] = ride[r] + 1]
           /\ UNCHANGED <<kind, day, at, who, minting, seeded>>
  <2>1. ride[r] + 1 \in Rides
    BY <1>1, <1>2 DEF Rides
  <2>2. Moves(r, step, at[r], ride[r] + 1, who[r])
    BY <1>2 DEF Moves, RequestsType
  <2> QED  BY <1>1, <1>2, <2>1, <2>2, MovesType
<1> QED  BY <1>2, NextGuardianMoves DEF NextRide

-----------------------------------------------------------------------------
(* Seeding *)

\* What a scenario needs of guardian i is there.
Done(s, i) ==
  /\ i \in linked /\ people[Guardian(i)] = i
  /\ HasDependent(s, i) =>
       \E p \in Persons : p.name = Dependent(s, i) /\ p.of = i /\ people[p] = i
  /\ \A t \in TracesOf(s) : t.n = i => scans[t] # Nobody

AfterUser     == SeedSteps \ {"user"}
AfterLookup   == AfterUser \ {"lookup", "createGuardian"}
AfterWallet   == AfterLookup \ {"ownWallet"}
AfterAccount  == AfterWallet \ {"account"}
OfDependent   == {"find", "createDependent", "custodial", "voucher", "ride"}
WithDependent == {"custodial", "voucher", "ride"}
Riding        == {"ownRide", "voucher", "ride"}

GuardianInv(r) ==
  /\ pc[r] \in AfterUser => at[r] \in users
  /\ pc[r] \in AfterLookup => people[Guardian(at[r])] # Absent
  /\ pc[r] \in AfterWallet => people[Guardian(at[r])] = at[r]
  /\ pc[r] \in AfterAccount => at[r] \in linked
DependentInv(r) ==
  /\ pc[r] = "ownRide" => RidesItself(day[r], at[r])
  /\ pc[r] \in OfDependent => HasDependent(day[r], at[r])
  /\ pc[r] \in WithDependent =>
       /\ who[r] \in Persons /\ who[r].name = Dependent(day[r], at[r]) /\ who[r].of = at[r]
       /\ people[who[r]] # Absent
  /\ pc[r] \in {"voucher", "ride"} => people[who[r]] = at[r] /\ day[r] # "2a"
  /\ pc[r] = "ride" => who[r] \in vouchers
DoneInv(r) ==
  /\ pc[r] \in SeedSteps =>
       at[r] <= LastGuardian(day[r]) /\ \A i \in Guardians : i < at[r] => Done(day[r], i)
  /\ pc[r] \in Riding =>
       \A t \in TracesOf(day[r]) : t.n = at[r] /\ t.ride < ride[r] => scans[t] # Nobody
  /\ pc[r] \in {"idle"} \cup (SeedSteps \ Riding) => ride[r] = 1
  /\ pc[r] = "idle" => at[r] = 1
DayInv(r) ==
  /\ pc[r] \in RunSteps => kind[r] = "run" /\ day[r] \in seeded /\ day[r] # "2a"
  /\ pc[r] \in RunSteps \ {"resolve"} => found[r] \subseteq TracesOf(day[r])
  /\ pc[r] = "record" => who[r] \in Persons /\ digest[r] # 0
RequestInv(r) == GuardianInv(r) /\ DependentInv(r) /\ DoneInv(r) /\ DayInv(r)

\* A participant has the wallet of its guardian or none, a ride that is there has all
\* that a mint needs, and what was seeded is there.
PeopleInv == \A p \in Persons : people[p] \in {Absent, 0, p.of}
Booked(t) == Attributed(t) /\ t.n \in linked /\ people[Guardian(t.n)] = t.n
ScansInv  == \A t \in Traces : scans[t] # Nobody => Booked(t)
SeededInv == \A s \in seeded : \A i \in 1 .. LastGuardian(s) : Done(s, i)

SeedInv ==
  TypeOK /\ PeopleInv /\ ScansInv /\ SeededInv /\ \A r \in Requests : RequestInv(r)

\* Apart from a reset, tables only gain what requests rely on.
TablesGain ==
  /\ users \subseteq users' /\ linked \subseteq linked' /\ vouchers \subseteq vouchers'
  /\ \A p \in Persons : /\ people[p] # Absent => people'[p] # Absent
                        /\ people[p] = p.of => people'[p] = p.of
                        /\ people'[p] \in {Absent, 0, p.of}
  /\ \A t \in Traces : scans[t] # Nobody => scans'[t] = scans[t]
  /\ \A t \in Traces : scans'[t] # scans[t] => Booked(t)'
SeededGrows ==
  /\ seeded \subseteq seeded'
  /\ \A s \in seeded' \ seeded : \A i \in 1 .. LastGuardian(s) : Done(s, i)'

LEMMA AbsentIsNoWallet == \A i \in Guardians : i # Absent /\ i # 0
BY DEF Guardians

LEMMA ZeroIsNotAbsent == 0 \in 0 .. N \cup {Absent} /\ 0 # Absent
<1>1. 0 \in 0 .. N
  OBVIOUS
<1> QED  BY <1>1

LEMMA DoneStays ==
  ASSUME TypeOK, TablesGain, NEW s \in Scenarios, NEW i \in Guardians, Done(s, i)
  PROVE  Done(s, i)'
<1>1. i \in linked' /\ people'[Guardian(i)] = i
  BY PersonFacts DEF Done, TablesGain
<1>2. HasDependent(s, i) => \E p \in Persons : p.name = Dependent(s, i) /\ p.of = i /\ people'[p] = i
  BY DEF Done, TablesGain
<1>3. \A t \in TracesOf(s) : t.n = i => scans'[t] # Nobody
  BY RidesOfScenario DEF Done, TablesGain
<1> QED  BY <1>1, <1>2, <1>3 DEF Done

LEMMA BookedStays ==
  ASSUME TypeOK, TablesGain, NEW t \in Traces, scans[t] # Nobody, Booked(t)
  PROVE  Booked(t)'
<1>1. scans[t] \in Persons /\ scans'[t] = scans[t] /\ t.n \in Guardians
  BY TraceIsOfItsDay, RidesOfScenario DEF TypeOK, TablesType, TablesGain
<1>2. Guardian(t.n) \in Persons /\ Guardian(t.n).of = t.n
  BY <1>1, PersonFacts
<1> QED  BY <1>1, <1>2 DEF Booked, Attributed, TablesGain

LEMMA GlobalKept ==
  ASSUME SeedInv, TablesGain, SeededGrows
  PROVE  PeopleInv' /\ ScansInv' /\ SeededInv'
<1>1. PeopleInv'
  BY DEF TablesGain, PeopleInv
<1>2. ScansInv'
  BY BookedStays DEF SeedInv, ScansInv, TablesGain
<1>3. SeededInv'
  <2> SUFFICES ASSUME NEW s \in seeded', NEW i \in 1 .. LastGuardian(s)
               PROVE  Done(s, i)'
    BY DEF SeededInv
  <2>1. CASE s \in seeded
    <3>1. s \in Scenarios /\ i \in Guardians
      BY <2>1, LastIsGuardian DEF SeedInv, TypeOK, TablesType, Guardians
    <3> QED  BY <2>1, <3>1, DoneStays DEF SeedInv, SeededInv
  <2>2. CASE s \notin seeded
    BY <2>2 DEF SeededGrows
  <2> QED  BY <2>1, <2>2
<1> QED  BY <1>1, <1>2, <1>3

\* A request that does not move keeps its invariant.
LEMMA Undisturbed ==
  ASSUME SeedInv, TablesGain, seeded \subseteq seeded', NEW c \in Requests, Same(c)
  PROVE  RequestInv(c)'
<1>1. /\ TypeOK /\ RequestInv(c) /\ at[c] \in Guardians /\ day[c] \in Scenarios
      /\ Guardian(at[c]) \in Persons /\ Guardian(at[c]).of = at[c]
  BY PersonFacts DEF SeedInv, TypeOK, RequestsType
<1>2. GuardianInv(c)'
  BY <1>1 DEF RequestInv, GuardianInv, Same, TablesGain
<1>3. DependentInv(c)'
  <2>1. {"voucher", "ride"} \subseteq WithDependent
    BY DEF WithDependent
  <2> QED  BY <1>1, <2>1 DEF RequestInv, DependentInv, Same, TablesGain
<1>4. DoneInv(c)'
  <2> PICK s \in Scenarios : s = day[c]
    BY <1>1
  <2>1. \A i \in Guardians : Done(s, i) => Done(s, i)'
    BY <1>1, DoneStays
  <2>2. \A t \in TracesOf(s) : scans[t] # Nobody => scans'[t] # Nobody
    BY <1>1, RidesOfScenario DEF TablesGain
  <2>3. day'[c] = s
    BY DEF Same
  <2>4. pc'[c] \in SeedSteps =>
          at'[c] <= LastGuardian(day'[c]) /\ \A i \in Guardians : i < at'[c] => Done(day[c], i)'
    BY <1>1, <2>1, <2>3 DEF RequestInv, DoneInv, Same
  <2> QED  BY <1>1, <2>2, <2>3, <2>4 DEF RequestInv, DoneInv, Same
<1>5. DayInv(c)'
  BY <1>1 DEF RequestInv, DayInv, Same
<1> QED  BY <1>2, <1>3, <1>4, <1>5 DEF RequestInv

-----------------------------------------------------------------------------
(* The steps of a request *)

\* A step of request r is well-typed, keeps what the others rely on, and its invariant.
StepOk(r) == TypeOK' /\ TablesGain /\ SeededGrows /\ Others(r) /\ RequestInv(r)'

LEMMA TablesStay ==
  ASSUME SeedInv, UNCHANGED tables
  PROVE  TablesGain
BY DEF SeedInv, PeopleInv, TablesGain, tables

LEMMA SeededStays ==
  ASSUME UNCHANGED seeded
  PROVE  SeededGrows
BY DEF SeededGrows

LEMMA OverKeeps ==
  ASSUME NEW r \in Requests, Over(r)
  PROVE  RequestInv(r)'
BY DEF Over, RequestInv, GuardianInv, DependentInv, DoneInv, DayInv, AfterUser, AfterLookup,
       AfterWallet, AfterAccount, OfDependent, WithDependent, Riding, SeedSteps, RunSteps

\* A guardian is done: its own seeding was the last thing missing.
LEMMA OnwardKeeps ==
  ASSUME SeedInv, TypeOK', TablesGain, NEW r \in Requests, pc[r] \in SeedSteps, Onward(r),
         NEW s \in Scenarios, NEW g \in Guardians, s = day[r], g = at[r], Done(s, g)'
  PROVE  RequestInv(r)' /\ SeededGrows
<1>1. \A i \in Guardians : i <= g => Done(s, i)'
  <2> SUFFICES ASSUME NEW i \in Guardians, i < g
               PROVE  Done(s, i)'
    BY DEF Guardians
  <2>1. Done(s, i)
    BY DEF SeedInv, RequestInv, DoneInv
  <2> QED  BY <2>1, DoneStays DEF SeedInv
<1>2. TypeOK /\ pc \in [Requests -> AllSteps] /\ at \in [Requests -> Guardians]
  BY DEF SeedInv, TypeOK, RequestsType, AllSteps
<1>3. CASE g < LastGuardian(s) /\ Moves(r, "user", g + 1, 1, Nobody) /\ UNCHANGED seeded
  <2>1. pc'[r] = "user" /\ at'[r] = g + 1 /\ ride'[r] = 1 /\ day'[r] = s
    BY <1>2, <1>3 DEF Moves, SeedInv, TypeOK, RequestsType
  <2>2. \A i \in Guardians : i < at'[r] => Done(s, i)'
    BY <1>1, <2>1 DEF Guardians
  <2>3. at'[r] <= LastGuardian(s)
    BY <1>3, <2>1, LastIsGuardian DEF Guardians
  <2>4. DoneInv(r)'
    BY <2>1, <2>2, <2>3 DEF DoneInv, Riding
  <2>5. GuardianInv(r)' /\ DependentInv(r)' /\ DayInv(r)'
    BY <2>1 DEF GuardianInv, DependentInv, DayInv, AfterUser, AfterLookup,
       AfterWallet, AfterAccount, OfDependent, WithDependent, Riding, RunSteps
  <2> QED  BY <1>3, <2>4, <2>5, SeededStays DEF RequestInv
<1>4. CASE g >= LastGuardian(s) /\ seeded' = seeded \cup {s}
  <2>1. SeededGrows
    <3>1. \A i \in 1 .. LastGuardian(s) : i \in Guardians /\ i <= g
      BY <1>4, LastIsGuardian DEF Guardians
    <3> QED  BY <1>1, <1>4, <3>1 DEF SeededGrows
  <2>2. CASE Over(r)
    BY <2>1, <2>2, OverKeeps
  <2>3. CASE kind[r] = "run" /\ s # "2a" /\ Moves(r, "resolve", at[r], ride[r], who[r])
    <3>1. pc'[r] = "resolve" /\ kind'[r] = "run" /\ day'[r] = s /\ s \in seeded'
      BY <1>2, <1>4, <2>3 DEF Moves, SeedInv, TypeOK, RequestsType
    <3> QED  BY <2>1, <2>3, <3>1 DEF RequestInv, GuardianInv, DependentInv, DoneInv, DayInv,
             AfterUser, AfterLookup, AfterWallet, AfterAccount, OfDependent, WithDependent,
             Riding, SeedSteps, RunSteps
  <2> QED  BY <1>4, <2>2, <2>3, LastIsGuardian DEF Onward, Guardians
<1> QED  BY <1>3, <1>4 DEF Onward

LEMMA ArriveOk ==
  ASSUME SeedInv, NEW r \in Requests, NEW k \in {"seed", "run"}, NEW s \in Played, Arrive(r, k, s)
  PROVE  StepOk(r)
<1>1. TypeOK /\ RequestInv(r)
  BY DEF SeedInv
<1>2. TypeOK'
  <2>1. RequestsType'
    BY <1>1 DEF TypeOK, RequestsType, Arrive, minting, SeedSteps
  <2>2. sure' \in BOOLEAN
    BY <1>1 DEF TypeOK, TablesType, Arrive
  <2>3. started' \in 0 .. MaxRequests
    BY <1>1 DEF TypeOK, TablesType, Arrive
  <2> QED  BY <1>1, <2>1, <2>2, <2>3 DEF TypeOK, TablesType, Arrive, tables, onChain
<1>3. TablesGain /\ SeededGrows
  BY TablesStay, SeededStays DEF Arrive
<1>4. /\ Others(r) /\ pc'[r] = "user" /\ at'[r] = 1 /\ ride'[r] = 1 /\ day'[r] = s
  BY <1>1 DEF Arrive, Others, Same, minting, TypeOK, RequestsType, RequestInv, DoneInv
<1>5. DoneInv(r)'
  <2>1. 1 <= LastGuardian(s) /\ \A i \in Guardians : ~(i < 1)
    BY LastIsGuardian DEF Guardians
  <2> QED  BY <1>4, <2>1 DEF DoneInv, Riding
<1>6. GuardianInv(r)' /\ DependentInv(r)' /\ DayInv(r)'
  BY <1>4 DEF GuardianInv, DependentInv, DayInv, AfterUser, AfterLookup,
     AfterWallet, AfterAccount, OfDependent, WithDependent, Riding, RunSteps
<1> QED  BY <1>2, <1>3, <1>4, <1>5, <1>6 DEF StepOk, RequestInv

\* A request goes on with the same guardian.
LEMMA StaysWithGuardian ==
  ASSUME SeedInv, TablesGain, NEW r \in Requests, pc[r] \in SeedSteps \ Riding,
         NEW step \in SeedSteps, NEW p \in Persons \cup {Nobody},
         Moves(r, step, at[r], ride[r], p)
  PROVE  /\ RequestsType' /\ Others(r) /\ DoneInv(r)' /\ DayInv(r)'
         /\ pc'[r] = step /\ at'[r] = at[r] /\ day'[r] = day[r] /\ who'[r] = p
<1>1. /\ RequestInv(r) /\ TypeOK /\ at[r] \in Guardians /\ ride[r] \in Rides /\ ride[r] = 1
      /\ day[r] \in Scenarios /\ step \in AllSteps
  BY DEF SeedInv, TypeOK, RequestsType, RequestInv, DoneInv, AllSteps
<1>2. /\ RequestsType' /\ Others(r)
      /\ pc'[r] = step /\ at'[r] = at[r] /\ ride'[r] = ride[r] /\ who'[r] = p /\ day'[r] = day[r]
  BY <1>1, MovesType DEF TypeOK
<1>3. DoneInv(r)'
  <2> PICK s \in Scenarios : s = day[r]
    BY <1>1
  <2>1. \A i \in Guardians : i < at'[r] => Done(s, i)'
    BY <1>1, <1>2, DoneStays DEF RequestInv, DoneInv
  <2>2. \A t \in TracesOf(s) : ~(t.ride < 1)
    BY RidesOfScenario DEF Rides
  <2>3. at'[r] <= LastGuardian(s)
    BY <1>1, <1>2 DEF RequestInv, DoneInv
  <2> QED  BY <1>1, <1>2, <2>1, <2>2, <2>3 DEF DoneInv, SeedSteps
<1>4. DayInv(r)'
  BY <1>2 DEF DayInv, SeedSteps, RunSteps
<1> QED  BY <1>2, <1>3, <1>4

LEMMA CreateUserOk ==
  ASSUME SeedInv, NEW r \in Requests, CreateUser(r)
  PROVE  StepOk(r)
<1>1. /\ TypeOK /\ at[r] \in Guardians /\ who[r] \in Persons \cup {Nobody}
      /\ pc[r] = "user" /\ "user" \in SeedSteps \ Riding /\ "lookup" \in SeedSteps
  BY DEF SeedInv, TypeOK, RequestsType, CreateUser, SeedSteps, Riding
<1>2. TablesGain /\ SeededGrows
  BY SeededStays DEF CreateUser, SeedInv, PeopleInv, TablesGain, history
<1>3. Moves(r, "lookup", at[r], ride[r], who[r])
  BY <1>1, GotoMoves DEF CreateUser, TypeOK
<1>4. TablesType'
  BY <1>1 DEF CreateUser, TypeOK, TablesType, onChain, history
<1>5. /\ RequestsType' /\ Others(r) /\ DoneInv(r)' /\ DayInv(r)'
      /\ pc'[r] = "lookup" /\ at'[r] = at[r]
  BY <1>1, <1>2, <1>3, StaysWithGuardian
<1>6. GuardianInv(r)' /\ DependentInv(r)'
  BY <1>5 DEF GuardianInv, DependentInv, CreateUser, AfterUser, AfterLookup,
     AfterWallet, AfterAccount, OfDependent, WithDependent
<1> QED  BY <1>2, <1>4, <1>5, <1>6 DEF StepOk, RequestInv, TypeOK

LEMMA GetParticipantByEmailOk ==
  ASSUME SeedInv, NEW r \in Requests, GetParticipantByEmail(r)
  PROVE  StepOk(r)
<1> PICK step \in {"createGuardian", "ownWallet"} :
      /\ Goto(r, step)
      /\ step = "ownWallet" => people[Guardian(at[r])] # Absent
  BY DEF GetParticipantByEmail
<1>1. /\ TypeOK /\ at[r] \in Guardians /\ who[r] \in Persons \cup {Nobody}
      /\ pc[r] = "lookup" /\ "lookup" \in SeedSteps \ Riding /\ step \in SeedSteps
      /\ "lookup" \in AfterUser /\ RequestInv(r)
  BY DEF SeedInv, TypeOK, RequestsType, GetParticipantByEmail, SeedSteps, Riding, AfterUser
<1>2. TablesGain /\ SeededGrows
  BY TablesStay, SeededStays DEF GetParticipantByEmail, history
<1>3. Moves(r, step, at[r], ride[r], who[r])
  BY <1>1, GotoMoves DEF GetParticipantByEmail, TypeOK
<1>4. TablesType'
  BY <1>1 DEF GetParticipantByEmail, TypeOK, TablesType, tables, onChain, history
<1>5. /\ RequestsType' /\ Others(r) /\ DoneInv(r)' /\ DayInv(r)'
      /\ pc'[r] = step /\ at'[r] = at[r]
  BY <1>1, <1>2, <1>3, StaysWithGuardian
<1>6. GuardianInv(r)' /\ DependentInv(r)'
  BY <1>1, <1>5 DEF GuardianInv, DependentInv, RequestInv, GetParticipantByEmail, tables, AfterUser, AfterLookup,
     AfterWallet, AfterAccount, OfDependent, WithDependent
<1> QED  BY <1>2, <1>4, <1>5, <1>6 DEF StepOk, RequestInv, TypeOK

LEMMA CreateGuardianOk ==
  ASSUME SeedInv, NEW r \in Requests, CreateGuardian(r)
  PROVE  StepOk(r)
<1>1. /\ TypeOK /\ at[r] \in Guardians /\ who[r] \in Persons \cup {Nobody} /\ RequestInv(r)
      /\ pc[r] = "createGuardian" /\ "createGuardian" \in SeedSteps \ Riding
      /\ "createGuardian" \in AfterUser /\ "ownWallet" \in SeedSteps
      /\ people \in [Persons -> 0 .. N \cup {Absent}] /\ Guardian(at[r]) \in Persons
  BY PersonFacts DEF SeedInv, TypeOK, TablesType, RequestsType, CreateGuardian, SeedSteps, Riding,
     AfterUser
<1>2. people[Guardian(at[r])] = Absent /\ people' = [people EXCEPT ![Guardian(at[r])] = 0]
  BY DEF CreateGuardian
<1>3. TablesGain /\ SeededGrows
  <2>1. \A p \in Persons : p.of # Absent
    BY PersonFacts, AbsentIsNoWallet
  <2> QED  BY <1>1, <1>2, <2>1, SeededStays DEF CreateGuardian, SeedInv, PeopleInv, TablesGain, history
<1>4. Moves(r, "ownWallet", at[r], ride[r], who[r])
  BY <1>1, GotoMoves DEF CreateGuardian, TypeOK
<1>5. TablesType'
  <2>1. people' \in [Persons -> 0 .. N \cup {Absent}]
    <3>1. 0 \in 0 .. N
      OBVIOUS
    <3> QED  BY <1>1, <1>2, <3>1
  <2> QED  BY <1>1, <2>1 DEF CreateGuardian, TypeOK, TablesType, onChain, history
<1>6. /\ RequestsType' /\ Others(r) /\ DoneInv(r)' /\ DayInv(r)'
      /\ pc'[r] = "ownWallet" /\ at'[r] = at[r]
  BY <1>1, <1>3, <1>4, StaysWithGuardian
<1>7. people'[Guardian(at[r])] # Absent
  BY <1>1, <1>2, ZeroIsNotAbsent
<1>8. GuardianInv(r)' /\ DependentInv(r)'
  BY <1>1, <1>6, <1>7 DEF GuardianInv, DependentInv, RequestInv, CreateGuardian, AfterUser,
     AfterLookup, AfterWallet, AfterAccount, OfDependent, WithDependent
<1> QED  BY <1>3, <1>5, <1>6, <1>8 DEF StepOk, RequestInv, TypeOK

\* A wallet that is set is the one of the person's guardian.
LEMMA WalletGain ==
  ASSUME SeedInv, NEW p \in Persons, SetParticipantWallet(p, p.of),
         UNCHANGED <<users, linked, vouchers, scans>>
  PROVE  /\ TablesGain /\ people'[p] = p.of
         /\ people' \in [Persons -> 0 .. N \cup {Absent}]
<1>1. /\ people \in [Persons -> 0 .. N \cup {Absent}]
      /\ p.of \in 0 .. N /\ p.of # Absent
  BY PersonFacts, AbsentIsNoWallet DEF SeedInv, TypeOK, TablesType, Guardians
<1> QED  BY <1>1 DEF SetParticipantWallet, SeedInv, PeopleInv, TablesGain

LEMMA OwnWalletOk ==
  ASSUME SeedInv, NEW r \in Requests, OwnWallet(r)
  PROVE  StepOk(r)
<1>1. /\ TypeOK /\ at[r] \in Guardians /\ who[r] \in Persons \cup {Nobody} /\ RequestInv(r)
      /\ pc[r] = "ownWallet" /\ "ownWallet" \in SeedSteps \ Riding
      /\ "ownWallet" \in AfterUser /\ "account" \in SeedSteps
      /\ Guardian(at[r]) \in Persons /\ Guardian(at[r]).of = at[r]
  BY PersonFacts DEF SeedInv, TypeOK, TablesType, RequestsType, OwnWallet, SeedSteps, Riding,
     AfterUser
<1>2. /\ TablesGain /\ SeededGrows /\ people'[Guardian(at[r])] = at[r]
      /\ people' \in [Persons -> 0 .. N \cup {Absent}]
  BY <1>1, WalletGain, SeededStays DEF OwnWallet, history
<1>3. Moves(r, "account", at[r], ride[r], who[r])
  BY <1>1, GotoMoves DEF OwnWallet, TypeOK
<1>4. TablesType'
  BY <1>1, <1>2 DEF OwnWallet, TypeOK, TablesType, onChain, history
<1>5. /\ RequestsType' /\ Others(r) /\ DoneInv(r)' /\ DayInv(r)'
      /\ pc'[r] = "account" /\ at'[r] = at[r]
  BY <1>1, <1>2, <1>3, StaysWithGuardian
<1>6. GuardianInv(r)' /\ DependentInv(r)'
  BY <1>1, <1>2, <1>5, AbsentIsNoWallet DEF GuardianInv, DependentInv, RequestInv, OwnWallet, AfterUser,
     AfterLookup, AfterWallet, AfterAccount, OfDependent, WithDependent
<1> QED  BY <1>2, <1>4, <1>5, <1>6 DEF StepOk, RequestInv, TypeOK

LEMMA UpdateSuiAccountOk ==
  ASSUME SeedInv, NEW r \in Requests, UpdateSuiAccount(r)
  PROVE  StepOk(r)
<1> PICK s \in Scenarios, g \in Guardians : s = day[r] /\ g = at[r]
  BY DEF SeedInv, TypeOK, RequestsType
<1>1. /\ TypeOK /\ who[r] \in Persons \cup {Nobody} /\ RequestInv(r)
      /\ pc[r] = "account" /\ "account" \in SeedSteps \ Riding
      /\ "account" \in AfterUser /\ "account" \in AfterLookup /\ "account" \in AfterWallet
      /\ Guardian(g) \in Persons /\ Guardian(g).of = g
      /\ g \in users /\ people[Guardian(g)] = g /\ people[Guardian(g)] # Absent
  BY PersonFacts DEF SeedInv, TypeOK, TablesType, RequestsType, UpdateSuiAccount, SeedSteps, Riding,
     AfterUser, AfterLookup, AfterWallet, RequestInv, GuardianInv
<1>2. linked' = linked \cup {g} /\ UNCHANGED <<users, people, vouchers, scans, logs, onChain>>
  BY DEF UpdateSuiAccount
<1>3. TablesGain
  BY <1>2 DEF SeedInv, PeopleInv, TablesGain
<1>4. seeded' \subseteq Scenarios => TablesType'
  BY <1>1, <1>2 DEF UpdateSuiAccount, TypeOK, TablesType, onChain
<1>5. ASSUME NEW step \in {"ownRide", "find"}, Goto(r, step), UNCHANGED <<minting, seeded>>,
             step = "ownRide" => RidesItself(s, g), step = "find" => HasDependent(s, g)
      PROVE  StepOk(r)
  <2>1. Moves(r, step, at[r], ride[r], who[r]) /\ step \in SeedSteps
    BY <1>1, <1>5, GotoMoves DEF TypeOK, SeedSteps
  <2>2. /\ RequestsType' /\ Others(r) /\ DoneInv(r)' /\ DayInv(r)'
        /\ pc'[r] = step /\ at'[r] = g /\ day'[r] = s
    BY <1>1, <1>3, <2>1, StaysWithGuardian
  <2>3. GuardianInv(r)' /\ DependentInv(r)'
    BY <1>1, <1>2, <1>5, <2>2 DEF GuardianInv, DependentInv, OfDependent, WithDependent
  <2>4. SeededGrows /\ seeded' \subseteq Scenarios
    BY <1>1, <1>5, SeededStays DEF TypeOK, TablesType
  <2> QED  BY <1>3, <1>4, <2>2, <2>3, <2>4 DEF StepOk, RequestInv, TypeOK
<1>6. CASE ~RidesItself(s, g) /\ ~HasDependent(s, g) /\ NextGuardian(r)
  <2>1. RequestsType' /\ Others(r) /\ Onward(r)
    BY <1>1, <1>6, NextGuardianMoves DEF TypeOK
  <2>2. TypeOK'
    <3>1. seeded' \subseteq Scenarios
      BY <1>1, <2>1 DEF Onward, TypeOK, TablesType
    <3> QED  BY <1>4, <2>1, <3>1 DEF TypeOK
  <2>3. Done(s, g)'
    <3>1. \A t \in TracesOf(s) : t.n # g
      BY <1>6, RidesOfScenario
    <3> QED  BY <1>1, <1>2, <1>6, <3>1 DEF Done
  <2> QED  BY <1>1, <1>3, <2>1, <2>2, <2>3, OnwardKeeps DEF StepOk
<1> QED  BY <1>5, <1>6 DEF UpdateSuiAccount

LEMMA FindDependentOk ==
  ASSUME SeedInv, NEW r \in Requests, FindDependent(r)
  PROVE  StepOk(r)
<1> PICK s \in Scenarios, g \in Guardians : s = day[r] /\ g = at[r]
  BY DEF SeedInv, TypeOK, RequestsType
<1>1. /\ TypeOK /\ who[r] \in Persons \cup {Nobody} /\ RequestInv(r) /\ pc[r] = "find"
      /\ "find" \in SeedSteps \ Riding /\ "find" \in OfDependent /\ "find" \in AfterUser
      /\ "find" \in AfterLookup /\ "find" \in AfterWallet /\ "find" \in AfterAccount
  BY DEF SeedInv, TypeOK, RequestsType, FindDependent, SeedSteps, Riding, OfDependent,
     AfterUser, AfterLookup, AfterWallet, AfterAccount
<1>2. TablesGain /\ SeededGrows
  BY TablesStay, SeededStays DEF FindDependent, history
<1>3. TablesType'
  BY <1>1 DEF FindDependent, TypeOK, TablesType, tables, onChain, history
<1>4. ASSUME NEW step \in {"createDependent", "custodial"}, NEW p \in Persons \cup {Nobody},
             Moves(r, step, at[r], ride[r], p),
             step = "custodial" => p \in Wanted(r)
      PROVE  StepOk(r)
  <2>1. step \in SeedSteps
    BY DEF SeedSteps
  <2>2. /\ RequestsType' /\ Others(r) /\ DoneInv(r)' /\ DayInv(r)'
        /\ pc'[r] = step /\ at'[r] = g /\ day'[r] = s /\ who'[r] = p
    BY <1>1, <1>2, <1>4, <2>1, StaysWithGuardian
  <2>3. GuardianInv(r)'
    BY <1>1, <2>2 DEF GuardianInv, RequestInv, FindDependent, tables
  <2>4. step = "custodial" => /\ p \in Persons /\ p.name = Dependent(s, g) /\ p.of = g
                              /\ people'[p] # Absent
    BY <1>4 DEF Wanted, IsWanted, FindDependent, tables
  <2>5. DependentInv(r)'
    BY <1>1, <2>2, <2>4 DEF DependentInv, RequestInv, WithDependent
  <2> QED  BY <1>2, <1>3, <2>2, <2>3, <2>5 DEF StepOk, RequestInv, TypeOK
<1>5. CASE \E p \in Wanted(r) : At(r, AfterFind(r), p)
  <2> PICK p \in Persons : p \in Wanted(r) /\ At(r, "custodial", p)
    BY <1>5 DEF Wanted, AfterFind
  <2>1. Moves(r, "custodial", at[r], ride[r], p)
    BY <1>1, AtMoves DEF FindDependent, TypeOK
  <2> QED  BY <1>4, <2>1
<1>6. CASE Goto(r, "createDependent")
  <2>1. Moves(r, "createDependent", at[r], ride[r], who[r])
    BY <1>1, <1>6, GotoMoves DEF FindDependent, TypeOK
  <2> QED  BY <1>1, <1>4, <2>1
<1> QED  BY <1>5, <1>6 DEF FindDependent

LEMMA CreateDependentOk ==
  ASSUME SeedInv, NEW r \in Requests, CreateDependent(r)
  PROVE  StepOk(r)
<1>a. PICK s \in Scenarios, g \in Guardians : s = day[r] /\ g = at[r]
  BY DEF SeedInv, TypeOK, RequestsType
<1>b. PICK p \in Persons : /\ p.name = Dependent(s, g) /\ p.of = g /\ people[p] = Absent
                          /\ people' = [people EXCEPT ![p] = 0] /\ At(r, "custodial", p)
  BY <1>a DEF CreateDependent
<1>1. /\ TypeOK /\ RequestInv(r) /\ pc[r] = "createDependent"
      /\ "createDependent" \in SeedSteps \ Riding /\ "createDependent" \in OfDependent
      /\ "createDependent" \in AfterAccount /\ "custodial" \in SeedSteps
      /\ "createDependent" \in AfterUser /\ "createDependent" \in AfterLookup
      /\ "createDependent" \in AfterWallet
      /\ people \in [Persons -> 0 .. N \cup {Absent}]
  BY DEF SeedInv, TypeOK, TablesType, CreateDependent, SeedSteps, Riding, OfDependent,
     AfterUser, AfterLookup, AfterWallet, AfterAccount
<1>2. TablesGain /\ SeededGrows /\ people'[p] # Absent
  <2>1. \A q \in Persons : q.of # Absent
    BY PersonFacts, AbsentIsNoWallet
  <2> QED  BY <1>1, <1>b, <2>1, SeededStays, ZeroIsNotAbsent DEF CreateDependent, SeedInv, PeopleInv, TablesGain, history
<1>3. Moves(r, "custodial", at[r], ride[r], p)
  BY <1>1, <1>b, AtMoves DEF CreateDependent, TypeOK
<1>4. TablesType'
  <2>1. people' \in [Persons -> 0 .. N \cup {Absent}]
    <3>1. 0 \in 0 .. N
      OBVIOUS
    <3> QED  BY <1>1, <1>b, <3>1
  <2> QED  BY <1>1, <1>b, <2>1 DEF CreateDependent, TypeOK, TablesType, onChain, history
<1>5. /\ RequestsType' /\ Others(r) /\ DoneInv(r)' /\ DayInv(r)'
      /\ pc'[r] = "custodial" /\ at'[r] = g /\ day'[r] = s /\ who'[r] = p
  <2>1. /\ RequestsType' /\ Others(r) /\ DoneInv(r)' /\ DayInv(r)'
        /\ pc'[r] = "custodial" /\ at'[r] = at[r] /\ day'[r] = day[r] /\ who'[r] = p
    BY <1>1, <1>2, <1>3, StaysWithGuardian
  <2> QED  BY <1>a, <2>1
<1>6. GuardianInv(r)'
  <2>1. Guardian(g) \in Persons /\ Guardian(g).of = g /\ people[Guardian(g)] = g
    BY <1>1, <1>a, PersonFacts DEF RequestInv, GuardianInv
  <2>2. people'[Guardian(g)] = g /\ g # Absent
    BY <1>2, <2>1, AbsentIsNoWallet DEF TablesGain
  <2> QED  BY <1>1, <1>a, <1>5, <2>2 DEF GuardianInv, RequestInv, CreateDependent
<1>7. DependentInv(r)'
  BY <1>1, <1>2, <1>5, <1>a, <1>b DEF DependentInv, RequestInv, WithDependent
<1> QED  BY <1>2, <1>4, <1>5, <1>6, <1>7 DEF StepOk, RequestInv, TypeOK

LEMMA CustodialWalletOk ==
  ASSUME SeedInv, NEW r \in Requests, CustodialWallet(r)
  PROVE  StepOk(r)
<1> PICK s \in Scenarios, g \in Guardians : s = day[r] /\ g = at[r]
  BY DEF SeedInv, TypeOK, RequestsType
<1>1. /\ TypeOK /\ RequestInv(r) /\ pc[r] = "custodial"
      /\ "custodial" \in SeedSteps \ Riding /\ "custodial" \in OfDependent
      /\ "custodial" \in WithDependent /\ "custodial" \in AfterAccount
      /\ "custodial" \in AfterUser /\ "custodial" \in AfterLookup
      /\ "custodial" \in AfterWallet
  BY DEF SeedInv, CustodialWallet, SeedSteps, Riding, OfDependent, WithDependent,
     AfterUser, AfterLookup, AfterWallet, AfterAccount
<1> PICK p \in Persons : p = who[r] /\ p.name = Dependent(s, g) /\ p.of = g
  BY <1>1 DEF RequestInv, DependentInv
<1>2. /\ Guardian(g) \in Persons /\ Guardian(g).of = g /\ people[Guardian(g)] = g
      /\ g \in linked /\ g \in users /\ HasDependent(s, g)
  BY <1>1, PersonFacts DEF RequestInv, GuardianInv, DependentInv
<1>3. UNCHANGED <<users, linked, vouchers, scans, logs, onChain, started, resets, ran, sure>>
  BY DEF CustodialWallet
<1>4. TablesGain /\ people'[p] = g /\ people' \in [Persons -> 0 .. N \cup {Absent}]
  <2>1. SetParticipantWallet(p, p.of)
    BY DEF CustodialWallet
  <2> QED  BY <1>3, <2>1, WalletGain
<1>5. people'[Guardian(g)] = g /\ g # Absent
  BY <1>2, <1>4, AbsentIsNoWallet DEF TablesGain
<1>6. seeded' \subseteq Scenarios => TablesType'
  BY <1>1, <1>3, <1>4 DEF TypeOK, TablesType, onChain
<1>7. CASE s # "2a" /\ Goto(r, "voucher") /\ UNCHANGED <<minting, seeded>>
  <2>1. Moves(r, "voucher", at[r], ride[r], p) /\ "voucher" \in SeedSteps
    BY <1>1, <1>7, GotoMoves DEF TypeOK, SeedSteps
  <2>2. /\ RequestsType' /\ Others(r) /\ DoneInv(r)' /\ DayInv(r)'
        /\ pc'[r] = "voucher" /\ at'[r] = g /\ day'[r] = s /\ who'[r] = p
    BY <1>1, <1>4, <2>1, StaysWithGuardian
  <2>3. GuardianInv(r)'
    BY <1>2, <1>3, <1>5, <2>2 DEF GuardianInv
  <2>4. DependentInv(r)'
    BY <1>2, <1>4, <1>5, <1>7, <2>2 DEF DependentInv
  <2>5. SeededGrows /\ seeded' \subseteq Scenarios
    BY <1>1, <1>7, SeededStays DEF TypeOK, TablesType
  <2> QED  BY <1>4, <1>6, <2>2, <2>3, <2>4, <2>5 DEF StepOk, RequestInv, TypeOK
<1>8. CASE s = "2a" /\ NextGuardian(r)
  <2>1. RequestsType' /\ Others(r) /\ Onward(r)
    BY <1>1, <1>8, NextGuardianMoves DEF TypeOK
  <2>2. TypeOK'
    <3>1. seeded' \subseteq Scenarios
      BY <1>1, <2>1 DEF Onward, TypeOK, TablesType
    <3> QED  BY <1>6, <2>1, <3>1 DEF TypeOK
  <2>3. Done(s, g)'
    <3>1. \A t \in TracesOf(s) : t.n # g
      BY <1>8, RidesOfScenario
    <3> QED  BY <1>2, <1>3, <1>4, <1>5, <3>1 DEF Done
  <2> QED  BY <1>1, <1>4, <2>1, <2>2, <2>3, OnwardKeeps DEF StepOk
<1> QED  BY <1>7, <1>8 DEF CustodialWallet

LEMMA InsertVoucherOk ==
  ASSUME SeedInv, NEW r \in Requests, InsertVoucher(r)
  PROVE  StepOk(r)
<1> PICK s \in Scenarios, g \in Guardians : s = day[r] /\ g = at[r]
  BY DEF SeedInv, TypeOK, RequestsType
<1>1. /\ TypeOK /\ RequestInv(r) /\ pc[r] = "voucher"
      /\ "voucher" \in SeedSteps /\ "voucher" \in OfDependent /\ "voucher" \in Riding
      /\ "voucher" \in WithDependent /\ "voucher" \in AfterAccount
      /\ "voucher" \in AfterUser /\ "voucher" \in AfterLookup /\ "voucher" \in AfterWallet
      /\ ride[r] \in Rides
  BY DEF SeedInv, TypeOK, RequestsType, InsertVoucher, SeedSteps, Riding, OfDependent,
     WithDependent, AfterUser, AfterLookup, AfterWallet, AfterAccount
<1> PICK p \in Persons : p = who[r]
  BY <1>1 DEF RequestInv, DependentInv
<1>2. TablesGain /\ SeededGrows
  BY SeededStays DEF InsertVoucher, SeedInv, PeopleInv, TablesGain, history
<1>3. Moves(r, "ride", at[r], ride[r], p) /\ "ride" \in AllSteps
  BY <1>1, GotoMoves DEF InsertVoucher, TypeOK, AllSteps, SeedSteps
<1>4. TablesType'
  BY <1>1 DEF InsertVoucher, TypeOK, TablesType, onChain, history
<1>5. /\ RequestsType' /\ Others(r)
      /\ pc'[r] = "ride" /\ at'[r] = g /\ day'[r] = s /\ who'[r] = p /\ ride'[r] = ride[r]
  BY <1>1, <1>3, MovesType DEF TypeOK
<1>6. GuardianInv(r)'
  BY <1>1, <1>5 DEF RequestInv, GuardianInv, InsertVoucher
<1>7. DependentInv(r)'
  BY <1>1, <1>5 DEF RequestInv, DependentInv, InsertVoucher
<1>8. DoneInv(r)'
  <2>1. \A i \in Guardians : i < g => Done(s, i)'
    BY <1>1, <1>2, DoneStays DEF RequestInv, DoneInv
  <2>2. \A t \in TracesOf(s) : t.n = g /\ t.ride < ride[r] => scans'[t] # Nobody
    BY <1>1 DEF RequestInv, DoneInv, InsertVoucher
  <2>3. g <= LastGuardian(s)
    BY <1>1 DEF RequestInv, DoneInv
  <2> QED  BY <1>5, <2>1, <2>2, <2>3 DEF DoneInv, Riding
<1>9. DayInv(r)'
  BY <1>5 DEF DayInv, RunSteps
<1> QED  BY <1>2, <1>4, <1>5, <1>6, <1>7, <1>8, <1>9 DEF StepOk, RequestInv, TypeOK

\* A ride that is inserted can be minted for.
LEMMA InsertGain ==
  ASSUME SeedInv, NEW t \in Traces, NEW p \in Persons, InsertScan(t, p),
         UNCHANGED <<users, linked, people, vouchers>>,
         p.of = t.n, p.name = IF t.kind = "guardian" THEN 0 ELSE t.n,
         people[p] = t.n, IsDependent(p) => p \in vouchers,
         t.n \in linked, people[Guardian(t.n)] = t.n
  PROVE  TablesGain /\ scans' \in [Traces -> Persons \cup {Nobody}] /\ scans'[t] # Nobody
<1>1. scans \in [Traces -> Persons \cup {Nobody}] /\ p # Nobody
  BY PersonFacts DEF SeedInv, TypeOK, TablesType
<1>2. /\ scans' \in [Traces -> Persons \cup {Nobody}] /\ scans'[t] # Nobody
      /\ \A u \in Traces : scans[u] # Nobody => scans'[u] = scans[u]
      /\ \A u \in Traces : scans'[u] # scans[u] => u = t /\ scans'[u] = p
  BY <1>1 DEF InsertScan
<1>3. \A u \in Traces : scans'[u] # scans[u] => Booked(u)'
  BY <1>2 DEF Booked, Attributed
<1> QED  BY <1>2, <1>3 DEF TablesGain, SeedInv, PeopleInv

LEMMA RideNumbers ==
  ASSUME NEW n \in Rides
  PROVE  /\ n <= RidesEach
         /\ (n < RidesEach => n + 1 \in Rides)
         /\ (n >= RidesEach => n = RidesEach)
         /\ \A m \in Rides : /\ m <= RidesEach
                             /\ (m < n + 1 => m <= n)
                             /\ (m <= n => (m = n \/ m < n))
<1>1. n \in 1 .. RidesEach /\ RidesEach \in Nat
  BY DEF Rides
<1> QED  BY <1>1 DEF Rides

\* After a ride comes the next one, or the next guardian when all are there.
LEMMA RideTaken ==
  ASSUME SeedInv, TablesGain, NEW r \in Requests, pc[r] \in Riding,
         NEW s \in Scenarios, NEW g \in Guardians, s = day[r], g = at[r],
         NEW t \in TracesOf(s), t.n = g, t.ride = ride[r], scans'[t] # Nobody,
         NEW step \in {"ownRide", "voucher"},
         step = "ownRide" <=> pc[r] = "ownRide",
         seeded' \subseteq Scenarios => TablesType',
         UNCHANGED <<people, users, linked>>, NextRide(r, step)
  PROVE  StepOk(r)
<1> PICK n \in Rides : n = ride[r]
  BY DEF SeedInv, TypeOK, RequestsType
<1>0. /\ (n < RidesEach => n + 1 \in Rides)
      /\ (n >= RidesEach => n = RidesEach)
      /\ \A u \in TracesOf(s) : /\ u.ride <= RidesEach
                               /\ (u.ride < n + 1 => u.ride <= n)
                               /\ (u.ride <= n => (u.ride = n \/ u.ride < n))
  BY RideNumbers, RidesOfScenario
<1>1. /\ TypeOK /\ RequestInv(r) /\ step \in AllSteps /\ ride[r] \in Rides
      /\ pc[r] \in AfterUser /\ pc[r] \in AfterLookup /\ pc[r] \in AfterWallet
      /\ pc[r] \in AfterAccount /\ pc[r] \in SeedSteps /\ step \in SeedSteps
      /\ step \in Riding
      /\ who[r] \in Persons \cup {Nobody}
  BY DEF SeedInv, TypeOK, RequestsType, AllSteps, SeedSteps, Riding,
     AfterUser, AfterLookup, AfterWallet, AfterAccount
<1>2. /\ g \in linked /\ people[Guardian(g)] = g /\ g \in users /\ g # Absent
      /\ g <= LastGuardian(s)
  BY <1>1, AbsentIsNoWallet DEF RequestInv, GuardianInv, DoneInv
<1>3. \A u \in TracesOf(s) : u.n = g /\ u.ride <= ride[r] => scans'[u] # Nobody
  <2> SUFFICES ASSUME NEW u \in TracesOf(s), u.n = g, u.ride <= ride[r]
               PROVE  scans'[u] # Nobody
    OBVIOUS
  <2>1. CASE u.ride = ride[r]
    BY <2>1, TraceIsKeyed
  <2>2. CASE u.ride < ride[r]
    <3>1. scans[u] # Nobody /\ u \in Traces
      BY <1>1, <2>2, RidesOfScenario DEF RequestInv, DoneInv
    <3> QED  BY <3>1 DEF TablesGain
  <2> QED  BY <1>0, <2>1, <2>2
<1>4. RequestsType' /\ Others(r)
  BY <1>1, NextRideMoves DEF TypeOK
<1>5. pc[r] # "ownRide" => /\ who[r] \in Persons /\ who[r].name = Dependent(s, g) /\ who[r].of = g
                            /\ people[who[r]] = g /\ s # "2a" /\ HasDependent(s, g)
  BY <1>1 DEF RequestInv, DependentInv, Riding, OfDependent, WithDependent
<1>6. CASE /\ ride[r] < RidesEach /\ UNCHANGED seeded
           /\ pc'[r] = step /\ at'[r] = at[r] /\ ride'[r] = ride[r] + 1
           /\ who'[r] = who[r] /\ day'[r] = day[r]
  <2>1. /\ pc'[r] = step /\ at'[r] = g /\ ride'[r] = n + 1 /\ who'[r] = who[r]
        /\ day'[r] = s
    BY <1>6
  <2>2. GuardianInv(r)'
    BY <1>2, <2>1 DEF GuardianInv
  <2>3. DependentInv(r)'
    <3>1. CASE step = "ownRide"
      BY <1>1, <2>1, <3>1 DEF RequestInv, DependentInv, OfDependent, WithDependent
    <3>2. CASE step = "voucher"
      BY <1>2, <1>5, <2>1, <3>2 DEF DependentInv
    <3> QED  BY <3>1, <3>2
  <2>4. DoneInv(r)'
    <3>1. \A i \in Guardians : i < g => Done(s, i)'
      BY <1>1, DoneStays DEF RequestInv, DoneInv
    <3>2. \A u \in TracesOf(s) : u.n = g /\ u.ride < ride'[r] => scans'[u] # Nobody
      <4>1. \A u \in TracesOf(s) : u.ride < ride'[r] => u.ride <= ride[r]
        BY <1>0, <2>1
      <4> QED  BY <1>3, <4>1
    <3> QED  BY <1>1, <1>2, <2>1, <3>1, <3>2 DEF DoneInv, Riding
  <2>5. DayInv(r)'
    BY <1>1, <2>1 DEF DayInv, RunSteps, SeedSteps
  <2>6. TablesType' /\ SeededGrows
    BY <1>1, <1>6, SeededStays DEF TypeOK, TablesType
  <2> QED  BY <1>4, <2>2, <2>3, <2>4, <2>5, <2>6 DEF StepOk, RequestInv, TypeOK
<1>7. CASE ride[r] >= RidesEach /\ Onward(r)
  <2>1. TypeOK'
    <3>1. seeded' \subseteq Scenarios
      BY <1>1, <1>7 DEF Onward, TypeOK, TablesType
    <3> QED  BY <1>4, <3>1 DEF TypeOK
  <2>2. Done(s, g)'
    <3>1. \A u \in TracesOf(s) : u.n = g => scans'[u] # Nobody
      <4>0. ride[r] = RidesEach
        BY <1>0, <1>7
      <4>1. \A u \in TracesOf(s) : u.ride <= ride[r]
        BY <1>0, <4>0
      <4> QED  BY <1>3, <4>1
    <3>2. HasDependent(s, g) => \E p \in Persons : p.name = Dependent(s, g) /\ p.of = g /\ people[p] = g
      BY <1>1, <1>5, OneRider DEF RequestInv, DependentInv
    <3> QED  BY <1>2, <3>1, <3>2 DEF Done
  <2> QED  BY <1>1, <1>4, <1>7, <2>1, <2>2, OnwardKeeps DEF StepOk
<1> QED  BY <1>1, <1>6, <1>7, NextRideMoves DEF TypeOK

LEMMA SeedRideAccountOk ==
  ASSUME SeedInv, NEW r \in Requests, SeedRideAccount(r)
  PROVE  StepOk(r)
<1> PICK s \in Scenarios, g \in Guardians, n \in Rides : s = day[r] /\ g = at[r] /\ n = ride[r]
  BY DEF SeedInv, TypeOK, RequestsType
<1> DEFINE t == Trace(s, "guardian", g, n)
<1>1. /\ TypeOK /\ RequestInv(r) /\ pc[r] = "ownRide" /\ "ownRide" \in Riding
      /\ "ownRide" \in AfterWallet /\ "ownRide" \in AfterAccount
  BY DEF SeedInv, SeedRideAccount, Riding, SeedSteps, AfterUser, AfterLookup, AfterWallet, AfterAccount
<1>2. g \in linked /\ people[Guardian(g)] = g /\ RidesItself(s, g)
  BY <1>1 DEF RequestInv, GuardianInv, DependentInv
<1>3. t \in TracesOf(s) /\ t \in Traces /\ t.n = g /\ t.ride = n /\ t.kind = "guardian"
  <2>1. t \in TracesOf(s)
    BY <1>2, RideIsOfScenario
  <2> QED  BY <2>1, RidesOfScenario DEF Trace
<1>4. Guardian(g) \in Persons /\ Guardian(g).of = g /\ Guardian(g).name = 0 /\ ~IsDependent(Guardian(g))
  BY PersonFacts DEF Guardian
<1>5. InsertScan(t, Guardian(g)) /\ UNCHANGED <<users, linked, people, vouchers, logs, onChain, started, resets, ran, sure>>
  BY DEF SeedRideAccount
<1> HIDE DEF t
<1>6. TablesGain /\ scans' \in [Traces -> Persons \cup {Nobody}] /\ scans'[t] # Nobody
  BY <1>2, <1>3, <1>4, <1>5, InsertGain
<1>7. seeded' \subseteq Scenarios => TablesType'
  BY <1>1, <1>5, <1>6 DEF TypeOK, TablesType, onChain
<1>8. NextRide(r, "ownRide")
  BY DEF SeedRideAccount
<1> QED  BY <1>1, <1>3, <1>5, <1>6, <1>7, <1>8, RideTaken

LEMMA SeedRideDependentOk ==
  ASSUME SeedInv, NEW r \in Requests, SeedRideDependent(r)
  PROVE  StepOk(r)
<1> PICK s \in Scenarios, g \in Guardians, n \in Rides : s = day[r] /\ g = at[r] /\ n = ride[r]
  BY DEF SeedInv, TypeOK, RequestsType
<1> DEFINE t == Trace(s, "dependent", g, n)
<1>1. /\ TypeOK /\ RequestInv(r) /\ pc[r] = "ride" /\ "ride" \in Riding
      /\ "ride" \in WithDependent /\ "ride" \in OfDependent
      /\ "ride" \in AfterWallet /\ "ride" \in AfterAccount
  BY DEF SeedInv, SeedRideDependent, Riding, OfDependent, WithDependent, SeedSteps, AfterUser,
     AfterLookup, AfterWallet, AfterAccount
<1> PICK p \in Persons : p = who[r] /\ p.name = Dependent(s, g) /\ p.of = g
  BY <1>1 DEF RequestInv, DependentInv
<1>2. /\ g \in linked /\ people[Guardian(g)] = g /\ HasDependent(s, g) /\ s # "2a"
      /\ people[p] = g /\ p \in vouchers
  BY <1>1 DEF RequestInv, GuardianInv, DependentInv
<1>3. t \in TracesOf(s) /\ t \in Traces /\ t.n = g /\ t.ride = n /\ t.kind # "guardian"
  <2>1. t \in TracesOf(s)
    BY <1>2, RideIsOfScenario
  <2> QED  BY <2>1, RidesOfScenario DEF Trace
<1>4. p.name = g
  BY <1>2 DEF Dependent
<1>5. InsertScan(t, p) /\ UNCHANGED <<users, linked, people, vouchers, logs, onChain, started, resets, ran, sure>>
  BY DEF SeedRideDependent
<1> HIDE DEF t
<1>6. TablesGain /\ scans' \in [Traces -> Persons \cup {Nobody}] /\ scans'[t] # Nobody
  BY <1>2, <1>3, <1>4, <1>5, InsertGain
<1>7. seeded' \subseteq Scenarios => TablesType'
  BY <1>1, <1>5, <1>6 DEF TypeOK, TablesType, onChain
<1>8. NextRide(r, "voucher")
  BY DEF SeedRideDependent
<1> QED  BY <1>1, <1>3, <1>5, <1>6, <1>7, <1>8, RideTaken

-----------------------------------------------------------------------------
(* The steps of a run *)

\* When a day is run, all its rides can be minted.
LEMMA SeededRides ==
  ASSUME SeedInv, NEW s \in Scenarios, s \in seeded, s # "2a", NEW t \in TracesOf(s)
  PROVE  scans[t] \in Persons /\ scans[t] # Nobody /\ Booked(t) /\ Ready(t)
<1>1. t \in Traces /\ t.n \in Guardians
  BY RidesOfScenario
<1>2. t.n \in 1 .. LastGuardian(s)
  BY <1>1, LastIsGuardian DEF Guardians
<1>3. scans[t] # Nobody
  BY <1>2 DEF SeedInv, SeededInv, Done
<1>4. scans[t] \in Persons /\ Booked(t)
  BY <1>1, <1>3 DEF SeedInv, ScansInv, TypeOK, TablesType
<1>5. people[scans[t]] \notin {Absent, 0}
  BY <1>1, <1>4, AbsentIsNoWallet DEF Booked, Attributed
<1> QED  BY <1>3, <1>4, <1>5 DEF Ready, Booked, Attributed

\* A run between two of its steps.
LEMMA RunFacts ==
  ASSUME SeedInv, NEW r \in Requests, pc[r] \in RunSteps
  PROVE  /\ day[r] \in Scenarios /\ day[r] \in seeded /\ day[r] # "2a" /\ kind[r] = "run"
         /\ todo[r] \subseteq Persons
         /\ pc[r] # "resolve" =>
              /\ found[r] \subseteq TracesOf(day[r])
              /\ \A t \in found[r] : t \in Traces /\ scans[t] \in Persons /\ people[scans[t]] = t.n
<1>1. RequestInv(r) /\ TypeOK
  BY DEF SeedInv
<1> PICK s \in Scenarios : s = day[r]
  BY <1>1 DEF TypeOK, RequestsType
<1>2. /\ s \in seeded /\ s # "2a" /\ kind[r] = "run" /\ todo[r] \subseteq Persons
      /\ pc[r] # "resolve" => found[r] \subseteq TracesOf(s)
  BY <1>1 DEF RequestInv, DayInv, TypeOK, RequestsType
<1> QED  BY <1>2, SeededRides, RidesOfScenario DEF Booked, Attributed

LEMMA RunKeeps ==
  ASSUME NEW r \in Requests, pc'[r] \in RunSteps, DayInv(r)'
  PROVE  RequestInv(r)'
BY DEF RequestInv, GuardianInv, DependentInv, DoneInv, AfterUser, AfterLookup, AfterWallet,
   AfterAccount, OfDependent, WithDependent, Riding, SeedSteps, RunSteps

LEMMA ProceedOk ==
  ASSUME SeedInv, NEW r \in Requests, pc[r] \in RunSteps, NEW step \in {"check", "mint"},
         NEW P \in SUBSET Persons, NEW T \in SUBSET TracesOf(day[r]), Proceed(r, step, P, T),
         UNCHANGED <<tables, onChain, started, resets, seeded, sure>>
  PROVE  /\ StepOk(r) /\ pc'[r] = step /\ day'[r] = day[r] /\ todo'[r] = P /\ found'[r] = T
         /\ UNCHANGED <<kind, who, digest, failed, ran>>
<1> PICK s \in Scenarios : s = day[r]
  BY RunFacts
<1>1. /\ TypeOK /\ s \in seeded /\ s # "2a" /\ kind[r] = "run"
      /\ step \in AllSteps /\ step \in RunSteps
  BY RunFacts DEF SeedInv, AllSteps, RunSteps
<1>2. T \subseteq Traces
  BY RidesOfScenario
<1>3. /\ RequestsType' /\ Others(r)
      /\ pc'[r] = step /\ day'[r] = s /\ kind'[r] = "run" /\ todo'[r] = P /\ found'[r] = T
      /\ UNCHANGED <<kind, who, digest, failed, ran>>
  BY <1>1, <1>2 DEF Proceed, Goto, TypeOK, RequestsType, Others, Same, AllSteps
<1>4. TablesType'
  BY <1>1, <1>3 DEF TypeOK, TablesType, tables, onChain
<1>5. TablesGain /\ SeededGrows
  BY TablesStay, SeededStays
<1>6. DayInv(r)'
  BY <1>1, <1>3 DEF DayInv
<1> QED  BY <1>1, <1>3, <1>4, <1>5, <1>6, RunKeeps DEF StepOk, TypeOK

LEMMA ResolveDayOk ==
  ASSUME SeedInv, NEW r \in Requests, ResolveDay(r)
  PROVE  /\ StepOk(r) /\ pc'[r] = "check" /\ day'[r] = day[r]
         /\ found'[r] = TracesOf(day[r]) /\ UNCHANGED <<failed, kind>>
<1>1. pc[r] \in RunSteps
  BY DEF ResolveDay, RunSteps
<1> PICK s \in Scenarios : s = day[r] /\ s \in seeded /\ s # "2a"
  BY <1>1, RunFacts
<1> DEFINE T == {t \in TracesOf(day[r]) : Ready(t)}
<1>2. T = TracesOf(s) /\ T \in SUBSET TracesOf(day[r])
  BY SeededRides
<1>3. Riders(T) \in SUBSET Persons
  BY <1>2, SeededRides DEF Riders
<1>4. Proceed(r, "check", Riders(T), T) /\ UNCHANGED <<tables, onChain, started, resets, seeded, sure>>
  BY DEF ResolveDay
<1> HIDE DEF T
<1> QED  BY <1>1, <1>2, <1>3, <1>4, ProceedOk

LEMMA CheckMintedOk ==
  ASSUME SeedInv, NEW r \in Requests, CheckMinted(r)
  PROVE  StepOk(r)
<1>1. pc[r] \in RunSteps /\ pc[r] = "check"
  BY DEF CheckMinted, RunSteps
<1>2. found[r] \in SUBSET TracesOf(day[r]) /\ todo[r] \in SUBSET Persons /\ Riders(found[r]) \in SUBSET Persons
  BY <1>1, RunFacts DEF Riders
<1>3. UNCHANGED <<tables, onChain, started, resets, seeded, sure>>
  BY DEF CheckMinted
<1>4. ASSUME NEW p \in todo[r], NEW T \in SUBSET found[r], Proceed(r, "check", todo[r] \ {p}, T)
      PROVE  StepOk(r)
  <2>1. T \in SUBSET TracesOf(day[r]) /\ todo[r] \ {p} \in SUBSET Persons
    BY <1>2
  <2> QED  BY <1>1, <1>3, <1>4, <2>1, ProceedOk
<1>5. CASE Proceed(r, "mint", Riders(found[r]), found[r])
  BY <1>1, <1>2, <1>3, <1>5, ProceedOk
<1>6. \A p : (IF AlreadyMinted(p, day[r]) THEN found[r] \ RidesOf(r, p) ELSE found[r]) \in SUBSET found[r]
  OBVIOUS
<1> QED  BY <1>4, <1>5, <1>6 DEF CheckMinted

\* An NFT that run r mints for rider p.
Fresh(r, p, n) ==
  /\ n.tx = txs + 1 /\ n.era = resets /\ n.to = n.trace.n
  /\ n.trace \in found[r] /\ scans[n.trace] = p

LEMMA ExecuteType ==
  ASSUME SeedInv, NEW r \in Requests, pc[r] = "mint", NEW p \in todo[r], Execute(r, p)
  PROVE  /\ txs \in Nat /\ txs' = txs + 1 /\ txs' \in 0 .. MaxTxs /\ txs' \in 1 .. MaxTxs
         /\ chain' \subseteq NFTs
         /\ \A n \in chain' : n \in chain \/ Fresh(r, p, n)
         /\ \A t \in found[r] : scans[t] = p =>
              \E n \in chain' : n.tx = txs' /\ n.era = resets /\ n.trace = t
<1>1. /\ txs \in 0 .. MaxTxs /\ txs < MaxTxs /\ resets \in 0 .. MaxResets /\ chain \subseteq NFTs
  BY DEF SeedInv, TypeOK, TablesType, Execute
<1>2. txs \in Nat /\ txs' = txs + 1 /\ txs' \in 0 .. MaxTxs /\ txs' \in 1 .. MaxTxs
  BY <1>1 DEF Execute
<1>3. \A t \in found[r] : t \in Traces /\ t.n \in Guardians /\ people[scans[t]] = t.n
  <2>1. \A t \in found[r] : t \in Traces /\ people[scans[t]] = t.n
    BY RunFacts DEF RunSteps
  <2> QED  BY <2>1, TraceIsOfItsDay, RidesOfScenario
<1> DEFINE new == {[tx |-> txs + 1, trace |-> t, to |-> people[p], era |-> resets] : t \in RidesOf(r, p)}
<1>4. chain' = chain \cup new
  BY DEF Execute
<1>5. ASSUME NEW n \in new
      PROVE  /\ n \in NFTs /\ n.tx = txs' /\ n.era = resets /\ n.to = n.trace.n
             /\ n.trace \in found[r] /\ scans[n.trace] = p
  <2> PICK t \in RidesOf(r, p) : n = [tx |-> txs + 1, trace |-> t, to |-> people[p], era |-> resets]
    OBVIOUS
  <2>1. t \in found[r] /\ scans[t] = p
    BY DEF RidesOf
  <2>2. t \in Traces /\ people[p] = t.n /\ t.n \in Guardians
    BY <1>3, <2>1
  <2> QED  BY <1>1, <1>2, <2>1, <2>2 DEF NFTs
<1>6. ASSUME NEW t \in found[r], scans[t] = p
      PROVE  \E n \in chain' : n.tx = txs' /\ n.era = resets /\ n.trace = t
  <2> DEFINE n == [tx |-> txs + 1, trace |-> t, to |-> people[p], era |-> resets]
  <2>1. n \in new
    BY <1>6 DEF RidesOf
  <2>2. n.tx = txs + 1 /\ n.era = resets /\ n.trace = t
    OBVIOUS
  <2> HIDE DEF n, new
  <2> QED  BY <1>2, <1>4, <2>1, <2>2
<1> HIDE DEF new
<1>7. \A n \in chain' : n \in chain \/ n \in new
  BY <1>4
<1>8. chain' \subseteq NFTs
  BY <1>1, <1>5, <1>7
<1>9. \A n \in chain' : n \in chain \/ Fresh(r, p, n)
  BY <1>2, <1>5, <1>7 DEF Fresh
<1>10. \A t \in found[r] : scans[t] = p =>
         \E n \in chain' : n.tx = txs' /\ n.era = resets /\ n.trace = t
  BY <1>6
<1> QED  BY <1>2, <1>8, <1>9, <1>10

LEMMA AbortType ==
  ASSUME SeedInv, NEW r \in Requests, pc[r] = "mint", NEW p \in todo[r], Abort(r, p)
  PROVE  txs' \in 0 .. MaxTxs /\ txs' \in 1 .. MaxTxs /\ txs' = txs + 1 /\ aborted' \subseteq Aborts
<1>1. /\ txs \in 0 .. MaxTxs /\ txs < MaxTxs /\ txs' = txs + 1 /\ resets \in 0 .. MaxResets
      /\ aborted \subseteq Aborts /\ found[r] \subseteq Traces
  BY DEF SeedInv, TypeOK, TablesType, RequestsType, Abort
<1>2. \A t \in RidesOf(r, p) : [trace |-> t, era |-> resets] \in Aborts
  BY <1>1 DEF RidesOf, Aborts
<1>3. aborted' \subseteq Aborts
  BY <1>1, <1>2 DEF Abort
<1> QED  BY <1>1, <1>3

LEMMA MintBatchAttendanceOk ==
  ASSUME SeedInv, NEW r \in Requests, MintBatchAttendance(r)
  PROVE  StepOk(r)
<1> PICK s \in Scenarios : s = day[r]
  BY DEF SeedInv, TypeOK, RequestsType
<1>1. /\ TypeOK /\ RequestInv(r) /\ pc[r] = "mint" /\ pc[r] \in RunSteps
      /\ "mint" \in RunSteps \ {"resolve"} /\ "record" \in RunSteps \ {"resolve"}
      /\ s \in seeded /\ s # "2a" /\ kind[r] = "run" /\ todo[r] \subseteq Persons
      /\ found[r] \subseteq TracesOf(s)
  BY RunFacts DEF MintBatchAttendance, RunSteps, SeedInv
<1>2. UNCHANGED <<tables, started, resets, seeded, ran>>
  BY DEF MintBatchAttendance
<1>3. TablesGain /\ SeededGrows
  BY <1>2, TablesStay, SeededStays
<1>4. ASSUME txs' \in 0 .. MaxTxs, chain' \subseteq NFTs, aborted' \subseteq Aborts, sure' \in BOOLEAN
      PROVE  TablesType'
  BY <1>1, <1>2, <1>4 DEF TypeOK, TablesType, tables
<1>5. ASSUME NEW p \in todo[r], Execute(r, p) \/ Abort(r, p)
      PROVE  /\ txs' \in 0 .. MaxTxs /\ txs' \in 1 .. MaxTxs /\ txs' = txs + 1
             /\ chain' \subseteq NFTs /\ aborted' \subseteq Aborts
  <2>1. CASE Execute(r, p)
    BY <1>1, <2>1, ExecuteType DEF Execute, TypeOK, TablesType
  <2>2. CASE Abort(r, p)
    BY <1>1, <2>2, AbortType DEF Abort, TypeOK, TablesType
  <2> QED  BY <1>5, <2>1, <2>2
<1>6. ASSUME NEW p \in todo[r], MintFails(r, p),
             UNCHANGED onChain \/ Execute(r, p), sure' \in BOOLEAN
      PROVE  StepOk(r)
  <2>1. /\ RequestsType' /\ Others(r)
        /\ pc'[r] = "mint" /\ day'[r] = s /\ kind'[r] = "run" /\ found'[r] = found[r]
    BY <1>1, <1>6 DEF MintFails, TypeOK, RequestsType, Others, Same, seeding
  <2>2. txs' \in 0 .. MaxTxs /\ chain' \subseteq NFTs /\ aborted' \subseteq Aborts
    BY <1>1, <1>5, <1>6 DEF TypeOK, TablesType, onChain
  <2>3. DayInv(r)'
    BY <1>1, <1>2, <2>1 DEF DayInv
  <2>4. RequestInv(r)'
    BY <1>1, <2>1, <2>3, RunKeeps
  <2> QED  BY <1>3, <1>4, <1>6, <2>1, <2>2, <2>4 DEF StepOk, TypeOK
<1>7. ASSUME NEW p \in todo[r], Execute(r, p) \/ Abort(r, p), HasDigest(r, p),
             NEW b \in BOOLEAN, failed' = [failed EXCEPT ![r] = b], UNCHANGED sure
      PROVE  StepOk(r)
  <2>1. /\ txs' \in 0 .. MaxTxs /\ txs + 1 \in 1 .. MaxTxs /\ chain' \subseteq NFTs
        /\ aborted' \subseteq Aborts /\ p \in Persons
    BY <1>1, <1>5, <1>7
  <2>2. "record" \in AllSteps /\ txs + 1 \in 0 .. MaxTxs
    BY <1>5, <1>7 DEF AllSteps, RunSteps
  <2>3. /\ RequestsType' /\ Others(r)
        /\ pc'[r] = "record" /\ day'[r] = s /\ kind'[r] = "run" /\ found'[r] = found[r]
        /\ who'[r] = p /\ digest'[r] = txs + 1
    BY <1>1, <1>7, <2>1, <2>2 DEF HasDigest, At, TypeOK, RequestsType, Others, Same, AllSteps
  <2>4. TablesType'
    BY <1>1, <1>4, <1>7, <2>1 DEF TypeOK, TablesType
  <2>5. DayInv(r)'
    BY <1>1, <1>2, <2>1, <2>3 DEF DayInv
  <2>6. RequestInv(r)'
    BY <1>1, <2>3, <2>5, RunKeeps
  <2> QED  BY <1>3, <2>3, <2>4, <2>6 DEF StepOk, TypeOK
<1>8. sure \in BOOLEAN /\ failed[r] \in BOOLEAN
  BY <1>1 DEF TypeOK, TablesType, RequestsType
<1>9. PICK p \in todo[r] :
        \/ Execute(r, p) /\ HasDigest(r, p) /\ UNCHANGED <<failed, sure>>
        \/ /\ Abort(r, p) /\ HasDigest(r, p) /\ UNCHANGED sure
           /\ \E shown \in BOOLEAN : failed' = [failed EXCEPT ![r] = failed[r] \/ shown]
        \/ MintFails(r, p) /\ UNCHANGED <<onChain, sure>>
        \/ Execute(r, p) /\ MintFails(r, p) /\ sure' = FALSE
  BY DEF MintBatchAttendance
<1>10. CASE Execute(r, p) /\ HasDigest(r, p) /\ UNCHANGED <<failed, sure>>
  <2>1. failed' = [failed EXCEPT ![r] = failed[r]]
    BY <1>1, <1>10 DEF TypeOK, RequestsType
  <2> QED  BY <1>7, <1>8, <1>10, <2>1
<1>11. ASSUME Abort(r, p), HasDigest(r, p), UNCHANGED sure,
              NEW shown \in BOOLEAN, failed' = [failed EXCEPT ![r] = failed[r] \/ shown]
       PROVE  StepOk(r)
  <2>1. (failed[r] \/ shown) \in BOOLEAN
    OBVIOUS
  <2> QED  BY <1>7, <1>11, <2>1
<1>12. CASE MintFails(r, p) /\ UNCHANGED <<onChain, sure>>
  BY <1>6, <1>8, <1>12
<1>13. CASE Execute(r, p) /\ MintFails(r, p) /\ sure' = FALSE
  BY <1>6, <1>13
<1> QED  BY <1>9, <1>10, <1>11, <1>12, <1>13

\* The row a run writes.
LEMMA RecordMintFacts ==
  ASSUME SeedInv, NEW r \in Requests, RecordMint(r)
  PROVE  \E t \in TracesOf(day[r]) :
           /\ t \in found[r] /\ scans[t] = who[r] /\ who[r].of = t.n /\ <<t.n, t.day, t.ride>> \in Keys
           /\ logs' = [logs EXCEPT ![<<t.n, t.day, t.ride>>] =
                         [tx |-> digest[r], who |-> IF @.tx = 0 THEN who[r] ELSE @.who]]
           /\ found' = [found EXCEPT ![r] = found[r] \ {t}]
           /\ Goto(r, IF RidesOf(r, who[r]) = {t} THEN "mint" ELSE "record")
<1> PICK t \in RidesOf(r, who[r]) :
       /\ logs' = [logs EXCEPT ![<<who[r].of, t.day, t.ride>>] =
                     [tx |-> digest[r], who |-> IF @.tx = 0 THEN who[r] ELSE @.who]]
       /\ found' = [found EXCEPT ![r] = found[r] \ {t}]
       /\ Goto(r, IF RidesOf(r, who[r]) = {t} THEN "mint" ELSE "record")
  BY DEF RecordMint
<1> PICK s \in Scenarios : s = day[r]
  BY DEF SeedInv, TypeOK, RequestsType
<1>1. t \in found[r] /\ scans[t] = who[r]
  BY DEF RidesOf
<1>2. s \in seeded /\ s # "2a" /\ found[r] \subseteq TracesOf(s)
  BY RunFacts DEF RecordMint, RunSteps
<1>3. Booked(t) /\ t \in TracesOf(s)
  BY <1>1, <1>2, SeededRides
<1>4. who[r].of = t.n
  BY <1>1, <1>3 DEF Booked, Attributed
<1>5. <<t.n, t.day, t.ride>> \in Keys
  BY <1>3, RidesOfScenario DEF Keys
<1> QED  BY <1>1, <1>3, <1>4, <1>5

LEMMA RecordMintOk ==
  ASSUME SeedInv, NEW r \in Requests, RecordMint(r)
  PROVE  StepOk(r)
<1> PICK s \in Scenarios : s = day[r]
  BY DEF SeedInv, TypeOK, RequestsType
<1> PICK t \in TracesOf(s), step \in {"mint", "record"} :
      /\ t \in found[r] /\ <<t.n, t.day, t.ride>> \in Keys
      /\ logs' = [logs EXCEPT ![<<t.n, t.day, t.ride>>] =
                    [tx |-> digest[r], who |-> IF @.tx = 0 THEN who[r] ELSE @.who]]
      /\ found' = [found EXCEPT ![r] = found[r] \ {t}]
      /\ Goto(r, step)
  <2>1. PICK t \in TracesOf(s) :
          /\ t \in found[r] /\ <<t.n, t.day, t.ride>> \in Keys
          /\ logs' = [logs EXCEPT ![<<t.n, t.day, t.ride>>] =
                        [tx |-> digest[r], who |-> IF @.tx = 0 THEN who[r] ELSE @.who]]
          /\ found' = [found EXCEPT ![r] = found[r] \ {t}]
          /\ Goto(r, IF RidesOf(r, who[r]) = {t} THEN "mint" ELSE "record")
    BY RecordMintFacts
  <2> QED  BY <2>1
<1>1. /\ TypeOK /\ RequestInv(r) /\ pc[r] = "record" /\ pc[r] \in RunSteps
      /\ step \in RunSteps \ {"resolve"} /\ step \in AllSteps
      /\ s \in seeded /\ s # "2a" /\ kind[r] = "run" /\ found[r] \subseteq TracesOf(s)
  BY RunFacts DEF RecordMint, RunSteps, SeedInv, AllSteps
<1>2. who[r] \in Persons /\ digest[r] \in 0 .. MaxTxs /\ digest[r] # 0
  BY <1>1 DEF RequestInv, DayInv, TypeOK, RequestsType
<1>3. UNCHANGED <<users, linked, people, vouchers, scans, onChain, history, todo, digest, failed>>
  BY DEF RecordMint
<1>4. TablesGain /\ SeededGrows
  BY <1>3, SeededStays DEF SeedInv, PeopleInv, TablesGain, history
<1>5. logs' \in [Keys -> Rows]
  <2>1. logs \in [Keys -> Rows] /\ digest[r] \in 1 .. MaxTxs
    BY <1>1, <1>2 DEF TypeOK, TablesType
  <2>2. \A row \in Rows : row.tx = 0 \/ row.who \in Persons
    BY DEF Rows, NoRow
  <2>3. \A row \in Rows : [tx |-> digest[r], who |-> IF row.tx = 0 THEN who[r] ELSE row.who] \in Rows
    BY <1>2, <2>1, <2>2 DEF Rows
  <2> QED  BY <2>1, <2>3
<1>6. TablesType'
  BY <1>1, <1>3, <1>5 DEF TypeOK, TablesType, onChain, history
<1>7. /\ RequestsType' /\ Others(r) /\ pc'[r] = step /\ day'[r] = s /\ kind'[r] = "run"
      /\ found'[r] \subseteq TracesOf(s) /\ who'[r] = who[r] /\ digest'[r] = digest[r]
  BY <1>1, <1>3 DEF Goto, TypeOK, RequestsType, Others, Same
<1>8. DayInv(r)'
  BY <1>1, <1>2, <1>3, <1>7 DEF DayInv, history
<1>9. RequestInv(r)'
  BY <1>1, <1>7, <1>8, RunKeeps
<1> QED  BY <1>4, <1>6, <1>7, <1>9 DEF StepOk, TypeOK

LEMMA RecordFailsOk ==
  ASSUME SeedInv, NEW r \in Requests, RecordFails(r)
  PROVE  StepOk(r)
<1> PICK s \in Scenarios : s = day[r]
  BY DEF SeedInv, TypeOK, RequestsType
<1>1. /\ TypeOK /\ RequestInv(r) /\ pc[r] = "record" /\ pc[r] \in RunSteps
      /\ "mint" \in RunSteps \ {"resolve"} /\ "mint" \in AllSteps
      /\ s \in seeded /\ s # "2a" /\ kind[r] = "run" /\ found[r] \subseteq TracesOf(s)
  BY RunFacts DEF RecordFails, RunSteps, SeedInv, AllSteps
<1>2. UNCHANGED <<tables, onChain, started, resets, seeded, ran, failed>> /\ sure' = FALSE
  BY DEF RecordFails
<1>3. TablesGain /\ SeededGrows
  BY <1>2, TablesStay, SeededStays
<1>4. TablesType'
  BY <1>1, <1>2 DEF TypeOK, TablesType, tables, onChain
<1>5. /\ RequestsType' /\ Others(r) /\ pc'[r] = "mint" /\ day'[r] = s /\ kind'[r] = "run"
      /\ found'[r] \subseteq TracesOf(s)
  BY <1>1 DEF RecordFails, Goto, TypeOK, RequestsType, Others, Same, AllSteps
<1>6. DayInv(r)'
  BY <1>1, <1>2, <1>5 DEF DayInv
<1>7. RequestInv(r)'
  BY <1>1, <1>5, <1>6, RunKeeps
<1> QED  BY <1>3, <1>4, <1>5, <1>7 DEF StepOk, TypeOK

\* A run is answered, by its last step or by a look-up that fails.
LEMMA AnswerOk ==
  ASSUME SeedInv, NEW r \in Requests, NEW bad, Answer(r, bad),
         UNCHANGED <<tables, onChain, started, resets, seeded, sure>>
  PROVE  StepOk(r)
<1>1. TypeOK /\ End(r) /\ ran' \subseteq Scenarios
  BY DEF SeedInv, Answer, TypeOK, TablesType, RequestsType
<1>2. RequestsType' /\ Others(r) /\ RequestInv(r)'
  BY <1>1, EndIsOver, OverKeeps DEF TypeOK
<1>3. TablesType' /\ TablesGain /\ SeededGrows
  BY <1>1, TablesStay, SeededStays DEF TypeOK, TablesType, tables, onChain
<1> QED  BY <1>2, <1>3 DEF StepOk, TypeOK

LEMMA AnswerRunOk ==
  ASSUME SeedInv, NEW r \in Requests, AnswerRun(r)
  PROVE  StepOk(r)
BY AnswerOk DEF AnswerRun

LEMMA ReadFailsOk ==
  ASSUME SeedInv, NEW r \in Requests, ReadFails(r)
  PROVE  StepOk(r)
BY AnswerOk DEF ReadFails

LEMMA AbandonOk ==
  ASSUME SeedInv, NEW r \in Requests, Abandon(r)
  PROVE  StepOk(r)
<1>1. TypeOK /\ End(r) /\ UNCHANGED <<tables, onChain, started, resets, seeded, ran>>
  BY DEF SeedInv, Abandon
<1>2. sure' \in BOOLEAN
  BY <1>1 DEF TypeOK, TablesType, Abandon
<1>3. RequestsType' /\ Others(r) /\ RequestInv(r)'
  BY <1>1, EndIsOver, OverKeeps DEF TypeOK
<1>4. TablesType' /\ TablesGain /\ SeededGrows
  BY <1>1, <1>2, TablesStay, SeededStays DEF TypeOK, TablesType, tables, onChain
<1> QED  BY <1>3, <1>4 DEF StepOk, TypeOK

-----------------------------------------------------------------------------
LEMMA StepKeepsSeedInv ==
  ASSUME SeedInv, NEW r \in Requests, StepOk(r)
  PROVE  SeedInv'
<1>1. \A c \in Requests : RequestInv(c)'
  BY Undisturbed DEF StepOk, Others, SeededGrows
<1> QED  BY <1>1, GlobalKept DEF SeedInv, StepOk

LEMMA RequestsAreOk ==
  ASSUME SeedInv, NEW r \in Requests, Seed(r) \/ Run(r) \/ Abandon(r)
  PROVE  StepOk(r)
<1>1. CASE Seed(r)
  BY <1>1, CreateUserOk, GetParticipantByEmailOk, CreateGuardianOk, OwnWalletOk,
     UpdateSuiAccountOk, SeedRideAccountOk, FindDependentOk, CreateDependentOk, CustodialWalletOk,
     InsertVoucherOk, SeedRideDependentOk DEF Seed
<1>2. CASE Run(r)
  BY <1>2, ResolveDayOk, CheckMintedOk, MintBatchAttendanceOk, RecordMintOk, RecordFailsOk,
     AnswerRunOk, ReadFailsOk DEF Run
<1> QED  BY <1>1, <1>2, AbandonOk

\* A reset leaves a demo that has only just begun.
LEMMA ResetKeeps ==
  ASSUME SeedInv, Reset
  PROVE  SeedInv'
<1>1. TypeOK /\ \A c \in Requests : pc[c] = "idle" /\ RequestInv(c)
  BY DEF SeedInv, Reset
<1>2. TablesType'
  <2>1. scans' \in [Traces -> Persons \cup {Nobody}] /\ logs' \in [Keys -> Rows]
    BY DEF Reset, Rows
  <2>2. resets' \in 0 .. MaxResets
    BY <1>1 DEF Reset, TypeOK, TablesType
  <2>3. people' \in [Persons -> 0 .. N \cup {Absent}]
    BY DEF Reset
  <2> QED  BY <1>1, <2>1, <2>2, <2>3 DEF Reset, TypeOK, TablesType, onChain
<1>3. RequestsType'
  BY <1>1 DEF Reset, TypeOK, RequestsType, seeding, minting
<1>4. PeopleInv' /\ ScansInv' /\ SeededInv'
  BY DEF Reset, PeopleInv, ScansInv, SeededInv
<1>5. ASSUME NEW c \in Requests
      PROVE  RequestInv(c)'
  <2>1. pc'[c] = "idle" /\ at'[c] = 1 /\ ride'[c] = 1
    BY <1>1 DEF Reset, seeding, RequestInv, DoneInv
  <2> QED  BY <2>1 DEF RequestInv, GuardianInv, DependentInv, DoneInv, DayInv, AfterUser, AfterLookup,
           AfterWallet, AfterAccount, OfDependent, WithDependent, Riding, SeedSteps, RunSteps
<1> QED  BY <1>2, <1>3, <1>4, <1>5 DEF SeedInv, TypeOK

LEMMA UnchangedKeeps ==
  ASSUME SeedInv, UNCHANGED vars
  PROVE  SeedInv'
<1>1. TypeOK' /\ TablesGain /\ SeededGrows /\ \A c \in Requests : Same(c)
  BY TablesStay, SeededStays DEF SeedInv, TypeOK, TablesType, RequestsType, vars, tables, onChain, history,
     seeding, minting, Same
<1>2. \A c \in Requests : RequestInv(c)'
  BY <1>1, Undisturbed DEF SeededGrows
<1> QED  BY <1>1, <1>2, GlobalKept DEF SeedInv

LEMMA InitiallySeedInv == Init => SeedInv
<1> SUFFICES ASSUME Init PROVE SeedInv
  OBVIOUS
<1>1. TypeOK
  <2>1. 1 \in Guardians /\ 1 \in Rides /\ "2a" \in Scenarios
    BY DEF Guardians, Rides, Scenarios
  <2> QED  BY <2>1 DEF Init, TypeOK, TablesType, RequestsType, Rows
<1>2. PeopleInv /\ ScansInv /\ SeededInv
  BY DEF Init, PeopleInv, ScansInv, SeededInv
<1>3. ASSUME NEW c \in Requests
      PROVE  RequestInv(c)
  BY DEF Init, RequestInv, GuardianInv, DependentInv, DoneInv, DayInv, AfterUser, AfterLookup,
     AfterWallet, AfterAccount, OfDependent, WithDependent, Riding, SeedSteps, RunSteps
<1> QED  BY <1>1, <1>2, <1>3 DEF SeedInv

LEMMA SeedInductive == SeedInv /\ [Next]_vars => SeedInv'
<1> SUFFICES ASSUME SeedInv, [Next]_vars PROVE SeedInv'
  OBVIOUS
<1>1. ASSUME NEW r \in Requests, NEW k \in {"seed", "run"}, NEW s \in Played, Arrive(r, k, s)
      PROVE  SeedInv'
  BY <1>1, ArriveOk, StepKeepsSeedInv
<1>2. ASSUME NEW r \in Requests, Seed(r) \/ Run(r) \/ Abandon(r)
      PROVE  SeedInv'
  BY <1>2, RequestsAreOk, StepKeepsSeedInv
<1> QED  BY <1>1, <1>2, ResetKeeps, UnchangedKeeps DEF Next

LEMMA SeedInvariant == Spec => []SeedInv
BY InitiallySeedInv, SeedInductive, PTL DEF Spec

\* Reachable states are well-typed, whatever fails and whichever requests overlap.
THEOREM TypeCorrect == Spec => []TypeOK
<1>1. SeedInv => TypeOK
  BY DEF SeedInv
<1> QED  BY <1>1, SeedInvariant, PTL

\* What an answered seed or run has seeded is there, whole, until a reset, whichever seeds
\* overlap and wherever others were cut short (seedScenario, scenarios.go:56-58).
THEOREM SeedsAreTrue == Spec => []SeedIsTrue
<1>1. SeedInv => SeedIsTrue
  <2> SUFFICES ASSUME SeedInv, NEW s \in seeded
               PROVE  /\ \A i \in 1 .. LastGuardian(s) : Done(s, i)
                      /\ \A t \in TracesOf(s) : Attributed(t)
    BY DEF SeedIsTrue, Done
  <2>1. s \in Scenarios
    BY DEF SeedInv, TypeOK, TablesType
  <2> QED  BY <2>1, SeededRides, RidesOfScenario DEF SeedInv, SeededInv, Booked
<1> QED  BY <1>1, SeedInvariant, PTL
=============================================================================
