------------------------ MODULE QuotaAdmissionProofs ------------------------
(***************************************************************************)
(* Theorems about module QuotaAdmission, for any set of requests, limits,  *)
(* horizon and length of a day.  The argument is the one the module        *)
(* comment of quotas/service.py gives: what a request counted under the    *)
(* lock can only shrink until it commits, because whoever would add to it  *)
(* needs the lock, and the clock only moves rows out of the count.         *)
(***************************************************************************)
EXTENDS QuotaAdmission, TLAPS, FiniteSetTheorems

-----------------------------------------------------------------------------
(* Type correctness.                                                       *)

\* Every action keeps every variable in its type.
LEMMA TypeStep == TypeOK /\ [Next]_vars => TypeOK'
<1> SUFFICES ASSUME TypeOK, [Next]_vars PROVE TypeOK'
    OBVIOUS
<1> USE DEF TypeOK, Goto, UnderWay, Holding
<1>1. ASSUME NEW r \in Requests, Begin(r) PROVE TypeOK'
    BY <1>1 DEF Begin
<1>2. ASSUME NEW r \in Requests, Lock(r) \/ Deny(r) PROVE TypeOK'
    BY <1>2 DEF Lock, Deny
<1>3. ASSUME NEW r \in Requests, ReadLimits(r) PROVE TypeOK'
    BY <1>3 DEF ReadLimits
<1>4. ASSUME NEW r \in Requests, CheckCapacity(r) \/ CheckBudget(r) PROVE TypeOK'
    BY <1>4 DEF CheckCapacity, CheckBudget
<1>5. ASSUME NEW r \in Requests, Insert(r) \/ Audit(r) \/ Publish(r) PROVE TypeOK'
    BY <1>5 DEF Insert, Audit, Publish, AfterAudit
<1>6. ASSUME NEW r \in Requests, RecordOutcome(r) \/ Fail(r) \/ Release(r) PROVE TypeOK'
    BY <1>6 DEF RecordOutcome, Fail, Release
<1>7. CASE SetOverrides \/ Tick
    BY <1>7 DEF SetOverrides, Tick
<1>8. CASE UNCHANGED vars
    BY <1>8 DEF vars
<1> QED BY <1>1, <1>2, <1>3, <1>4, <1>5, <1>6, <1>7, <1>8 DEF Next, Serve

\* Every variable keeps its type.
THEOREM QuotaTypeCorrect == Spec => []TypeOK
<1>1. Init => TypeOK
    BY QuotaAssumption DEF Init, TypeOK, Kinds
<1> QED BY <1>1, TypeStep, PTL DEF Spec

-----------------------------------------------------------------------------
(* The organization row lock.                                              *)

\* A request that has read its limits and not committed holds the lock: two
\* admissions never count side by side.
LockHeld == \A r \in Requests : step[r] \in Holding <=> holder = r

\* A request takes the lock when it starts counting and gives it back when its
\* transaction ends, however it ends.
LEMMA LockStep == TypeOK /\ LockHeld /\ [Next]_vars => LockHeld'
<1> SUFFICES ASSUME TypeOK, LockHeld, [Next]_vars PROVE LockHeld'
    OBVIOUS
<1> USE QuotaAssumption DEF TypeOK, LockHeld, Goto, Holding
<1>1. ASSUME NEW r \in Requests, Begin(r) \/ Lock(r) \/ ReadLimits(r) PROVE LockHeld'
    BY <1>1 DEF Begin, Lock, ReadLimits
<1>2. ASSUME NEW r \in Requests, CheckCapacity(r) \/ CheckBudget(r) \/ Deny(r) PROVE LockHeld'
    BY <1>2 DEF CheckCapacity, CheckBudget, Deny
<1>3. ASSUME NEW r \in Requests, Insert(r) \/ Audit(r) \/ Publish(r) PROVE LockHeld'
    BY <1>3 DEF Insert, Audit, Publish, AfterAudit
<1>4. ASSUME NEW r \in Requests, RecordOutcome(r) \/ Fail(r) \/ Release(r) PROVE LockHeld'
    BY <1>4 DEF RecordOutcome, Fail, Release
<1>5. CASE SetOverrides \/ Tick
    BY <1>5 DEF SetOverrides, Tick
<1>6. CASE UNCHANGED vars
    BY <1>6 DEF vars
<1> QED BY <1>1, <1>2, <1>3, <1>4, <1>5, <1>6 DEF Next, Serve

\* A request that counts holds the lock (quotas/service.py, _lock_organization).
THEOREM LockHeldHolds == Spec => []LockHeld
<1>1. Init => LockHeld
    BY QuotaAssumption DEF Init, LockHeld, Holding
<1> QED BY <1>1, LockStep, QuotaTypeCorrect, PTL DEF Spec

-----------------------------------------------------------------------------
(* Time only takes rows out of a count.                                    *)

\* What division means for a day.
LEMMA DayOf ==
    ASSUME NEW t \in Nat
    PROVE  Day(t) \in Int /\ DayLength * Day(t) <= t /\ t < DayLength * Day(t) + DayLength
BY QuotaAssumption DEF Day

\* An earlier day ends before a later one begins.
LEMMA WholeDays ==
    ASSUME NEW p \in Int, NEW q \in Int, p < q
    PROVE  DayLength * p + DayLength <= DayLength * q
<1>1. PICK k \in Nat : q = p + 1 + k
    <2>1. q - p - 1 \in Nat
        OBVIOUS
    <2> QED BY <2>1
<1>2. DayLength * q = DayLength * p + DayLength + DayLength * k
    BY <1>1, QuotaAssumption
<1>3. DayLength * k >= 0
    BY QuotaAssumption
<1> QED BY <1>2, <1>3, QuotaAssumption

\* The next instant is never on an earlier day.
LEMMA DayAdvances ==
    ASSUME NEW t \in Nat
    PROVE  Day(t) <= Day(t + 1)
<1> SUFFICES ASSUME Day(t + 1) < Day(t) PROVE FALSE
    BY DayOf
<1> DEFINE today    == DayLength * Day(t)
           tomorrow == DayLength * Day(t + 1)
<1>1. today \in Int /\ tomorrow \in Int
    BY DayOf, QuotaAssumption
<1>2. today <= t /\ t + 1 < tomorrow + DayLength
    BY DayOf
<1>3. tomorrow + DayLength <= today
    BY DayOf, WholeDays
<1> HIDE DEF today, tomorrow
<1> QED BY <1>1, <1>2, <1>3, QuotaAssumption

\* A request has no row until its admission commits, and a live one while it is
\* still being served after that.
RowMatchesStep ==
    \A r \in Requests :
        /\ step[r] \in {"new", "reading"} \cup Holding => row[r] = "none"
        /\ step[r] \in {"audit", "publish", "calling"} => row[r] = "live"

\* Every action keeps it: only Insert makes a row, and ends the admission.
LEMMA RowStep == TypeOK /\ RowMatchesStep /\ [Next]_vars => RowMatchesStep'
<1> SUFFICES ASSUME TypeOK, RowMatchesStep, [Next]_vars PROVE RowMatchesStep'
    OBVIOUS
<1> USE DEF TypeOK, RowMatchesStep, Goto, UnderWay, Holding
<1>1. ASSUME NEW r \in Requests, Begin(r) \/ Lock(r) \/ ReadLimits(r) PROVE RowMatchesStep'
    BY <1>1 DEF Begin, Lock, ReadLimits
<1>2. ASSUME NEW r \in Requests, CheckCapacity(r) \/ CheckBudget(r) \/ Deny(r) PROVE RowMatchesStep'
    BY <1>2 DEF CheckCapacity, CheckBudget, Deny
<1>3. ASSUME NEW r \in Requests, Insert(r) \/ Audit(r) \/ Publish(r) PROVE RowMatchesStep'
    BY <1>3 DEF Insert, Audit, Publish, AfterAudit
<1>4. ASSUME NEW r \in Requests, RecordOutcome(r) \/ Fail(r) \/ Release(r) PROVE RowMatchesStep'
    BY <1>4 DEF RecordOutcome, Fail, Release
<1>5. CASE SetOverrides \/ Tick
    BY <1>5 DEF SetOverrides, Tick
<1>6. CASE UNCHANGED vars
    BY <1>6 DEF vars
<1> QED BY <1>1, <1>2, <1>3, <1>4, <1>5, <1>6 DEF Next, Serve

\* A count keeps a row or loses it, as long as no row is made, no row's date
\* moves and no time is turned back.
LEMMA Shrinks ==
    ASSUME TypeOK, TypeOK', NEW k, kind' = kind,
           \A x \in Requests : row'[x] = row[x] \/ (row[x] = "live" /\ row'[x] = "ended"),
           \A x \in Requests : row[x] # "none" => began'[x] = began[x],
           now' = now \/ now' = now + 1
    PROVE  Active' \subseteq Active /\ Used(k)' \subseteq Used(k)
<1>1. now' >= now /\ Day(now)' >= Day(now)
    BY DayAdvances, DayOf DEF TypeOK, Day
<1>2. Active' \subseteq Active
    <2> SUFFICES ASSUME NEW x \in Requests, x \in Active' PROVE x \in Active
        BY DEF Active
    <2>1. kind[x] = "evaluation" /\ row[x] = "live" /\ began'[x] = began[x]
        BY DEF Active, TypeOK
    <2>2. Horizon \in Nat /\ now \in Nat /\ now' \in Nat /\ began[x] \in Nat
        BY QuotaAssumption DEF TypeOK
    <2>3. began[x] >= now' - Horizon
        BY <2>1 DEF Active
    <2> QED BY <1>1, <2>1, <2>2, <2>3 DEF Active
<1>3. Used(k)' \subseteq Used(k)
    <2> SUFFICES ASSUME NEW x \in Requests, x \in Used(k)' PROVE x \in Used(k)
        BY DEF Used
    <2>1. kind[x] = k /\ row[x] # "none" /\ began'[x] = began[x]
        BY DEF Used, TypeOK
    <2>2. CASE k \in Stocks
        BY <2>1, <2>2 DEF Used, TypeOK
    <2>3. CASE k \notin Stocks
        <3>1. Day(began[x]) >= Day(now)'
            BY <2>1, <2>3 DEF Used, Day
        <3>2. Day(began[x]) \in Int /\ Day(now) \in Int /\ Day(now)' \in Int
            BY DayOf DEF TypeOK, Day
        <3> QED BY <2>1, <2>3, <3>1, <3>2, <1>1 DEF Used
    <2> QED BY <2>2, <2>3
<1> QED BY <1>2, <1>3

\* Only an insert adds to a count, and it adds the inserted row alone.
LEMMA CountsShrink ==
    ASSUME TypeOK, RowMatchesStep, [Next]_vars, NEW k,
           \A r \in Requests : ~Insert(r)
    PROVE  Active' \subseteq Active /\ Used(k)' \subseteq Used(k)
<1>0. TypeOK'
    BY TypeStep
<1> DEFINE RowsFade  == \A x \in Requests : row'[x] = row[x] \/ (row[x] = "live" /\ row'[x] = "ended")
           DatesStay == \A x \in Requests : row[x] # "none" => began'[x] = began[x]
           Effect    == kind' = kind /\ RowsFade /\ DatesStay /\ (now' = now \/ now' = now + 1)
<1>1. ASSUME NEW r \in Requests, Begin(r) PROVE Effect
    BY <1>1 DEF Begin, TypeOK, RowMatchesStep
<1>2. ASSUME NEW r \in Requests, Lock(r) \/ ReadLimits(r) \/ CheckCapacity(r) \/ CheckBudget(r) \/ Deny(r)
      PROVE  Effect
    BY <1>2 DEF Lock, ReadLimits, CheckCapacity, CheckBudget, Deny
<1>3. ASSUME NEW r \in Requests, Audit(r) \/ Fail(r) PROVE Effect
    BY <1>3 DEF Audit, Fail
<1>4. ASSUME NEW r \in Requests, Release(r) PROVE Effect
    BY <1>4 DEF Release, TypeOK
<1>5. ASSUME NEW r \in Requests, Publish(r) PROVE Effect
    BY <1>5 DEF Publish, TypeOK, RowMatchesStep
<1>6. ASSUME NEW r \in Requests, RecordOutcome(r) PROVE Effect
    BY <1>6 DEF RecordOutcome, TypeOK, RowMatchesStep
<1>7. ASSUME SetOverrides \/ Tick PROVE Effect
    BY <1>7 DEF SetOverrides, Tick
<1>8. ASSUME UNCHANGED vars PROVE Effect
    BY <1>8 DEF vars
<1>9. Effect
    BY <1>1, <1>2, <1>3, <1>4, <1>5, <1>6, <1>7, <1>8 DEF Next, Serve
<1> QED BY <1>0, <1>9, Shrinks

-----------------------------------------------------------------------------
(* No admission overshoots.                                                *)

\* While a request is being admitted there is room for it: what it counted is
\* still below the limit it read when it inserts its row.
Room ==
    \A r \in Requests :
        /\ step[r] \in {"budget", "admitted"} /\ kind[r] = "evaluation" =>
               Cardinality(Active) < lim[r]["concurrent"]
        /\ step[r] = "admitted" => Cardinality(Used(kind[r])) < lim[r][kind[r]]

\* Counts of requests are numbers.
LEMMA Counts ==
    ASSUME NEW S, S \subseteq Requests
    PROVE  IsFiniteSet(S) /\ Cardinality(S) \in Nat
BY QuotaAssumption, FS_Subset, FS_CardinalityType

\* A count that shrinks is not larger than it was.
LEMMA SmallerCount ==
    ASSUME NEW S, S \subseteq Requests, NEW T, T \subseteq S
    PROVE  Cardinality(T) <= Cardinality(S)
BY Counts, FS_Subset

\* One more row adds at most one to a count.
LEMMA OneMore ==
    ASSUME NEW S, S \subseteq Requests, NEW r \in Requests, NEW T, T \subseteq S \cup {r}
    PROVE  Cardinality(T) <= Cardinality(S) + 1
<1>1. Cardinality(S \cup {r}) <= Cardinality(S) + 1
    BY Counts, FS_AddElement
<1>2. Cardinality(T) <= Cardinality(S \cup {r})
    BY SmallerCount
<1>3. Cardinality(T) \in Nat /\ Cardinality(S) \in Nat /\ Cardinality(S \cup {r}) \in Nat
    BY Counts
<1> QED BY <1>1, <1>2, <1>3

\* A limit is a number for every kind.
LEMMA Limits ==
    ASSUME TypeOK, NEW r \in Requests
    PROVE  lim[r]["concurrent"] \in Nat /\ lim[r][kind[r]] \in Nat
BY QuotaAssumption DEF TypeOK, Dimensions, Kinds

\* What an insert does to the counts.
LEMMA InsertAddsOne ==
    ASSUME TypeOK, NEW r \in Requests, Insert(r), NEW k
    PROVE  Active' \subseteq Active \cup {r} /\ Used(k)' \subseteq Used(k) \cup {r}
BY DEF TypeOK, Insert, Goto, Active, Used, Day

\* How a request comes to be admitted, or on its way to it.
LEMMA OnTheWay ==
    ASSUME TypeOK, [Next]_vars, NEW r \in Requests, step'[r] \in {"budget", "admitted"}
    PROVE  /\ kind' = kind
           /\ \/ step'[r] = step[r] /\ lim'[r] = lim[r]
              \/ step'[r] = "budget" /\ kind[r] # "evaluation"
              \/ CheckCapacity(r) \/ CheckBudget(r)
<1> USE DEF TypeOK, Goto
<1> DEFINE Effect == \/ step'[r] = step[r] /\ lim'[r] = lim[r]
                     \/ step'[r] = "budget" /\ kind[r] # "evaluation"
                     \/ CheckCapacity(r) \/ CheckBudget(r)
<1>1. kind' = kind
    BY DEF Next, Serve, vars, Begin, Lock, ReadLimits, CheckCapacity, CheckBudget, Deny, Insert,
           Audit, Publish, RecordOutcome, Fail, Release, SetOverrides, Tick
<1>2. ASSUME NEW q \in Requests, Begin(q) \/ Lock(q) \/ ReadLimits(q) PROVE Effect
    BY <1>2 DEF Begin, Lock, ReadLimits
<1>3. ASSUME NEW q \in Requests, CheckCapacity(q) \/ CheckBudget(q) PROVE Effect
    <2>1. CASE q = r
        BY <1>3, <2>1
    <2>2. CASE q # r
        BY <1>3, <2>2 DEF CheckCapacity, CheckBudget
    <2> QED BY <2>1, <2>2
<1>4. ASSUME NEW q \in Requests, Deny(q) \/ Insert(q) \/ Audit(q) \/ Publish(q) PROVE Effect
    BY <1>4 DEF Deny, Insert, Audit, Publish, AfterAudit
<1>5. ASSUME NEW q \in Requests, RecordOutcome(q) \/ Fail(q) \/ Release(q) PROVE Effect
    BY <1>5 DEF RecordOutcome, Fail, Release
<1>6. ASSUME SetOverrides \/ Tick PROVE Effect
    BY <1>6 DEF SetOverrides, Tick
<1>7. ASSUME UNCHANGED vars PROVE Effect
    BY <1>7 DEF vars
<1> HIDE DEF Effect
<1>8. Effect
    BY <1>2, <1>3, <1>4, <1>5, <1>6, <1>7 DEF Next, Serve
<1> QED BY <1>1, <1>8 DEF Effect

\* Room stays until the insert: the only insert there can be while a request is
\* being admitted is its own, because it holds the lock.
LEMMA RoomStep == TypeOK /\ LockHeld /\ RowMatchesStep /\ Room /\ [Next]_vars => Room'
<1> SUFFICES ASSUME TypeOK, LockHeld, RowMatchesStep, Room, [Next]_vars,
                    NEW r \in Requests, step'[r] \in {"budget", "admitted"}
             PROVE  /\ kind'[r] = "evaluation" => Cardinality(Active') < lim'[r]["concurrent"]
                    /\ step'[r] = "admitted" => Cardinality(Used(kind[r])') < lim'[r][kind'[r]]
    BY DEF Room
<1>k. PICK k : k = kind[r]
    OBVIOUS
<1>1. TypeOK' /\ LockHeld' /\ kind' = kind
    BY TypeStep, LockStep, OnTheWay
<1>2. ASSUME NEW q \in Requests, Insert(q) PROVE FALSE
    <2>1. holder = q /\ holder' = NoOne
        BY <1>2 DEF Insert, LockHeld, Holding
    <2>2. holder' = r
        BY <1>1 DEF LockHeld, Holding
    <2> QED BY <2>1, <2>2, QuotaAssumption
<1>3. Active' \subseteq Active /\ Used(k)' \subseteq Used(k)
    BY <1>2, CountsShrink
<1>4. Active \subseteq Requests /\ Used(k) \subseteq Requests
    BY DEF Active, Used
<1>5. /\ Cardinality(Active') <= Cardinality(Active)
      /\ Cardinality(Used(k)') <= Cardinality(Used(k))
    BY <1>3, <1>4, SmallerCount
<1>6. /\ Cardinality(Active) \in Nat /\ Cardinality(Used(k)) \in Nat
      /\ Cardinality(Active') \in Nat /\ Cardinality(Used(k)') \in Nat
      /\ lim[r]["concurrent"] \in Nat /\ lim[r][k] \in Nat
    BY <1>3, <1>4, Counts, Limits, <1>k
<1>u. Used(kind[r]) = Used(k) /\ Used(kind[r])' = Used(k)'
    BY <1>k, <1>1 DEF Used
<1>7. CASE step'[r] = step[r] /\ lim'[r] = lim[r]
    BY <1>1, <1>5, <1>6, <1>7, <1>k, <1>u DEF Room
<1>8. CASE step'[r] = "budget" /\ kind[r] # "evaluation"
    BY <1>1, <1>8, <1>k
<1>9. CASE CheckCapacity(r)
    BY <1>1, <1>5, <1>6, <1>9 DEF CheckCapacity, Goto, TypeOK
<1>10. CASE CheckBudget(r)
    BY <1>1, <1>5, <1>6, <1>10, <1>k, <1>u DEF CheckBudget, Goto, TypeOK, Room
<1> QED BY <1>7, <1>8, <1>9, <1>10, OnTheWay

\* Only an insert makes a row, and it finds room for it.
LEMMA OvershootStep ==
    ASSUME TypeOK, RowMatchesStep, Room, [Next]_vars,
           NEW r \in Requests, row[r] = "none", row'[r] # "none"
    PROVE  /\ Cardinality(Used(kind[r]))' <= lim[r][kind[r]]
           /\ kind[r] = "evaluation" => Cardinality(Active)' <= lim[r]["concurrent"]
<1>k. PICK k : k = kind[r]
    OBVIOUS
<1>1. Insert(r)
    BY DEF TypeOK, RowMatchesStep, Next, Serve, vars, Begin, Lock, ReadLimits, CheckCapacity,
           CheckBudget, Deny, Insert, Audit, Publish, RecordOutcome, Fail, Release, SetOverrides, Tick
<1>2. Active' \subseteq Active \cup {r} /\ Used(k)' \subseteq Used(k) \cup {r}
    BY <1>1, InsertAddsOne
<1>3. Active \subseteq Requests /\ Used(k) \subseteq Requests
    BY DEF Active, Used
<1>4. /\ Cardinality(Active') <= Cardinality(Active) + 1
      /\ Cardinality(Used(k)') <= Cardinality(Used(k)) + 1
    BY <1>2, <1>3, OneMore
<1>5. /\ Cardinality(Active) \in Nat /\ Cardinality(Used(k)) \in Nat
      /\ Cardinality(Active') \in Nat /\ Cardinality(Used(k)') \in Nat
      /\ lim[r]["concurrent"] \in Nat /\ lim[r][k] \in Nat
    BY <1>2, <1>3, Counts, Limits, <1>k
<1>6. /\ kind[r] = "evaluation" => Cardinality(Active) < lim[r]["concurrent"]
      /\ Cardinality(Used(k)) < lim[r][k]
    BY <1>1, <1>k DEF Insert, Room
<1>7. Used(kind[r])' = Used(k)'
    BY <1>1, <1>k DEF Insert, Used
<1> QED BY <1>4, <1>5, <1>6, <1>7, <1>k

AdmissionInv == TypeOK /\ LockHeld /\ RowMatchesStep /\ Room

\* What a request being admitted knows stays true until it inserts.
LEMMA AdmissionInvHolds == Spec => []AdmissionInv
<1>1. Init => AdmissionInv
    BY QuotaAssumption DEF Init, TypeOK, Kinds, LockHeld, Holding, RowMatchesStep, Room, AdmissionInv
<1>2. AdmissionInv /\ [Next]_vars => AdmissionInv'
    BY TypeStep, LockStep, RowStep, RoomStep DEF AdmissionInv
<1> QED BY <1>1, <1>2, PTL DEF Spec

\* No admission takes a quota beyond the limit it read, whatever commits,
\* expires or is overridden between its counts and its insert
\* (quotas/service.py, admit_evaluation and the other admit_ methods).
NeverOvershoots ==
    [][\A r \in Requests :
          row[r] = "none" /\ row'[r] # "none" =>
              /\ Cardinality(Used(kind[r]))' <= lim[r][kind[r]]
              /\ kind[r] = "evaluation" => Cardinality(Active)' <= lim[r]["concurrent"]]_vars

\* Admissions never overshoot.
THEOREM NeverOvershootsHolds == Spec => NeverOvershoots
<1>1. AdmissionInv /\ [Next]_vars =>
          [\A r \in Requests :
              row[r] = "none" /\ row'[r] # "none" =>
                  /\ Cardinality(Used(kind[r]))' <= lim[r][kind[r]]
                  /\ kind[r] = "evaluation" => Cardinality(Active)' <= lim[r]["concurrent"]]_vars
    BY OvershootStep DEF AdmissionInv
<1> QED BY <1>1, AdmissionInvHolds, PTL DEF Spec, NeverOvershoots

-----------------------------------------------------------------------------
(* Quotas hold in every state.                                             *)

\* What was admitted keeps its kind, its stamp and the limits it was given, and
\* never disappears.
LEMMA AdmittedStays ==
    ASSUME TypeOK, RowMatchesStep, [Next]_vars
    PROVE  /\ kind' = kind
           /\ \A x \in Requests : row[x] # "none" =>
                  row'[x] # "none" /\ began'[x] = began[x] /\ lim'[x] = lim[x]
<1> USE DEF TypeOK, RowMatchesStep, Goto, Holding, UnderWay
<1> DEFINE Kept == /\ kind' = kind
                   /\ \A x \in Requests : row[x] # "none" =>
                          row'[x] # "none" /\ began'[x] = began[x] /\ lim'[x] = lim[x]
<1>1. ASSUME NEW r \in Requests, Begin(r) PROVE Kept
    BY <1>1 DEF Begin
<1>2. ASSUME NEW r \in Requests, ReadLimits(r) PROVE Kept
    BY <1>2 DEF ReadLimits
<1>3. ASSUME NEW r \in Requests, Lock(r) \/ CheckCapacity(r) \/ CheckBudget(r) \/ Deny(r) PROVE Kept
    BY <1>3 DEF Lock, CheckCapacity, CheckBudget, Deny
<1>4. ASSUME NEW r \in Requests, Insert(r) \/ Audit(r) \/ Publish(r) PROVE Kept
    BY <1>4 DEF Insert, Audit, Publish
<1>5. ASSUME NEW r \in Requests, RecordOutcome(r) \/ Fail(r) \/ Release(r) PROVE Kept
    BY <1>5 DEF RecordOutcome, Fail, Release
<1>6. ASSUME SetOverrides \/ Tick PROVE Kept
    BY <1>6 DEF SetOverrides, Tick
<1>7. ASSUME UNCHANGED vars PROVE Kept
    BY <1>7 DEF vars
<1> HIDE DEF Kept
<1>8. Kept
    BY <1>1, <1>2, <1>3, <1>4, <1>5, <1>6, <1>7 DEF Next, Serve
<1> QED BY <1>8 DEF Kept

\* A count that shrinks, or gains one row whose limit has room for all of it,
\* stays within the terms of its rows.
LEMMA TermsStep ==
    ASSUME TypeOK', NEW d, NEW S, S \subseteq Requests, WithinTerms(S, d),
           \A x \in S : lim'[x] = lim[x],
           NEW r \in Requests, NEW N, N \subseteq S \cup {r},
           r \in N => lim'[r][d] \in Nat /\ Cardinality(N) <= lim'[r][d]
    PROVE  \A T \in SUBSET N : T # {} => \E x \in T : Cardinality(T) <= lim'[x][d]
<1> SUFFICES ASSUME NEW T \in SUBSET N, T # {}
             PROVE  \E x \in T : Cardinality(T) <= lim'[x][d]
    OBVIOUS
<1>1. N \subseteq Requests
    OBVIOUS
<1>2. CASE r \in T
    <2>1. Cardinality(T) <= Cardinality(N) /\ Cardinality(T) \in Nat /\ Cardinality(N) \in Nat
        BY <1>1, Counts, SmallerCount
    <2>2. Cardinality(T) <= lim'[r][d]
        BY <1>2, <2>1
    <2> QED BY <1>2, <2>2
<1>3. CASE r \notin T
    <2>1. T \in SUBSET S
        BY <1>3
    <2> QED BY <2>1 DEF WithinTerms
<1> QED BY <1>2, <1>3

\* Every step keeps the quotas.
LEMMA QuotasStep ==
    AdmissionInv /\ QuotasHold /\ [Next]_vars => QuotasHold'
<1> SUFFICES ASSUME AdmissionInv, QuotasHold, [Next]_vars PROVE QuotasHold'
    OBVIOUS
<1>1. TypeOK /\ RowMatchesStep /\ Room /\ TypeOK'
    BY TypeStep DEF AdmissionInv
<1>2. Active \subseteq Requests /\ \A k : Used(k) \subseteq Requests
    BY DEF Active, Used
<1>3. /\ kind' = kind
      /\ \A x \in Requests : row[x] # "none" => lim'[x] = lim[x]
    BY <1>1, AdmittedStays
<1>4. /\ \A x \in Active : lim'[x] = lim[x]
      /\ \A k : \A x \in Used(k) : lim'[x] = lim[x]
    BY <1>1, <1>3 DEF Active, Used
<1>5. ASSUME NEW r \in Requests, Insert(r) PROVE QuotasHold'
    <2>1. row[r] = "none" /\ row'[r] # "none" /\ lim'[r] = lim[r]
        BY <1>1, <1>5 DEF Insert, RowMatchesStep, Holding, TypeOK
    <2>2. /\ Cardinality(Used(kind[r]))' <= lim[r][kind[r]]
          /\ kind[r] = "evaluation" => Cardinality(Active)' <= lim[r]["concurrent"]
        BY <1>1, <2>1, OvershootStep
    <2>3. lim[r]["concurrent"] \in Nat /\ lim[r][kind[r]] \in Nat
        BY <1>1, Limits
    <2>4. ASSUME NEW k \in Kinds PROVE WithinTerms(Used(k), k)'
        <3>1. Used(k)' \subseteq Used(k) \cup {r}
            BY <1>1, <1>5, InsertAddsOne
        <3>2. r \in Used(k)' => k = kind[r]
            BY <1>3 DEF Used
        <3>3. r \in Used(k)' => lim'[r][k] \in Nat /\ Cardinality(Used(k)') <= lim'[r][k]
            <4> SUFFICES ASSUME r \in Used(k)'
                         PROVE  lim'[r][k] \in Nat /\ Cardinality(Used(k)') <= lim'[r][k]
                OBVIOUS
            <4>1. k = kind[r] /\ lim'[r][k] = lim[r][k]
                BY <2>1, <3>2
            <4>2. Used(kind[r])' = Used(k)'
                BY <1>3, <4>1 DEF Used
            <4> QED BY <2>2, <2>3, <4>1, <4>2
        <3>4. WithinTerms(Used(k), k)
            BY DEF QuotasHold
        <3>5. \A T \in SUBSET Used(k)' : T # {} => \E x \in T : Cardinality(T) <= lim'[x][k]
            BY <1>1, <1>2, <1>4, <3>1, <3>3, <3>4, TermsStep
        <3> QED BY <3>5 DEF WithinTerms
    <2>5. WithinTerms(Active, "concurrent")'
        <3>1. Active' \subseteq Active \cup {r}
            BY <1>1, <1>5, InsertAddsOne
        <3>2. r \in Active' => lim'[r]["concurrent"] \in Nat /\ Cardinality(Active') <= lim'[r]["concurrent"]
            BY <1>3, <2>1, <2>2, <2>3 DEF Active
        <3>3. WithinTerms(Active, "concurrent")
            BY DEF QuotasHold
        <3>4. \A T \in SUBSET Active' : T # {} => \E x \in T : Cardinality(T) <= lim'[x]["concurrent"]
            BY <1>1, <1>2, <1>4, <3>1, <3>2, <3>3, TermsStep
        <3> QED BY <3>4 DEF WithinTerms
    <2> QED BY <2>4, <2>5 DEF QuotasHold
<1>6. CASE \A r \in Requests : ~Insert(r)
    <2>1. ASSUME NEW k \in Kinds PROVE WithinTerms(Used(k), k)'
        <3>1. Used(k)' \subseteq Used(k)
            BY <1>1, <1>6, CountsShrink
        <3>2. \A T \in SUBSET Used(k)' : T # {} => \E x \in T : Cardinality(T) <= lim'[x][k]
            BY <1>4, <3>1 DEF QuotasHold, WithinTerms
        <3> QED BY <3>2 DEF WithinTerms
    <2>2. WithinTerms(Active, "concurrent")'
        <3>1. Active' \subseteq Active
            BY <1>1, <1>6, CountsShrink
        <3>2. \A T \in SUBSET Active' : T # {} => \E x \in T : Cardinality(T) <= lim'[x]["concurrent"]
            BY <1>4, <3>1 DEF QuotasHold, WithinTerms
        <3> QED BY <3>2 DEF WithinTerms
    <2> QED BY <2>1, <2>2 DEF QuotasHold
<1> QED BY <1>5, <1>6

\* Quotas hold (quotas/service.py): in every state, any rows counted together
\* include one that was admitted under a limit with room for all of them; with
\* limits that never change, no count ever exceeds its limit.
THEOREM QuotasHoldHolds == Spec => []QuotasHold
<1>1. Init => QuotasHold
    BY DEF Init, QuotasHold, WithinTerms, Used, Active, Stocks
<1> QED BY <1>1, QuotasStep, AdmissionInvHolds, PTL DEF Spec

\* What that means for any bound on the limits ever configured.
THEOREM NeverMoreThanEverAllowed ==
    ASSUME NEW k \in Kinds, NEW n \in Nat, \A l \in LimitRows : l[k] <= n
    PROVE  Spec => [](Cardinality(Used(k)) <= n)
<1>1. TypeOK /\ QuotasHold => Cardinality(Used(k)) <= n
    <2> SUFFICES ASSUME TypeOK, QuotasHold PROVE Cardinality(Used(k)) <= n
        OBVIOUS
    <2>1. Used(k) \subseteq Requests /\ Cardinality(Used(k)) \in Nat
        BY Counts DEF Used
    <2>2. CASE Used(k) = {}
        BY <2>2, FS_EmptySet
    <2>3. CASE Used(k) # {}
        <3>1. PICK x \in Used(k) : Cardinality(Used(k)) <= lim[x][k]
            BY <2>3 DEF QuotasHold, WithinTerms
        <3>2. lim[x][k] <= n /\ lim[x][k] \in Nat
            BY <2>1, QuotaAssumption DEF TypeOK, Kinds, Dimensions
        <3> QED BY <2>1, <3>1, <3>2
    <2> QED BY <2>2, <2>3
<1> QED BY <1>1, QuotasHoldHolds, QuotaTypeCorrect, PTL

-----------------------------------------------------------------------------
(* Admission is as good as one step.                                       *)

\* No transaction begins in the future.
LEMMA StampStep ==
    TypeOK /\ (\A r \in Requests : began[r] <= now) /\ [Next]_vars
        => (\A r \in Requests : began[r] <= now)'
<1> SUFFICES ASSUME TypeOK, \A r \in Requests : began[r] <= now, [Next]_vars
             PROVE  \A r \in Requests : began'[r] <= now'
    OBVIOUS
<1> USE DEF TypeOK
<1>1. ASSUME NEW r \in Requests, Begin(r) PROVE \A x \in Requests : began'[x] <= now'
    BY <1>1 DEF Begin
<1>2. ASSUME Tick PROVE \A x \in Requests : began'[x] <= now'
    BY <1>2 DEF Tick
<1>3. ASSUME UNCHANGED <<began, now>> PROVE \A x \in Requests : began'[x] <= now'
    BY <1>3
<1> QED BY <1>1, <1>2, <1>3 DEF Next, Serve, vars, Lock, ReadLimits, CheckCapacity, CheckBudget, Deny,
           Insert, Audit, Publish, RecordOutcome, Fail, Release, SetOverrides

\* The ledger counts what the queries count.
LEMMA LedgerCounts ==
    /\ DOMAIN Entries = {x \in Requests : row[x] # "none"}
    /\ \A x \in DOMAIN Entries :
          /\ Entries[x].kind = kind[x] /\ Entries[x].stamp = began[x]
          /\ Entries[x].state = row[x]
    /\ \A k : Ledger!Used(k) = Used(k)
    /\ Ledger!Active = Active
<1>1. DOMAIN Entries = {x \in Requests : row[x] # "none"}
    BY DEF Entries
<1>2. \A x \in DOMAIN Entries :
          /\ Entries[x].kind = kind[x] /\ Entries[x].stamp = began[x]
          /\ Entries[x].state = row[x]
    BY DEF Entries
<1>3. \A k : Ledger!Used(k) = Used(k)
    BY <1>1, <1>2 DEF Ledger!Used, Used, Ledger!Day, Day
<1>4. Ledger!Active = Active
    BY <1>1, <1>2 DEF Ledger!Active, Active
<1> QED BY <1>1, <1>2, <1>3, <1>4

\* Cardinality in the instance of QuotaLedger is Cardinality.
LEMMA LedgerCardinality == \A S : Ledger!Cardinality(S) = Cardinality(S)
BY DEF Ledger!Cardinality, Cardinality, Ledger!IsFiniteSet, IsFiniteSet

\* A step that makes or ends no row changes nothing in the ledger.
LEMMA EntriesStay ==
    ASSUME kind' = kind, row' = row,
           \A x \in Requests : row[x] # "none" => began'[x] = began[x] /\ lim'[x] = lim[x]
    PROVE  Entries' = Entries
BY DEF Entries

\* An insert is an admission: what the request counted still leaves room.
LEMMA InsertAdmits ==
    ASSUME AdmissionInv, \A x \in Requests : began[x] <= now, NEW r \in Requests, Insert(r)
    PROVE  Ledger!Admit(r)
<1>1. TypeOK /\ RowMatchesStep /\ Room
    BY DEF AdmissionInv
<1>2. row[r] = "none" /\ row' = [row EXCEPT ![r] = "live"]
        /\ UNCHANGED <<now, kind, began, lim>>
    BY <1>1 DEF Insert, RowMatchesStep, Holding
<1> DEFINE entry == [kind |-> kind[r], stamp |-> began[r], terms |-> lim[r], state |-> "live"]
<1>3. r \notin DOMAIN Entries
    BY <1>2, LedgerCounts
<1>4. kind[r] \in Kinds /\ began[r] \in 0..now /\ lim[r] \in LimitRows
    BY <1>1 DEF TypeOK
<1>5. /\ Cardinality(Used(kind[r])) < lim[r][kind[r]]
      /\ kind[r] = "evaluation" => Cardinality(Active) < lim[r]["concurrent"]
    BY <1>1 DEF Insert, Room
<1>6. Entries' = [x \in DOMAIN Entries \cup {r} |-> IF x = r THEN entry ELSE Entries[x]]
    <2>1. {x \in Requests : row'[x] # "none"} = DOMAIN Entries \cup {r}
        BY <1>1, <1>2, LedgerCounts DEF TypeOK
    <2>2. ASSUME NEW x \in DOMAIN Entries, x # r
          PROVE  [kind |-> kind'[x], stamp |-> began'[x], terms |-> lim'[x], state |-> row'[x]]
                    = Entries[x]
        BY <1>1, <1>2, <2>2 DEF Entries, TypeOK
    <2>3. [kind |-> kind'[r], stamp |-> began'[r], terms |-> lim'[r], state |-> row'[r]] = entry
        BY <1>1, <1>2 DEF TypeOK
    <2> HIDE DEF entry
    <2> QED BY <2>1, <2>2, <2>3 DEF Entries
<1>7. /\ Cardinality(Ledger!Used(kind[r])) < lim[r][kind[r]]
      /\ kind[r] = "evaluation" => Cardinality(Ledger!Active) < lim[r]["concurrent"]
    BY <1>5, LedgerCounts, Zenon
<1>8. \E k \in Kinds, t \in 0..now, terms \in LimitRows :
          /\ Cardinality(Ledger!Used(k)) < terms[k]
          /\ k = "evaluation" => Cardinality(Ledger!Active) < terms["concurrent"]
          /\ Entries' = [x \in DOMAIN Entries \cup {r} |->
                            IF x = r THEN [kind |-> k, stamp |-> t, terms |-> terms, state |-> "live"]
                                     ELSE Entries[x]]
    BY <1>4, <1>6, <1>7, Zenon
<1>9. UNCHANGED now
    BY <1>2
<1> HIDE DEF entry
<1> QED BY <1>3, <1>8, <1>9, LedgerCardinality DEF Ledger!Admit

\* A live row that ends is an entry that ends.
LEMMA RowEnds ==
    ASSUME TypeOK, NEW r \in Requests, row[r] = "live", row' = [row EXCEPT ![r] = "ended"],
           UNCHANGED <<now, kind, began, lim>>
    PROVE  Ledger!End(r)
<1>1. r \in DOMAIN Entries /\ Entries[r].state = "live"
    BY LedgerCounts
<1>2. {x \in Requests : row'[x] # "none"} = DOMAIN Entries
    BY LedgerCounts DEF TypeOK
<1>3. Entries' = [Entries EXCEPT ![r].state = "ended"]
    <2>1. ASSUME NEW x \in DOMAIN Entries, x # r
          PROVE  [kind |-> kind'[x], stamp |-> began'[x], terms |-> lim'[x], state |-> row'[x]]
                    = Entries[x]
        BY <2>1 DEF Entries, TypeOK
    <2>2. [kind |-> kind'[r], stamp |-> began'[r], terms |-> lim'[r], state |-> row'[r]]
            = [Entries[r] EXCEPT !.state = "ended"]
        <3>1. row'[r] = "ended"
            BY DEF TypeOK
        <3>2. Entries[r] = [kind |-> kind[r], stamp |-> began[r], terms |-> lim[r], state |-> row[r]]
            BY LedgerCounts, <1>1 DEF Entries
        <3> QED BY <3>1, <3>2
    <2>3. Entries' = [x \in DOMAIN Entries |-> IF x = r THEN [Entries[r] EXCEPT !.state = "ended"] ELSE Entries[x]]
        <3> DEFINE image(x) == [kind |-> kind'[x], stamp |-> began'[x], terms |-> lim'[x],
                                state |-> row'[x]]
        <3>1. Entries' = [x \in {y \in Requests : row'[y] # "none"} |-> image(x)]
            BY DEF Entries
        <3>2. \A x \in DOMAIN Entries :
                  image(x) = IF x = r THEN [Entries[r] EXCEPT !.state = "ended"] ELSE Entries[x]
            BY <2>1, <2>2, Zenon
        <3> HIDE DEF image
        <3> QED BY <1>2, <3>1, <3>2
    <2>4. Entries = [x \in DOMAIN Entries |-> Entries[x]]
        BY DEF Entries
    <2> QED BY <1>1, <2>3, <2>4
<1> QED BY <1>1, <1>3 DEF Ledger!End

\* Each step of a request, of its surroundings or of the clock is a step of the
\* ledger or invisible in it.
LEMMA LedgerStep ==
    AdmissionInv /\ (\A r \in Requests : began[r] <= now) /\ [Next]_vars => [Ledger!Next]_(Ledger!vars)
<1> SUFFICES ASSUME AdmissionInv, \A r \in Requests : began[r] <= now, [Next]_vars
             PROVE  Ledger!Next \/ UNCHANGED <<now, Entries>>
    BY DEF Ledger!vars
<1>1. TypeOK /\ RowMatchesStep
    BY DEF AdmissionInv
<1>2. /\ kind' = kind
      /\ \A x \in Requests : row[x] # "none" => began'[x] = began[x] /\ lim'[x] = lim[x]
    BY <1>1, AdmittedStays
<1>3. ASSUME NEW r \in Requests, Insert(r) PROVE Ledger!Next
    BY <1>3, InsertAdmits DEF Ledger!Next
<1>4. ASSUME NEW r \in Requests, Release(r) PROVE Ledger!Next
    <2>1. Ledger!End(r)
        BY <1>1, <1>4, RowEnds DEF Release
    <2> QED BY <2>1 DEF Ledger!Next
<1>5. ASSUME NEW r \in Requests, RecordOutcome(r) PROVE Ledger!Next
    <2>1. Ledger!End(r)
        BY <1>1, <1>5, RowEnds DEF RecordOutcome, RowMatchesStep
    <2> QED BY <2>1 DEF Ledger!Next
<1>6. ASSUME NEW r \in Requests, Publish(r) PROVE Ledger!Next \/ UNCHANGED <<now, Entries>>
    <2>1. CASE row' = [row EXCEPT ![r] = "ended"]
        <3>1. Ledger!End(r)
            BY <1>1, <1>6, <2>1, RowEnds DEF Publish, RowMatchesStep
        <3> QED BY <3>1 DEF Ledger!Next
    <2>2. CASE UNCHANGED row
        BY <1>2, <1>6, <2>2, EntriesStay DEF Publish
    <2> QED BY <1>6, <2>1, <2>2 DEF Publish
<1>7. ASSUME Tick PROVE Ledger!Next
    <2>1. Entries' = Entries
        BY <1>2, <1>7, EntriesStay DEF Tick
    <2> QED BY <1>7, <2>1 DEF Tick, Ledger!Next, Ledger!Tick
<1>8. ASSUME NEW r \in Requests,
             Begin(r) \/ Lock(r) \/ ReadLimits(r) \/ CheckCapacity(r) \/ CheckBudget(r)
                \/ Deny(r) \/ Audit(r) \/ Fail(r)
      PROVE  UNCHANGED <<now, Entries>>
    <2>1. UNCHANGED <<now, row>>
        BY <1>8 DEF Begin, Lock, ReadLimits, CheckCapacity, CheckBudget, Deny, Audit, Fail
    <2> QED BY <1>2, <2>1, EntriesStay
<1>9. ASSUME SetOverrides \/ UNCHANGED vars PROVE UNCHANGED <<now, Entries>>
    <2>1. UNCHANGED <<now, row>>
        BY <1>9 DEF SetOverrides, vars
    <2> QED BY <1>2, <2>1, EntriesStay
<1> QED BY <1>3, <1>4, <1>5, <1>6, <1>7, <1>8, <1>9 DEF Next, Serve

\* Admission is linearizable (quotas/service.py): requests that lock, count,
\* fail, wait and insert one after the other implement QuotaLedger, whose
\* admissions are single steps.
THEOREM ImplementsLedgerHolds == Spec => ImplementsLedger
<1> DEFINE Stamped == \A r \in Requests : began[r] <= now
<1>1. Init => Ledger!Init /\ Stamped
    <2> SUFFICES ASSUME Init PROVE Ledger!Init /\ Stamped
        OBVIOUS
    <2>1. {x \in Requests : row[x] # "none"} = {}
        BY DEF Init
    <2>2. Entries = [r \in {} |-> 0]
        BY <2>1 DEF Entries
    <2> QED BY <2>2 DEF Init, Ledger!Init
<1>2. AdmissionInv /\ Stamped /\ [Next]_vars => Stamped'
    BY StampStep DEF AdmissionInv
<1>3. AdmissionInv /\ Stamped /\ [Next]_vars => [Ledger!Next]_(Ledger!vars)
    BY LedgerStep
<1> HIDE DEF Stamped
<1> QED BY <1>1, <1>2, <1>3, AdmissionInvHolds, PTL DEF Spec, ImplementsLedger, Ledger!Spec

=============================================================================
