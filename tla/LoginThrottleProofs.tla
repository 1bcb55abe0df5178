------------------------ MODULE LoginThrottleProofs ------------------------
(***************************************************************************)
(* What holds of LoginThrottle for every set of keys, every limit, window, *)
(* lockout and number of parallel attempts.                                *)
(***************************************************************************)
EXTENDS LoginThrottle, TLAPS

USE ThrottleAssumption

\* The smaller of two numbers, with which counts and ages saturate.
LEMMA SmallerNat ==
  ASSUME NEW a \in Nat, NEW b \in Nat
  PROVE  Smaller(a, b) \in Nat /\ Smaller(a, b) <= a /\ Smaller(a, b) <= b
BY DEF Smaller

\* A record stays a record when a failure is added to it, and the failure
\* makes the lockout exactly when the count reaches Max.
LEMMA FailedRecord ==
  ASSUME NEW r \in Record, Max > 0,
         (r.lock # Never) <=> (r.count >= Max)
  PROVE  /\ Failed(r) \in Record
         /\ (Failed(r).lock # Never) <=> (Failed(r).count >= Max)
<1> DEFINE base == IF Stale(r) THEN NoRecord ELSE r
           count == Smaller(base.count + 1, CountCap)
<1>1. base \in Record /\ ((base.lock # Never) <=> (base.count >= Max))
  BY DEF Stale, NoRecord, Record, Never, CountCap
<1>2. count \in 0 .. CountCap /\ (base.count >= Max => count >= Max)
  BY <1>1 DEF Record, Smaller, CountCap
<1>3. Failed(r) = [base EXCEPT !.count = count,
                               !.lock = IF count >= Max THEN Lockout ELSE @]
  BY DEF Failed
<1> HIDE DEF base, count
<1>4. Failed(r) = [count |-> count, age |-> base.age,
                   lock |-> IF count >= Max THEN Lockout ELSE base.lock]
  BY <1>1, <1>3 DEF Record
<1>5. base.age \in 0 .. Window /\ base.lock \in Never .. Lockout /\ Max \in Nat
  BY <1>1 DEF Record
<1>6. QED
  BY <1>1, <1>2, <1>4, <1>5 DEF Record, Never, CountCap

\* Time makes no record a lock and takes no failure away.
LEMMA OlderRecord ==
  ASSUME NEW r \in Record
  PROVE  /\ Older(r) \in Record
         /\ Older(r).count = r.count
         /\ (Older(r).lock # Never) <=> (r.lock # Never)
<1>1. CASE r.count = 0
  BY <1>1 DEF Older
<1>2. CASE r.count # 0
  <2> DEFINE lock == IF r.lock > 0 THEN r.lock - 1 ELSE r.lock
  <2>1. Older(r) = [count |-> r.count, age |-> Smaller(r.age + 1, Window),
                    lock |-> lock]
    BY <1>2 DEF Older, Record
  <2>2. r.count \in 0 .. CountCap /\ r.age \in 0 .. Window /\ r.lock \in Never .. Lockout
    BY DEF Record
  <2>3. Smaller(r.age + 1, Window) \in 0 .. Window
    BY <2>2 DEF Smaller
  <2>4. lock \in Never .. Lockout /\ (lock # Never <=> r.lock # Never)
    BY <2>2 DEF Never
  <2> QED BY <2>1, <2>2, <2>3, <2>4 DEF Record
<1> QED BY <1>1, <1>2

\* Every reachable state is a state of the declared types (the records that
\* Allow, Fail and Succeed of throttle.go store), and a key is locked out on
\* the strength of Max counted failures and no fewer: together an inductive
\* invariant.
IInv == TypeOK /\ LockNeedsMaxFailures

\* The throttle starts empty, with the invariant.
LEMMA InitIInv == Init => IInv
BY DEF Init, IInv, TypeOK, LockNeedsMaxFailures, Record, NoRecord, Never,
       CountCap, RecentCap

\* Every attempt, outcome and tick keeps the invariant.
LEMMA NextIInv == IInv /\ [Next]_vars => IInv'
<1> SUFFICES ASSUME IInv, [Next]_vars PROVE IInv'
  OBVIOUS
<1> USE DEF IInv, TypeOK, LockNeedsMaxFailures
<1>0. NoRecord \in Record /\ NoRecord.lock = Never /\ NoRecord.count = 0
  BY DEF NoRecord, Record, Never, CountCap
<1>1. ASSUME NEW k \in Keys, Allow(k) PROVE IInv'
  BY <1>1, <1>0 DEF Allow, Stale
<1>2. ASSUME NEW k \in Keys, Fail(k) PROVE IInv'
  <2>1. recent' \in [Keys -> [0 .. Span -> 0 .. RecentCap]]
    <3>1. \A n \in 0 .. RecentCap : Smaller(n + 1, RecentCap) \in 0 .. RecentCap
      BY DEF Smaller, RecentCap
    <3>2. [a \in 0 .. Span |-> Smaller(recent[k][a] + 1, RecentCap)]
            \in [0 .. Span -> 0 .. RecentCap]
      BY <3>1
    <3> QED BY <1>2, <3>2 DEF Fail
  <2>2. verifying' \in [Keys -> 0 .. Parallel] /\ quiet' \in [Keys -> 0 .. Window]
    BY <1>2 DEF Fail
  <2>3. CASE Max = 0
    BY <1>2, <2>1, <2>2, <2>3 DEF Fail
  <2>4. CASE Max > 0
    <3>1. record' = [record EXCEPT ![k] = Failed(record[k])]
      BY <1>2, <2>4 DEF Fail
    <3>2. /\ Failed(record[k]) \in Record
          /\ (Failed(record[k]).lock # Never) <=> (Failed(record[k]).count >= Max)
      BY <2>4, FailedRecord
    <3> QED BY <3>1, <3>2, <2>1, <2>2, <2>4
  <2> QED BY <2>3, <2>4
<1>3. ASSUME NEW k \in Keys, Succeed(k) PROVE IInv'
  BY <1>3, <1>0 DEF Succeed, RecentCap
<1>4. ASSUME NEW k \in Keys, MissingFactor(k) PROVE IInv'
  BY <1>4 DEF MissingFactor
<1>5. CASE Tick
  <2>1. record' \in [Keys -> Record]
    BY <1>5, OlderRecord DEF Tick
  <2>2. \A k \in Keys : /\ record'[k].count = record[k].count
                        /\ (record'[k].lock # Never) <=> (record[k].lock # Never)
    BY <1>5, OlderRecord DEF Tick
  <2>3. recent' \in [Keys -> [0 .. Span -> 0 .. RecentCap]]
    BY <1>5 DEF Tick, Span, RecentCap
  <2>4. quiet' \in [Keys -> 0 .. Window]
    BY <1>5 DEF Tick, Smaller
  <2> QED BY <1>5, <2>1, <2>2, <2>3, <2>4 DEF Tick
<1>6. CASE UNCHANGED vars
  BY <1>6 DEF vars
<1> QED BY <1>1, <1>2, <1>3, <1>4, <1>5, <1>6 DEF Next

\* Type correctness of the throttle (throttle.go:17-30).
THEOREM Typing == Spec => []TypeOK
<1>1. IInv => TypeOK
  BY DEF IInv
<1> QED BY InitIInv, NextIInv, <1>1, PTL DEF Spec

\* No key is ever locked out before Max failures, and none that counted Max
\* escapes the lockout (Fail, throttle.go:70-88).
THEOREM LockIsEarned == Spec => []LockNeedsMaxFailures
<1>1. IInv => LockNeedsMaxFailures
  BY DEF IInv
<1> QED BY InitIInv, NextIInv, <1>1, PTL DEF Spec

----------------------------------------------------------------------------
\* The budget of guesses.  What is recent is counted by age; a count that has
\* led to no lockout is that of the present record, and at most Max - 2 failures
\* of the one before (its first had to be a window old); those of a record that
\* once locked are older than its last lockout; and while a key is locked only
\* the attempts already past Allow are still to come.
Cumulative(k) == \A a, b \in 0 .. Span : a <= b => recent[k][a] <= recent[k][b]

Counted(k) ==
  /\ record[k].count = 0 => record[k].age = 0
  /\ record[k].lock = Never =>
       \A a \in 0 .. Span - 1 :
         /\ recent[k][a] <= record[k].count + (Max - 2)
         /\ a < record[k].age => recent[k][a] <= record[k].count - 1

Silent(k) ==
  record[k].lock # Never =>
    \A a \in 0 .. Span - 1 : a < Lockout - record[k].lock => recent[k][a] = 0

LastShots(k) ==
  record[k].lock > 0 =>
    \A a \in 0 .. Span - 1 :
      recent[k][a] + verifying[k] <= (Max - 2) + Max + (Parallel - 1)

Spent(k) == Cumulative(k) /\ Counted(k) /\ Silent(k) /\ LastShots(k)
BudgetInv == IInv /\ (Max > 1 => \A k \in Keys : Spent(k))

\* The numbers that are kept for a key.
Numbers(k) ==
  /\ record[k].count \in Nat /\ record[k].age \in Nat /\ record[k].age <= Window
  /\ record[k].lock \in Int /\ -1 <= record[k].lock /\ record[k].lock <= Lockout
  /\ verifying[k] \in Nat /\ verifying[k] <= Parallel
  /\ \A a \in 0 .. Span : recent[k][a] \in Nat
  /\ Span \in Nat /\ Span <= Window /\ Span <= Lockout

LEMMA KeyTypes ==
  ASSUME IInv, NEW k \in Keys
  PROVE  record[k] \in Record /\ Numbers(k)
<1>1. record[k] \in Record /\ recent[k] \in [0 .. Span -> 0 .. RecentCap]
      /\ verifying[k] \in 0 .. Parallel
  BY DEF IInv, TypeOK
<1>2. /\ record[k].count \in 0 .. CountCap /\ record[k].age \in 0 .. Window
      /\ record[k].lock \in Never .. Lockout
  BY <1>1 DEF Record
<1>3. Span \in Nat /\ Span <= Window /\ Span <= Lockout
  BY DEF Span
<1> QED BY <1>1, <1>2, <1>3 DEF Never, Numbers, CountCap, RecentCap

\* A key nobody has touched keeps its budget.
LEMMA SameSpent ==
  ASSUME NEW k \in Keys, Spent(k),
         record'[k] = record[k], recent'[k] = recent[k], verifying'[k] = verifying[k]
  PROVE  Spent(k)'
BY DEF Spent, Cumulative, Counted, Silent, LastShots

\* An attempt let through does not spend anything: a lockout is over by then, and
\* of a stale record Max - 2 failures at most are recent (Allow).
LEMMA AllowSpent ==
  ASSUME IInv, Max > 1, NEW k \in Keys, Spent(k), Allow(k)
  PROVE  Spent(k)'
<1>0. Numbers(k) /\ record[k] \in Record
  BY KeyTypes
<1>1. /\ recent' = recent /\ record'[k] = IF Stale(record[k]) THEN NoRecord ELSE record[k]
      /\ ~LockedOut(k)
  BY DEF Allow, IInv, TypeOK
<1>2. CASE Stale(record[k])
  <2>1. record[k].lock = Never /\ record[k].age >= Window /\ record[k].count < Max
    BY <1>0, <1>2 DEF Stale, IInv, LockNeedsMaxFailures, CountCap, Numbers
  <2>2. \A a \in 0 .. Span - 1 : recent[k][a] <= Max - 2
    BY <1>0, <2>1 DEF Spent, Counted, CountCap, Numbers
  <2>3. record'[k] = NoRecord
    BY <1>1, <1>2
  <2> QED BY <1>1, <2>2, <2>3 DEF Spent, Cumulative, Counted, Silent, LastShots, NoRecord, Never
<1>3. CASE ~Stale(record[k])
  <2>1. record'[k] = record[k] /\ ~(record'[k].lock > 0)
    BY <1>1, <1>3 DEF LockedOut
  <2> QED BY <1>1, <2>1 DEF Spent, Cumulative, Counted, Silent, LastShots
<1> QED BY <1>2, <1>3

\* A failure is spent by the record it is counted in, or is one of those that
\* were past Allow when the key was locked (Fail).
LEMMA FailSpent ==
  ASSUME IInv, Max > 1, NEW k \in Keys, Spent(k), Fail(k)
  PROVE  Spent(k)'
<1>0. Numbers(k) /\ record[k] \in Record
  BY KeyTypes
<1> DEFINE r == record[k]
           base == IF Stale(r) THEN NoRecord ELSE r
           count == Smaller(base.count + 1, CountCap)
<1>1. /\ record'[k] = Failed(r)
      /\ recent'[k] = [a \in 0 .. Span |-> Smaller(recent[k][a] + 1, RecentCap)]
      /\ verifying[k] > 0 /\ verifying'[k] = verifying[k] - 1
  BY DEF Fail, IInv, TypeOK
<1>2. base \in Record /\ base.count \in 0 .. CountCap /\ base.age \in 0 .. Window
  BY <1>0 DEF NoRecord, Record, CountCap, Never, Numbers
<1>3. Failed(r) = [count |-> count, age |-> base.age,
                   lock |-> IF count >= Max THEN Lockout ELSE base.lock]
  <2>1. Failed(r) = [base EXCEPT !.count = count,
                                 !.lock = IF count >= Max THEN Lockout ELSE @]
    BY DEF Failed
  <2> HIDE DEF base, count
  <2> QED BY <1>2, <2>1 DEF Record
<1>4. /\ \A a \in 0 .. Span : recent'[k][a] \in Nat /\ recent'[k][a] <= recent[k][a] + 1
      /\ \A a, b \in 0 .. Span :
           recent[k][a] <= recent[k][b] => recent'[k][a] <= recent'[k][b]
  <2>1. \A a \in 0 .. Span : recent'[k][a] = Smaller(recent[k][a] + 1, RecentCap)
    BY <1>1
  <2>2. RecentCap \in Nat /\ \A a \in 0 .. Span : recent[k][a] \in Nat
    BY <1>0 DEF Numbers, RecentCap
  <2> QED BY <2>1, <2>2 DEF Smaller
<1>5. Cumulative(k)'
  BY <1>4 DEF Cumulative, Spent
<1>6. r.count \in Nat /\ r.lock \in Int /\ r.age \in Nat /\ ((r.lock # Never) <=> (r.count >= Max))
  BY <1>0 DEF IInv, LockNeedsMaxFailures, CountCap, Numbers
<1>9. count \in Nat
  BY <1>2 DEF Smaller, CountCap
<1> HIDE DEF count
<1>7. CASE count < Max
  <2>1. base.lock = Never /\ count = base.count + 1 /\ base.count \in Nat
    <3>1. count = base.count + 1
      BY <1>2, <1>7 DEF count, Smaller, CountCap
    <3>2. CASE Stale(r)
      BY <3>1, <3>2 DEF NoRecord, Never
    <3>3. CASE ~Stale(r)
      BY <1>6, <1>7, <3>1, <3>3
    <3> QED BY <1>2, <3>1, <3>2, <3>3
  <2>2. \A a \in 0 .. Span - 1 :
          /\ recent[k][a] <= base.count + (Max - 2)
          /\ a < base.age => recent[k][a] <= base.count - 1
    <3>1. CASE Stale(r)
      <4>1. r.lock = Never /\ r.age >= Window /\ r.count < Max
        BY <1>6, <3>1 DEF Stale
      <4> QED BY <1>0, <3>1, <4>1, <1>6 DEF Spent, Counted, NoRecord, Numbers
    <3>2. CASE ~Stale(r)
      <4>1. r.lock = Never /\ base = r
        BY <2>1, <3>2
      <4> HIDE DEF base
      <4> QED BY <4>1 DEF Spent, Counted
    <3> QED BY <3>1, <3>2
  <2>3. record'[k].lock = Never /\ record'[k].count = base.count + 1 /\ record'[k].age = base.age
    BY <1>1, <1>3, <1>7, <2>1, <1>2 DEF CountCap
  <2> HIDE DEF base, r
  <2>4. ASSUME NEW a \in 0 .. Span - 1
        PROVE  /\ recent'[k][a] <= (base.count + 1) + (Max - 2)
               /\ a < base.age => recent'[k][a] <= base.count
    <3>1. a \in 0 .. Span /\ recent[k][a] \in Nat /\ recent'[k][a] \in Nat
      BY <1>0, <1>4 DEF Numbers
    <3> QED BY <2>1, <2>2, <3>1, <1>2, <1>4
  <2>5. Counted(k)'
    BY <2>1, <2>3, <2>4 DEF Counted
  <2> QED BY <1>5, <2>3, <2>5 DEF Spent, Silent, LastShots, Never
<1>8. CASE count >= Max
  <2>1. record'[k].lock = Lockout /\ Lockout # Never
    BY <1>1, <1>3, <1>8 DEF Never
  <2>2. \A a \in 0 .. Span - 1 :
           recent[k][a] + verifying[k] <= (Max - 2) + Max + (Parallel - 1)
    <3>1. CASE r.lock > 0
      BY <3>1 DEF Spent, LastShots
    <3>2. CASE r.lock = Never
      <4>1. ~Stale(r) /\ r.count = Max - 1
        BY <1>6, <1>8, <3>2 DEF count, Smaller, CountCap, NoRecord
      <4> QED BY <1>0, <3>2, <4>1 DEF Spent, Counted, Numbers
    <3>3. CASE r.lock = 0
      BY <1>0, <3>3 DEF Spent, Silent, Never, Numbers
    <3> QED BY <1>0, <1>6, <3>1, <3>2, <3>3 DEF Never, Numbers
  <2>3. Silent(k)'
    BY <1>0, <2>1 DEF Silent, Numbers
  <2>4. LastShots(k)'
    <3>1. ASSUME NEW a \in 0 .. Span - 1
          PROVE  recent'[k][a] + verifying'[k] <= (Max - 2) + Max + (Parallel - 1)
      <4>1. a \in 0 .. Span /\ recent[k][a] \in Nat /\ recent'[k][a] \in Nat
        BY <1>0, <1>4 DEF Numbers
      <4>2. recent'[k][a] <= recent[k][a] + 1
        BY <1>4, <4>1
      <4>3. recent[k][a] + verifying[k] <= (Max - 2) + Max + (Parallel - 1)
        BY <2>2
      <4>4. verifying'[k] = verifying[k] - 1 /\ verifying[k] \in Nat
        BY <1>0, <1>1 DEF Numbers
      <4> QED BY <4>1, <4>2, <4>3, <4>4
    <3> QED BY <3>1 DEF LastShots
  <2>5. record'[k].count > 0
    BY <1>1, <1>3, <1>8, <1>9
  <2> QED BY <1>5, <2>1, <2>3, <2>4, <2>5 DEF Spent, Counted
<1> QED BY <1>7, <1>8, <1>9

\* Time only takes failures out of what is recent; when a lockout is over, they
\* all are.
LEMMA TickSpent ==
  ASSUME IInv, Max > 1, NEW k \in Keys, Spent(k), Tick
  PROVE  Spent(k)'
<1>0. Numbers(k) /\ record[k] \in Record
  BY KeyTypes
<1> DEFINE r == record[k]
<1>1. /\ record'[k] = Older(r) /\ verifying'[k] = verifying[k]
      /\ recent'[k] = [a \in 0 .. Span |-> IF a = 0 THEN 0 ELSE recent[k][a - 1]]
  BY DEF Tick
<1>2. \A a \in 0 .. Span : recent'[k][a] = IF a = 0 THEN 0 ELSE recent[k][a - 1]
  BY <1>1
<1>3. \A a \in 0 .. Span : recent'[k][a] <= recent[k][a] /\ recent'[k][a] \in Nat
  BY <1>0, <1>2 DEF Spent, Cumulative, Numbers
<1>4. Cumulative(k)'
  BY <1>0, <1>2 DEF Spent, Cumulative, Numbers
<1>5. /\ Older(r).count = r.count
      /\ (Older(r).lock # Never) <=> (r.lock # Never)
      /\ r.lock > 0 => Older(r).lock = r.lock - 1
      /\ ~(r.lock > 0) => Older(r).lock = r.lock
      /\ Older(r).age = IF r.count = 0 THEN r.age ELSE Smaller(r.age + 1, Window)
  <2>1. CASE r.count = 0
    <3>1. r.lock = Never
      BY <2>1 DEF IInv, LockNeedsMaxFailures
    <3> QED BY <2>1, <3>1 DEF Older, Never
  <2>2. CASE r.count # 0
    <3>1. r \in [count : 0 .. CountCap, age : 0 .. Window, lock : Never .. Lockout]
      BY <1>0 DEF Record, Numbers
    <3> QED BY <1>0, <2>2, <3>1, OlderRecord DEF Older, Numbers
  <2> QED BY <2>1, <2>2
<1>6. Counted(k)'
  <2>1. SUFFICES ASSUME r.lock = Never, NEW a \in 0 .. Span - 1
                 PROVE  /\ recent'[k][a] <= r.count + (Max - 2)
                        /\ a < Older(r).age => recent'[k][a] <= r.count - 1
    BY <1>1, <1>5 DEF Spent, Counted
  <2>2. recent'[k][a] <= r.count + (Max - 2)
    BY <1>0, <1>3, <2>1 DEF Spent, Counted, CountCap, Numbers
  <2>3. ASSUME a < Older(r).age PROVE recent'[k][a] <= r.count - 1
    <3>1. CASE a = 0
      <4>1. r.count >= 1
        BY <1>0, <2>3, <3>1, <1>5 DEF Spent, Counted, Numbers
      <4> QED BY <1>0, <1>2, <3>1, <4>1 DEF Numbers
    <3>2. CASE a # 0
      <4>1. a - 1 \in 0 .. Span - 1 /\ a - 1 < r.age
        BY <1>0, <2>3, <3>2, <1>5 DEF Smaller, Numbers
      <4>2. recent[k][a - 1] <= r.count - 1
        BY <2>1, <2>3, <4>1 DEF Spent, Counted
      <4> QED BY <1>0, <1>2, <3>2, <4>2 DEF Numbers
    <3> QED BY <3>1, <3>2
  <2> QED BY <2>2, <2>3
<1>7. Silent(k)'
  <2>1. SUFFICES ASSUME r.lock # Never, NEW a \in 0 .. Span - 1, a < Lockout - Older(r).lock
                 PROVE  recent'[k][a] = 0
    BY <1>1, <1>5 DEF Silent
  <2>2. CASE a = 0
    BY <1>0, <1>2, <2>2 DEF Numbers
  <2>3. CASE a # 0
    <3>1. a - 1 \in 0 .. Span - 1 /\ a - 1 < Lockout - r.lock
      BY <1>0, <2>1, <2>3, <1>5 DEF Numbers
    <3> QED BY <1>0, <1>2, <2>1, <2>3, <3>1 DEF Spent, Silent, Numbers
  <2> QED BY <2>2, <2>3
<1>8. LastShots(k)'
  <2>1. record'[k].lock > 0 => r.lock > 0
    BY <1>0, <1>1, <1>5 DEF Numbers
  <2> QED BY <1>0, <1>1, <1>3, <2>1 DEF Spent, LastShots, Numbers
<1> QED BY <1>4, <1>6, <1>7, <1>8 DEF Spent

\* Every attempt, outcome and tick leaves each key within its budget.
LEMMA NextBudget == BudgetInv /\ [Next]_vars => BudgetInv'
<1> SUFFICES ASSUME BudgetInv, [Next]_vars, Max > 1, NEW k \in Keys PROVE Spent(k)'
  BY NextIInv DEF BudgetInv
<1>1. IInv /\ Spent(k) /\ Numbers(k)
  BY KeyTypes DEF BudgetInv
<1>2. ASSUME NEW j \in Keys, Allow(j) PROVE Spent(k)'
  <2>1. j # k => record'[k] = record[k] /\ recent'[k] = recent[k] /\ verifying'[k] = verifying[k]
    BY <1>1, <1>2 DEF Allow, IInv, TypeOK
  <2> QED BY <1>1, <1>2, <2>1, AllowSpent, SameSpent
<1>3. ASSUME NEW j \in Keys, Fail(j) PROVE Spent(k)'
  <2>1. j # k => record'[k] = record[k] /\ recent'[k] = recent[k] /\ verifying'[k] = verifying[k]
    BY <1>1, <1>3 DEF Fail, IInv, TypeOK
  <2> QED BY <1>1, <1>3, <2>1, FailSpent, SameSpent
<1>4. ASSUME NEW j \in Keys, Succeed(j) PROVE Spent(k)'
  <2>1. j # k => record'[k] = record[k] /\ recent'[k] = recent[k] /\ verifying'[k] = verifying[k]
    BY <1>1, <1>4 DEF Succeed, IInv, TypeOK
  <2>2. ASSUME j = k PROVE Spent(k)'
    <3>1. record'[k] = NoRecord /\ \A a \in 0 .. Span : recent'[k][a] = 0
      BY <1>1, <1>4, <2>2 DEF Succeed, IInv, TypeOK
    <3>2. Span \in Nat
      BY <1>1 DEF Numbers
    <3> QED BY <3>1, <3>2 DEF Spent, Cumulative, Counted, Silent, LastShots, NoRecord, Never
  <2> QED BY <1>1, <2>1, <2>2, SameSpent
<1>5. ASSUME NEW j \in Keys, MissingFactor(j) PROVE Spent(k)'
  <2>1. record' = record /\ recent' = recent /\ verifying'[k] \in Nat /\ verifying'[k] <= verifying[k]
    <3>1. verifying' = [verifying EXCEPT ![j] = @ - 1] /\ verifying[j] > 0
      BY <1>5 DEF MissingFactor
    <3>2. verifying \in [Keys -> 0 .. Parallel] /\ verifying[k] \in Nat /\ verifying[j] \in Int
      BY <1>1 DEF IInv, TypeOK, Numbers
    <3>3. verifying'[k] = IF k = j THEN verifying[k] - 1 ELSE verifying[k]
      BY <3>1, <3>2
    <3>4. record' = record /\ recent' = recent
      BY <1>5 DEF MissingFactor
    <3> QED BY <3>1, <3>2, <3>3, <3>4
  <2>2. Cumulative(k)' /\ Counted(k)' /\ Silent(k)'
    BY <1>1, <2>1 DEF Spent, Cumulative, Counted, Silent
  <2>3. LastShots(k)'
    BY <1>1, <2>1 DEF Spent, LastShots, Numbers
  <2> QED BY <2>2, <2>3 DEF Spent
<1>6. CASE Tick
  BY <1>1, <1>6, TickSpent
<1>7. CASE UNCHANGED vars
  BY <1>1, <1>7, SameSpent DEF vars
<1> QED BY <1>2, <1>3, <1>4, <1>5, <1>6, <1>7 DEF Next

\* However attempts interleave, a key takes, since its last success, at most twice Max
\* wrong guesses, less three, and as many more as may be under way, in any stretch of
\* time shorter than both the window and the lockout (Allow, Fail and Succeed,
\* throttle.go:47-98).
THEOREM Budget == Spec => []GuessBudget
<1>1. Init => BudgetInv
  <2>1. SUFFICES ASSUME Init, Max > 1, NEW k \in Keys PROVE Spent(k)
    BY InitIInv DEF BudgetInv
  <2>2. record[k] = NoRecord /\ Numbers(k) /\ \A a \in 0 .. Span : recent[k][a] = 0
    BY <2>1, InitIInv, KeyTypes DEF Init
  <2> QED BY <2>1, <2>2 DEF Spent, Cumulative, Counted, Silent, LastShots, NoRecord, Never, Numbers
<1>2. BudgetInv => GuessBudget
  <2> SUFFICES ASSUME BudgetInv, Max > 1, Span > 0, NEW k \in Keys
               PROVE  recent[k][Span - 1] <= (Max - 2) + Max + (Parallel - 1)
    BY DEF GuessBudget
  <2>1. IInv /\ Spent(k) /\ Numbers(k) /\ Span - 1 \in 0 .. Span - 1
    BY KeyTypes DEF BudgetInv, Numbers
  <2>2. CASE record[k].lock > 0
    BY <2>1, <2>2 DEF Spent, LastShots, Numbers
  <2>3. CASE record[k].lock = Never
    <3>1. record[k].count < Max
      BY <2>1, <2>3 DEF IInv, LockNeedsMaxFailures, CountCap, Numbers
    <3> QED BY <2>1, <2>3, <3>1 DEF Spent, Counted, CountCap, Numbers
  <2>4. CASE record[k].lock = 0
    BY <2>1, <2>4 DEF Spent, Silent, Never, Numbers
  <2> QED BY <2>1, <2>2, <2>3, <2>4 DEF Never, Numbers
<1> QED BY <1>1, <1>2, NextBudget, PTL DEF Spec
=============================================================================
