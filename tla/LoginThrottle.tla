--------------------------- MODULE LoginThrottle ---------------------------
(***************************************************************************)
(* The brake on password guessing of src/server/internal/auth/throttle.go, *)
(* driven by the attempts the sign-in handler lets through it.             *)
(*                                                                         *)
(* Time is relative: a record keeps how long ago its first failure was and *)
(* how long its lockout still lasts, so one unit of time is one Tick and   *)
(* no clock has to be bounded.  The attempt itself (the bcrypt comparison) *)
(* happens between Allow and Fail or Succeed, outside the mutex, so any    *)
(* number of attempts on one key, up to Parallel, are under way at once.   *)
(***************************************************************************)
EXTENDS Integers

CONSTANTS Keys,      \* database + username + client address
          Max,       \* failures before a lockout; 0 disables the throttle
          Window,    \* age at which an unlocked record is forgotten
          Lockout,   \* length of a lockout
          Parallel   \* bound: attempts under way at once on one key

ASSUME ThrottleAssumption ==
  /\ Max \in Nat /\ Window \in Nat /\ Lockout \in Nat
  /\ Parallel \in Nat \ {0}

VARIABLES record,    \* record[k]: the attempt record of k, NoRecord if none
          verifying, \* verifying[k]: attempts between Allow and its outcome
          recent,    \* observation: recent[k][a], the failures of k of age at most a
                     \* since its last success
          quiet      \* observation: time since the last failure of k

vars == <<record, verifying, recent, quiet>>

Never == -1          \* lockedUntil is the zero time
CountCap == Max + 1  \* count saturates: the code only compares it with max
RecentCap == 2 * Max + Parallel  \* the observation saturates above the budget
Span == IF Window < Lockout THEN Window ELSE Lockout
Smaller(a, b) == IF a < b THEN a ELSE b

NoRecord == [count |-> 0, age |-> 0, lock |-> Never]
Record == [count : 0 .. CountCap, age : 0 .. Window, lock : Never .. Lockout]

TypeOK ==
  /\ record \in [Keys -> Record]
  /\ verifying \in [Keys -> 0 .. Parallel]
  /\ recent \in [Keys -> [0 .. Span -> 0 .. RecentCap]]
  /\ quiet \in [Keys -> 0 .. Window]

Init ==
  /\ record = [k \in Keys |-> NoRecord]
  /\ verifying = [k \in Keys |-> 0]
  /\ recent = [k \in Keys |-> [a \in 0 .. Span |-> 0]]
  /\ quiet = [k \in Keys |-> Window]

\* Faults a change to this code could introduce; the specification uses none.
AllowWhileLocked(k) ==
  /\ verifying[k] < Parallel
  /\ verifying' = [verifying EXCEPT ![k] = @ + 1]
  /\ UNCHANGED <<record, recent, quiet>>
StaleAtOnce(r) == r.lock = Never
FailedExtending(r) ==
  LET count == Smaller(r.count + 1, CountCap)
  IN  [r EXCEPT !.count = count,
                !.lock = IF count >= Max THEN @ + Lockout ELSE @]
FailedLate(r) ==
  [r EXCEPT !.count = Smaller(@ + 1, CountCap),
            !.lock = IF r.count >= Max THEN Lockout ELSE @]

LockedOut(k) == record[k].lock > 0

\* No lockout was ever set and the window since the first failure is over.
Stale(r) == r.lock = Never /\ r.age >= Window

----------------------------------------------------------------------------
\* The attempt is let through; a stale record goes.  A refused attempt
\* changes nothing, so it is no step.
Allow(k) ==
  /\ verifying[k] < Parallel
  /\ ~LockedOut(k)
  /\ verifying' = [verifying EXCEPT ![k] = @ + 1]
  /\ record' = [record EXCEPT ![k] = IF Stale(@) THEN NoRecord ELSE @]
  /\ UNCHANGED <<recent, quiet>>

\* The record a failure leaves behind.
Failed(r) ==
  LET base == IF Stale(r) THEN NoRecord ELSE r
      count == Smaller(base.count + 1, CountCap)
  IN  [base EXCEPT !.count = count,
                   !.lock = IF count >= Max THEN Lockout ELSE @]

\* The password or the code was wrong.
Fail(k) ==
  /\ verifying[k] > 0
  /\ verifying' = [verifying EXCEPT ![k] = @ - 1]
  /\ record' = IF Max = 0 THEN record
               ELSE [record EXCEPT ![k] = Failed(@)]
  /\ recent' = [recent EXCEPT ![k] =
                  [a \in 0 .. Span |-> Smaller(@[a] + 1, RecentCap)]]
  /\ quiet' = [quiet EXCEPT ![k] = 0]

\* The sign-in went through.
Succeed(k) ==
  /\ verifying[k] > 0
  /\ verifying' = [verifying EXCEPT ![k] = @ - 1]
  /\ record' = [record EXCEPT ![k] = NoRecord]
  /\ recent' = [recent EXCEPT ![k] = [a \in 0 .. Span |-> 0]]
  /\ quiet' = [quiet EXCEPT ![k] = Window]

\* The password was right but the second factor is still to come: neither
\* Fail nor Succeed is called.
MissingFactor(k) ==
  /\ verifying[k] > 0
  /\ verifying' = [verifying EXCEPT ![k] = @ - 1]
  /\ UNCHANGED <<record, recent, quiet>>

Older(r) ==
  IF r.count = 0 THEN r
  ELSE [r EXCEPT !.age = Smaller(@ + 1, Window),
                 !.lock = IF @ > 0 THEN @ - 1 ELSE @]

Tick ==
  /\ record' = [k \in Keys |-> Older(record[k])]
  /\ recent' = [k \in Keys |->
                 [a \in 0 .. Span |-> IF a = 0 THEN 0 ELSE recent[k][a - 1]]]
  /\ quiet' = [k \in Keys |-> Smaller(quiet[k] + 1, Window)]
  /\ UNCHANGED verifying

Next ==
  \/ \E k \in Keys : Allow(k) \/ Fail(k) \/ Succeed(k) \/ MissingFactor(k)
  \/ Tick

Spec == Init /\ [][Next]_vars

\* Time passes and a verification that was let through comes to an end.
FairSpec ==
  /\ Spec
  /\ WF_vars(Tick)
  /\ \A k \in Keys : WF_vars(Fail(k) \/ Succeed(k) \/ MissingFactor(k))
----------------------------------------------------------------------------
\* A key is locked out only on the strength of Max failures it counted, and a
\* key that counted that many has been locked out (Fail's count >= max).
LockNeedsMaxFailures ==
  Max > 0 => \A k \in Keys : (record[k].lock # Never) <=> (record[k].count >= Max)

\* Between two successes of a key, no stretch of time shorter than both the window
\* and the lockout sees it take more than Max - 2 wrong guesses before the moment
\* its record goes stale, the Max that lock it out right after, and the Parallel - 1
\* already past Allow by then (Allow and Fail, throttle.go:47-88), however the
\* attempts interleave: twice the configured burst.  A success deletes the record
\* and any lockout with it (Succeed, throttle.go:91-98), and nothing bounds the
\* guesses of a key on which sign-ins keep succeeding.
GuessBudget ==
  Max > 1 /\ Span > 0 =>
    \A k \in Keys : recent[k][Span - 1] <= (Max - 2) + Max + (Parallel - 1)

\* A failure that follows a whole window without one starts the count afresh,
\* as NewLoginThrottle promises ("a gap of window with no failure forgets the
\* earlier ones", throttle.go:33): it cannot lock the key by itself.
GapForgets ==
  [][\A k \in Keys :
       (Max > 1 /\ Fail(k) /\ quiet[k] >= Window /\ ~LockedOut(k))
         => record'[k].count = 1]_vars

\* A lockout ends, however many attempts keep knocking: only the attempts let
\* through before it can still extend it.
LockoutEnds == \A k \in Keys : LockedOut(k) ~> ~LockedOut(k)
=============================================================================
