---------------------------- MODULE PoolRegistry ----------------------------
(***************************************************************************)
(* What GetDriver of src/server/internal/dbal/multi_db.go promises, without *)
(* its mutex, its pings and its map: each database is served by at most one *)
(* driver at a time, and a caller that asks for a database gets the driver  *)
(* that serves it at the moment of the answer, or an error.  DriverPool     *)
(* implements it.                                                           *)
(***************************************************************************)
CONSTANTS Names, Drivers, Callers, None

VARIABLES serving, \* serving[n]: the driver that serves database n, or None
          asked    \* asked[c]: where caller c is with its question

vars == <<serving, asked>>

NotAsked == [st |-> "no", name |-> None, driver |-> None]
Waiting(n) == [st |-> "waiting", name |-> n, driver |-> None]
Served(n, d) == [st |-> "served", name |-> n, driver |-> d]

Init ==
  /\ serving = [n \in Names |-> None]
  /\ asked = [c \in Callers |-> NotAsked]

\* A driver is opened for a database that has none.
Open(n, d) ==
  /\ serving[n] = None
  /\ \A m \in Names : serving[m] # d
  /\ serving' = [serving EXCEPT ![n] = d]
  /\ UNCHANGED asked

\* Drivers are given up, those of all databases when the process ends.
Close(N) ==
  /\ serving' = [n \in Names |-> IF n \in N THEN None ELSE serving[n]]
  /\ UNCHANGED asked

Ask(c, n) ==
  /\ asked[c] = NotAsked
  /\ asked' = [asked EXCEPT ![c] = Waiting(n)]
  /\ UNCHANGED serving

Answer(c) ==
  LET n == asked[c].name IN
  /\ asked[c].st = "waiting"
  /\ serving[n] # None
  /\ asked' = [asked EXCEPT ![c] = Served(n, serving[n])]
  /\ UNCHANGED serving

\* The error may take the driver that was tried with it.
Fail(c) ==
  /\ asked[c].st = "waiting"
  /\ asked' = [asked EXCEPT ![c] = NotAsked]
  /\ serving' \in {serving, [serving EXCEPT ![asked[c].name] = None]}

\* The request is done with its driver, which may have been closed meanwhile.
Finish(c) ==
  /\ asked[c].st = "served"
  /\ asked' = [asked EXCEPT ![c] = NotAsked]
  /\ UNCHANGED serving

Next ==
  \/ \E n \in Names, d \in Drivers : Open(n, d)
  \/ \E N \in SUBSET Names : Close(N)
  \/ \E c \in Callers :
       (\E n \in Names : Ask(c, n)) \/ Answer(c) \/ Fail(c) \/ Finish(c)

Safety == Init /\ [][Next]_vars

\* Whoever asks is answered, by a driver or an error.
Spec ==
  /\ Safety
  /\ \A c \in Callers : WF_vars(Answer(c) \/ Fail(c))
=============================================================================
