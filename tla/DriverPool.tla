----------------------------- MODULE DriverPool -----------------------------
(***************************************************************************)
(* The connection pools of src/server/internal/dbal/multi_db.go: one       *)
(* driver per database, found or opened by GetDriver under a double check, *)
(* closed by whoever finds that it does not answer, by DropDatabase and at *)
(* the end of the process by Close.                                        *)
(*                                                                         *)
(* A caller is a request.  Every Ping is a step of its own, so that other  *)
(* callers move between it and the mutex; what happens under the mutex     *)
(* without a Ping is one step.  A ping fails when the driver is closed,    *)
(* the database is not there or the caller's context has ended, and it may *)
(* fail when the server stumbles.                                          *)
(***************************************************************************)
EXTENDS Naturals, FiniteSets

CONSTANTS Dbs,         \* solution databases
          Admin,       \* the administrative database
          Drivers,     \* bound: drivers open or in use at once
          Callers,     \* bound: requests at once
          Impatient,   \* callers whose context may end
          ServerFails, \* an open driver may fail to answer
          None

Names == Dbs \cup {Admin}
Ops == {"use", "create", "drop"}

ASSUME DriverPoolAssumption ==
  /\ Admin \notin Dbs
  /\ None \notin Drivers \cup Callers
  /\ Impatient \subseteq Callers
  /\ ServerFails \in BOOLEAN

VARIABLES drivers, \* drivers[n]: the driver of database n, None if there is none
          pool,    \* pool[d]: the pool of connections driver d holds
          exists,  \* the databases on the server
          mu,      \* the caller that holds the mutex for writing
          call,    \* call[c]: what caller c is doing
          up       \* the process takes requests

vars == <<drivers, pool, exists, mu, call, up>>

Pcs == {"idle", "evict", "peek", "ping", "lock", "recheck", "connect",
        "pingnew", "using"}
Pool == [open : BOOLEAN, db : Names]
Call == [pc : Pcs, op : Ops, name : Names, want : Names,
         drv : Drivers \cup {None}, over : BOOLEAN]
Idle == [pc |-> "idle", op |-> "use", name |-> Admin, want |-> Admin,
         drv |-> None, over |-> FALSE]

TypeOK ==
  /\ drivers \in [Names -> Drivers \cup {None}]
  /\ pool \in [Drivers -> Pool]
  /\ exists \subseteq Names
  /\ mu \in Callers \cup {None}
  /\ call \in [Callers -> Call]
  /\ up \in BOOLEAN

Init ==
  /\ drivers = [n \in Names |-> None]
  /\ pool = [d \in Drivers |-> [open |-> FALSE, db |-> Admin]]
  /\ exists = Names
  /\ mu = None
  /\ call = [c \in Callers |-> Idle]
  /\ up = TRUE

At(c, pc) == call[c].pc = pc
Want(c) == call[c].want
Goto(c, pc) == call' = [call EXCEPT ![c].pc = pc]
Return(c, d) == call' = [call EXCEPT ![c].pc = "using", ![c].drv = d]
End(c) == call' = [call EXCEPT ![c] = Idle]
Shut(d) == pool' = [pool EXCEPT ![d].open = FALSE]
DropKey(n) ==  \* a fault: the name leaves the map's domain
  drivers' = [m \in Names \ {n} |-> drivers[m]]
Drop(n) == drivers' = [drivers EXCEPT ![n] = None]

\* Whether a ping of d by c can succeed, and whether it can fail.
Reaches(c, d) == pool[d].open /\ pool[d].db \in exists /\ ~call[c].over
Misses(c, d) == ~Reaches(c, d) \/ ServerFails

----------------------------------------------------------------------------
\* The request asks for the driver of its database; creating and dropping a
\* database go through the administrative one.
Begin(c, op, n) ==
  /\ up /\ At(c, "idle")
  /\ op \in {"create", "drop"} => n \in Dbs
  /\ call' = [call EXCEPT ![c] =
       [Idle EXCEPT !.pc = IF op = "drop" THEN "evict" ELSE "peek", !.op = op,
                    !.name = n, !.want = IF op = "use" THEN n ELSE Admin]]
  /\ UNCHANGED <<drivers, pool, exists, mu, up>>

\* The read lock, the map, and out again.
Peek(c) ==
  /\ At(c, "peek") /\ mu = None
  /\ LET d == drivers[Want(c)] IN
     call' = [call EXCEPT ![c].pc = IF d = None THEN "lock" ELSE "ping",
                          ![c].drv = d]
  /\ UNCHANGED <<drivers, pool, exists, mu, up>>

PingSkipped(c) ==  \* a fault: the driver found under the read lock is returned
  /\ At(c, "ping")
  /\ Goto(c, "using")
  /\ UNCHANGED <<drivers, pool, exists, mu, up>>

\* The ping is outside the mutex.
Ping(c) ==
  /\ At(c, "ping")
  /\ \/ Reaches(c, call[c].drv) /\ Goto(c, "using")
     \/ Misses(c, call[c].drv) /\ Goto(c, "lock")
  /\ UNCHANGED <<drivers, pool, exists, mu, up>>

Lock(c) ==
  /\ At(c, "lock") /\ mu = None
  /\ mu' = c
  /\ Goto(c, "recheck")
  /\ UNCHANGED <<drivers, pool, exists, up>>

RecheckSkipped(c) ==  \* a fault: no second look at the map
  /\ At(c, "recheck")
  /\ Goto(c, "connect")
  /\ UNCHANGED <<drivers, pool, exists, mu, up>>

RecheckEvicting(c) ==  \* a fault: no second ping
  /\ At(c, "recheck")
  /\ LET d == drivers[Want(c)] IN
     IF d = None THEN UNCHANGED <<drivers, pool>> ELSE Shut(d) /\ Drop(Want(c))
  /\ Goto(c, "connect")
  /\ UNCHANGED <<exists, mu, up>>

\* The second look, the second ping, and the end of a driver that fails it.
Recheck(c) ==
  /\ At(c, "recheck")
  /\ LET d == drivers[Want(c)] IN
     \/ d = None /\ Goto(c, "connect") /\ UNCHANGED <<drivers, pool, mu>>
     \/ /\ d # None /\ Reaches(c, d)
        /\ Return(c, d) /\ mu' = None
        /\ UNCHANGED <<drivers, pool>>
     \/ /\ d # None /\ Misses(c, d)
        /\ Shut(d) /\ Drop(Want(c))
        /\ Goto(c, "connect") /\ UNCHANGED mu
  /\ UNCHANGED <<exists, up>>

\* sql.Open does not dial: a new driver is open whether the server is there or
\* not.  d is one nobody refers to any more.
Connect(c) ==
  /\ At(c, "connect")
  /\ \E d \in Drivers :
       /\ ~pool[d].open
       /\ \A b \in Callers \ {c} : call[b].drv # d
       /\ pool' = [pool EXCEPT ![d] = [open |-> TRUE, db |-> Want(c)]]
       /\ call' = [call EXCEPT ![c].pc = "pingnew", ![c].drv = d]
  /\ UNCHANGED <<drivers, exists, mu, up>>

PingNewKeepingLock(c) ==  \* a fault: the mutex is kept on an error
  LET d == call[c].drv IN
  /\ At(c, "pingnew")
  /\ \/ /\ Reaches(c, d)
        /\ drivers' = [drivers EXCEPT ![Want(c)] = d] /\ UNCHANGED pool
        /\ Goto(c, "using") /\ mu' = None
     \/ /\ Misses(c, d)
        /\ Shut(d) /\ UNCHANGED drivers
        /\ End(c) /\ UNCHANGED mu
  /\ UNCHANGED <<exists, up>>

\* The driver enters the map when it answers; otherwise GetDriver fails.
PingNew(c) ==
  LET d == call[c].drv IN
  /\ At(c, "pingnew")
  /\ mu' = None
  /\ \/ /\ Reaches(c, d)
        /\ drivers' = [drivers EXCEPT ![Want(c)] = d] /\ UNCHANGED pool
        /\ Goto(c, "using")
     \/ /\ Misses(c, d)
        /\ Shut(d) /\ UNCHANGED drivers
        /\ End(c)
  /\ UNCHANGED <<exists, up>>

----------------------------------------------------------------------------
\* DropDatabase closes the driver of the database before it asks for the
\* administrative one.
Evict(c) ==
  /\ At(c, "evict") /\ mu = None
  /\ LET d == drivers[call[c].name] IN
     IF d = None THEN UNCHANGED <<drivers, pool>>
     ELSE Shut(d) /\ Drop(call[c].name)
  /\ Goto(c, "peek")
  /\ UNCHANGED <<exists, mu, up>>

\* The statement of CreateDatabase or DropDatabase, if it succeeds.
Execute(c) ==
  /\ At(c, "using")
  /\ pool[call[c].drv].open /\ ~call[c].over
  /\ \/ call[c].op = "create" /\ exists' = exists \cup {call[c].name}
     \/ call[c].op = "drop" /\ exists' = exists \ {call[c].name}
  /\ End(c)
  /\ UNCHANGED <<drivers, pool, mu, up>>

\* The request is done with its driver, or its statement failed.
Release(c) ==
  /\ At(c, "using")
  /\ End(c)
  /\ UNCHANGED <<drivers, pool, exists, mu, up>>

\* The client goes away, or the request has taken its 60 seconds.
ContextEnds(c) ==
  /\ c \in Impatient
  /\ ~At(c, "idle") /\ ~call[c].over
  /\ call' = [call EXCEPT ![c].over = TRUE]
  /\ UNCHANGED <<drivers, pool, exists, mu, up>>

\* Close, after the HTTP server was shut down; requests that outlast the
\* shutdown's 15 seconds are still there.
Close ==
  /\ up /\ mu = None
  /\ up' = FALSE
  /\ pool' = [d \in Drivers |-> IF \E n \in Names : drivers[n] = d
                                THEN [pool[d] EXCEPT !.open = FALSE] ELSE pool[d]]
  /\ drivers' = [n \in Names |-> None]
  /\ UNCHANGED <<exists, mu, call>>

----------------------------------------------------------------------------
Get(c) == Peek(c) \/ Ping(c) \/ Lock(c) \/ Recheck(c) \/ Connect(c) \/ PingNew(c)

Next ==
  \/ \E c \in Callers :
       \/ \E op \in Ops, n \in Names : Begin(c, op, n)
       \/ Get(c)
       \/ Evict(c) \/ Execute(c) \/ Release(c)
       \/ ContextEnds(c)
  \/ Close

Spec == Init /\ [][Next]_vars

\* Pings end, and sync.RWMutex lets every waiter in sooner or later.
FairSpec == Spec /\ \A c \in Callers : SF_vars(Get(c) \/ Evict(c))

----------------------------------------------------------------------------
\* "Every solution database gets its own pool, so the limits are deliberately
\* small to keep the total bounded" (multi_db.go:19): however the callers of
\* GetDriver overlap, no two open drivers serve one database, and once the
\* mutex is free no driver is open that the map does not lead to.
OnePoolPerDatabase ==
  /\ \A d, e \in Drivers :
       pool[d].open /\ pool[e].open /\ pool[d].db = pool[e].db => d = e
  /\ mu = None => \A d \in Drivers : pool[d].open => drivers[pool[d].db] = d

\* b works with a driver that is open, to a database that is there.
Works(b) ==
  LET d == call[b].drv IN
  At(b, "using") /\ d # None /\ pool[d].open /\ pool[d].db \in exists

\* "callers keep the returned driver for the duration of their request"
\* (multi_db.go:212): no call of GetDriver closes the driver another request
\* works with.
HeldDriverStaysOpen ==
  [][\A b, c \in Callers :
       b # c /\ Works(b) /\ Get(c) => pool'[call[b].drv].open]_vars

\* The same of the calls whose own context has not ended: with a server that
\* answers, whatever such a caller finds of the drivers of others, closed,
\* replaced or only just opened, its second look under the mutex
\* (multi_db.go:171-178) spares every driver in use.
LiveCallersSpareDrivers ==
  [][\A b, c \in Callers :
       b # c /\ Works(b) /\ Get(c) /\ ~call[c].over
         => pool'[call[b].drv].open]_vars

\* A request that asks for a driver gets one or an error, whatever the other
\* callers, ended contexts and a stumbling server do to the mutex.
GetDriverReturns ==
  \A c \in Callers : (call[c].pc \notin {"idle", "using"})
                       ~> (call[c].pc \in {"idle", "using"})

----------------------------------------------------------------------------
\* What the detail amounts to for a caller: the open driver of each database,
\* and how far each caller is with GetDriver.
OneOf(D) == IF D = {} THEN None ELSE CHOOSE d \in D : TRUE
ServingIn(p) == [n \in Names |-> OneOf({d \in Drivers : p[d].open /\ p[d].db = n})]
Serving == ServingIn(pool)

AskedBy(q) ==
  IF q.pc = "idle" THEN [st |-> "no", name |-> None, driver |-> None]
  ELSE IF q.pc = "using" THEN [st |-> "served", name |-> q.want, driver |-> q.drv]
  ELSE [st |-> "waiting", name |-> q.want, driver |-> None]
Asked == [c \in Callers |-> AskedBy(call[c])]

Registry == INSTANCE PoolRegistry WITH serving <- Serving, asked <- Asked

\* Mutex, double check and pings add up to the registry: GetDriver answers with
\* the one driver that serves the database at that moment, never with one that
\* was closed or replaced between the look at the map and the answer, and it
\* answers (multi_db.go:152-202).
ImplementsRegistry == Registry!Spec
=============================================================================
