-------------------------- MODULE DatabaseLifecycle --------------------------
(***************************************************************************)
(* The life of one database name: the physical database, the accounts in   *)
(* it, the pool of connections to it, the sessions opened on it and its    *)
(* row in the control store:                                               *)
(*   src/server/internal/api/solution_handler.go   create, clone, migrate, *)
(*                                                 delete, list            *)
(*   src/server/internal/api/security_handler.go   Login                   *)
(*   src/server/internal/api/auth.go               the request guard       *)
(*   src/server/internal/dbal/multi_db.go          CREATE, DROP, GetDriver *)
(*   src/server/internal/auth/session.go           the session store       *)
(*   src/server/internal/control/store.go          projects                *)
(*                                                                         *)
(* The name outlives the databases that bear it: each CREATE begins a new  *)
(* incarnation, numbered here; the code knows the name only.  A handler is *)
(* a process, a statement a step.  An account (a uuid in sys_users with    *)
(* its password hash) bears the number of the first incarnation it was     *)
(* meant for, and whoever it belongs to alone knows the password.  A clone *)
(* made without credentials is given a copy of an account that exists: one *)
(* that is new to the name, or one that an earlier database of the name    *)
(* had, for it was copied from the same place or back from a clone.        *)
(***************************************************************************)
EXTENDS Naturals

CONSTANTS Requests,    \* bound: requests the server handles at once
          Tokens,      \* bound: sign-ins over the whole behaviour
          NoToken,     \* a request without one
          MaxInc,      \* bound: databases ever created under the name
          Interrupted  \* clients hang up, the server restarts

ASSUME LifecycleAssumption ==
  /\ NoToken \notin Tokens
  /\ MaxInc \in Nat
  /\ Interrupted \in BOOLEAN

Incs == 1 .. MaxInc
\* "clone" stands for CloneSolution with credentials for the owner and for
\* MigrateApply into a new database, "copy" for CloneSolution without them, "use"
\* for every request that works on the session's database.
Makers == {"create", "clone", "copy"}
Ops == Makers \cup {"delete", "login", "use", "list"}

VARIABLES db,      \* the database: its incarnation, 0 if none, and its accounts;
                   \* observation copies: those that CopyOwnerAccount inserted
          last,    \* the newest incarnation
          born,    \* the accounts that a database of the name has had
          pool,    \* the registered pool: the incarnation it was opened on, 0 if
                   \* none; observation mid: while a drop was under way
          proj,    \* whether the control store has a row for the name
          session, \* session[t]: the account, and as an observation the
                   \* incarnation its password was checked on
          req,     \* req[r]: the request r handles, with its local variables
          stray,   \* observation: effects on an incarnation that was not meant
          excused  \* observation: incarnations whose maker was interrupted, or
                   \* whose account was not inserted or is disabled, unnoticed

vars == <<db, last, born, pool, proj, session, req, stray, excused>>

\* mid: through a pool opened while a drop was under way; copied: on a database
\* that was given a copy of the very account that acts.
Effect == [what : {"drop", "own", "work"}, mid : BOOLEAN, copied : BOOLEAN]
Session == [st : {"fresh", "live", "gone"}, acct : 0 .. MaxInc, inc : 0 .. MaxInc]
Pcs == {"idle", "create", "lookup", "driver", "ensure", "count", "import", "auth",
        "stamp", "work", "session", "close", "drop", "revoke", "forget", "list",
        "peek", "upsert"}
Request == [pc : Pcs, op : Ops, tok : Tokens \cup {NoToken},
            acct : 0 .. MaxInc, inc : 0 .. MaxInc,
            handle : {"none", "open", "closed"}, ended : BOOLEAN]

NoPool == [inc |-> 0, mid |-> FALSE]
NoDb == [inc |-> 0, owners |-> {}, copies |-> {}]
Fresh == [st |-> "fresh", acct |-> 0, inc |-> 0]
Idle == [pc |-> "idle", op |-> "list", tok |-> NoToken, acct |-> 0, inc |-> 0,
         handle |-> "none", ended |-> FALSE]

TypeOK ==
  /\ db \in [inc : 0 .. MaxInc, owners : SUBSET Incs, copies : SUBSET Incs]
  /\ last \in 0 .. MaxInc
  /\ born \subseteq Incs
  /\ pool \in [inc : 0 .. MaxInc, mid : BOOLEAN]
  /\ proj \in BOOLEAN
  /\ session \in [Tokens -> Session]
  /\ req \in [Requests -> Request]
  /\ \A r \in Requests : req[r].handle = "open" => pool # NoPool
  /\ stray \subseteq Effect
  /\ excused \subseteq Incs

Init ==
  /\ db = NoDb /\ last = 0 /\ born = {} /\ pool = NoPool /\ proj = FALSE
  /\ session = [t \in Tokens |-> Fresh]
  /\ req = [r \in Requests |-> Idle]
  /\ stray = {} /\ excused = {}

At(r, pc) == req[r].pc = pc
Is(r, op) == req[r].op = op
Makes(r) == req[r].op \in Makers
Exists == db.inc # 0
Made(R) == {req[r].inc : r \in {q \in R : Makes(q)}} \ {0}
Goto(r, pc) == req' = [req EXCEPT ![r].pc = pc]
Done(r) == req' = [req EXCEPT ![r] = Idle]

\* An error: makers drop what they made, collectProjects goes on, the others
\* answer with a problem.
Fail(r, rq) ==
  req' = IF Makes(r) THEN [rq EXCEPT ![r].pc = "close"]
         ELSE IF Is(r, "list") THEN [rq EXCEPT ![r].pc = "upsert"]
         ELSE [rq EXCEPT ![r] = Idle]

ShutNothing(rq) == rq  \* a fault: the pool is forgotten, not closed

\* Closing the pool closes it under everyone who holds it.
Shut(rq) == [q \in Requests |-> IF rq[q].handle = "open"
                                THEN [rq[q] EXCEPT !.handle = "closed"] ELSE rq[q]]

\* A statement on the handler's driver is answered, by the database that bears
\* the name at that moment: a pool dials again when its connections are gone.
Answered(r) == req[r].handle = "open" /\ Exists /\ ~req[r].ended

Note(what, r) ==
  stray' = IF req[r].inc = db.inc THEN stray
           ELSE stray \cup {[what |-> what, mid |-> pool.mid,
                             copied |-> req[r].acct \in db.copies]}

----------------------------------------------------------------------------
\* A request arrives.  Creating needs a session on some other database, or none at
\* all (AllowPublicDatabaseCreation), cloning an owner's session on some other one.
BeginMaking(r, op) ==
  /\ At(r, "idle")
  /\ op \in Makers
  /\ req' = [req EXCEPT ![r] = [Idle EXCEPT !.pc = "create", !.op = op]]
  /\ UNCHANGED <<db, last, born, pool, proj, session, stray, excused>>

\* Signing in, or deleting with the password of account k.
BeginWithPassword(r, op, k) ==
  /\ At(r, "idle")
  /\ op \in {"login", "delete"}
  /\ req' = [req EXCEPT ![r] = [Idle EXCEPT !.pc = "lookup", !.op = op, !.acct = k]]
  /\ UNCHANGED <<db, last, born, pool, proj, session, stray, excused>>

\* A request with token t: attach finds the session and asks for the driver.
BeginWithToken(r, op, t) ==
  /\ At(r, "idle")
  /\ op \in {"use", "delete"}
  /\ session[t].st = "live"
  /\ req' = [req EXCEPT ![r] = [Idle EXCEPT !.pc = "driver", !.op = op, !.tok = t,
                                  !.acct = session[t].acct, !.inc = session[t].inc]]
  /\ UNCHANGED <<db, last, born, pool, proj, session, stray, excused>>

BeginList(r) ==
  /\ At(r, "idle")
  /\ req' = [req EXCEPT ![r] = [Idle EXCEPT !.pc = "list"]]
  /\ UNCHANGED <<db, last, born, pool, proj, session, stray, excused>>

----------------------------------------------------------------------------
\* Creating.

TakenCleaning(r) == Goto(r, "close")  \* a fault: clean up after every error

\* CREATE DATABASE, or 409: the check before it only chooses the answer.  The
\* account of the owner-to-be is a new one, or for a copying clone any there is.
Taken(r) == Done(r)
CreateDb(r) ==
  /\ At(r, "create")
  /\ IF Exists \/ req[r].ended
     THEN Taken(r) /\ UNCHANGED <<db, last>>
     ELSE /\ last < MaxInc
          /\ last' = last + 1
          /\ db' = [NoDb EXCEPT !.inc = last']
          /\ \E k \in IF Is(r, "copy") THEN born \cup {last'} ELSE {last'} :
               req' = [req EXCEPT ![r].pc = "driver", ![r].acct = k, ![r].inc = last']
  /\ UNCHANGED <<born, pool, proj, session, stray, excused>>

\* EnsureSystemTablesWithCredentials inserts the owner's account; an error of that
\* insert is not reported.
InsertOwner(r) ==
  \/ /\ db' = [db EXCEPT !.owners = @ \cup {req[r].acct}]
     /\ born' = born \cup {req[r].acct}
     /\ Note("own", r)
     /\ UNCHANGED excused
  \/ /\ excused' = IF Is(r, "clone") THEN excused \cup {req[r].inc} ELSE excused
     /\ UNCHANGED <<db, born, stray>>

\* CopyOwnerAccount: id, password hash and role as they are in the source, and
\* disabled if the account has been disabled there since the guard looked.
CopyOwner(r) ==
  /\ req[r].acct \notin db.owners
  /\ \/ /\ db' = [db EXCEPT !.owners = @ \cup {req[r].acct},
                             !.copies = @ \cup {req[r].acct}]
        /\ born' = born \cup {req[r].acct}
        /\ Note("own", r)
        /\ UNCHANGED excused
     \/ /\ excused' = excused \cup {req[r].inc}
        /\ UNCHANGED <<db, born, stray>>

\* Any other error rolls back, in CopyOwnerAccount one of the insert too.
Ensure(r) ==
  /\ At(r, "ensure")
  /\ \/ /\ Answered(r)
        /\ IF Is(r, "copy") THEN CopyOwner(r) ELSE InsertOwner(r)
        /\ Goto(r, IF Is(r, "create") THEN "count" ELSE "import")
     \/ /\ Fail(r, req)
        /\ UNCHANGED <<db, born, stray, excused>>
  /\ UNCHANGED <<last, pool, proj, session>>

ProvisionedAnyway == TRUE  \* a fault: the count is not looked at

\* CreateDatabase alone makes sure that there is an account.
Provisioned == db.owners # {}
Count(r) ==
  /\ At(r, "count")
  /\ \/ Answered(r) /\ Provisioned /\ Goto(r, "upsert")
     \/ Fail(r, req)
  /\ UNCHANGED <<db, last, born, pool, proj, session, stray, excused>>

\* The design, and for MigrateApply the records, of the new database.
Import(r) ==
  /\ At(r, "import")
  /\ \/ Answered(r) /\ Goto(r, "upsert")
     \/ Fail(r, req)
  /\ UNCHANGED <<db, last, born, pool, proj, session, stray, excused>>

\* UpsertProject; its error is ignored.
Upsert(r) ==
  /\ At(r, "upsert")
  /\ proj' = (proj \/ ~req[r].ended)
  /\ Done(r)
  /\ UNCHANGED <<db, last, born, pool, session, stray, excused>>

----------------------------------------------------------------------------
\* Finding the database.

\* LookupDatabase; a deletion that the guard let through on an owner's session
\* of this database needs no password.
Lookup(r) ==
  /\ At(r, "lookup")
  /\ IF Exists /\ ~req[r].ended
     THEN Goto(r, IF req[r].tok = NoToken THEN "driver" ELSE "close")
     ELSE Done(r)
  /\ UNCHANGED <<db, last, born, pool, proj, session, stray, excused>>

\* ListDatabases, which collectProjects goes through ...
List(r) ==
  /\ At(r, "list")
  /\ IF Exists /\ ~req[r].ended THEN Goto(r, "peek") ELSE Done(r)
  /\ UNCHANGED <<db, last, born, pool, proj, session, stray, excused>>

\* ... reading the row of each, and writing one where there is none.
Peek(r) ==
  /\ At(r, "peek")
  /\ IF proj /\ ~req[r].ended THEN Done(r) ELSE Goto(r, "driver")
  /\ UNCHANGED <<db, last, born, pool, proj, session, stray, excused>>

Dropping == \E q \in Requests : At(q, "drop")

AfterDriver(r) ==
  CASE Makes(r) -> "ensure"
    [] Is(r, "list") -> "upsert"
    [] req[r].tok # NoToken -> "stamp"
    [] OTHER -> "auth"

\* DriverFor: the registered pool if it answers, else a new one, else an error;
\* a pool that does not answer is closed.  What collectProjects reads with the
\* driver is left out.
Driver(r) ==
  /\ At(r, "driver")
  /\ IF Exists /\ ~req[r].ended
     THEN /\ pool' = IF pool = NoPool THEN [inc |-> db.inc, mid |-> Dropping]
                     ELSE pool
          /\ req' = [req EXCEPT ![r].pc = AfterDriver(r), ![r].handle = "open"]
     ELSE /\ pool' = NoPool
          /\ Fail(r, Shut(req))
  /\ UNCHANGED <<db, last, born, proj, session, stray, excused>>

----------------------------------------------------------------------------
\* Passwords, sessions and the guard.

\* Authenticate: the account must be in the database that bears the name.
Auth(r) ==
  /\ At(r, "auth")
  /\ IF Answered(r) /\ req[r].acct \in db.owners
     THEN req' = [req EXCEPT ![r].inc = db.inc,
                             ![r].pc = IF Is(r, "login") THEN "session" ELSE "close"]
     ELSE Done(r)
  /\ UNCHANGED <<db, last, born, pool, proj, session, stray, excused>>

\* Store.Create, in memory: it does not ask whether the client is still there.
OpenSession(r, t) ==
  /\ At(r, "session")
  /\ session[t].st = "fresh"
  /\ session' = [session EXCEPT ![t] =
       [st |-> "live", acct |-> req[r].acct, inc |-> req[r].inc]]
  /\ Done(r)
  /\ UNCHANGED <<db, last, born, pool, proj, stray, excused>>

End(T) == session' = [t \in Tokens |-> IF t \in T /\ session[t].st = "live"
                                       THEN [Fresh EXCEPT !.st = "gone"]
                                       ELSE session[t]]

\* A fault: the account is looked up by its username, the same for every maker.
StampMatchesByName(r) == db.owners # {}

\* The guard looks the account up by its id ...
StampMatches(r) == req[r].acct \in db.owners

\* ... and revokes the session whose account is gone; a database that does not
\* answer, or has no catalog yet, leaves it.
Stamp(r) ==
  /\ At(r, "stamp")
  /\ IF Answered(r) /\ StampMatches(r)
     THEN Goto(r, IF Is(r, "use") THEN "work" ELSE "lookup") /\ UNCHANGED session
     ELSE /\ Done(r)
          /\ \/ Answered(r) /\ End({req[r].tok})
             \/ ~(Answered(r) /\ db.owners # {}) /\ UNCHANGED session
  /\ UNCHANGED <<db, last, born, pool, proj, stray, excused>>

\* What the handler does with the driver the guard gave it.
Work(r) ==
  /\ At(r, "work")
  /\ IF Answered(r) THEN Note("work", r) ELSE UNCHANGED stray
  /\ Done(r)
  /\ UNCHANGED <<db, last, born, pool, proj, session, excused>>

----------------------------------------------------------------------------
\* Dropping: the second half of a deletion, and the clean-up of a maker.

\* A fault: the pool stays open.
CloseNothing(r) ==
  /\ At(r, "close")
  /\ Goto(r, "drop")
  /\ UNCHANGED <<db, last, born, pool, proj, session, stray, excused>>

\* DropDatabase closes the pool ...
Close(r) ==
  /\ At(r, "close")
  /\ pool' = NoPool
  /\ req' = [Shut(req) EXCEPT ![r].pc = "drop"]
  /\ UNCHANGED <<db, last, born, proj, session, stray, excused>>

\* ... and drops what bears the name (IF EXISTS), in the context of the request.
\* PostgreSQL refuses while a pool opened meanwhile is connected.
Drop(r) ==
  /\ At(r, "drop")
  /\ \/ /\ ~req[r].ended
        /\ IF Exists THEN Note("drop", r) ELSE UNCHANGED stray
        /\ db' = NoDb
        /\ IF Is(r, "delete") THEN Goto(r, "revoke") ELSE Done(r)
        /\ UNCHANGED excused
     \/ /\ req[r].ended \/ pool # NoPool
        /\ excused' = excused \cup Made({r})
        /\ Done(r)
        /\ UNCHANGED <<db, stray>>
  /\ UNCHANGED <<last, born, pool, proj, session>>

Revoke(r) ==
  /\ At(r, "revoke")
  /\ End(Tokens)
  /\ Goto(r, "forget")
  /\ UNCHANGED <<db, last, born, pool, proj, stray, excused>>

RowKept(r) == proj  \* a fault: the row stays

\* DeleteProject; its error is ignored.
RowLeft(r) == proj /\ req[r].ended
Forget(r) ==
  /\ At(r, "forget")
  /\ proj' = RowLeft(r)
  /\ Done(r)
  /\ UNCHANGED <<db, last, born, pool, session, stray, excused>>

----------------------------------------------------------------------------
\* The client goes away, or the 60 seconds of the request are over: its context
\* ends, the handler goes on.
HangUp(r) ==
  /\ Interrupted
  /\ ~At(r, "idle") /\ ~req[r].ended
  /\ req' = [req EXCEPT ![r].ended = TRUE]
  /\ excused' = excused \cup Made({r})
  /\ UNCHANGED <<db, last, born, pool, proj, session, stray>>

\* Requests, sessions and pools live in memory.
Restart ==
  /\ Interrupted
  /\ req' = [r \in Requests |-> Idle]
  /\ pool' = NoPool
  /\ End(Tokens)
  /\ excused' = excused \cup Made(Requests)
  /\ UNCHANGED <<db, last, born, proj, stray>>

Make(r) == \/ \E op \in Ops : BeginMaking(r, op)
           \/ CreateDb(r) \/ Ensure(r) \/ Count(r) \/ Import(r)
Enter(r) == \/ \E op \in Ops, k \in Incs : BeginWithPassword(r, op, k)
            \/ \E op \in Ops, t \in Tokens : BeginWithToken(r, op, t)
            \/ Auth(r) \/ Stamp(r) \/ Work(r)
            \/ \E t \in Tokens : OpenSession(r, t)
Delete(r) == Close(r) \/ Drop(r) \/ Revoke(r) \/ Forget(r)
Look(r) == List(r) \/ Peek(r) \/ Lookup(r) \/ Driver(r) \/ Upsert(r)

Next ==
  \/ \E r \in Requests : 
       Make(r) \/ Enter(r) \/ Delete(r) \/ Look(r) \/ BeginList(r) \/ HangUp(r)
  \/ Restart

Spec == Init /\ [][Next]_vars

----------------------------------------------------------------------------
\* The guard "rejects sessions of deleted [...] accounts, including one created
\* by a sign-in that raced a revocation" (auth.go:90-92): whoever it admits
\* proved the password of an account of the very database that bears the name,
\* however often that was dropped and created again since the sign-in; or the
\* account was copied into that database too, with the stamp it had.
AdmittedInTheirDatabase ==
  [][\A r \in Requests : At(r, "stamp") /\ req'[r].pc \in {"work", "lookup"}
       => req[r].inc = db.inc \/ req[r].acct \in db.copies]_vars

\* "a request can only ever reach the database it signed in to" (auth.go:113-115):
\* the ways to reach its successor are a pool opened between the two halves of
\* DropDatabase (multi_db.go:356-385), which outlives the database it was opened
\* on, and a successor that was given a copy of the session's account.
WorkStaysHome == \A e \in stray : e.what = "work" => e.mid \/ e.copied

Making(r) ==
  Makes(r) /\ req[r].inc = db.inc
  /\ req[r].pc \in {"driver", "ensure", "count", "close", "drop"}

\* "Do not leave behind a database nobody can sign in to" (solution_handler.go:269):
\* a database without an owner is still being made or cleaned up, unless its maker
\* was interrupted or could not drop it, or it is a clone: with credentials, the
\* insert of its owner failed unreported; with a copy, that was disabled meanwhile.
NobodyIsLockedOut ==
  Exists /\ db.owners = {} => db.inc \in excused \/ \E r \in Requests : Making(r)
=============================================================================
