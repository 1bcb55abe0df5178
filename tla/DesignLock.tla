----------------------------- MODULE DesignLock -----------------------------
(***************************************************************************)
(* The name of a solution and the permanent lock on its design: the one    *)
(* row of sys_solution_meta, the references to the name inside layouts and *)
(* scripts, and the copy of the row in the control store:                  *)
(*   src/server/internal/schema/developer_utilities.go   the row           *)
(*   src/server/internal/api/auth.go                     the middleware    *)
(*   src/server/internal/api/solution_handler.go         the handlers      *)
(*   src/server/internal/api/server_admin_handler.go     RestoreBackup     *)
(*   src/server/internal/control/store.go                the copy          *)
(*                                                                         *)
(* A handler is a process, one SQL statement a step: no transaction holds  *)
(* its statements together.  A name stands for all its spellings that      *)
(* EqualFold; the references are one reference, rewritten in one step.     *)
(***************************************************************************)
EXTENDS Naturals

CONSTANTS Names,      \* solution names
          Db,         \* the name the database starts with, its own
          Requests,   \* bound: requests the server handles at once
          Ops,        \* what requests may ask for, a subset of Operations
          ReadsFail,  \* a read of the row may fail
          Interrupted \* statements may fail, clients may go away

\* "design" stands for every route under RequireDesignUnlocked that only
\* changes the design, "sync" for the handlers that refresh the copy and
\* nothing else, "list" for collectProjects.
Operations ==
  {"design", "rename", "import", "migrate", "options", "lock", "sync", "list",
   "restore"}

ASSUME DesignLockAssumption ==
  /\ Db \in Names
  /\ Ops \subseteq Operations
  /\ ReadsFail \in BOOLEAN /\ Interrupted \in BOOLEAN

VARIABLES meta,    \* the row of sys_solution_meta
          ref,     \* the solution name layouts and scripts refer to, and
                   \* whether a backup brought them
          mirror,  \* the row of the control store's projects
          req,     \* req[r]: the request r handles, with its local variables
          late     \* observation: requests begun since the design is locked

vars == <<meta, ref, mirror, req, late>>

Row == [row : BOOLEAN, name : Names, locked : BOOLEAN]
NoRow == [row |-> FALSE, name |-> Db, locked |-> FALSE]
Ref == [name : Names, restored : BOOLEAN]
Answer == [name : Names, locked : BOOLEAN]
Pcs == {"idle", "guard", "apply", "peek", "read", "update", "insert", "refs",
        "lookup", "sync", "mirror", "restore"}
Request == [pc : Pcs, op : Operations, name : Names, got : Answer]
Idle == [pc |-> "idle", op |-> "list", name |-> Db,
         got |-> [name |-> Db, locked |-> FALSE]]

TypeOK ==
  /\ meta \in Row
  /\ ref \in Ref
  /\ mirror \in Row
  /\ req \in [Requests -> Request]
  /\ late \subseteq Requests

Init ==
  /\ meta = NoRow
  /\ ref = [name |-> Db, restored |-> FALSE]
  /\ mirror = NoRow
  /\ req = [r \in Requests |-> Idle]
  /\ late = {}

At(r, pc) == req[r].pc = pc
Busy(r) == ~At(r, "idle")
Goto(r, pc) == req' = [req EXCEPT ![r].pc = pc]
Done(r) == req' = [req EXCEPT ![r] = Idle]

\* What a read of the row reports: its content, the defaults when there is no
\* row, and the same defaults, unlocked, when the database does not answer.
DefaultsUnnamed(fallback) == [name |-> "", locked |-> FALSE]  \* a fault
Defaults(fallback) == [name |-> fallback, locked |-> FALSE]
Answers(fallback) ==
  {IF meta.row THEN [name |-> meta.name, locked |-> meta.locked]
   ELSE Defaults(fallback)}
    \cup (IF ReadsFail THEN {Defaults(fallback)} ELSE {})

----------------------------------------------------------------------------
\* The course of a request.

GuardedButImport == {"design", "rename", "migrate"}  \* a fault: a route unguarded
Guarded == {"design", "rename", "import", "migrate"}

Renaming == {"rename", "import", "migrate", "options"}
SyncingButLock == Renaming  \* a fault
Syncing == Renaming \cup {"lock"}

AfterGuard(op) == IF op = "rename" THEN "peek" ELSE "apply"

First(op) ==
  CASE op \in Guarded -> "guard"
    [] op \in {"design", "rename", "import", "migrate"} \ Guarded -> AfterGuard(op)
    [] op = "options" -> "peek"
    [] op = "lock" -> "read"
    [] op = "sync" -> "sync"
    [] op = "list" -> "lookup"
    [] op = "restore" -> "restore"

\* How a handler ends when the row has been dealt with.
Finish(r) == IF req[r].op \in Syncing THEN Goto(r, "sync") ELSE Done(r)

\* An error of RenameSolution ends the rename itself; the other handlers ignore
\* it and go on.
Fails(r) == IF req[r].op \in {"rename", "lock"} THEN Done(r) ELSE Finish(r)

Begin(r, op, name) ==
  /\ At(r, "idle")
  /\ op \notin Renaming => name = Db
  /\ req' = [req EXCEPT ![r] = [Idle EXCEPT !.pc = First(op), !.op = op,
                                            !.name = name]]
  /\ late' = IF meta.locked THEN late \cup {r} ELSE late \ {r}
  /\ UNCHANGED <<meta, ref, mirror>>

\* RequireDesignUnlocked, and MigrateApply's own check.
Guard(r) ==
  /\ At(r, "guard")
  /\ \E a \in Answers(Db) :
       IF a.locked THEN Done(r) ELSE Goto(r, AfterGuard(req[r].op))
  /\ UNCHANGED <<meta, ref, mirror, late>>

\* The design changes.
Apply(r) ==
  /\ At(r, "apply")
  /\ CASE req[r].op = "import" -> Goto(r, "peek")
       [] req[r].op = "migrate" -> Goto(r, "read")
       [] OTHER -> Done(r)
  /\ UNCHANGED <<meta, ref, mirror, late>>

\* RestoreBackup replaces the design by a snapshot's, which refers to the name
\* the solution had when it was taken; no guard and no copy.
Restore(r) ==
  /\ At(r, "restore")
  /\ \E n \in Names : ref' = [name |-> n, restored |-> TRUE]
  /\ Done(r)
  /\ UNCHANGED <<meta, mirror, late>>

\* The handler reads the present name before it calls RenameSolution; all but
\* the rename itself skip the call on a locked design.
Peek(r) ==
  /\ At(r, "peek")
  /\ \E a \in Answers(Db) :
       req' = [req EXCEPT ![r].got = a,
                 ![r].pc = IF a.locked /\ req[r].op # "rename" THEN "sync"
                           ELSE "read"]
  /\ UNCHANGED <<meta, ref, mirror, late>>

----------------------------------------------------------------------------
\* LockDesign and RenameSolution.

ReadMeta(r) ==
  /\ At(r, "read")
  /\ \E a \in Answers(req[r].got.name) :
       IF a.locked /\ req[r].op # "lock" THEN Fails(r)
       ELSE req' = [req EXCEPT ![r].got = a, ![r].pc = "update"]
  /\ UNCHANGED <<meta, ref, mirror, late>>

\* The row both leave behind: each writes back, with what it changes, what it
\* read of the rest.
WrittenToggling(r) ==  \* a fault: a second lock lifts the first
  LET q == req[r] IN
  [row |-> TRUE, name |-> IF q.op = "lock" THEN q.got.name ELSE q.name,
   locked |-> IF q.op = "lock" THEN ~q.got.locked ELSE q.got.locked]
Written(r) ==
  LET q == req[r] IN
  IF q.op = "lock" THEN [row |-> TRUE, name |-> q.got.name, locked |-> TRUE]
  ELSE [row |-> TRUE, name |-> q.name, locked |-> q.got.locked]

AfterWrite(r) == IF req[r].op = "lock" THEN Finish(r) ELSE Goto(r, "refs")

Update(r) ==
  /\ At(r, "update")
  /\ IF meta.row
     THEN /\ meta' = Written(r)
          /\ late' = IF Written(r).locked THEN late ELSE {}
          /\ AfterWrite(r)
     ELSE /\ Goto(r, "insert")
          /\ UNCHANGED <<meta, late>>
  /\ UNCHANGED <<ref, mirror>>

\* No row was updated; another request may have inserted it since.
Insert(r) ==
  /\ At(r, "insert")
  /\ IF meta.row THEN Fails(r) /\ UNCHANGED meta
     ELSE meta' = Written(r) /\ AfterWrite(r)
  /\ UNCHANGED <<ref, mirror, late>>

OldNameByNow(r) == meta.name  \* a fault: the old name is read after the write
OldName(r) == req[r].got.name

RewriteRefs(r) ==
  /\ At(r, "refs")
  /\ ref' = IF ref.name = OldName(r) THEN [ref EXCEPT !.name = req[r].name]
            ELSE ref
  /\ Finish(r)
  /\ UNCHANGED <<meta, mirror, late>>

----------------------------------------------------------------------------
\* The copy: collectProjects looks for it first, every other handler reads the
\* row and replaces it.

LookUp(r) ==
  /\ At(r, "lookup")
  /\ IF mirror.row THEN Done(r) ELSE Goto(r, "sync")
  /\ UNCHANGED <<meta, ref, mirror, late>>

ReadForMirror(r) ==
  /\ At(r, "sync")
  /\ \E a \in Answers(Db) : req' = [req EXCEPT ![r].got = a, ![r].pc = "mirror"]
  /\ UNCHANGED <<meta, ref, mirror, late>>

UpsertProject(r) ==
  /\ At(r, "mirror")
  /\ mirror' = [row |-> TRUE, name |-> req[r].got.name,
                locked |-> req[r].got.locked]
  /\ Done(r)
  /\ UNCHANGED <<meta, ref, late>>

\* The statement that comes next fails.  The error of a copy is ignored.
StatementFails(r) ==
  /\ Interrupted
  /\ \/ req[r].pc \in {"read", "update", "insert", "refs"} /\ Fails(r)
     \/ At(r, "mirror") /\ Done(r)
  /\ UNCHANGED <<meta, ref, mirror, late>>

\* The context of the request ends, and every statement that would follow fails.
HangUp(r) ==
  /\ Interrupted
  /\ Busy(r)
  /\ Done(r)
  /\ UNCHANGED <<meta, ref, mirror, late>>

----------------------------------------------------------------------------
Handle(r) ==
  \/ \E op \in Ops, name \in Names : Begin(r, op, name)
  \/ Guard(r) \/ Apply(r) \/ Restore(r) \/ Peek(r)
  \/ ReadMeta(r) \/ Update(r) \/ Insert(r) \/ RewriteRefs(r)
  \/ LookUp(r) \/ ReadForMirror(r) \/ UpsertProject(r)

Trouble(r) == StatementFails(r) \/ HangUp(r)

Next == \E r \in Requests : Handle(r) \/ Trouble(r)

Spec == Init /\ [][Next]_vars

----------------------------------------------------------------------------
\* "Once locked, the server refuses every schema, layout, script, value list,
\* and menu set mutation" (developer_utilities.go:90): a request that began
\* when the lock was already set, and was not lifted since, changes neither
\* the design nor the row, except to lock it again.  The one exception is the
\* restore of a backup, which asks for no lock (server_admin_handler.go:1451).
LateRequestsAreRefused ==
  [][\A r \in late :
       /\ ~Apply(r)
       /\ Update(r) \/ Insert(r) => req[r].op = "lock"]_vars

\* "Permanently and irreversibly sets design_locked = true"
\* (docs/specs/developer_utilities.md:24): no write of the row unlocks it.
LockIsForever == [][meta.locked => meta'.locked]_vars

\* RenameSolution "rewrites any layout or script step references that named the
\* previous solution name" (developer_utilities.go:112): when no request is
\* under way, a design no backup was restored over refers to its solution by
\* its present name.
RefsFollowName ==
  (\A r \in Requests : ~Busy(r)) /\ ~ref.restored => ref.name = meta.name

\* The row is "mirrored in the API's SQLite control store"
\* (docs/api/API_REFERENCE.md:1638): when no request is under way, a copy that
\* is there says of the lock and the name what the row says.
MirrorFollowsMeta ==
  (\A r \in Requests : ~Busy(r)) /\ mirror.row
    => mirror.name = meta.name /\ mirror.locked = meta.locked
=============================================================================
