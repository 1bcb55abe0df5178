# File4Base: specification, model checking and proofs

TLA+ specifications of the parts of [File4Base](../src/README.md) whose correctness depends on the order in
which things happen: a Go server that many clients use at once, over PostgreSQL or MariaDB, and a Flutter
client. Every definition is translated from the source; `PROJECT.json` names for each the lines it stands
for. Paths below are relative to `src/`; `api/`, `auth/`, `schema/`, `dbal/`, `data/` and `realtime/` are
directories of `server/internal/`.

Contents: [the system](#1-the-system) · [the modules](#2-the-modules) · [the runs](#3-the-runs) · [the
proofs](#4-the-proofs) · [what the models show about the code](#5-what-the-models-show-about-the-code) · [what
is not modelled](#6-what-is-not-modelled) · [where it could go on](#7-where-it-could-go-on) · [running
it](#8-running-it)

## 1. The system

### How the parts work together

A request enters the chi router with a context that ends after 60 seconds or when the client goes away
(`server/cmd/server/main.go:238`). The **guard** (`api/auth.go`) looks the bearer token up in the **session
store** (memory, one mutex), takes the driver of the session's database from the **connection pools**
(memory, one RWMutex), and compares the account's present stamp, read with a statement, with the one the
session was opened with. Handlers then run statement after statement through the same driver. There is
hardly a transaction in the server: what one handler reads, another may change before the first one writes.
Results that must outlive a database's own tables go to the **control store** (SQLite), mostly as copies.
After a successful change a middleware publishes an event to the **realtime hub**, and every client of the
database that is connected by WebSocket reloads.

Shared state, and who guards it:

| State | Where | Guard |
|---|---|---|
| attempt records of the throttle | memory | mutex per call; the check of the password runs between two calls |
| sessions | memory | mutex per call; lost at a restart |
| accounts (`sys_users`) | solution database | a statement each |
| name and lock of the design (`sys_solution_meta`) | solution database | a statement each |
| the copy of it (`projects`) | control store | a statement each |
| map of drivers | memory | RWMutex; pings both outside and inside |
| subscribers of the hub | memory | RWMutex; a bounded queue for each |
| jobs, schedules, audit log, certificates | memory, files | the mutex of the server tools |

### Inventory

| Component | State | Operations | What is hard about it | What makes it correct |
|---|---|---|---|---|
| **Login throttle** `auth/throttle.go` | a record per key: count, first failure, end of lockout | Allow, Fail, Succeed, called around the check of the password | attempts in flight at once; ageing; a record nobody touches | only counted failures lock; a bound on wrong guesses between two successes; a lockout ends |
| **Accounts, sessions, guard** `auth/session.go`, `api/auth.go`, `api/security_handler.go`, `schema/security_service.go` | accounts with role, password, activity, super-owner flag; sessions with a stamp | sign in and out; create, update, delete accounts; grant super-owner; expire; revoke | sign-in during a revocation; a session kept over its own password change; count and write apart; restart | who is admitted knows the present password of an active account; an owner remains; only owners make owners |
| **Design lock and name** `schema/developer_utilities.go`, `api/solution_handler.go`, `api/auth.go` | the row, the references to the name in layouts and scripts, the copy | lock, rename, import, migrate, options, every change of the design, restore | read and write of one row in separate statements; errors taken for defaults | the lock is for ever; no change is begun under it; references and copy follow the name |
| **Connection pools** `dbal/multi_db.go` | map of drivers, open pools | GetDriver, CreateDatabase, DropDatabase, Close | double-checked lookup; pings with the caller's context; pools closed in use | one pool for a database; no driver closed in use; every call returns |
| **Database lifecycle** `api/solution_handler.go`, `dbal/multi_db.go` | the server's databases, catalogs, project rows, sessions | create, delete, clone, switch, migrate | several resources without a transaction; a clean-up that needs the context that ended | no half-made database; no project row of a database that is gone |
| **Control store** `server/internal/control/store.go` | projects, users, permissions (copies) | upsert, replace, delete | copies of state that changed since it was read | the copy agrees when nobody writes |
| **Multi-factor sign-in** `schema/mfa.go` | secret, enabled | setup, enable, disable, verify | setup in one tab, enabling in another | a code is asked for exactly after it was proved once |
| **Permissions** `schema/privileges.go`, `schema/security_service.go` | rules per table, layout, role | decide | defaults and exceptions | equal to a reference decision |
| **Realtime** `realtime/hub.go`, `api/realtime_handler.go`, client `realtime_service.dart` | subscribers, queues, connections, what each client shows | subscribe, publish, deliver, reconnect, reload | full queues; events between two connections; sessions revoked meanwhile | a connected client ends up with what the database holds |
| **Records** `data/service.go`, `data/calculations.go`, `data/related.go` | rows | insert, update, cascading delete, find, summarise | calculation fields computed from an earlier read; cascades in many statements | a stored result agrees with its fields; no orphans |
| **Import and export** `data/import.go`, `server/internal/dataio/` | rows, a transaction | update or add, export by pages | matching records; pages while rows change | each source record once; each row once |
| **Calculations** `server/internal/calc/` | none | parse, evaluate, order fields | fields that depend on each other | every field after those it needs, cycles refused |
| **Schema** `schema/service.go` | tables, columns, catalog | create, change, delete tables and columns | DDL, catalog and index in separate statements | catalog and tables agree |
| **Design objects** `schema/*_service.go` | layouts, scripts, lists, menus, finds | read and write rows | little beyond the lock | the lock |
| **Solution packages** `schema/solution_service.go` | none | export, import | identifiers that have to be mapped | an import refers to what it brought |
| **Server tools** `api/server_admin_handler.go` | schedules, backups, audit log | backup, restore, schedule, certificates | names by the second; errors dropped; restore over a live database | a backup is complete, a restore restores |
| **Client: auto-save** `auto_save_service.dart` | timer, status | mark dirty, save, flush | changes during a save; two saves at once | "saved" means saved |
| **Client: script debugger** `script_debugger.dart` | position, status | step, run, stop, restart | stop during an awaited step | a stopped session runs no step |
| **Telemetry, envelope encryption, local CA, external sources, FileMaker migration, validation, dialects, routing, client screens, deployment** | | | | see [section 6](#6-what-is-not-modelled) |

`PROJECT.json` lists 28 components with their status and 40 hazards, each at its line, with the properties
that would notice it going wrong or the reason why none does.

## 2. The modules

| Module | What it is |
|---|---|
| `LoginThrottle`, `LoginThrottleProofs` | the throttle; the bound on guesses; proofs |
| `Accounts`, `MCAccounts`, `AccountsProofs` | accounts, sessions, guard and handlers; instances; proofs |
| `DesignLock`, `MCDesignLock`, `DesignLockProofs` | the row, the references, the copy; instances; proofs |
| `PoolRegistry` | abstract: what `GetDriver` promises |
| `DriverPool`, `MCDriverPool`, `DriverPoolProofs` | the pools; instances; proofs, among them that they implement the registry |
| `DatabaseLifecycle`, `MCDatabaseLifecycle`, `DatabaseLifecycleProofs` | one database name over all the resources that know it: server, accounts, pool, sessions, project row; instances; proofs |
| `Realtime`, `MCRealtime`, `RealtimeProofs` | hub, WebSocket handler, realtime service and Browse of the clients, composed; an instance; proofs |
| `CascadeDelete`, `MCCascadeDelete`, `CascadeDeleteProofs` | deletion with related records; instances; proofs |
| `AutoSave`, `AutoSaveProofs` | the service that keeps the design in a file; proofs |

One convention holds for all: **a handler is a process, and every statement, store call or ping is a step of
its own**, because nothing holds them together in the code. A process is a record with a program counter
(`pc`) and the local variables of the handler. What a mutex makes one step in the code is one step here.
The modules meet in
their environment: `DatabaseLifecycle` takes from `DriverPool` what a caller of `GetDriver` sees and from
`Accounts` the owners a database is given when it is made, and adds what neither has, the database itself coming and going.

An *observation* is a variable no action reads: it remembers what a property needs. Three properties
(`StaleIsAccountedFor`, `ChangesAreAccountedFor`, `ChildrenGoFirst`) have the form "all is well, or one
of these things happened": the code does lose things, and the observation is written at exactly the
statements where it does. The property says that what is modelled of the code has no other such place; what
is left out of it is in [section 6](#6-what-is-not-modelled).

Operators marked *a fault* are deliberate mistakes next to the definition they would replace; no
specification uses them. They are the changes to the code each property must be able to notice.

### LoginThrottle

`record[k]` is the `attemptRecord` of a key (database, user name, client address). Time is relative: a
record carries its age and the rest of its lockout, and `Tick` moves all of them, so no clock has to be
bounded; `lock = Never` is the zero time. `count` stops at `Max + 1`, as the code only compares it with
`max`. `verifying[k]` counts the sign-ins between `Allow` and their outcome, at most `Parallel`.

| Action | Code |
|---|---|
| `Allow` | `Allow` lets an attempt through and forgets a stale record (a refusal changes nothing and is no step) |
| `Fail` | `Fail` after a wrong password or code |
| `Succeed` | `Succeed` |
| `MissingFactor` | `Login` returns without either call: the password was right, the code is missing |
| `Tick` | a unit of time |

`recent` and `quiet` are observations: the failures since the key's last success, by age, and the time since the
last one. No action reads them.

### Accounts

`acct[u]` is the row of `sys_users`, `session[t]` the store's entry, `req[r]` a handler. A password is the
version it was set with, since bcrypt salts make each hash new; a stamp is the tuple `AccountStamp` hashes.
`knows[t]` is an observation: the passwords the holder of token `t` proved at sign-in or set through it.

| Actions | Code |
|---|---|
| `Authenticate`, `Create` | `Login`: the account is read and the password checked; the session is created after that, for the account as it was read |
| `Begin`, `Admit`, `Reject` | `attach` of `api/auth.go`: session lookup, then comparison of the stamps |
| `Load`, `Forbid` | the handler reads the target, fills in an empty role and decides (`MayUpdate`, `MayDelete`, `MaySetSuper`) |
| `Guard`, `Count`, `Write` | the service reads again, counts owners if one is about to go, writes |
| `Revoke`, `ReadStamp`, `Restamp`, `NoNewStamp` | the handler ends the account's sessions; a user who changes their own password keeps the session and gets it restamped |
| `CreateUser`, `Read`, `Logout` | the handlers of that name |
| `GiveUp`, `Expire`, `Restart` | a statement fails or the client hangs up before the write; idle time is over or an administrator ends the session; the process restarts |

### DesignLock

`meta` is the row of `sys_solution_meta` (there may be none), `ref` the one reference to the name that stands
for all in layouts and scripts, `mirror` the row in the control store. `late` is an observation: the requests
that began while the design was locked. The kinds of request are `design` (every route behind
`RequireDesignUnlocked` that changes nothing but the design), `rename`, `import`, `migrate`, `options`,
`lock`, `sync` (handlers that only refresh the copy), `list` (`collectProjects`) and `restore`
(`RestoreBackup`). `Guard`, `Apply`, `Peek`, `ReadMeta`, `Update`, `Insert`, `RewriteRefs`, `LookUp`,
`ReadForMirror` and `UpsertProject` are their statements. Two constants name what may go wrong: `ReadsFail`
(a read of the row fails, which the code takes for an unlocked design) and `Interrupted` (other statements
fail, clients hang up).

### PoolRegistry and DriverPool

`PoolRegistry` says what a caller of `GetDriver` may rely on, with neither mutex nor ping: `serving[n]` is
the one driver of database `n`, and whoever asks is answered with the driver that serves the database at
that moment, or with an error.

`DriverPool` is the code. `drivers` is the map, `pool[d]` the connections of driver `d`, `exists` the
databases on the server, `mu` the holder of the write lock, `call[c]` a caller (a request) with `over` for
the end of its context. What happens under the read lock is one step (`Peek`); under the write lock every
ping is a step of its own (`Recheck`, `Connect`, `PingNew`), so that other callers reach the mutex, and
contexts end, in between. `Evict` and `Execute` are `DropDatabase` (and the statement of `CreateDatabase`),
`Close` the shutdown. A ping fails if the driver is closed, the database is gone or the caller's context is
over; with `ServerFails` it may also fail for no reason. The limits set on a new pool are left out: they
change no decision of this module. `Registry` maps the state onto the abstract one: the open driver of each
database, and each caller's place as asked, waiting or served.

### DatabaseLifecycle

The name outlives the databases that bear it. `db` is the present one, with the number of its *incarnation*
(the code knows the name only) and the accounts in it; `pool` the registered pool, with the incarnation it
was opened on; `proj` whether the control store has a row; `session[t]` and `req[r]` sessions and handlers.
An account is a number: that of the first incarnation it was meant for. A database made with credentials gets
an account nobody had before; a clone made without (`copy`) gets a copy of an existing one, id and password
hash included, which may be one that an earlier database of the name had (`born`). Observations: `db.copies`,
the accounts that came as copies; `stray`, effects on an incarnation that was not meant; `excused`,
incarnations whose maker was interrupted or whose owner's account was left out or disabled unnoticed.

| Actions | Code |
|---|---|
| `CreateDb`, `Ensure`, `Count`, `Import`, `Upsert` | `CreateDatabase`; `CloneSolution` with credentials and `MigrateApply` into a new database ("clone"), `CloneSolution` without credentials ("copy"): they import and do not count |
| `InsertOwner`, `CopyOwner` (in `Ensure`) | `EnsureSystemTablesWithCredentials`, whose insert of the owner fails unreported; `CopyOwnerAccount`, whose insert rolls the clone back |
| `Fail` then `Close`, `Drop` | the clean-up of all three: `DropDatabase`, which closes the pool and then drops whatever bears the name |
| `Lookup`, `Driver`, `Auth`, `Close`, `Drop`, `Revoke`, `Forget` | `DeleteDatabase`, on an owner's session or with credentials |
| `Lookup`, `Driver`, `Auth`, `OpenSession` | `Login` |
| `Driver`, `Stamp`, `Work` | any request with a session: `attach`, then a statement of the handler |
| `List`, `Peek`, `Driver`, `Upsert` | `ListDatabases` and `collectProjects` |
| `HangUp`, `Restart` | a request's context ends, the handler goes on; memory is lost, databases and rows stay |

### Realtime

A record set is the set of edits it contains. `queue[c]` is the subscriber's channel together with what is under
way on the socket, `link[c]` the connection, `view[c]` what Browse shows and whether a field has the focus, a
reload is put off, a frame callback is scheduled; `fetch[c]` are the reloads under way. `Save`, `Commit` and
`Publish` are an edit's way through the server, which may store it and still answer with an error (`UpdateRow`
reads the row back; then it is "silent"); `Deliver`, `Frame`, `Read` and `Answer` that of a reload through the
client. `Rebuild` makes the field controllers anew, in `SwitchMode` (to and from Find) and in `Move` (another
record, a new one, a revert, a sort, another layout), also under a field in use. `Disconnect` covers errors and
the 60 seconds after which the timeout of `main.go:238` ends every connection; `Revoke`, `Lock` and `Connect`
the session. `missed[c]` is the observation: edits that `c` may never hear of again.

### CascadeDelete

`kids` says which records a relationship finds, `live` which exist, `job[r].stack` is the recursion of
`deleteRow` with the page it goes through. `Read`, `Descend`, `PageDone` and `Delete` are the loop of
`cascadeDelete` and the statement behind it, `Break` any error; `BeginInsert` and `Insert` are
`CreateRelatedRow`, which reads the parent and then inserts. The family of a record is the least set that holds
it and, with a record, its children in the tables (`Down`). Two observations: `late[x]` are the parents that
were gone, or would not look for children again, when `x` was created, and `left` the records that a failed
cascade had on its stack below a parent it had deleted, which only a ring makes possible.

### AutoSave

`design` counts the states of the design, `file[p]` is what the file at a place holds, `save[s]` a run of
`_performAutoSave` between its awaits, `timer` and `status` are the service's own. `Change` is `markDirty`,
`Fire` the timer, `Flush` Save and Quit (`flushNow`), `SaveAs` a change of place; `Read`, `Receive`, `Write`
the awaits of a save, `WriteElsewhere` the way out when the directory cannot be written, `Fail` the `catch`.

## 3. The runs

Every passing run explores all states of its instance. The counts are of distinct states.

| Run | Instance | States | What it shows |
|---|---|---|---|
| `throttle` | 1 key, `Max` 3, `Window` 3, `Lockout` 4, 2 attempts at once | 293 | `LockNeedsMaxFailures`, `GuessBudget`, `LockoutEnds` |
| `accounts` | scenario "pair": 2 accounts, 3 sign-ins, 2 requests at once, 2 new passwords; scenario "alone": 3 accounts, 2 sign-ins, every operation, one request at a time | 521,707 | `OnlyKnowersAreAdmitted`, `AdmittedRoleIsCurrent`, `SomeActiveOwner`, `OwnersMadeByOwners` |
| `designlock` | scenario "pair": 2 names, 2 requests at once, every operation but the restore, interruptions; scenario "alone": 3 names, every operation, one request at a time, nothing fails | 223,832 | `LateRequestsAreRefused`; alone, the lock, the references and the copy |
| `pool` | 1 database and the administrative one, 3 drivers, 2 callers, one of which may hang up | 203,750 | `OnePoolPerDatabase`, `LiveCallersSpareDrivers`, `GetDriverReturns`, `ImplementsRegistry` |
| `lifecycle` | 2 incarnations, made new or given a copied account, 2 requests at once, 1 sign-in; scenario "any": everything; scenario "calm": one change at a time, no hang-ups, no listing | 3,077,311 | `AdmittedInTheirDatabase`, `WorkStaysHome`, `NobodyIsLockedOut`; calm, that changes hit their own database and the project row follows |
| `realtime` | 2 clients, an edit each, queues of 1, 2 reloads under way at once | 135,013 | `StaleIsAccountedFor`, `NoReloadBegunWhileTyping`, `ChangesAreShown`, `DeadSessionsAreCutOff` |
| `cascade` | 4 records, one created later, in 2 shapes (a ring with more children than a page, a chain into a ring), pages of 2, 2 requests | 428,846 | `ChildrenGoFirst`, `FamilyGoesToo`, `DeletionsEnd` |
| `autosave` | 3 changes, 2 saves at once, 2 places | 35,724 | `ChangesAreAccountedFor`, `ChangesReachTheFile` |

Four more runs end in a counterexample each; [section 5](#5-what-the-models-show-about-the-code) tells them.
`TypeOK` is an invariant of every passing run. A *scenario* is a constraint on the steps, chosen in the initial
state and kept: so one run covers a property of overlapping requests and one that only holds of requests in turn.

### The properties

- `LockNeedsMaxFailures`: a key has been locked out exactly if it counted `Max` failures.
- `GuessBudget`: since its last success, in any stretch shorter than both window and lockout, a key takes at
  most `(Max - 2) + Max + (Parallel - 1)` wrong guesses: some just before its record goes stale, `Max` after
  that, and those already past `Allow`. A success deletes the record and starts the count anew.
- `LockoutEnds`: a lockout ends however many attempts knock.
- `OnlyKnowersAreAdmitted`: whoever the guard would let through knows the present password of an active
  account, unless the handler that changed the account is about to end that session.
- `SomeActiveOwner`, `AdmittedRoleIsCurrent`, `OwnersMadeByOwners`: an active owner remains, the role a request
  is admitted with is the account's, and whenever an account becomes an owner, the request that writes its row
  at that moment is one of an active owner. All three are true as long as requests
  that change accounts come one at a time (`OneChange`), whatever else goes on beside them.
- `LateRequestsAreRefused`: a request begun under the lock changes neither the design nor the row, except to
  lock it again.
- `AloneLockIsForever`, `AloneMirrorFollowsMeta`, `AloneRefsFollowName`: what is true of row, copy and
  references as long as requests come one at a time and are not interrupted.
- `OnePoolPerDatabase`: never two open pools for one database, and once the mutex is free the map leads to
  every open one (no pool is lost).
- `LiveCallersSpareDrivers`: a call of `GetDriver` whose own context has not ended closes no driver another
  request works with, when the server answers.
- `GetDriverReturns`: every call returns.
- `ImplementsRegistry`: `DriverPool` implements `PoolRegistry`, liveness included.
- `AdmittedInTheirDatabase`: whoever the guard admits proved a password of the very database that bears the
  name now, or its account was copied into that one. Nothing in the session says which database it was opened
  on: for an account made with credentials the property rests on its identifier being new, on the driver asked
  for anew and on the order of stamp and insertion; for a copied account nothing tells the databases apart.
- `WorkStaysHome`: what an admitted request does, it does to the database its session was opened on, unless
  the pool it uses was opened between the two halves of a `DropDatabase`, or its account was copied into the
  successor.
- `NobodyIsLockedOut`: a database without an active owner is being made or cleaned up, or its maker was
  interrupted or could not drop it, or it is a clone whose owner's insert failed unreported or whose copied
  account was disabled in the source just before.
- `CalmChangesHitTheirOwn`, `CalmProjectsFollow`: with one change at a time nothing is dropped, or given an
  account, but the database meant, except that a session left of an earlier database deletes the successor
  its account was copied into; and the control store agrees with the server once a change is over.
- `StaleIsAccountedFor`: an edit a client does not show is still to be announced, announced, waiting for a
  field, being read, or missed at one of the statements that write `missed`.
- `NoReloadBegunWhileTyping`: a reload that takes the field away was asked for before the field had the focus.
- `ChangesAreShown`: a client whose user does not stay in a field for ever shows in the end what is announced,
  unless it missed it or is locked. No connection is obliged to end in this, so an announcement that nothing
  is done about is not excused by the next disconnection.
- `DeadSessionsAreCutOff`: if no connection outlives the timeout, the connection of a session that ended is
  closed for good.
- `ChildrenGoFirst`: a record that outlives a parent is on its way out itself, was created behind the back of
  the deletion of that parent, or was left by a cascade that failed in a ring.
- `FamilyGoesToo`: when a deletion succeeds, the whole family the record had at its beginning is gone, but for
  records spared in one of these ways and what hangs on them.
- `DeletionsEnd`: no ring, page or shared child keeps a deletion going for ever.
- `ChangesAreAccountedFor`, `ChangesReachTheFile`: the newest design is in the file, under way, due, reported
  as an error, or dropped at one of the statements that write `lost`; and in the end it is in the file.

### Bounds, and why they are enough

- **Throttle**: keys do not interact. `Max` 3 is the least for which first, middle and last failure differ;
  `Window` and `Lockout` differ, so that each can be over before the other; two attempts at once make every
  order of `Allow` and `Fail`.
- **Accounts**: the hazards are pairs: a change against a sign-in, a change against a guarded request, two
  changes. Two requests make every pair, three sign-ins one session to change with, one to lose and one under
  way, and two passwords a change after the one a session was kept for. The commands of each scenario are listed
  in `MCAccounts`; the super-owner's flag is granted and withdrawn for one account. Sign-ins are bounded
  over the whole behaviour, not at once; tokens and requests are symmetric.
- **Design lock**: a race needs a writer that read early and one that locks; a name to leave and one to take.
  Scenario "alone" has a third name, so that a reference can point to neither the old nor the new one.
- **Pools**: a race on the map needs two callers. A driver is free again once it is closed and nobody refers
  to it; while a caller connects, at most one driver is in the map (the other database's) and one in the
  other caller's hand, so a third is always free. One solution database and the
  administrative one, which creating and dropping need, are two databases under the one mutex.
- **Lifecycle**: every hazard is a pair of handlers around one change of incarnation: two incarnations, two
  requests, a session that survives from the first to the second, and an account copied from the first into
  the second. The account of the source need not be modelled beyond that: a database of another name never
  meets the sessions of this one.
- **Realtime**: one client that edits and one that looks on, each of which may be either; a queue of one is
  full after one event and two reloads at once can be answered in both orders. `Chatter` may fill a queue at any
  time.
- **Cascade**: a ring one of whose records has a child more than fits on a page, and a chain into a ring whose
  record is shared by two parents, are the ways the loop, the recursion and the set of records on their way out
  depend on the shape. The ring and the two parents together make every pair of deletions meet; the record
  created later is the shared one, and a further child of the ring.
- **Auto-save**: a change before, during and after a save; two saves that overlap; a place to leave and one to
  go to.

The proofs of section 4 remove the bounds for every safety property of the passing runs. They also say more than
the scenarios do: scenario "alone" of `accounts` has a single request at a time, the theorems any number of
them, one of which may change accounts.

Deadlock is not checked where the system may stop: once sign-ins, passwords, databases, edits or records are
used up, every client is locked, or the process has been shut down and its last request is over. A caller that
waited for ever inside `GetDriver` would violate `GetDriverReturns`, a deletion `DeletionsEnd`. The throttle
and the auto-save never stop.

### Fairness

- `LoginThrottle!FairSpec`: time passes (`WF` on `Tick`) and an attempt that was let through ends, since the
  context of a request ends. Nothing obliges anybody to try.
- `DriverPool!FairSpec`: `SF` on the steps of each caller within `GetDriver` and `Evict`. Pings end because
  contexts and connection timeouts end. Strong fairness stands for the mutex: `sync.RWMutex` blocks new
  readers once a writer waits and lets the waiting readers in after each writer, so none of them starves. The
  bound on drivers is not in the way: a free one is always there. No request is obliged to begin, to finish
  with its driver, or to hang up.
- `Realtime!Spec`: `WF` on the handlers' `Commit` and `Publish`, on the delivery of events, on frames, on the
  two halves of a reload and on `Connect` (the reconnect timer), since all of them are timers, callbacks and
  requests that end. Nobody is obliged to edit, to leave a field or to disconnect; what needs it says so:
  `ChangesAreShown` assumes of one client that its user does not stay in a field, `DeadSessionsAreCutOff`
  assumes `WF` on `Disconnect`, which is what the timeout of `main.go:238` gives.
- `CascadeDelete!MCSpec`: `WF` on the next statement of each request.
- `AutoSave!Spec`: `WF` on the timer and on the awaits of each save, but on neither failure nor user.
- The others have safety properties only and no fairness.

## 4. The proofs

Checked by TLAPS for every value of the constants that satisfies the `ASSUME` of the module: any number of
keys, accounts, tokens, requests, names, databases, drivers and callers.

| Theorem | Statement |
|---|---|
| `Typing` in `LoginThrottleProofs`, `AccountsProofs`, `DesignLockProofs`, `DriverPoolProofs`, `DatabaseLifecycleProofs`, `RealtimeProofs`, `CascadeDeleteProofs`, `AutoSaveProofs` | `Spec => []TypeOK` |
| `LoginThrottleProofs!LockIsEarned` | `Spec => []LockNeedsMaxFailures` |
| `LoginThrottleProofs!Budget` | `Spec => []GuessBudget` |
| `AccountsProofs!Knowing` | `Spec => []OnlyKnowersAreAdmitted` |
| `AccountsProofs!RoleIsCurrent` | `Spec /\ []OneChange => AdmittedRoleIsCurrent` |
| `AccountsProofs!OwnerRemains` | if some account starts as an owner, `Spec /\ []OneChange => []SomeActiveOwner` |
| `AccountsProofs!OwnersByOwners` | `Spec /\ []OneChange => OwnersMadeByOwners` |
| `DesignLockProofs!LateRefused` | if reads are answered, `Spec => LateRequestsAreRefused` |
| `DesignLockProofs!RefsFollow` | if reads are answered, `MCSpec => []AloneRefsFollowName` |
| `DesignLockProofs!MirrorFollows` | if reads are answered, `MCSpec => []AloneMirrorFollowsMeta` |
| `DesignLockProofs!LockStays` | if reads are answered, `MCSpec => AloneLockIsForever` |
| `DriverPoolProofs!OnePool` | `Spec => []OnePoolPerDatabase` |
| `DriverPoolProofs!Sparing` | if the server answers, `Spec => LiveCallersSpareDrivers` |
| `DriverPoolProofs!Refinement` | `Spec => Registry!Safety` |
| `DatabaseLifecycleProofs!Provisioning` | `Spec => []NobodyIsLockedOut` |
| `DatabaseLifecycleProofs!Admission` | `Spec => AdmittedInTheirDatabase` |
| `DatabaseLifecycleProofs!Working` | `Spec => []WorkStaysHome` |
| `DatabaseLifecycleProofs!OwnDatabase` | `MCSpec => []CalmChangesHitTheirOwn` |
| `DatabaseLifecycleProofs!RowFollows` | `MCSpec => []CalmProjectsFollow` |
| `RealtimeProofs!Typists` | `Spec => []NoReloadBegunWhileTyping` |
| `RealtimeProofs!Accounting` | `Spec => []StaleIsAccountedFor` |
| `CascadeDeleteProofs!ChildrenFirst` | if `RingsFit`, `Spec => []ChildrenGoFirst` |
| `CascadeDeleteProofs!WholeFamily` | if `RingsFit`, `Spec => FamilyGoesToo` |
| `AutoSaveProofs!Accounting` | `Spec => []ChangesAreAccountedFor` |

`MCSpec` is the specification with the scenarios, whose steps are those of `Next`. The properties that begin with
`Alone` or `Calm` speak of one of them, whatever the size of the instance; their conditions (one request at a
time, or one change; nothing interrupted) are those without which they fail, as section 5 tells.

**Throttle.** Types and the equivalence of lock and count together are inductive. The work is in two lemmas,
that a failure (`FailedRecord`) and time (`OlderRecord`) keep a record of that kind. The bound on guesses speaks of
stretches of time, and `BudgetInv` says for each key what they can hold. The counts grow with the stretch
(`Cumulative`). Failures of a record that has not locked are counted from its first on, so a stretch that does
not reach back to that first has missed it, and one that does reach back takes at most `Max - 2` from the record
before, which never reached `Max` and whose first failure is a window old (`Counted`). Those of a record that
locked are older than the lockout (`Silent`), and while it lasts only the attempts already past `Allow` still
come (`LastShots`). A success empties `recent` with the record (`Succeed`), so the theorem bounds what lies
between two successes and says nothing across one.

**Accounts.** That the holder of a session knows the password is not inductive: while a password is being
changed, sessions, sign-ins under way and guarded requests all carry stamps that were right when they were
read. The invariant `IInv` says of each where it can be:
`SessionInv`, a session's stamp is no newer than the newest password, and if it equals the present one the
holder knows it, or a handler is about to end the session; `RequestInv`, the same of the stamps that requests
carry (`Stamping`), with what a handler still knows of its decision (`Decided`: only users who change their
own password keep a session) and of the session it serves (`Served`). What saves a sign-in that missed a
revocation is that its stamp is older than every later password (`pw <= lastPw`). Most steps concern one
request; `Harmless` lists what a step may do to all the others, and `UntouchedSessions` and
`UntouchedRequests` show once that such a step preserves their part. `Write` is the step that needs the
argument: it either announces a revocation (`WriteIsAnnounced`) or changes nothing the stamps depend on.

For the three properties of one change at a time `RoleInv` adds what the request that changes has found, and
nobody else can have disturbed: sessions bear the role of their stamp (`RoleStamped`), so does the copy a
request holds (`CallerStamped`); until the write the caller's account is as its stamp says (`Standing`), what
`Load` decided still holds (`Authorised`) and so does what `Count` counted (`Spared`); a handler that keeps a
session has changed neither role nor activity (`Kept`). `DeleteUser` needs no count for this: whoever deletes an
owner is an active owner other than the one deleted.

**Design lock.** `LateInv`: a locked row is there, only a locked row has late requests, and a late request
never stands where it could change the design, and where it could write the row only if it locks. The first
conjunct is needed because an early request that found no row may still insert an unlocked one: the insertion
fails once the row exists. A rename that read the row earlier may lift the lock; late requests then stop
being late, so the theorem holds although `LockIsForever` does not.
The assumption cannot be dropped, see the next section.

For requests that come one at a time, `AloneInv` says that what a request has read of the row is what the row
still says when it writes (`Informed`), that a rename on its way to the references knows the name they still
bear (`Following`), and that references and copy are right unless somebody is about to write them.

**Pools.** `PoolInv`: the callers inside the critical section are the one holder of the mutex (`Holder`), the
map leads to open drivers of the right database (`Mapped`), an open driver is in the map or in the hand of
the holder who is pinging it (`Found`), and that holder has found the map empty (`Fresh`).
`OnePoolPerDatabase` follows from all five conjuncts. `Sparing` adds that the driver somebody else works with
would have answered the ping.

**Refinement.** `RefInv` adds `Aimed`: the driver a caller pings outside the mutex belongs to the database it
asked for, whatever became of the driver. It may have been closed, and its place taken, but `Connect` gives
new life to no driver somebody holds. Then each step is mapped to one of the registry: the first ping, the
second and the last to `Answer`, an eviction and the shutdown to `Close`, `Connect` to `Open`, a failed last
ping to `Fail`, everything else to a step of the request's own or to none. The abstract state is defined with
`CHOOSE`, so the lemmas `ServingOne`, `ServingLess` and `ServingMore` first say what it is when each
database has one open driver. This theorem does not assume a server that answers.

**Lifecycle.** Three invariants, one for each question, all on top of `Typed`, which says which operation
stands at which statement (`InPlace`). `NobodyIsLockedOut` is inductive given `Typed`: whoever leaves a
database without an account behind is its maker, and each way of leaving writes `excused`. Admission needs
`Homes`: sessions and requests that have proved a password refer to an account some database of the name has
had (`born`), and if the present one has it, it is the database the password was checked on, or the account
came there as a copy (`Known`). A maker with credentials is *unborn* until its account is inserted, and nobody
had that account before; so an account inserted later cannot make an old session good, and a copy that does
is in `db.copies`. `StampAlone` shows that no step but `Stamp` admits. Work needs `Abode`: a pool that was not
opened in the middle of a drop belongs to the database there is, and nobody is dropping that one, as `Close`
would have removed the pool. Hence whoever passes the stamp through such a pool works where it was admitted
(`AtHome`), or where its account was copied to.

With one change at a time, `CalmInv` says which handlers can stand where when nobody hangs up or lists
(`Steady`), that the one change works on the database that has the name now, while there is no row for it yet
or no database any more (`Fit`), and that the row agrees with the server when nobody is in the middle of either
(`Followed`).

**Realtime.** That each client is accounted for is inductive only with `UntoldIsKnown`, about the edits of which
no event will ever tell a client (`Untold`): its own, which it shows from the moment it sends them, and those
stored by a request that was answered with an error, which are missed by whoever does not show them. Without
this such an edit could be unseen with nothing to come. `Publish` touches all clients at once and has
a lemma (`PublishIInv`), with `SendTypes` for what waits in a queue that is not full; the steps of one client
leave the others accounted for (`OneClient`, `Untouched`).

**Cascade.** `CascadeInv` describes the recursion for any depth: each call on the stack is for a child of the
one below it, no record is called for twice, and all are on their way out (`Stacked`); what was on its way out
and is no longer on the stack is gone (`OnTheWayOut`). A call that will not read again has its children on its
page or on the stack, or they came too late (`Sighted`). A page that ends the loop holds only records that are
on the stack; they lead back to the record, so that by `RingsFit` the page is not full and nothing is left
behind it. Hence deleting a record leaves behind only late children and such as are on the stack themselves, and
they stay there until they go or the cascade fails (`Outliving`). `RingsFit` asks that no record has as many as
a page of children that lead back to it: with pages of 1,000 a ring must be very wide to break it, but nothing
in the code prevents one; section 5 tells the consequence. For `FamilyGoesToo`, `Owing` says what becomes of the
family a deletion began with: whatever of it is in the tables still hangs, by relationships between records that
are there, on the stack or on something spared. `Down` is defined as a least closed set, so these arguments are
by its closure and need no induction.

**Auto-save.** `Behind` adds that neither a file nor a save under way is ahead of the design: otherwise a change
could arrive at a design the file already holds. `EndIInv` treats the two ways a save ends as saved, `FlushedIInv`
what Save and Save As have in common.

### Only model-checked

Liveness: `LockoutEnds`, `GetDriverReturns` and the liveness of `ImplementsRegistry`, `ChangesAreShown`,
`DeadSessionsAreCutOff`, `DeletionsEnd` and `ChangesReachTheFile`. The prover has no reasoning about fairness and
`ENABLED`. All other properties of the passing runs are theorems. No module declares a `RECURSIVE` operator.

## 5. What the models show about the code

Four statements of the repository that the code does not keep; each has a run that ends in a counterexample.

| Run | Statement | What happens |
|---|---|---|
| `throttle_gap` `GapForgets` | "a gap of window with no failure forgets the earlier ones" `auth/throttle.go:33` | A record that was ever locked keeps its count for ever: `Fail` forgets only records whose `lockedUntil` is zero. One wrong password days later locks the key at once. |
| `accounts_last_owner` `SomeActiveOwner` | "A database always keeps one active owner" `docs/specs/security_model.md:105` | Two owners demote or deactivate each other at once; both count two, both write. |
| `designlock_rename_race` `LockIsForever` | "Permanently and irreversibly sets `design_locked = true`" `docs/specs/developer_utilities.md:24` | A rename that read the row before the lock writes `design_locked` back as it read it. |
| `pool_ended_context` `HeldDriverStaysOpen` | "It does not change any shared state: callers keep the returned driver for the duration of their request" `dbal/multi_db.go:212` | A caller whose own context has ended fails both pings and closes the driver a healthy request is using. |

Further behaviours of the code the models contain, each visible by changing a constant or a guard:

- With `ReadsFail = TRUE` the lock does not hold at all for a request whose read fails: `GetSolutionMeta`
  takes every error for a missing row (`schema/developer_utilities.go:57`). This is why `designlock` and
  `LateRefused` assume that reads are answered.
- A user who changes their own password can lose the session that is being kept: another request of the same
  session between `Write` and `Restamp` finds the old stamp and ends it. Nothing worse comes of it.
- An update that leaves the role out writes back the one it read first: a promotion in between is undone
  (`newRole` in `Accounts`). If that happens in the middle of the account's own password change, the session
  being kept gets the stamp of the demoted account and is admitted as an administrator's, although the stamps
  are there to reject "sessions of deleted, disabled, demoted or re-passworded accounts" (`api/auth.go:91`).
  In scenario "any" with such commands `AdmittedRoleIsCurrent` therefore fails; it is a property of one change
  at a time.
- With two requests at once the copy in the control store may end up older than the row, and with
  `Interrupted = TRUE` a rename may change the row and not the references.
- Demoting a super-owner leaves the flag on an account that is no owner (`Updated` in `Accounts`), although
  `api/security_handler.go:549` says that the privilege can only sit on an owner account; the flag alone is
  what the server tools ask for.
- `RestoreBackup` replaces tables, layouts and scripts without asking for the lock (`Restore` in `DesignLock`);
  `LateRequestsAreRefused` names it as its exception.
- **Throttle.** A success deletes the record, a standing lockout included (`auth/throttle.go:91-98`): two wrong
  guesses and one right one, repeated, are not bounded by anything, nor are those on a key on which the user
  keeps signing in. `GuessBudget` speaks of what lies between.
- **Copied accounts.** `CopyOwnerAccount` takes over id, password hash and role
  (`schema/developer_utilities.go:219-240`), so the stamp of the account is the same in the clone. Two databases
  that bear one name in turn and were cloned without credentials from the same place therefore have one owner
  with one stamp. A session that outlives the first (created by a sign-in that checked the password before the
  drop and came to `Create` after `RevokeDatabase`, or left by a clean-up, which revokes none) is admitted into
  the second, works there and may delete it, although `api/auth.go:113-115` says "a request can only ever reach
  the database it signed in to". The person is the same; the database is not. `db.copies` in the properties is
  this exception and no more.
- **Lifecycle.** With two changes at once, a deletion authorised for one database drops its successor, and the
  clean-up of a creation that failed can drop what somebody else has created since: both go by the name. A
  pool opened between the halves of `DropDatabase` outlives the database; requests already admitted then work
  on the successor. PostgreSQL refuses the clean-up drop when a sign-in has opened a pool meanwhile, and a
  restart between `CREATE DATABASE` and the insertion of the owner, or a clone with credentials whose insertion
  fails silently, has the same result: a database nobody can sign in to, and so nobody can delete. A listing that overlaps a
  deletion brings the project row back.
- **Realtime.** An edit whose row cannot be read back after the `UPDATE` (`data/service.go:457-471`) is stored,
  answered with an error, and announced to nobody. Whoever goes to another record with the keyboard while a
  field has the focus, sorts or changes the layout takes the field away without a blur
  (`data_browser_widget.dart:280-312`, `790-803`, `972-988`): a reload put off for it waits for the next field
  that is left. A client whose queue is full does not reload on a reconnect, although the comment of `Publish`
  says so (`realtime/hub.go:77-79`). A reload that was asked for before a field had the focus is answered
  while somebody types and takes the field away; what was put off for that field then waits for the next one.
  Answers may arrive out of order, and a reload read before one's own edit was stored hides that edit. The
  handler of a cascading deletion announces only the table of the parent.
- **Cascade.** When a child is deleted by somebody else at the same moment, the whole deletion fails half-way
  with "record not found". A ring whose cascade fails can leave records without a parent.
  A page full of records that are on their way out ends the loop, and the record goes while it has more
  children behind that page, although the comment says "Nothing left that this cascade can remove"
  (`data/related.go:471`): the ring of the run with pages of one record violates `ChildrenGoFirst`. It takes a ring
  in which 1,000 records lead back to one.
- **Auto-save.** A change made during a save is overwritten by the status "saved"; a Save that follows stops the
  timer and reports success without saving. An earlier save may finish last. A write whose result is `false`
  counts as saved, the error of one save is hidden by another, and Save As of a saved design writes nothing at
  the new place.

## 6. What is not modelled

- **No concurrency or failure to speak of**: design objects (one statement each; the lock is modelled),
  telemetry (counters under one mutex), routing, dialects, validation of single values, multi-factor set-up,
  the decision on permissions, the script debugger.
- **Data, not behaviour**: parsing and writing files, the calculation language and with it calculation fields,
  migration of FileMaker files, design reports, most screens.
- **Other programs and cryptography**: containers, certificates, envelope encryption, external data sources.
- **Nothing to hold against the code**: backups. The errors of what they read and restore are dropped, so any
  statement about their completeness is false from the start.
- **In the modelled components**: the one-time code at sign-in beyond its effect on the throttle; the owners of
  `FILE4BASE_ADMIN_DATABASE`, who sign in as super-owners like the seeded ones that `Accounts` has; permissions
  by table and layout; the copy of the user list; the sweep of ended sessions (a session that is over is gone at
  once); the rename inside `CreateDatabase` and `CloneSolution`, where nobody else works with the database yet;
  several databases at once in `DatabaseLifecycle`, which share nothing but the mutex of the pools (that is
  `DriverPool`) and the control store; events about the design in `Realtime`, whose reload is not put off for a
  field; found sets, records inserted and deleted, reloads the user asks for (they only repair) and a user who
  signs out and in again there; in `CascadeDelete` an update that moves a record to another parent, and more
  than one relationship from a table, which are gone through one after another; in `AutoSave` the opening of
  another solution.

## 7. Where it could go on

| Module | Of | What it should answer |
|---|---|---|
| `Import` | `data/import.go` | Update or add in one transaction; the pages of an export while rows change. |
| `CalcUpdate` | record service | Calculation fields from an earlier read, over an abstract function of a record. |
| `SchemaChange` | schema service | Catalog, index and column in separate statements, for each engine. |
| `SessionStore` | `auth/session.go` with its clock | Idle time, sweep and revocation under the mutex; implements the sessions of `Accounts`. |
| `CalcOrder`, `Permissions` | `calc/order.go`, `schema/privileges.go` | The algorithm against a reference definition. |
| `UserMirror` | control store | The copies of users and permissions. |

Proofs: the pools of `DatabaseLifecycle` as an image of `PoolRegistry`; a guard that is abstract, saying only
that the admitted know the password, which `Accounts` implements.

## 8. Running it

    tlc -workers 2 -config MCAccounts.cfg MCAccounts     # one run; PROJECT.json lists all
    tlapm AccountsProofs.tla                             # one module of proofs

A run takes from a second to about two and a half minutes with two workers, a proof module up to several
minutes from nothing.
