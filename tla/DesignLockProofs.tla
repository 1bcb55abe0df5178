-------------------------- MODULE DesignLockProofs --------------------------
(***************************************************************************)
(* What holds of DesignLock for every set of names and of requests: its    *)
(* types, and, as long as the database answers every read of the row, that *)
(* a request begun after the lock is refused.                              *)
(***************************************************************************)
EXTENDS MCDesignLock, TLAPS

\* Moving a request along, ending it and finishing it keep it a request
\* (Goto, Done, Finish and Fails are how every handler goes on).
LEMMA MovesTypes ==
  ASSUME TypeOK, NEW r \in Requests
  PROVE  /\ \A pc \in Pcs : Goto(r, pc) => req' \in [Requests -> Request]
         /\ Done(r) => req' \in [Requests -> Request]
         /\ Finish(r) => req' \in [Requests -> Request]
         /\ Fails(r) => req' \in [Requests -> Request]
<1>1. \A pc \in Pcs : Goto(r, pc) => req' \in [Requests -> Request]
  BY DEF TypeOK, Goto, Request
<1>2. Idle \in Request
  BY DesignLockAssumption DEF Idle, Request, Pcs, Operations, Answer
<1>3. Done(r) => req' \in [Requests -> Request]
  BY <1>2 DEF TypeOK, Done
<1>4. Finish(r) => req' \in [Requests -> Request]
  BY <1>1, <1>3 DEF Finish, Pcs
<1> QED BY <1>1, <1>3, <1>4 DEF Fails

\* A read reports a name and a lock, whether it succeeds or not
\* (GetSolutionMeta).
LEMMA AnswersTypes ==
  ASSUME TypeOK, NEW fallback \in Names
  PROVE  Answers(fallback) \subseteq Answer
<1>1. meta.name \in Names /\ meta.locked \in BOOLEAN
  BY DEF TypeOK, Row
<1>2. \A name \in Names, locked \in BOOLEAN :
        [name |-> name, locked |-> locked] \in Answer
  BY DEF Answer
<1>3. Defaults(fallback) \in Answer
  BY <1>2 DEF Defaults
<1>4. [name |-> meta.name, locked |-> meta.locked] \in Answer
  BY <1>1, <1>2
<1> QED BY <1>3, <1>4 DEF Answers

\* What an upsert leaves behind is a row, and the next step of the handler a
\* step (upsertSolutionMeta).
LEMMA WrittenTypes ==
  ASSUME TypeOK, NEW r \in Requests
  PROVE  /\ Written(r) \in Row
         /\ AfterWrite(r) => req' \in [Requests -> Request]
<1>1. req[r] \in Request
  BY DEF TypeOK
<1>2. Written(r) \in Row
  BY <1>1 DEF Written, Row, Request, Answer
<1>3. AfterWrite(r) => req' \in [Requests -> Request]
  BY MovesTypes DEF AfterWrite, Pcs
<1> QED BY <1>2, <1>3

\* The code starts with rows and requests of the right types.
LEMMA InitTypes == Init => TypeOK
BY DesignLockAssumption
   DEF Init, TypeOK, NoRow, Row, Ref, Idle, Request, Pcs, Operations, Answer

\* Every step of every handler keeps the types.
LEMMA NextTypes == TypeOK /\ [Next]_vars => TypeOK'
<1> SUFFICES ASSUME TypeOK, [Next]_vars PROVE TypeOK'
  OBVIOUS
<1>1. CASE UNCHANGED vars
  BY <1>1 DEF TypeOK, vars
<1>2. ASSUME NEW r \in Requests, NEW op \in Ops, NEW name \in Names,
             Begin(r, op, name)
      PROVE  TypeOK'
  <2>1. op \in Operations /\ First(op) \in Pcs
    BY DesignLockAssumption
       DEF First, Guarded, Renaming, Operations, AfterGuard, Pcs
  <2>2. [Idle EXCEPT !.pc = First(op), !.op = op, !.name = name] \in Request
    BY <2>1, DesignLockAssumption DEF Idle, Request, Answer
  <2> QED BY <1>2, <2>2 DEF Begin, TypeOK
<1>3. ASSUME NEW r \in Requests, Guard(r) PROVE TypeOK'
  <2>1. AfterGuard(req[r].op) \in Pcs
    BY DEF AfterGuard, Pcs
  <2>2. req' \in [Requests -> Request]
    BY <1>3, <2>1, MovesTypes DEF Guard
  <2> QED BY <1>3, <2>2 DEF Guard, TypeOK
<1>4. ASSUME NEW r \in Requests, Apply(r) PROVE TypeOK'
  <2>1. req' \in [Requests -> Request]
    BY <1>4, MovesTypes DEF Apply, Pcs
  <2> QED BY <1>4, <2>1 DEF Apply, TypeOK
<1>5. ASSUME NEW r \in Requests, Peek(r) PROVE TypeOK'
  <2>1. PICK a \in Answers(Db) :
          req' = [req EXCEPT ![r].got = a,
                    ![r].pc = IF a.locked /\ req[r].op # "rename" THEN "sync"
                              ELSE "read"]
    BY <1>5 DEF Peek
  <2>2. a \in Answer
    BY AnswersTypes, DesignLockAssumption
  <2>3. req' \in [Requests -> Request]
    BY <2>1, <2>2 DEF TypeOK, Request, Pcs
  <2> QED BY <1>5, <2>3 DEF Peek, TypeOK
<1>6. ASSUME NEW r \in Requests, ReadMeta(r) PROVE TypeOK'
  <2>1. PICK a \in Answers(req[r].got.name) :
          IF a.locked /\ req[r].op # "lock" THEN Fails(r)
          ELSE req' = [req EXCEPT ![r].got = a, ![r].pc = "update"]
    BY <1>6 DEF ReadMeta
  <2>2. a \in Answer
    BY AnswersTypes DEF TypeOK, Request, Answer
  <2>3. req' \in [Requests -> Request]
    BY <2>1, <2>2, MovesTypes DEF TypeOK, Request, Pcs
  <2> QED BY <1>6, <2>3 DEF ReadMeta, TypeOK
<1>7. ASSUME NEW r \in Requests, Update(r) PROVE TypeOK'
  <2>1. meta' \in Row /\ req' \in [Requests -> Request]
    BY <1>7, WrittenTypes, MovesTypes DEF Update, Pcs, TypeOK
  <2>2. late' \subseteq Requests
    BY <1>7 DEF Update, TypeOK
  <2> QED BY <1>7, <2>1, <2>2 DEF Update, TypeOK
<1>8. ASSUME NEW r \in Requests, Insert(r) PROVE TypeOK'
  <2>1. meta' \in Row /\ req' \in [Requests -> Request]
    BY <1>8, WrittenTypes, MovesTypes DEF Insert, TypeOK
  <2> QED BY <1>8, <2>1 DEF Insert, TypeOK
<1>9. ASSUME NEW r \in Requests, RewriteRefs(r) PROVE TypeOK'
  <2>1. ref' \in Ref /\ req' \in [Requests -> Request]
    BY <1>9, MovesTypes DEF RewriteRefs, TypeOK, Request, Ref
  <2> QED BY <1>9, <2>1 DEF RewriteRefs, TypeOK
<1>10. ASSUME NEW r \in Requests, LookUp(r) PROVE TypeOK'
  <2>1. req' \in [Requests -> Request]
    BY <1>10, MovesTypes DEF LookUp, Pcs
  <2> QED BY <1>10, <2>1 DEF LookUp, TypeOK
<1>11. ASSUME NEW r \in Requests, ReadForMirror(r) PROVE TypeOK'
  <2>1. PICK a \in Answers(Db) :
          req' = [req EXCEPT ![r].got = a, ![r].pc = "mirror"]
    BY <1>11 DEF ReadForMirror
  <2>2. a \in Answer
    BY AnswersTypes, DesignLockAssumption
  <2>3. req' \in [Requests -> Request]
    BY <2>1, <2>2 DEF TypeOK, Request, Pcs
  <2> QED BY <1>11, <2>3 DEF ReadForMirror, TypeOK
<1>12. ASSUME NEW r \in Requests, UpsertProject(r) PROVE TypeOK'
  <2>1. req' \in [Requests -> Request]
    BY <1>12, MovesTypes DEF UpsertProject
  <2>2. mirror' \in Row
    <3>1. req[r].got \in Answer
      BY DEF TypeOK, Request
    <3>2. req[r].got.name \in Names /\ req[r].got.locked \in BOOLEAN
      BY <3>1 DEF Answer
    <3>3. \A name \in Names, locked \in BOOLEAN :
            [row |-> TRUE, name |-> name, locked |-> locked] \in Row
      BY DEF Row
    <3> QED BY <1>12, <3>2, <3>3 DEF UpsertProject
  <2> QED BY <1>12, <2>1, <2>2 DEF UpsertProject, TypeOK
<1>13. ASSUME NEW r \in Requests, StatementFails(r) \/ HangUp(r) PROVE TypeOK'
  <2>1. req' \in [Requests -> Request]
    BY <1>13, MovesTypes DEF StatementFails, HangUp
  <2> QED BY <1>13, <2>1 DEF StatementFails, HangUp, TypeOK
<1>14. ASSUME NEW r \in Requests, Restore(r) PROVE TypeOK'
  <2>1. req' \in [Requests -> Request]
    BY <1>14, MovesTypes DEF Restore
  <2> QED BY <1>14, <2>1 DEF Restore, TypeOK, Ref
<1> QED
  BY <1>1, <1>2, <1>3, <1>4, <1>5, <1>6, <1>7, <1>8, <1>9, <1>10, <1>11,
     <1>12, <1>13, <1>14 DEF Next, Handle, Trouble

\* The state of the row, its copy and the handlers always has the shape the
\* code gives it.
THEOREM Typing == Spec => []TypeOK
BY InitTypes, NextTypes, PTL DEF Spec

----------------------------------------------------------------------------
\* Where a request begun after the lock can be: past the guard or the check of
\* the options handler only if it locks the design again.
Harmless(r) ==
  /\ req[r].pc \notin {"apply", "refs"}
  /\ req[r].pc \in {"read", "update", "insert"} => req[r].op = "lock"
  /\ req[r].pc = "peek" => req[r].op = "options"

LateInv ==
  /\ TypeOK
  /\ meta.locked => meta.row
  /\ late # {} => meta.locked
  /\ \A r \in late : Harmless(r)

\* A request that is over, or has only its copy left to write, is harmless.
LEMMA Leaving ==
  ASSUME TypeOK, NEW r \in Requests
  PROVE  /\ Done(r) => Harmless(r)'
         /\ Finish(r) => Harmless(r)'
         /\ Fails(r) => Harmless(r)'
<1>1. Done(r) => Harmless(r)'
  BY DEF Done, Harmless, TypeOK, Idle
<1>2. Finish(r) => Harmless(r)'
  <2>1. Goto(r, "sync") => req'[r].pc = "sync"
    BY DEF Goto, TypeOK, Request
  <2> QED BY <1>1, <2>1 DEF Finish, Harmless
<1> QED BY <1>1, <1>2 DEF Fails

\* What one handler does leaves the local state of the others alone.
LEMMA Others ==
  ASSUME TypeOK, NEW r \in Requests, NEW q \in Requests, q # r,
         \/ Done(r) \/ Finish(r) \/ Fails(r) \/ AfterWrite(r)
         \/ \E pc \in Pcs : Goto(r, pc)
         \/ \E x \in Request : req' = [req EXCEPT ![r] = x]
  PROVE  Harmless(q) => Harmless(q)'
<1>1. req'[q] = req[q]
  BY DEF Done, Finish, Fails, AfterWrite, Goto, TypeOK
<1> QED BY <1>1 DEF Harmless

\* When every read is answered, a locked row is reported locked.
LEMMA LockedAnswers ==
  ASSUME ~ReadsFail, meta.locked, meta.row, NEW fallback, NEW a \in Answers(fallback)
  PROVE  a.locked
BY DEF Answers

\* A step of any other request that writes neither the row nor the set of late
\* requests keeps the invariant if it keeps its own request harmless.
LEMMA QuietStep ==
  ASSUME LateInv, TypeOK', NEW r \in Requests,
         UNCHANGED <<meta, late>>,
         \/ Done(r) \/ Finish(r) \/ Fails(r)
         \/ \E pc \in Pcs : Goto(r, pc)
         \/ \E x \in Request : req' = [req EXCEPT ![r] = x],
         r \in late => Harmless(r)'
  PROVE  LateInv'
<1>1. ASSUME NEW q \in late PROVE Harmless(q)'
  <2>1. q \in Requests /\ TypeOK /\ Harmless(q)
    BY DEF LateInv, TypeOK
  <2>2. CASE q = r
    BY <2>2
  <2>3. CASE q # r
    BY <2>1, <2>3, Others
  <2> QED BY <2>2, <2>3
<1> QED BY <1>1 DEF LateInv

\* A request begins late when the design is locked, and harmless whatever it
\* asks for (Begin is the routing of auth.go and solution_handler.go).
LEMMA BeginInv ==
  ASSUME LateInv, TypeOK', NEW r \in Requests,
         NEW op \in Ops, NEW name \in Names, Begin(r, op, name)
  PROVE  LateInv'
<1> DEFINE x == [Idle EXCEPT !.pc = First(op), !.op = op, !.name = name]
<1>1. req' = [req EXCEPT ![r] = x] /\ req'[r] = x /\ x \in Request
  BY DEF Begin, LateInv, TypeOK
<1>2. op \in Operations
  BY DesignLockAssumption
<1>3. x.pc = First(op) /\ x.op = op
  BY DEF Idle
<1>4. /\ op \in Guarded => First(op) = "guard"
      /\ op = "options" => First(op) = "peek"
      /\ op = "lock" => First(op) = "read"
      /\ op = "sync" => First(op) = "sync"
      /\ op = "list" => First(op) = "lookup"
      /\ op = "restore" => First(op) = "restore"
  BY DEF First, Guarded
<1>5. op \in Guarded \/ op \in {"options", "lock", "sync", "list", "restore"}
  BY <1>2 DEF Guarded, Operations
<1>6. Harmless(r)'
  BY <1>1, <1>3, <1>4, <1>5 DEF Harmless
<1>7. ASSUME NEW q \in late' PROVE Harmless(q)'
  <2>1. CASE q = r
    BY <1>6, <2>1
  <2>2. CASE q # r
    <3>1. q \in late /\ q \in Requests /\ TypeOK /\ Harmless(q)
      BY <2>2 DEF Begin, LateInv, TypeOK
    <3> QED BY <1>1, <2>2, <3>1, Others
  <2> QED BY <2>1, <2>2
<1>8. late' # {} => meta.locked
  BY DEF Begin, LateInv
<1> QED BY <1>7, <1>8 DEF LateInv, Begin

\* The guards refuse a late request, and the handlers that read the row without
\* one turn to their copy (RequireDesignUnlocked, UpdateSolutionOptions).
LEMMA ReadInv ==
  ASSUME LateInv, ~ReadsFail, TypeOK', NEW r \in Requests,
         Guard(r) \/ Peek(r) \/ ReadMeta(r) \/ ReadForMirror(r)
  PROVE  LateInv'
<1>1. TypeOK /\ UNCHANGED <<meta, late>> /\ req[r] \in Request
  BY DEF LateInv, Guard, Peek, ReadMeta, ReadForMirror, TypeOK
<1>2. r \in late => meta.locked /\ meta.row /\ Harmless(r)
  BY DEF LateInv
<1>3. req' \in [Requests -> Request] /\ req'[r] \in Request
  BY DEF TypeOK
<1>4. CASE Guard(r)
  <2>1. PICK a \in Answers(Db) :
          IF a.locked THEN Done(r) ELSE Goto(r, AfterGuard(req[r].op))
    BY <1>4 DEF Guard
  <2>2. r \in late => Done(r)
    BY <1>2, <2>1, LockedAnswers
  <2>3. Done(r) \/ \E pc \in Pcs : Goto(r, pc)
    BY <2>1 DEF AfterGuard, Pcs
  <2> QED BY <1>1, <2>2, <2>3, Leaving, QuietStep
<1>5. CASE Peek(r)
  <2>1. PICK a \in Answers(Db) :
          req' = [req EXCEPT ![r].got = a,
                    ![r].pc = IF a.locked /\ req[r].op # "rename" THEN "sync"
                              ELSE "read"]
    BY <1>5 DEF Peek
  <2>2. r \in late => a.locked /\ req[r].op = "options"
    BY <1>2, <1>5, LockedAnswers DEF Harmless, Peek, At
  <2>3. r \in late => req'[r].pc = "sync"
    BY <1>1, <2>1, <2>2 DEF TypeOK, Request
  <2>4. r \in late => Harmless(r)'
    BY <2>3 DEF Harmless
  <2>5. req' = [req EXCEPT ![r] = req'[r]]
    BY <1>1, <2>1 DEF TypeOK
  <2> QED BY <1>1, <1>3, <2>4, <2>5, QuietStep
<1>6. CASE ReadMeta(r)
  <2>1. PICK a \in Answers(req[r].got.name) :
          IF a.locked /\ req[r].op # "lock" THEN Fails(r)
          ELSE req' = [req EXCEPT ![r].got = a, ![r].pc = "update"]
    BY <1>6 DEF ReadMeta
  <2>2. r \in late => req[r].op = "lock"
    BY <1>2, <1>6 DEF Harmless, ReadMeta, At
  <2>3. CASE Fails(r)
    BY <1>1, <2>3, Leaving, QuietStep
  <2>4. CASE req' = [req EXCEPT ![r].got = a, ![r].pc = "update"]
    <3>1. req'[r].pc = "update" /\ req'[r].op = req[r].op
      BY <1>1, <2>4 DEF TypeOK, Request
    <3>2. r \in late => Harmless(r)'
      BY <2>2, <3>1 DEF Harmless
    <3>3. req' = [req EXCEPT ![r] = req'[r]]
      BY <1>1, <2>4 DEF TypeOK
    <3> QED BY <1>1, <1>3, <3>2, <3>3, QuietStep
  <2> QED BY <2>1, <2>3, <2>4
<1>7. CASE ReadForMirror(r)
  <2>1. PICK a \in Answers(Db) :
          req' = [req EXCEPT ![r].got = a, ![r].pc = "mirror"]
    BY <1>7 DEF ReadForMirror
  <2>2. req'[r].pc = "mirror"
    BY <1>1, <2>1 DEF TypeOK, Request
  <2>3. Harmless(r)'
    BY <2>2 DEF Harmless
  <2>4. req' = [req EXCEPT ![r] = req'[r]]
    BY <1>1, <2>1 DEF TypeOK
  <2> QED BY <1>1, <1>3, <2>3, <2>4, QuietStep
<1> QED BY <1>4, <1>5, <1>6, <1>7

\* A write of the row either keeps it locked or leaves no request late; a late
\* one writes only to lock the design again (upsertSolutionMeta).
LEMMA WriteInv ==
  ASSUME LateInv, TypeOK', NEW r \in Requests, Update(r) \/ Insert(r)
  PROVE  LateInv'
<1>1. TypeOK
  BY DEF LateInv
<1>2. CASE meta.row /\ Update(r)
  <2>1. meta' = Written(r) /\ AfterWrite(r) /\ Written(r).row
    BY <1>2 DEF Update, Written
  <2>2. late' # {} => late' = late /\ Written(r).locked
    BY <1>2 DEF Update
  <2>3. ASSUME NEW q \in late' PROVE Harmless(q)'
    <3>1. q \in late /\ q \in Requests /\ Harmless(q)
      BY <2>2 DEF LateInv, TypeOK
    <3>2. CASE q = r
      <4>1. req[r].op = "lock"
        BY <1>2, <3>1, <3>2 DEF Harmless, Update, At
      <4> QED BY <1>1, <2>1, <3>2, <4>1, Leaving DEF AfterWrite
    <3>3. CASE q # r
      BY <1>1, <2>1, <3>1, <3>3, Others
    <3> QED BY <3>2, <3>3
  <2> QED BY <2>1, <2>2, <2>3 DEF LateInv
<1>3. CASE ~meta.row /\ Update(r)
  <2>1. Goto(r, "insert") /\ UNCHANGED <<meta, late>>
    BY <1>3 DEF Update
  <2>2. r \notin late
    BY <1>3 DEF LateInv
  <2> QED BY <2>1, <2>2, QuietStep DEF Pcs
<1>4. CASE meta.row /\ Insert(r)
  <2>1. Fails(r) /\ UNCHANGED <<meta, late>>
    BY <1>4 DEF Insert
  <2> QED BY <1>1, <2>1, Leaving, QuietStep
<1>5. CASE ~meta.row /\ Insert(r)
  <2>1. meta' = Written(r) /\ Written(r).row /\ late' = {}
    BY <1>5 DEF Insert, Written, LateInv
  <2> QED BY <2>1 DEF LateInv
<1> QED BY <1>2, <1>3, <1>4, <1>5

\* No handler makes a late request harmful.
LEMMA LateStep ==
  ASSUME ~ReadsFail, LateInv, [Next]_vars
  PROVE  LateInv'
<1>1. TypeOK /\ TypeOK'
  BY NextTypes DEF LateInv
<1>2. CASE UNCHANGED vars
  BY <1>1, <1>2 DEF LateInv, vars, Harmless
<1>3. ASSUME NEW r \in Requests, Apply(r) PROVE LateInv'
  <2>1. r \notin late
    BY <1>3 DEF Apply, At, LateInv, Harmless
  <2> QED BY <1>1, <1>3, <2>1, QuietStep DEF Apply, Pcs
<1>4. ASSUME NEW r \in Requests, RewriteRefs(r) PROVE LateInv'
  BY <1>1, <1>4, Leaving, QuietStep DEF RewriteRefs
<1>5. ASSUME NEW r \in Requests, LookUp(r) PROVE LateInv'
  <2>1. Done(r) \/ Goto(r, "sync")
    BY <1>5 DEF LookUp
  <2>2. Goto(r, "sync") => req'[r].pc = "sync"
    BY <1>1 DEF Goto, TypeOK, Request
  <2>3. Harmless(r)'
    BY <1>1, <2>1, <2>2, Leaving DEF Harmless
  <2> QED BY <1>1, <1>5, <2>1, <2>3, QuietStep DEF LookUp, Pcs
<1>6. ASSUME NEW r \in Requests, UpsertProject(r) PROVE LateInv'
  BY <1>1, <1>6, Leaving, QuietStep DEF UpsertProject
<1>7. ASSUME NEW r \in Requests, StatementFails(r) \/ HangUp(r) PROVE LateInv'
  BY <1>1, <1>7, Leaving, QuietStep DEF StatementFails, HangUp
<1>8. ASSUME NEW r \in Requests, Restore(r) PROVE LateInv'
  BY <1>1, <1>8, Leaving, QuietStep DEF Restore
<1> QED
  BY <1>1, <1>2, <1>3, <1>4, <1>5, <1>6, <1>7, <1>8, BeginInv, ReadInv,
     WriteInv
  DEF Next, Handle, Trouble

\* As long as the database answers every read of the row, a request that began
\* when the design was locked never changes the design, except by the restore of
\* a backup, nor the row except to lock it again, however it interleaves with
\* renames, imports and locks that began before (RequireDesignUnlocked,
\* auth.go:247-260).
THEOREM LateRefused ==
  ASSUME ~ReadsFail
  PROVE  Spec => LateRequestsAreRefused
<1>1. Init => LateInv
  BY InitTypes DEF Init, LateInv, NoRow
<1>2. LateInv /\ [Next]_vars => LateInv'
  BY LateStep
<1>3. LateInv =>
        [\A r \in late :
           /\ ~Apply(r)
           /\ Update(r) \/ Insert(r) => req[r].op = "lock"]_vars
  BY DEF LateInv, Harmless, Apply, Update, Insert, At
<1> QED BY <1>1, <1>2, <1>3, PTL DEF Spec, LateRequestsAreRefused

----------------------------------------------------------------------------
\* One request at a time, nothing failing.  What a request has read of the row is
\* then what the row still says when it writes.
Informed(r) ==
  LET q == req[r]
  IN  /\ q.pc \in {"guard", "apply", "peek", "read"} /\ ~meta.row => q.got.name = Db
      /\ q.pc \in {"update", "insert", "mirror"}
           => q.got.name = meta.name /\ q.got.locked = meta.locked
      /\ q.pc = "insert" => ~meta.row
      /\ q.pc \in {"peek", "read", "update", "insert", "refs"} => q.op \in Syncing

\* A request that wrote a new name has yet to replace the one the references
\* still bear.
Following(r) ==
  At(r, "refs") =>
    req[r].name = meta.name /\ (~ref.restored => ref.name = req[r].got.name)

RefsBehind == \E r \in Requests : At(r, "refs")
MirrorBehind == \E r \in Requests : req[r].pc \in {"refs", "sync", "mirror"}

AloneInv ==
  /\ TypeOK /\ OneAtATime
  /\ ~meta.row => meta = NoRow
  /\ \A r \in Requests : Informed(r) /\ Following(r)
  /\ RefsBehind \/ ref.restored \/ ref.name = meta.name
  /\ MirrorBehind \/ ~mirror.row \/ (mirror.name = meta.name /\ mirror.locked = meta.locked)

\* What becomes of a request when it goes on, ends, or finishes with the row.
LEMMA MovesFacts ==
  ASSUME TypeOK, NEW r \in Requests
  PROVE  /\ \A pc \in Pcs : Goto(r, pc) =>
              /\ req'[r].pc = pc /\ req'[r].op = req[r].op /\ req'[r].name = req[r].name
              /\ req'[r].got = req[r].got
         /\ Done(r) => req'[r] = Idle
         /\ Finish(r) => req'[r] = Idle \/ Goto(r, "sync")
         /\ req[r].op \in Syncing /\ Finish(r) => Goto(r, "sync")
         /\ Fails(r) => req'[r] = Idle \/ Goto(r, "sync")
BY DEF TypeOK, Goto, Done, Finish, Fails, Request

\* A request's steps change nothing of another's.
LEMMA HandleFrame ==
  ASSUME TypeOK, NEW r \in Requests, Handle(r), NEW q \in Requests, q # r
  PROVE  req'[q] = req[q]
BY DEF TypeOK, Handle, Begin, Guard, Apply, Restore, Peek, ReadMeta, Update, Insert,
       RewriteRefs, LookUp, ReadForMirror, UpsertProject, Goto, Done, Finish, Fails, AfterWrite

\* While one request at a time is under way, the others are idle and stay so.
LEMMA Solo ==
  ASSUME TypeOK, OneAtATime, OneAtATime', NEW r \in Requests, Handle(r),
         NEW q \in Requests, q # r
  PROVE  req'[q] = req[q] /\ At(q, "idle")
<1>1. req'[q] = req[q]  BY HandleFrame
<1>2. CASE Busy(r)
  <2>1. ~Busy(q)  BY <1>2 DEF OneAtATime
  <2>. QED  BY <1>1, <2>1 DEF Busy
<1>3. CASE ~Busy(r)
  <2>1. PICK op \in Ops, name \in Names : Begin(r, op, name)
    <3>1. ~(Guard(r) \/ Apply(r) \/ Restore(r) \/ Peek(r) \/ ReadMeta(r) \/ Update(r))
      BY <1>3 DEF Busy, At, Guard, Apply, Restore, Peek, ReadMeta, Update
    <3>2. ~(Insert(r) \/ RewriteRefs(r) \/ LookUp(r) \/ ReadForMirror(r) \/ UpsertProject(r))
      BY <1>3 DEF Busy, At, Insert, RewriteRefs, LookUp, ReadForMirror, UpsertProject
    <3>. QED  BY <3>1, <3>2 DEF Handle
  <2>2. op \in Operations  BY DesignLockAssumption
  <2>3. req'[r].pc = First(op)  BY <2>1 DEF Begin, TypeOK, Idle
  <2>4. First(op) # "idle"
    BY <2>2 DEF First, Guarded, AfterGuard, Operations
  <2>5. Busy(r)'  BY <2>3, <2>4 DEF Busy, At
  <2>. QED  BY <1>1, <2>5 DEF OneAtATime, Busy, At
<1>. QED  BY <1>1, <1>2, <1>3

\* So the invariant is a matter of the request that takes the step.
LEMMA SoloStep ==
  ASSUME AloneInv, TypeOK', OneAtATime', NEW r \in Requests, Handle(r),
         Informed(r)', Following(r)', ~meta'.row => meta' = NoRow,
         ref'.restored \/ ref'.name = meta'.name \/ req'[r].pc = "refs",
         \/ ~mirror'.row
         \/ mirror'.name = meta'.name /\ mirror'.locked = meta'.locked
         \/ req'[r].pc \in {"refs", "sync", "mirror"}
  PROVE  AloneInv'
<1>1. ASSUME NEW q \in Requests, q # r PROVE Informed(q)' /\ Following(q)'
  <2>1. req'[q] = req[q] /\ At(q, "idle")  BY <1>1, Solo DEF AloneInv
  <2>. QED  BY <2>1 DEF Informed, Following, At
<1>2. (ref'.restored \/ ref'.name = meta'.name \/ RefsBehind')
  BY DEF RefsBehind, At
<1>. QED  BY <1>1, <1>2 DEF AloneInv, MirrorBehind

\* When all reads are answered, a read reports the row, and the defaults stand
\* for a row that is not there.
LEMMA TrueAnswers ==
  ASSUME ~ReadsFail, ~meta.row => meta = NoRow,
         NEW fallback, ~meta.row => fallback = Db, NEW a \in Answers(fallback)
  PROVE  a.name = meta.name /\ a.locked = meta.locked
<1>1. CASE meta.row
  <2>1. a = [name |-> meta.name, locked |-> meta.locked]  BY <1>1 DEF Answers
  <2>. QED  BY <2>1
<1>2. CASE ~meta.row
  <2>1. a = [name |-> Db, locked |-> FALSE]  BY <1>2 DEF Answers, Defaults
  <2>2. meta = NoRow  BY <1>2
  <2>3. meta.name = Db /\ meta.locked = FALSE  BY <2>2 DEF NoRow
  <2>. QED  BY <2>1, <2>3
<1>. QED  BY <1>1, <1>2

\* Before the step of a request only it can be behind with anything.
LEMMA OnlyMine ==
  ASSUME AloneInv, NEW r \in Requests, Busy(r)
  PROVE  /\ RefsBehind => At(r, "refs")
         /\ MirrorBehind => req[r].pc \in {"refs", "sync", "mirror"}
BY DEF AloneInv, OneAtATime, RefsBehind, MirrorBehind, Busy, At

\* A request begins with nothing read and nothing written, when all others are
\* over.
LEMMA BeginAlone ==
  ASSUME AloneInv, TypeOK', OneAtATime', NEW r \in Requests, NEW op \in Ops,
         NEW name \in Names, Begin(r, op, name)
  PROVE  AloneInv'
<1>1. op \in Operations /\ TypeOK  BY DesignLockAssumption DEF AloneInv
<1>2. /\ req'[r].pc = First(op) /\ req'[r].op = op /\ req'[r].got.name = Db
      /\ UNCHANGED <<meta, ref, mirror>>
  BY <1>1 DEF Begin, TypeOK, Idle
<1>h. Handle(r)  BY DEF Handle
<1>3. /\ First(op) \in {"guard", "peek", "read", "sync", "lookup", "restore"}
      /\ First(op) = "peek" => op = "options"
      /\ First(op) = "read" => op = "lock"
  BY <1>1 DEF First, Guarded, AfterGuard, Operations
<1>4. Informed(r)' /\ Following(r)'
  BY <1>2, <1>3 DEF Informed, Following, Syncing, Renaming, At
<1>5. \A q \in Requests : At(q, "idle")
  BY <1>1, <1>h, Solo DEF AloneInv, Begin
<1>6. ~RefsBehind /\ ~MirrorBehind  BY <1>5 DEF RefsBehind, MirrorBehind, At
<1>. QED  BY <1>2, <1>h, <1>4, <1>6, SoloStep DEF AloneInv

\* Passing or failing the guard, changing the design, looking for the copy and
\* restoring a backup write neither the row nor the copy.
LEMMA CalmAlone ==
  ASSUME AloneInv, TypeOK', OneAtATime', NEW r \in Requests,
         Guard(r) \/ Apply(r) \/ LookUp(r) \/ Restore(r)
  PROVE  AloneInv'
<1>0. TypeOK /\ Informed(r) /\ Handle(r) /\ meta' = meta /\ mirror' = mirror
  BY DEF AloneInv, Handle, Guard, Apply, LookUp, Restore
<1>1. Busy(r) /\ req[r].pc \in {"guard", "apply", "lookup", "restore"}
  BY DEF Guard, Apply, LookUp, Restore, Busy, At
<1>2. ~RefsBehind /\ ~MirrorBehind  BY <1>1, OnlyMine DEF At
<1>3. ref' = ref \/ ref'.restored  BY DEF Guard, Apply, LookUp, Restore
<1>4. CASE Done(r)
  <2>1. Informed(r)' /\ Following(r)'
    BY <1>0, <1>4, MovesFacts DEF Informed, Following, Idle, At
  <2>. QED  BY <1>0, <1>2, <1>3, <2>1, SoloStep DEF AloneInv
<1>5. ASSUME NEW pc \in {"apply", "peek", "read", "sync"}, Goto(r, pc),
             pc \in {"peek", "read"} => req[r].op \in Syncing,
             pc # "sync" => req[r].pc \in {"guard", "apply"}
      PROVE  AloneInv'
  <2>1. req'[r].pc = pc /\ req'[r].op = req[r].op /\ req'[r].got = req[r].got
    BY <1>0, <1>5, MovesFacts DEF Pcs
  <2>2. Informed(r)' /\ Following(r)'
    BY <1>0, <1>5, <2>1 DEF Informed, Following, At
  <2>. QED  BY <1>0, <1>2, <1>3, <2>2, SoloStep DEF AloneInv
<1>6. CASE Guard(r)
  <2>1. Done(r) \/ Goto(r, AfterGuard(req[r].op))  BY <1>6 DEF Guard
  <2>2. req[r].pc = "guard"  BY <1>6 DEF Guard, At
  <2>3. CASE Goto(r, AfterGuard(req[r].op))
    <3>1. CASE req[r].op = "rename"
      BY <1>5, <2>2, <2>3, <3>1 DEF AfterGuard, Syncing, Renaming
    <3>2. CASE req[r].op # "rename"  BY <1>5, <2>2, <2>3, <3>2 DEF AfterGuard
    <3>. QED  BY <3>1, <3>2
  <2>. QED  BY <1>4, <2>1, <2>3
<1>7. CASE Apply(r)
  <2>1. req[r].pc = "apply"  BY <1>7 DEF Apply, At
  <2>2. CASE req[r].op = "import"
    BY <1>5, <1>7, <2>1, <2>2 DEF Apply, Syncing, Renaming
  <2>3. CASE req[r].op = "migrate"
    BY <1>5, <1>7, <2>1, <2>3 DEF Apply, Syncing, Renaming
  <2>4. CASE req[r].op \notin {"import", "migrate"}
    BY <1>4, <1>7, <2>4 DEF Apply
  <2>. QED  BY <2>2, <2>3, <2>4
<1>8. CASE LookUp(r)  BY <1>4, <1>5, <1>8 DEF LookUp
<1>9. CASE Restore(r)  BY <1>4, <1>9 DEF Restore
<1>. QED  BY <1>6, <1>7, <1>8, <1>9

\* Reading the row: what a handler reads is what it says, and stays so until the
\* handler writes.
LEMMA ReadAlone ==
  ASSUME ~ReadsFail, AloneInv, TypeOK', OneAtATime', NEW r \in Requests,
         Peek(r) \/ ReadMeta(r) \/ ReadForMirror(r)
  PROVE  AloneInv'
<1>0. /\ TypeOK /\ Informed(r) /\ Handle(r) /\ UNCHANGED <<meta, ref, mirror>>
      /\ ~meta.row => meta = NoRow
  BY DEF AloneInv, Handle, Peek, ReadMeta, ReadForMirror
<1>1. Busy(r) /\ req[r].pc \in {"peek", "read", "sync"}
  BY DEF Peek, ReadMeta, ReadForMirror, Busy, At
<1>2. ~RefsBehind  BY <1>1, OnlyMine DEF At
<1>3. MirrorBehind => At(r, "sync")  BY <1>1, OnlyMine DEF At
<1>4. CASE Peek(r)
  <2>1. PICK a \in Answers(Db) :
          req' = [req EXCEPT ![r].got = a,
                    ![r].pc = IF a.locked /\ req[r].op # "rename" THEN "sync" ELSE "read"]
    BY <1>4 DEF Peek
  <2>2. /\ req'[r].pc \in {"sync", "read"} /\ req'[r].op = req[r].op /\ req'[r].got = a
    BY <1>0, <2>1 DEF TypeOK, Request
  <2>3. a.name = meta.name  BY <1>0, <2>1, TrueAnswers
  <2>4. Informed(r)' /\ Following(r)'
    BY <1>0, <1>4, <2>2, <2>3 DEF Informed, Following, NoRow, Peek, At
  <2>5. ~MirrorBehind  BY <1>3, <1>4 DEF Peek, At
  <2>. QED  BY <1>0, <1>2, <2>4, <2>5, SoloStep DEF AloneInv
<1>5. CASE ReadMeta(r)
  <2>0. ~MirrorBehind  BY <1>3, <1>5 DEF ReadMeta, At
  <2>1. PICK a \in Answers(req[r].got.name) :
          IF a.locked /\ req[r].op # "lock" THEN Fails(r)
          ELSE req' = [req EXCEPT ![r].got = a, ![r].pc = "update"]
    BY <1>5 DEF ReadMeta
  <2>2. a.name = meta.name /\ a.locked = meta.locked
    <3>1. ~meta.row => req[r].got.name = Db
      BY <1>0, <1>5 DEF Informed, ReadMeta, At
    <3>. QED  BY <1>0, <2>1, <3>1, TrueAnswers
  <2>3. CASE Fails(r)
    <3>1. req'[r] = Idle \/ req'[r].pc = "sync"
      BY <1>0, <2>3, MovesFacts DEF Pcs
    <3>2. Informed(r)' /\ Following(r)'
      BY <3>1 DEF Informed, Following, Idle, At
    <3>. QED  BY <1>0, <1>2, <2>0, <3>2, SoloStep DEF AloneInv
  <2>4. CASE req' = [req EXCEPT ![r].got = a, ![r].pc = "update"]
    <3>1. req'[r].pc = "update" /\ req'[r].op = req[r].op /\ req'[r].got = a
      BY <1>0, <2>4 DEF TypeOK, Request
    <3>2. Informed(r)' /\ Following(r)'
      BY <1>0, <1>5, <2>2, <3>1 DEF Informed, Following, ReadMeta, At
    <3>. QED  BY <1>0, <1>2, <2>0, <3>2, SoloStep DEF AloneInv
  <2>. QED  BY <2>1, <2>3, <2>4
<1>6. CASE ReadForMirror(r)
  <2>1. PICK a \in Answers(Db) : req' = [req EXCEPT ![r].got = a, ![r].pc = "mirror"]
    BY <1>6 DEF ReadForMirror
  <2>2. req'[r].pc = "mirror" /\ req'[r].got = a
    BY <1>0, <2>1 DEF TypeOK, Request
  <2>3. a.name = meta.name /\ a.locked = meta.locked  BY <1>0, <2>1, TrueAnswers
  <2>4. Informed(r)' /\ Following(r)'
    BY <1>0, <2>2, <2>3 DEF Informed, Following, At
  <2>. QED  BY <1>0, <1>2, <2>2, <2>4, SoloStep DEF AloneInv
<1>. QED  BY <1>4, <1>5, <1>6

\* Writing the row: the lock stays, and what the old name and the copy are behind
\* with is now this request's to do (upsertSolutionMeta).
LEMMA WriteAlone ==
  ASSUME AloneInv, TypeOK', OneAtATime', NEW r \in Requests, Update(r) \/ Insert(r)
  PROVE  AloneInv' /\ (meta.locked => meta'.locked)
<1>0. /\ TypeOK /\ Informed(r) /\ Handle(r) /\ UNCHANGED <<ref, mirror>>
      /\ req[r] \in Request
  BY DEF AloneInv, Handle, Update, Insert, TypeOK
<1>1. Busy(r) /\ req[r].pc \in {"update", "insert"}  BY DEF Update, Insert, Busy, At
<1>2. ~RefsBehind /\ ~MirrorBehind  BY <1>1, OnlyMine DEF At
<1>3. /\ req[r].got.name = meta.name /\ req[r].got.locked = meta.locked
      /\ req[r].op \in Syncing
  BY <1>0, <1>1 DEF Informed
<1>4. ref.restored \/ ref.name = meta.name  BY <1>2 DEF AloneInv
<1>5. CASE meta' = meta /\ Goto(r, "insert") /\ ~meta.row
  <2>1. req'[r].pc = "insert" /\ req'[r].op = req[r].op /\ req'[r].got = req[r].got
    BY <1>0, <1>5, MovesFacts DEF Pcs
  <2>2. Informed(r)' /\ Following(r)'
    BY <1>3, <1>5, <2>1 DEF Informed, Following, At
  <2>. QED  BY <1>0, <1>2, <1>5, <2>2, SoloStep DEF AloneInv
<1>6. CASE meta' = Written(r) /\ AfterWrite(r)
  <2>1. meta'.row /\ (meta.locked => meta'.locked)
    BY <1>3, <1>6 DEF Written
  <2>2. CASE req[r].op = "lock"
    <3>1. req'[r].pc = "sync"
      BY <1>0, <1>3, <1>6, <2>2, MovesFacts DEF AfterWrite, Pcs
    <3>2. meta'.name = meta.name  BY <1>3, <1>6, <2>2 DEF Written
    <3>3. Informed(r)' /\ Following(r)'  BY <3>1 DEF Informed, Following, At
    <3>. QED  BY <1>0, <1>4, <2>1, <3>1, <3>2, <3>3, SoloStep
  <2>3. CASE req[r].op # "lock"
    <3>1. /\ req'[r].pc = "refs" /\ req'[r].op = req[r].op /\ req'[r].got = req[r].got
          /\ req'[r].name = req[r].name
      BY <1>0, <1>6, <2>3, MovesFacts DEF AfterWrite, Pcs
    <3>2. meta'.name = req[r].name  BY <1>6, <2>3 DEF Written
    <3>3. Informed(r)' /\ Following(r)'
      BY <1>0, <1>3, <1>4, <3>1, <3>2 DEF Informed, Following, At
    <3>. QED  BY <1>0, <2>1, <3>1, <3>3, SoloStep
  <2>. QED  BY <2>2, <2>3
<1>7. Update(r) => (meta' = Written(r) /\ AfterWrite(r))
                     \/ (meta' = meta /\ Goto(r, "insert") /\ ~meta.row)
  BY DEF Update
<1>8. Insert(r) => meta' = Written(r) /\ AfterWrite(r)
  <2>1. req[r].pc = "insert" => ~meta.row  BY <1>0 DEF Informed
  <2>. QED  BY <2>1 DEF Insert, At
<1>. QED  BY <1>5, <1>6, <1>7, <1>8

\* The references follow, and then the copy.
LEMMA FollowAlone ==
  ASSUME AloneInv, TypeOK', OneAtATime', NEW r \in Requests,
         RewriteRefs(r) \/ UpsertProject(r)
  PROVE  AloneInv'
<1>0. TypeOK /\ Informed(r) /\ Following(r) /\ Handle(r) /\ meta' = meta
  BY DEF AloneInv, Handle, RewriteRefs, UpsertProject
<1>1. CASE RewriteRefs(r)
  <2>1. At(r, "refs") /\ Busy(r) /\ mirror' = mirror /\ req[r].op \in Syncing
    BY <1>0, <1>1 DEF RewriteRefs, Busy, At, Informed
  <2>2. req'[r].pc = "sync"
    BY <1>0, <1>1, <2>1, MovesFacts DEF RewriteRefs, Pcs
  <2>3. ref'.restored \/ ref'.name = meta.name
    <3>1. req[r].name = meta.name /\ (ref.restored \/ ref.name = req[r].got.name)
      BY <1>0, <2>1 DEF Following
    <3>2. ref' = IF ref.name = req[r].got.name THEN [ref EXCEPT !.name = req[r].name]
                 ELSE ref
      BY <1>1 DEF RewriteRefs, OldName
    <3>. QED  BY <1>0, <3>1, <3>2 DEF TypeOK, Ref
  <2>4. Informed(r)' /\ Following(r)'  BY <2>2 DEF Informed, Following, At
  <2>. QED  BY <1>0, <2>2, <2>3, <2>4, SoloStep DEF AloneInv
<1>2. CASE UpsertProject(r)
  <2>1. /\ At(r, "mirror") /\ Busy(r) /\ ref' = ref /\ req'[r] = Idle
        /\ mirror'.name = req[r].got.name /\ mirror'.locked = req[r].got.locked
    BY <1>0, <1>2, MovesFacts DEF UpsertProject, Busy, At
  <2>2. mirror'.name = meta.name /\ mirror'.locked = meta.locked
    BY <1>0, <2>1 DEF Informed, At
  <2>3. ~RefsBehind  BY <2>1, OnlyMine DEF At
  <2>4. Informed(r)' /\ Following(r)'  BY <2>1 DEF Informed, Following, Idle, At
  <2>. QED  BY <1>0, <2>1, <2>2, <2>3, <2>4, SoloStep DEF AloneInv
<1>. QED  BY <1>1, <1>2

\* Every step of a request that is alone keeps the invariant and the lock.
LEMMA HandleAlone ==
  ASSUME ~ReadsFail, AloneInv, OneAtATime', NEW r \in Requests, Handle(r)
  PROVE  AloneInv' /\ (meta.locked => meta'.locked)
<1>1. TypeOK'  BY NextTypes DEF AloneInv, Next
<1>2. CASE Update(r) \/ Insert(r)  BY <1>1, <1>2, WriteAlone
<1>3. CASE ~(Update(r) \/ Insert(r))
  <2>1. meta' = meta
    BY <1>3, Zenon DEF Handle, Begin, Guard, Apply, Restore, Peek, ReadMeta, RewriteRefs, LookUp,
                ReadForMirror, UpsertProject
  <2>2. AloneInv'
    BY <1>1, <1>3, BeginAlone, CalmAlone, ReadAlone, FollowAlone DEF Handle
  <2>. QED  BY <2>1, <2>2
<1>. QED  BY <1>2, <1>3

\* A step of the run that stays in its scenario.
LEMMA ScenarioStep ==
  ASSUME ~ReadsFail, Alone => AloneInv, [MCNext]_<<vars, scenario>>
  PROVE  /\ (Alone => AloneInv)'
         /\ [Alone /\ meta.locked => meta'.locked]_vars
<1>1. CASE MCNext
  <2>1. scenario' = scenario  BY <1>1 DEF MCNext
  <2>2. CASE ~Alone  BY <2>1, <2>2 DEF Alone
  <2>3. CASE Alone
    <3>1. PICK r \in Requests : Handle(r)  BY <1>1, <2>3 DEF MCNext, Alone
    <3>2. OneAtATime'  BY <1>1, <2>3 DEF MCNext, Alone
    <3>. QED  BY <2>1, <2>3, <3>1, <3>2, HandleAlone
  <2>. QED  BY <2>2, <2>3
<1>2. CASE UNCHANGED <<vars, scenario>>
  <2>1. AloneInv => AloneInv'
    BY <1>2 DEF vars, AloneInv, TypeOK, OneAtATime, Informed, Following, RefsBehind,
                MirrorBehind, Busy, At
  <2>. QED  BY <1>2, <2>1 DEF Alone
<1>. QED  BY <1>1, <1>2

LEMMA InitAlone == Init => AloneInv
<1>. SUFFICES ASSUME Init PROVE AloneInv  OBVIOUS
<1>1. TypeOK  BY InitTypes
<1>2. \A r \in Requests : req[r] = Idle  BY DEF Init
<1>3. \A r \in Requests : At(r, "idle")  BY <1>2 DEF Idle, At
<1>4. OneAtATime  BY <1>3 DEF OneAtATime, Busy
<1>5. \A r \in Requests : Informed(r) /\ Following(r)
  BY <1>3 DEF Informed, Following, At
<1>6. (~meta.row => meta = NoRow) /\ (ref.restored \/ ref.name = meta.name) /\ ~mirror.row
  BY DEF Init, NoRow
<1>. QED  BY <1>1, <1>4, <1>5, <1>6 DEF AloneInv

\* What holds while no request is under way.
LEMMA AloneAtRest ==
  ASSUME AloneInv  PROVE RefsFollowName /\ MirrorFollowsMeta
BY DEF AloneInv, RefsFollowName, MirrorFollowsMeta, RefsBehind, MirrorBehind, Busy, At

\* Requests that come one after another leave references to the present name
\* (RenameSolution, developer_utilities.go:111-170), whatever sequence of
\* renames, imports, migrations and locks they make, for every set of names.
THEOREM RefsFollow ==
  ASSUME ~ReadsFail  PROVE MCSpec => []AloneRefsFollowName
<1>1. MCInit => (Alone => AloneInv)  BY InitAlone DEF MCInit
<1>2. (Alone => AloneInv) => AloneRefsFollowName
  BY AloneAtRest DEF AloneRefsFollowName
<1>. QED  BY <1>1, <1>2, ScenarioStep, PTL DEF MCSpec

\* And a copy in the control store that says what the row says
\* (syncProjectRecord, solution_handler.go:61-83).
THEOREM MirrorFollows ==
  ASSUME ~ReadsFail  PROVE MCSpec => []AloneMirrorFollowsMeta
<1>1. MCInit => (Alone => AloneInv)  BY InitAlone DEF MCInit
<1>2. (Alone => AloneInv) => AloneMirrorFollowsMeta
  BY AloneAtRest DEF AloneMirrorFollowsMeta
<1>. QED  BY <1>1, <1>2, ScenarioStep, PTL DEF MCSpec

\* And they never lift the lock (upsertSolutionMeta).
THEOREM LockStays ==
  ASSUME ~ReadsFail  PROVE MCSpec => AloneLockIsForever
<1>1. MCInit => (Alone => AloneInv)  BY InitAlone DEF MCInit
<1>. QED  BY <1>1, ScenarioStep, PTL DEF MCSpec, AloneLockIsForever
=============================================================================
