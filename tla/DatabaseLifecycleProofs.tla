----------------------- MODULE DatabaseLifecycleProofs -----------------------
(***************************************************************************)
(* What holds of DatabaseLifecycle for every number of requests, sign-ins  *)
(* and databases, whether or not clients hang up and the server restarts.  *)
(***************************************************************************)
EXTENDS MCDatabaseLifecycle, TLAPS

Databases == [inc : 0 .. MaxInc, owners : SUBSET Incs, copies : SUBSET Incs]

USE LifecycleAssumption DEF Makers, Databases

----------------------------------------------------------------------------
(* Requests that go on.                                                    *)

\* q handles what it handled before, at the same statement.
Same(q) ==
  /\ req'[q].pc = req[q].pc /\ req'[q].op = req[q].op /\ req'[q].tok = req[q].tok
  /\ req'[q].acct = req[q].acct /\ req'[q].inc = req[q].inc

\* r goes on at pc, and nobody else is touched, but for the pools shut under them.
Moves(r, pc) ==
  /\ req'[r].pc = pc /\ req'[r].op = req[r].op /\ req'[r].tok = req[r].tok
  /\ req'[r].acct = req[r].acct /\ req'[r].inc = req[r].inc
  /\ \A q \in Requests : q # r => Same(q)

Ends(r) == req'[r] = Idle /\ \A q \in Requests : q # r => Same(q)

\* A pool is shut, or every handle is what it was.
HandlesKept == \A q \in Requests : req'[q].handle \in {req[q].handle, "none"}
HandlesShut == \A q \in Requests : req'[q].handle # "open"

LEMMA IdleType == Idle \in Request
BY DEF Idle, Request, Pcs, Ops

\* Goto.
LEMMA GotoMoves ==
  ASSUME req \in [Requests -> Request], NEW r \in Requests, NEW pc \in Pcs, Goto(r, pc)
  PROVE  req' \in [Requests -> Request] /\ Moves(r, pc) /\ HandlesKept
<1>1. req[r] \in Request
  OBVIOUS
<1>2. req' = [req EXCEPT ![r] = [req[r] EXCEPT !.pc = pc]]
  BY DEF Goto
<1>3. [req[r] EXCEPT !.pc = pc] \in Request
  BY <1>1 DEF Request
<1>4. req'[r] = [req[r] EXCEPT !.pc = pc] /\ \A q \in Requests : q # r => req'[q] = req[q]
  BY <1>2
<1>5. req' \in [Requests -> Request]
  BY <1>2, <1>3
<1>6. Moves(r, pc)
  BY <1>1, <1>4 DEF Moves, Same, Request
<1>7. req'[r].handle = req[r].handle
  BY <1>1, <1>4 DEF Request
<1> QED BY <1>4, <1>5, <1>6, <1>7 DEF HandlesKept

\* Done.
LEMMA DoneEnds ==
  ASSUME req \in [Requests -> Request], NEW r \in Requests, Done(r)
  PROVE  req' \in [Requests -> Request] /\ Ends(r) /\ HandlesKept
<1>1. req'[r] = Idle /\ \A q \in Requests : q # r => req'[q] = req[q]
  BY DEF Done
<1> QED BY <1>1, IdleType DEF Done, Ends, Same, HandlesKept, Idle

\* Shut closes handles and changes nothing else.
LEMMA ShutTypes ==
  ASSUME req \in [Requests -> Request]
  PROVE  /\ Shut(req) \in [Requests -> Request]
         /\ \A q \in Requests : /\ Shut(req)[q].handle # "open"
                                /\ Shut(req)[q].pc = req[q].pc
                                /\ Shut(req)[q].op = req[q].op
                                /\ Shut(req)[q].tok = req[q].tok
                                /\ Shut(req)[q].acct = req[q].acct
                                /\ Shut(req)[q].inc = req[q].inc
                                /\ Shut(req)[q].ended = req[q].ended
<1>1. ASSUME NEW q \in Requests
      PROVE  LET s == IF req[q].handle = "open"
                      THEN [req[q] EXCEPT !.handle = "closed"] ELSE req[q]
             IN /\ s \in Request /\ s.handle # "open"
                /\ s.pc = req[q].pc /\ s.op = req[q].op /\ s.tok = req[q].tok
                /\ s.acct = req[q].acct /\ s.inc = req[q].inc /\ s.ended = req[q].ended
  <2>1. req[q] \in Request
    OBVIOUS
  <2> QED BY <2>1 DEF Request
<1> QED BY <1>1 DEF Shut

\* Fail: makers clean up, collectProjects goes on, the others end.
LEMMA FailMoves ==
  ASSUME req \in [Requests -> Request], NEW r \in Requests,
         Fail(r, req) \/ Fail(r, Shut(req))
  PROVE  /\ req' \in [Requests -> Request]
         /\ \/ Makes(r) /\ Moves(r, "close")
            \/ Is(r, "list") /\ Moves(r, "upsert")
            \/ ~Makes(r) /\ Ends(r)
         /\ Fail(r, req) => HandlesKept
         /\ Fail(r, Shut(req)) => HandlesShut
<1>1. ASSUME NEW rq \in [Requests -> Request], Fail(r, rq),
             \A q \in Requests : /\ rq[q].pc = req[q].pc /\ rq[q].op = req[q].op
                                 /\ rq[q].tok = req[q].tok /\ rq[q].acct = req[q].acct
                                 /\ rq[q].inc = req[q].inc
      PROVE  /\ req' \in [Requests -> Request]
             /\ \/ Makes(r) /\ Moves(r, "close")
                \/ Is(r, "list") /\ Moves(r, "upsert")
                \/ ~Makes(r) /\ Ends(r)
             /\ \A q \in Requests : req'[q].handle \in {rq[q].handle, "none"}
  <2>1. rq[r] \in Request
    OBVIOUS
  <2>2. ASSUME NEW pc \in {"close", "upsert"}, req' = [rq EXCEPT ![r].pc = pc]
        PROVE  /\ req' \in [Requests -> Request] /\ Moves(r, pc)
               /\ \A q \in Requests : req'[q].handle = rq[q].handle
    <3>1. [rq[r] EXCEPT !.pc = pc] \in Request
      BY <2>1 DEF Request, Pcs
    <3>2. req' = [rq EXCEPT ![r] = [rq[r] EXCEPT !.pc = pc]]
      BY <2>2
    <3>3. req'[r] = [rq[r] EXCEPT !.pc = pc] /\ \A q \in Requests : q # r => req'[q] = rq[q]
      BY <3>2
    <3>4. /\ req'[r].pc = pc /\ req'[r].op = rq[r].op /\ req'[r].tok = rq[r].tok
          /\ req'[r].acct = rq[r].acct /\ req'[r].inc = rq[r].inc
          /\ req'[r].handle = rq[r].handle
      BY <2>1, <3>3 DEF Request
    <3> QED BY <1>1, <3>1, <3>2, <3>3, <3>4 DEF Moves, Same
  <2>3. ASSUME req' = [rq EXCEPT ![r] = Idle]
        PROVE  /\ req' \in [Requests -> Request] /\ Ends(r)
               /\ \A q \in Requests : req'[q].handle \in {rq[q].handle, "none"}
    <3>1. req'[r] = Idle /\ \A q \in Requests : q # r => req'[q] = rq[q]
      BY <2>3
    <3> QED BY <1>1, <2>3, <3>1, IdleType DEF Ends, Same, Idle
  <2> QED BY <1>1, <2>2, <2>3 DEF Fail
<1>2. CASE Fail(r, req) /\ ~Fail(r, Shut(req))
  BY <1>1, <1>2 DEF HandlesKept
<1>3. CASE Fail(r, Shut(req))
  <2>1. /\ req' \in [Requests -> Request]
        /\ \/ Makes(r) /\ Moves(r, "close")
           \/ Is(r, "list") /\ Moves(r, "upsert")
           \/ ~Makes(r) /\ Ends(r)
        /\ \A q \in Requests : req'[q].handle \in {Shut(req)[q].handle, "none"}
    BY <1>1, <1>3, ShutTypes
  <2>2. HandlesShut
    BY <2>1, ShutTypes DEF HandlesShut
  <2>3. Fail(r, req) => HandlesKept
    BY <1>1 DEF HandlesKept
  <2> QED BY <2>1, <2>2, <2>3
<1> QED BY <1>2, <1>3

----------------------------------------------------------------------------
(* Which request is where.                                                 *)

\* A handler is only at the statements of its operation, and from the statement on
\* that decides it, it bears the number of the database it works for.
InPlace(r) ==
  /\ req[r].pc \in {"create", "ensure", "count", "import"} => Makes(r)
  /\ Makes(r) /\ ~At(r, "create") => req[r].acct \in Incs /\ req[r].inc \in Incs
  /\ Is(r, "use") => req[r].tok # NoToken
  /\ req[r].tok # NoToken => req[r].op \in {"use", "delete"} /\ req[r].inc \in Incs
  /\ At(r, "stamp") => req[r].tok # NoToken
  /\ At(r, "work") => req[r].tok # NoToken
  /\ At(r, "auth") => req[r].op \in {"login", "delete"}
  /\ At(r, "session") => Is(r, "login") /\ req[r].inc \in Incs

Typed ==
  /\ TypeOK
  /\ \A r \in Requests : InPlace(r)
  /\ \A t \in Tokens : session[t].st = "live" => session[t].inc \in Incs

LEMMA SameInPlace ==
  ASSUME NEW r \in Requests, InPlace(r), Same(r)
  PROVE  InPlace(r)'
BY DEF InPlace, Same, Makes, At, Is

LEMMA IdleInPlace ==
  ASSUME NEW r \in Requests, req'[r] = Idle
  PROVE  InPlace(r)'
BY DEF InPlace, Idle, Makes, At, Is

\* Requests that go on, with pools as they were or closed, keep the types.
LEMMA MovesTyped ==
  ASSUME Typed, NEW r \in Requests, req' \in [Requests -> Request],
         \A q \in Requests : q # r => Same(q), InPlace(r)',
         (HandlesKept /\ pool' = pool) \/ HandlesShut,
         pool' \in [inc : 0 .. MaxInc, mid : BOOLEAN],
         db' \in Databases, last' \in 0 .. MaxInc, born' \subseteq Incs,
         proj' \in BOOLEAN, UNCHANGED session,
         stray' \subseteq Effect, excused' \subseteq Incs
  PROVE  Typed'
<1>1. \A q \in Requests : InPlace(q)'
  BY SameInPlace DEF Typed
<1>2. \A q \in Requests : req'[q].handle = "open" => pool' # NoPool
  BY DEF Typed, TypeOK, HandlesKept, HandlesShut
<1> QED BY <1>1, <1>2 DEF Typed, TypeOK

\* An effect is noted on the database there is (Note).
LEMMA NoteTyped ==
  ASSUME Typed, NEW r \in Requests, NEW what \in {"drop", "own", "work"}, Note(what, r),
         Exists
  PROVE  stray' \subseteq Effect
<1>1. pool.mid \in BOOLEAN /\ (req[r].acct \in db.copies) \in BOOLEAN
  BY DEF Typed, TypeOK
<1>2. [what |-> what, mid |-> pool.mid, copied |-> req[r].acct \in db.copies] \in Effect
  BY <1>1 DEF Effect
<1> QED BY <1>2 DEF Note, Typed, TypeOK

\* The server starts idle.
LEMMA InitTyped == Init => Typed
<1> SUFFICES ASSUME Init PROVE Typed
  OBVIOUS
<1>1. NoDb \in Databases
  BY DEF NoDb
<1>2. NoPool \in [inc : 0 .. MaxInc, mid : BOOLEAN]
  BY DEF NoPool
<1>3. Fresh \in Session /\ Fresh.st # "live"
  BY DEF Fresh, Session
<1>4. \A r \in Requests : InPlace(r)
  BY DEF Init, InPlace, Idle, Makes, At, Is
<1>5. \A r \in Requests : req[r].handle # "open"
  BY DEF Init, Idle
<1>6. 0 \in 0 .. MaxInc
  OBVIOUS
<1>7. TypeOK
  BY <1>1, <1>2, <1>3, <1>5, <1>6, IdleType DEF Init, TypeOK
<1>8. \A t \in Tokens : session[t].st # "live"
  BY <1>3 DEF Init
<1> QED BY <1>4, <1>7, <1>8 DEF Typed

\* A request that arrives.
LEMMA BeginTyped ==
  ASSUME Typed, NEW r \in Requests,
         \/ \E op \in Ops : BeginMaking(r, op)
         \/ \E op \in Ops, k \in Incs : BeginWithPassword(r, op, k)
         \/ \E op \in Ops, t \in Tokens : BeginWithToken(r, op, t)
         \/ BeginList(r)
  PROVE  Typed'
<1>1. ASSUME NEW rq \in Request, req' = [req EXCEPT ![r] = rq], rq.handle = "none",
             InPlace(r)', UNCHANGED <<db, last, born, pool, proj, session, stray, excused>>
      PROVE  Typed'
  <2>1. req'[r] = rq /\ \A q \in Requests : q # r => req'[q] = req[q]
    BY <1>1 DEF Typed, TypeOK
  <2>2. HandlesKept /\ \A q \in Requests : q # r => Same(q)
    BY <1>1, <2>1 DEF HandlesKept, Same
  <2> QED BY <1>1, <2>2, MovesTyped DEF Typed, TypeOK
<1>2. ASSUME NEW op \in Ops, BeginMaking(r, op) PROVE Typed'
  <2> DEFINE rq == [Idle EXCEPT !.pc = "create", !.op = op]
  <2>1. /\ rq.pc = "create" /\ rq.op = op /\ rq.tok = NoToken /\ rq.acct = 0
        /\ rq.inc = 0 /\ rq.handle = "none" /\ rq.ended = FALSE
    BY DEF Idle
  <2>2. rq \in Request /\ req' = [req EXCEPT ![r] = rq] /\ op \in Makers
    BY <1>2, IdleType DEF BeginMaking, Request, Pcs
  <2>3. req'[r] = rq
    BY <2>2 DEF Typed, TypeOK
  <2>4. InPlace(r)'
    BY <2>1, <2>2, <2>3 DEF InPlace, Makes, At, Is
  <2> QED BY <1>1, <1>2, <2>1, <2>2, <2>4 DEF BeginMaking
<1>3. ASSUME NEW op \in Ops, NEW k \in Incs, BeginWithPassword(r, op, k) PROVE Typed'
  <2> DEFINE rq == [Idle EXCEPT !.pc = "lookup", !.op = op, !.acct = k]
  <2>1. /\ rq.pc = "lookup" /\ rq.op = op /\ rq.tok = NoToken /\ rq.acct = k
        /\ rq.inc = 0 /\ rq.handle = "none" /\ rq.ended = FALSE
    BY DEF Idle
  <2>2. rq \in Request /\ req' = [req EXCEPT ![r] = rq] /\ op \in {"login", "delete"}
    <3>1. k \in 0 .. MaxInc
      BY DEF Incs
    <3> QED BY <1>3, <3>1, IdleType DEF BeginWithPassword, Request, Pcs
  <2>3. req'[r] = rq
    BY <2>2 DEF Typed, TypeOK
  <2>4. InPlace(r)'
    BY <2>1, <2>2, <2>3 DEF InPlace, Makes, At, Is
  <2> QED BY <1>1, <1>3, <2>1, <2>2, <2>4 DEF BeginWithPassword
<1>4. ASSUME NEW op \in Ops, NEW t \in Tokens, BeginWithToken(r, op, t) PROVE Typed'
  <2> DEFINE rq == [Idle EXCEPT !.pc = "driver", !.op = op, !.tok = t,
                                 !.acct = session[t].acct, !.inc = session[t].inc]
  <2>1. /\ rq.pc = "driver" /\ rq.op = op /\ rq.tok = t /\ rq.acct = session[t].acct
        /\ rq.inc = session[t].inc /\ rq.handle = "none" /\ rq.ended = FALSE
    BY DEF Idle
  <2>2. /\ session[t].acct \in 0 .. MaxInc /\ session[t].inc \in Incs /\ t # NoToken
        /\ session[t].inc \in 0 .. MaxInc
    BY <1>4 DEF BeginWithToken, Typed, TypeOK, Session
  <2>3. rq \in Request /\ req' = [req EXCEPT ![r] = rq] /\ op \in {"use", "delete"}
    BY <1>4, <2>2, IdleType DEF BeginWithToken, Request, Pcs
  <2>4. req'[r] = rq
    BY <2>3 DEF Typed, TypeOK
  <2>5. InPlace(r)'
    BY <2>1, <2>2, <2>3, <2>4 DEF InPlace, Makes, At, Is
  <2> QED BY <1>1, <1>4, <2>1, <2>3, <2>5 DEF BeginWithToken
<1>5. CASE BeginList(r)
  <2> DEFINE rq == [Idle EXCEPT !.pc = "list"]
  <2>1. /\ rq.pc = "list" /\ rq.op = "list" /\ rq.tok = NoToken /\ rq.acct = 0
        /\ rq.inc = 0 /\ rq.handle = "none" /\ rq.ended = FALSE
    BY DEF Idle
  <2>2. rq \in Request /\ req' = [req EXCEPT ![r] = rq]
    BY <1>5, IdleType DEF BeginList, Request, Pcs, Ops
  <2>3. req'[r] = rq
    BY <2>2 DEF Typed, TypeOK
  <2>4. InPlace(r)'
    BY <2>1, <2>2, <2>3 DEF InPlace, Makes, At, Is
  <2> QED BY <1>1, <1>5, <2>1, <2>2, <2>4 DEF BeginList
<1> QED BY <1>2, <1>3, <1>4, <1>5

\* A request that moves on to a statement of its operation, its pool as it was.
LEMMA MoveInPlace ==
  ASSUME Typed, NEW r \in Requests, NEW pc \in Pcs, Moves(r, pc),
         ~At(r, "create") \/ ~Makes(r),
         pc \in {"create", "ensure", "count", "import"} => Makes(r),
         pc \in {"stamp", "work"} => req[r].tok # NoToken,
         pc = "auth" => req[r].op \in {"login", "delete"},
         pc # "session"
  PROVE  InPlace(r)'
BY DEF Typed, InPlace, Moves, Makes, At, Is

\* Ending a request keeps the types, whatever happens to the resources meanwhile.
LEMMA EndsTyped ==
  ASSUME Typed, NEW r \in Requests, req' \in [Requests -> Request], Ends(r), HandlesKept,
         UNCHANGED <<last, pool, session>>,
         db' \in Databases, proj' \in BOOLEAN, born' \subseteq Incs,
         stray' \subseteq Effect, excused' \subseteq Incs
  PROVE  Typed'
<1>1. InPlace(r)'
  BY IdleInPlace DEF Ends
<1> QED BY <1>1, MovesTyped DEF Ends, Typed, TypeOK

\* An error keeps the types.
LEMMA FailTyped ==
  ASSUME Typed, NEW r \in Requests, Fail(r, req), ~At(r, "create") \/ ~Makes(r),
         UNCHANGED <<db, last, born, pool, proj, session, stray, excused>>
  PROVE  Typed'
<1>1. req \in [Requests -> Request]
  BY DEF Typed, TypeOK
<1>2. CASE Ends(r)
  BY <1>1, <1>2, FailMoves, EndsTyped DEF Typed, TypeOK
<1>3. ASSUME NEW pc \in {"close", "upsert"}, Moves(r, pc) PROVE Typed'
  <2>1. InPlace(r)'
    BY <1>3, MoveInPlace DEF Pcs
  <2> QED BY <1>1, <1>3, <2>1, FailMoves, MovesTyped DEF Moves, Typed, TypeOK
<1> QED BY <1>1, <1>2, <1>3, FailMoves

\* A step to the next statement keeps the types.
LEMMA GotoTyped ==
  ASSUME Typed, NEW r \in Requests, NEW pc \in Pcs, Goto(r, pc),
         ~At(r, "create") \/ ~Makes(r),
         pc \in {"create", "ensure", "count", "import"} => Makes(r),
         pc \in {"stamp", "work"} => req[r].tok # NoToken,
         pc = "auth" => req[r].op \in {"login", "delete"},
         pc # "session",
         UNCHANGED <<last, pool, session>>,
         db' \in Databases, proj' \in BOOLEAN, born' \subseteq Incs,
         stray' \subseteq Effect, excused' \subseteq Incs
  PROVE  Typed'
<1>1. req \in [Requests -> Request]
  BY DEF Typed, TypeOK
<1>2. req' \in [Requests -> Request] /\ Moves(r, pc) /\ HandlesKept
  BY <1>1, GotoMoves
<1>3. InPlace(r)'
  BY <1>2, MoveInPlace
<1> QED BY <1>2, <1>3, MovesTyped DEF Moves, Typed, TypeOK

\* Making a database keeps the types.
LEMMA MakeTyped ==
  ASSUME Typed, NEW r \in Requests, CreateDb(r) \/ Ensure(r) \/ Count(r) \/ Import(r)
  PROVE  Typed'
<1>0. /\ req \in [Requests -> Request] /\ InPlace(r) /\ req[r] \in Request
      /\ db.inc \in 0 .. MaxInc /\ db.owners \subseteq Incs /\ last \in 0 .. MaxInc /\ born \subseteq Incs
      /\ stray \subseteq Effect /\ excused \subseteq Incs /\ proj \in BOOLEAN
      /\ db \in Databases
      /\ pool \in [inc : 0 .. MaxInc, mid : BOOLEAN]
  BY DEF Typed, TypeOK
<1>1. CASE CreateDb(r)
  <2>1. CASE Done(r) /\ UNCHANGED <<db, last>>
    BY <1>0, <1>1, <2>1, DoneEnds, EndsTyped DEF CreateDb
  <2>2. CASE /\ last < MaxInc /\ last' = last + 1 /\ db' = [NoDb EXCEPT !.inc = last']
             /\ \E k \in Incs : req' = [req EXCEPT ![r].pc = "driver", ![r].acct = k,
                                                  ![r].inc = last']
    <3>0. PICK k \in Incs :
            req' = [req EXCEPT ![r].pc = "driver", ![r].acct = k, ![r].inc = last']
      BY <2>2
    <3>1. last' \in Incs /\ last' \in 0 .. MaxInc /\ k \in 0 .. MaxInc
      BY <1>0, <2>2 DEF Incs
    <3>2. db' \in Databases
      BY <2>2, <3>1 DEF NoDb
    <3> DEFINE rq == [req[r] EXCEPT !.pc = "driver", !.acct = k, !.inc = last']
    <3>3. req' = [req EXCEPT ![r] = rq]
      BY <3>0
    <3>4. /\ rq \in Request /\ rq.op = req[r].op /\ rq.tok = req[r].tok
          /\ rq.handle = req[r].handle /\ rq.pc = "driver" /\ rq.acct = k
          /\ rq.inc = last'
      BY <1>0, <3>1 DEF Request, Pcs
    <3> HIDE DEF rq
    <3>5. req'[r] = rq /\ \A q \in Requests : q # r => req'[q] = req[q]
      BY <1>0, <3>3
    <3>6. req' \in [Requests -> Request] /\ HandlesKept /\ \A q \in Requests : q # r => Same(q)
      BY <1>0, <3>3, <3>4, <3>5 DEF HandlesKept, Same
    <3>7. Makes(r) /\ At(r, "create")
      BY <1>0, <1>1 DEF CreateDb, InPlace, At
    <3>8. InPlace(r)'
      BY <1>0, <3>1, <3>4, <3>5, <3>7 DEF InPlace, Makes, At, Is
    <3> QED BY <1>0, <1>1, <3>1, <3>2, <3>6, <3>8, MovesTyped DEF CreateDb
  <2>3. last < MaxInc /\ last' = last + 1 => born \cup {last'} \subseteq Incs
    BY <1>0 DEF Incs
  <2> QED BY <1>1, <2>1, <2>2, <2>3 DEF CreateDb, Taken
<1>2. CASE Ensure(r)
  <2>1. Makes(r) /\ ~At(r, "create") /\ req[r].acct \in Incs /\ req[r].inc \in Incs
    BY <1>0, <1>2 DEF Ensure, InPlace, At
  <2>2. CASE Fail(r, req) /\ UNCHANGED <<db, born, stray, excused>>
    BY <1>2, <2>1, <2>2, FailTyped DEF Ensure
  <2>3. CASE /\ Answered(r) /\ Goto(r, IF Is(r, "create") THEN "count" ELSE "import")
             /\ InsertOwner(r) \/ CopyOwner(r)
    <3>1. db' \in Databases /\ born' \subseteq Incs
      <4>1. /\ db.owners \cup {req[r].acct} \in SUBSET Incs
            /\ db.copies \cup {req[r].acct} \in SUBSET Incs
            /\ born \cup {req[r].acct} \subseteq Incs
        BY <1>0, <2>1
      <4>2. [db EXCEPT !.owners = @ \cup {req[r].acct}] \in Databases
        BY <1>0, <4>1
      <4>3. [db EXCEPT !.owners = @ \cup {req[r].acct},
                       !.copies = @ \cup {req[r].acct}] \in Databases
        BY <1>0, <4>1
      <4> QED BY <1>0, <2>3, <4>1, <4>2, <4>3 DEF InsertOwner, CopyOwner
    <3>2. excused' \subseteq Incs
      <4>1. excused \cup {req[r].inc} \subseteq Incs
        BY <1>0, <2>1
      <4> QED BY <1>0, <2>3, <4>1 DEF InsertOwner, CopyOwner
    <3>3. stray' \subseteq Effect
      BY <1>0, <2>3, NoteTyped DEF InsertOwner, CopyOwner, Answered
    <3> QED BY <1>0, <1>2, <2>1, <2>3, <3>1, <3>2, <3>3, GotoTyped DEF Ensure, Pcs
  <2> QED BY <1>2, <2>2, <2>3 DEF Ensure
<1>3. CASE Count(r)
  <2>1. ~At(r, "create")
    BY <1>3 DEF Count, At
  <2>2. CASE Fail(r, req)
    BY <1>3, <2>1, <2>2, FailTyped DEF Count
  <2>3. CASE Goto(r, "upsert")
    BY <1>0, <1>3, <2>1, <2>3, GotoTyped DEF Count, Pcs
  <2> QED BY <1>3, <2>2, <2>3 DEF Count
<1>4. CASE Import(r)
  <2>1. ~At(r, "create")
    BY <1>4 DEF Import, At
  <2>2. CASE Fail(r, req)
    BY <1>4, <2>1, <2>2, FailTyped DEF Import
  <2>3. CASE Goto(r, "upsert")
    BY <1>0, <1>4, <2>1, <2>3, GotoTyped DEF Import, Pcs
  <2> QED BY <1>4, <2>2, <2>3 DEF Import
<1> QED BY <1>1, <1>2, <1>3, <1>4

\* Looking for the database, and opening its pool, keep the types.
LEMMA LookTyped ==
  ASSUME Typed, NEW r \in Requests, Look(r)
  PROVE  Typed'
<1>0. /\ req \in [Requests -> Request] /\ InPlace(r) /\ req[r] \in Request
      /\ db.inc \in 0 .. MaxInc
      /\ stray \subseteq Effect /\ excused \subseteq Incs /\ proj \in BOOLEAN
      /\ last \in 0 .. MaxInc /\ born \subseteq Incs
      /\ db \in Databases
      /\ pool \in [inc : 0 .. MaxInc, mid : BOOLEAN]
  BY DEF Typed, TypeOK
<1>1. CASE Lookup(r) \/ List(r) \/ Peek(r) \/ Upsert(r)
  <2>1. ~At(r, "create")
    BY <1>1 DEF Lookup, List, Peek, Upsert, At
  <2>2. proj' \in BOOLEAN /\ UNCHANGED <<db, last, born, pool, session, stray, excused>>
    BY <1>0, <1>1 DEF Lookup, List, Peek, Upsert
  <2>3. CASE Done(r)
    BY <1>0, <2>2, <2>3, DoneEnds, EndsTyped
  <2>4. ASSUME NEW pc \in {"driver", "close", "peek"}, Goto(r, pc) PROVE Typed'
    BY <1>0, <2>1, <2>2, <2>4, GotoTyped DEF Pcs
  <2> QED BY <1>1, <2>3, <2>4 DEF Lookup, List, Peek, Upsert
<1>2. CASE Driver(r)
  <2>1. ~At(r, "create") /\ UNCHANGED <<db, last, born, proj, session, stray, excused>>
    BY <1>2 DEF Driver, At
  <2>2. CASE pool' = NoPool /\ Fail(r, Shut(req))
    <3>1. req' \in [Requests -> Request] /\ HandlesShut
      BY <1>0, <2>2, FailMoves
    <3>2. pool' \in [inc : 0 .. MaxInc, mid : BOOLEAN]
      BY <2>2 DEF NoPool
    <3>3. InPlace(r)' /\ \A q \in Requests : q # r => Same(q)
      <4>1. ASSUME NEW pc \in {"close", "upsert"}, Moves(r, pc) PROVE InPlace(r)'
        BY <2>1, <4>1, MoveInPlace DEF Pcs
      <4> QED BY <1>0, <2>2, <4>1, FailMoves, IdleInPlace DEF Moves, Ends
    <3> QED BY <1>0, <2>1, <3>1, <3>2, <3>3, MovesTyped
  <2>3. CASE /\ pool' = IF pool = NoPool THEN [inc |-> db.inc, mid |-> Dropping] ELSE pool
             /\ req' = [req EXCEPT ![r].pc = AfterDriver(r), ![r].handle = "open"]
             /\ Exists
    <3>1. pool' \in [inc : 0 .. MaxInc, mid : BOOLEAN] /\ pool' # NoPool
      <4>1. Dropping \in BOOLEAN
        BY DEF Dropping
      <4>2. [inc |-> db.inc, mid |-> Dropping] \in [inc : 0 .. MaxInc, mid : BOOLEAN]
        BY <1>0, <4>1
      <4>3. [inc |-> db.inc, mid |-> Dropping] # NoPool
        BY <2>3 DEF NoPool, Exists
      <4> QED BY <1>0, <2>3, <4>2, <4>3
    <3> DEFINE rq == [req[r] EXCEPT !.pc = AfterDriver(r), !.handle = "open"]
    <3>2. req' = [req EXCEPT ![r] = rq]
      BY <2>3
    <3>3. AfterDriver(r) \in Pcs
      BY DEF AfterDriver, Pcs
    <3>4. /\ rq \in Request /\ rq.op = req[r].op /\ rq.tok = req[r].tok
          /\ rq.pc = AfterDriver(r) /\ rq.acct = req[r].acct /\ rq.inc = req[r].inc
      BY <1>0, <3>3 DEF Request
    <3> HIDE DEF rq
    <3>5. req'[r] = rq /\ \A q \in Requests : q # r => req'[q] = req[q]
      BY <1>0, <3>2
    <3>6. Moves(r, AfterDriver(r)) /\ req' \in [Requests -> Request]
      BY <1>0, <3>2, <3>4, <3>5 DEF Moves, Same
    <3>7. InPlace(r)'
      <4>1. /\ AfterDriver(r) \in {"create", "ensure", "count", "import"} => Makes(r)
            /\ AfterDriver(r) \in {"stamp", "work"} => req[r].tok # NoToken
            /\ AfterDriver(r) # "session"
        BY DEF AfterDriver
      <4>2. AfterDriver(r) = "auth" => req[r].op \in {"login", "delete"}
        <5>1. req[r].op \in Ops /\ (Is(r, "use") => req[r].tok # NoToken)
          BY <1>0 DEF InPlace, Request
        <5> QED BY <5>1 DEF AfterDriver, Makes, Is, Ops
      <4> QED BY <2>1, <3>3, <3>6, <4>1, <4>2, MoveInPlace
    <3>8. \A q \in Requests : InPlace(q)'
      BY <3>6, <3>7, SameInPlace DEF Moves, Typed
    <3> QED BY <2>1, <3>1, <3>6, <3>8 DEF Typed, TypeOK
  <2> QED BY <1>2, <2>2, <2>3 DEF Driver
<1> QED BY <1>1, <1>2 DEF Look

\* Ending sessions keeps their types, and adds none (RevokeDatabase).
LEMMA EndType ==
  ASSUME Typed, NEW T \in SUBSET Tokens, End(T)
  PROVE  /\ session' \in [Tokens -> Session]
         /\ \A t \in Tokens : session'[t].st = "live" => session'[t] = session[t]
<1>1. [Fresh EXCEPT !.st = "gone"] \in Session /\ [Fresh EXCEPT !.st = "gone"].st = "gone"
  BY DEF Fresh, Session
<1> QED BY <1>1 DEF End, Typed, TypeOK

\* Signing in, the guard and the work behind it keep the types.
LEMMA EnterTyped ==
  ASSUME Typed, NEW r \in Requests,
         Auth(r) \/ Stamp(r) \/ Work(r) \/ \E t \in Tokens : OpenSession(r, t)
  PROVE  Typed'
<1>0. /\ req \in [Requests -> Request] /\ InPlace(r) /\ req[r] \in Request
      /\ db.inc \in 0 .. MaxInc
      /\ stray \subseteq Effect /\ excused \subseteq Incs /\ proj \in BOOLEAN
      /\ last \in 0 .. MaxInc /\ born \subseteq Incs
      /\ db \in Databases
      /\ pool \in [inc : 0 .. MaxInc, mid : BOOLEAN]
  BY DEF Typed, TypeOK
<1>1. CASE Auth(r)
  <2>1. CASE Done(r)
    BY <1>0, <1>1, <2>1, DoneEnds, EndsTyped DEF Auth
  <2>2. CASE /\ Answered(r)
             /\ req' = [req EXCEPT ![r].inc = db.inc,
                                   ![r].pc = IF Is(r, "login") THEN "session" ELSE "close"]
    <3> DEFINE pc == IF Is(r, "login") THEN "session" ELSE "close"
               rq == [req[r] EXCEPT !.inc = db.inc, !.pc = pc]
    <3>1. req' = [req EXCEPT ![r] = rq] /\ pc \in Pcs
      BY <2>2 DEF Pcs
    <3>2. /\ rq \in Request /\ rq.op = req[r].op /\ rq.tok = req[r].tok
          /\ rq.pc = pc /\ rq.acct = req[r].acct /\ rq.inc = db.inc
          /\ rq.handle = req[r].handle
      BY <1>0, <3>1 DEF Request
    <3> HIDE DEF rq
    <3>3. req'[r] = rq /\ \A q \in Requests : q # r => req'[q] = req[q]
      BY <1>0, <3>1
    <3>4. /\ req' \in [Requests -> Request] /\ HandlesKept
          /\ \A q \in Requests : q # r => Same(q)
      BY <1>0, <3>1, <3>2, <3>3 DEF HandlesKept, Same
    <3>5. /\ req[r].op \in {"login", "delete"} /\ db.inc \in Incs
          /\ req[r].tok # NoToken => req[r].op \in {"use", "delete"}
      BY <1>0, <1>1, <2>2 DEF Auth, InPlace, Answered, Exists, Incs
    <3>6. InPlace(r)'
      BY <3>2, <3>3, <3>5 DEF InPlace, Makes, At, Is
    <3> QED BY <1>0, <1>1, <3>4, <3>6, MovesTyped DEF Auth
  <2> QED BY <1>1, <2>1, <2>2 DEF Auth
<1>3. CASE Stamp(r)
  <2>1. req[r].tok # NoToken /\ req[r].tok \in Tokens /\ ~At(r, "create")
    BY <1>0, <1>3 DEF Stamp, InPlace, Request, At
  <2>2. CASE UNCHANGED session /\ Done(r)
    BY <1>0, <1>3, <2>2, DoneEnds, EndsTyped DEF Stamp
  <2>3. CASE UNCHANGED session /\ Goto(r, IF Is(r, "use") THEN "work" ELSE "lookup")
    BY <1>0, <1>3, <2>1, <2>3, GotoTyped DEF Stamp, Pcs
  <2>4. CASE End({req[r].tok}) /\ Done(r)
    <3>1. /\ session' \in [Tokens -> Session]
          /\ \A t \in Tokens : session'[t].st = "live" => session'[t] = session[t]
      BY <2>1, <2>4, EndType
    <3>2. /\ req' \in [Requests -> Request] /\ HandlesKept
          /\ \A q \in Requests : InPlace(q)'
      BY <1>0, <2>4, DoneEnds, IdleInPlace, SameInPlace DEF Ends, Typed
    <3>3. UNCHANGED <<db, last, born, pool, proj, stray, excused>>
      BY <1>3 DEF Stamp
    <3> QED BY <3>1, <3>2, <3>3 DEF Typed, TypeOK, HandlesKept
  <2> QED BY <1>3, <2>2, <2>3, <2>4 DEF Stamp
<1>4. CASE Work(r)
  <2>1. stray' \subseteq Effect
    BY <1>0, <1>4, NoteTyped DEF Work, Answered
  <2> QED BY <1>0, <1>4, <2>1, DoneEnds, EndsTyped DEF Work
<1>5. ASSUME NEW t \in Tokens, OpenSession(r, t) PROVE Typed'
  <2>1. /\ req[r].inc \in Incs /\ req[r].inc \in 0 .. MaxInc /\ req[r].acct \in 0 .. MaxInc
    BY <1>0, <1>5 DEF OpenSession, InPlace, Request
  <2>2. [st |-> "live", acct |-> req[r].acct, inc |-> req[r].inc] \in Session
    BY <2>1 DEF Session
  <2>3. /\ session' \in [Tokens -> Session]
        /\ \A u \in Tokens : session'[u].st = "live" => session'[u].inc \in Incs
    BY <1>5, <2>1, <2>2 DEF OpenSession, Typed, TypeOK
  <2>4. /\ req' \in [Requests -> Request] /\ HandlesKept
        /\ \A q \in Requests : InPlace(q)'
    BY <1>0, <1>5, DoneEnds, IdleInPlace, SameInPlace DEF Ends, Typed, OpenSession
  <2>5. UNCHANGED <<db, last, born, pool, proj, stray, excused>>
    BY <1>5 DEF OpenSession
  <2> QED BY <2>3, <2>4, <2>5 DEF Typed, TypeOK, HandlesKept
<1> QED BY <1>1, <1>3, <1>4, <1>5

\* The incarnations makers have made are incarnations.
LEMMA MadeType ==
  ASSUME Typed, NEW R \in SUBSET Requests
  PROVE  Made(R) \subseteq Incs
<1>1. \A r \in Requests : req[r].inc \in 0 .. MaxInc
  BY DEF Typed, TypeOK, Request
<1> QED BY <1>1 DEF Made, Incs

\* Dropping keeps the types: whoever shuts the pool shuts it under everyone.
LEMMA DeleteTyped ==
  ASSUME Typed, NEW r \in Requests, Delete(r)
  PROVE  Typed'
<1>0. /\ req \in [Requests -> Request] /\ InPlace(r) /\ req[r] \in Request
      /\ db.inc \in 0 .. MaxInc
      /\ stray \subseteq Effect /\ excused \subseteq Incs /\ proj \in BOOLEAN
      /\ last \in 0 .. MaxInc /\ born \subseteq Incs
      /\ db \in Databases
      /\ pool \in [inc : 0 .. MaxInc, mid : BOOLEAN]
  BY DEF Typed, TypeOK
<1>1. CASE Close(r)
  <2>1. ~At(r, "create") /\ UNCHANGED <<db, last, born, proj, session, stray, excused>>
    BY <1>1 DEF Close, At
  <2> DEFINE rq == [Shut(req)[r] EXCEPT !.pc = "drop"]
  <2>2. Shut(req)[r] \in Request /\ req' = [Shut(req) EXCEPT ![r] = rq]
    BY <1>0, <1>1, ShutTypes DEF Close
  <2>3. /\ rq \in Request /\ rq.op = req[r].op /\ rq.tok = req[r].tok /\ rq.pc = "drop"
        /\ rq.acct = req[r].acct /\ rq.inc = req[r].inc /\ rq.handle # "open"
    BY <1>0, <2>2, ShutTypes DEF Request, Pcs
  <2> HIDE DEF rq
  <2>4. req'[r] = rq /\ \A q \in Requests : q # r => req'[q] = Shut(req)[q]
    BY <1>0, <2>2, ShutTypes
  <2>5. req' \in [Requests -> Request] /\ HandlesShut /\ Moves(r, "drop")
    BY <1>0, <2>2, <2>3, <2>4, ShutTypes DEF HandlesShut, Moves, Same
  <2>6. InPlace(r)'
    BY <2>1, <2>5, MoveInPlace DEF Pcs
  <2>7. pool' \in [inc : 0 .. MaxInc, mid : BOOLEAN]
    BY <1>1 DEF Close, NoPool
  <2> QED BY <1>0, <2>1, <2>5, <2>6, <2>7, MovesTyped DEF Moves
<1>2. CASE Drop(r)
  <2>1. ~At(r, "create") /\ UNCHANGED <<last, born, pool, proj, session>>
    BY <1>2 DEF Drop, At
  <2>2. db' \in Databases
    <3>1. NoDb \in Databases
      BY DEF NoDb
    <3> QED BY <1>0, <1>2, <3>1 DEF Drop
  <2>3. stray' \subseteq Effect /\ excused' \subseteq Incs
    <3>1. Made({r}) \subseteq Incs
      BY MadeType
    <3>2. Exists /\ Note("drop", r) => stray' \subseteq Effect
      BY NoteTyped
    <3> QED BY <1>0, <1>2, <3>1, <3>2 DEF Drop
  <2>4. CASE Done(r)
    BY <1>0, <2>1, <2>2, <2>3, <2>4, DoneEnds, EndsTyped
  <2>5. CASE Goto(r, "revoke")
    BY <1>0, <2>1, <2>2, <2>3, <2>5, GotoTyped DEF Pcs
  <2> QED BY <1>2, <2>4, <2>5 DEF Drop
<1>3. CASE Revoke(r)
  <2>1. /\ session' \in [Tokens -> Session]
        /\ \A t \in Tokens : session'[t].st = "live" => session'[t] = session[t]
    BY <1>3, EndType DEF Revoke
  <2>2. req' \in [Requests -> Request] /\ Moves(r, "forget") /\ HandlesKept
    BY <1>0, <1>3, GotoMoves DEF Revoke, Pcs
  <2>3. InPlace(r)'
    BY <1>3, <2>2, MoveInPlace DEF Revoke, Pcs, At
  <2>4. \A q \in Requests : InPlace(q)'
    BY <2>2, <2>3, SameInPlace DEF Moves, Typed
  <2>5. UNCHANGED <<db, last, born, pool, proj, stray, excused>>
    BY <1>3 DEF Revoke
  <2> QED BY <2>1, <2>2, <2>4, <2>5 DEF Typed, TypeOK, HandlesKept
<1>4. CASE Forget(r)
  BY <1>0, <1>4, DoneEnds, EndsTyped DEF Forget, RowLeft
<1> QED BY <1>1, <1>2, <1>3, <1>4 DEF Delete

\* A client that goes away, and the restart, keep the types.
LEMMA TroubleTyped ==
  ASSUME Typed, Restart \/ \E r \in Requests : HangUp(r)
  PROVE  Typed'
<1>1. ASSUME NEW r \in Requests, HangUp(r) PROVE Typed'
  <2>1. req[r] \in Request /\ req' = [req EXCEPT ![r] = [req[r] EXCEPT !.ended = TRUE]]
    BY <1>1 DEF HangUp, Typed, TypeOK
  <2>2. /\ [req[r] EXCEPT !.ended = TRUE] \in Request
        /\ \A q \in Requests : Same(q) /\ req'[q].handle = req[q].handle
    BY <2>1 DEF Request, Same, Typed, TypeOK
  <2>3. excused' \subseteq Incs
    BY <1>1, MadeType DEF HangUp, Typed, TypeOK
  <2>4. req' \in [Requests -> Request] /\ HandlesKept
    BY <2>1, <2>2 DEF HandlesKept, Typed, TypeOK
  <2>5. InPlace(r)'
    BY <2>2, SameInPlace DEF Typed
  <2> QED BY <1>1, <2>2, <2>3, <2>4, <2>5, MovesTyped DEF HangUp, Typed, TypeOK
<1>2. CASE Restart
  <2>1. req' = [q \in Requests |-> Idle]
    BY <1>2 DEF Restart
  <2>2. \A q \in Requests : InPlace(q)' /\ req'[q].handle # "open"
    BY <2>1, IdleInPlace DEF Idle
  <2>3. /\ session' \in [Tokens -> Session]
        /\ \A t \in Tokens : session'[t].st = "live" => session'[t] = session[t]
    BY <1>2, EndType DEF Restart
  <2>4. excused' \subseteq Incs
    BY <1>2, MadeType DEF Restart, Typed, TypeOK
  <2>5. pool' \in [inc : 0 .. MaxInc, mid : BOOLEAN]
    BY <1>2 DEF Restart, NoPool
  <2>6. UNCHANGED <<db, last, born, proj, stray>>
    BY <1>2 DEF Restart
  <2> QED BY <2>1, <2>2, <2>3, <2>4, <2>5, <2>6, IdleType DEF Typed, TypeOK
<1> QED BY <1>1, <1>2

LEMMA NextTyped == Typed /\ [Next]_vars => Typed'
<1> SUFFICES ASSUME Typed, [Next]_vars PROVE Typed'
  OBVIOUS
<1>1. CASE UNCHANGED vars
  BY <1>1 DEF vars, Typed, TypeOK, InPlace, Makes, At, Is
<1>2. ASSUME NEW r \in Requests, Make(r) \/ Enter(r) \/ BeginList(r) PROVE Typed'
  BY <1>2, BeginTyped, MakeTyped, EnterTyped DEF Make, Enter
<1> QED
  BY <1>1, <1>2, LookTyped, DeleteTyped, TroubleTyped DEF Next

\* Type correctness, with it that whoever holds an open handle finds its pool
\* registered: GetDriver and DropDatabase never lose one (multi_db.go:153-202, 341-388).
THEOREM Typing == Spec => []TypeOK
<1>1. Typed => TypeOK
  BY DEF Typed
<1> QED BY InitTyped, NextTyped, <1>1, PTL DEF Spec

----------------------------------------------------------------------------
(* A database nobody can sign in to.                                       *)

\* A step of r that leaves the database alone leaves its maker at work, unless it
\* is r.
LEMMA StillMade ==
  ASSUME NobodyIsLockedOut, NEW r \in Requests, UNCHANGED db, excused \subseteq excused',
         \A q \in Requests : q # r => Same(q),
         Making(r) /\ db.owners = {} => Making(r)' \/ db.inc \in excused'
  PROVE  NobodyIsLockedOut'
<1>1. \A q \in Requests : q # r /\ Making(q) => Making(q)'
  BY DEF Making, Same, Makes
<1> QED BY <1>1 DEF NobodyIsLockedOut, Exists

LEMMA EndsMade ==
  ASSUME Typed, NobodyIsLockedOut, NEW r \in Requests, UNCHANGED <<db, excused>>, Ends(r),
         ~Making(r)
  PROVE  NobodyIsLockedOut'
BY StillMade DEF Ends

LEMMA MovesMade ==
  ASSUME Typed, NobodyIsLockedOut, NEW r \in Requests, UNCHANGED db,
         excused \subseteq excused', NEW pc \in Pcs, Moves(r, pc),
         \/ pc \in {"driver", "ensure", "count", "close", "drop"}
         \/ ~Making(r) \/ db.owners # {} \/ db.inc \in excused'
  PROVE  NobodyIsLockedOut'
<1>1. Making(r) /\ pc \in {"driver", "ensure", "count", "close", "drop"} => Making(r)'
  BY DEF Moves, Making, Makes
<1> QED BY <1>1, StillMade DEF Moves

LEMMA FailMade ==
  ASSUME Typed, NobodyIsLockedOut, NEW r \in Requests, UNCHANGED <<db, excused>>,
         Fail(r, req) \/ Fail(r, Shut(req))
  PROVE  NobodyIsLockedOut'
<1>1. req \in [Requests -> Request]
  BY DEF Typed, TypeOK
<1>2. CASE Makes(r) /\ Moves(r, "close")
  BY <1>2, MovesMade DEF Pcs
<1>3. CASE Is(r, "list") /\ Moves(r, "upsert")
  BY <1>3, MovesMade DEF Pcs, Making, Makes, Is
<1>4. CASE ~Makes(r) /\ Ends(r)
  BY <1>4, EndsMade DEF Making
<1> QED BY <1>1, <1>2, <1>3, <1>4, FailMoves

LEMMA MakeMade ==
  ASSUME Typed, NobodyIsLockedOut, NEW r \in Requests,
         CreateDb(r) \/ Ensure(r) \/ Count(r) \/ Import(r)
  PROVE  NobodyIsLockedOut'
<1>0. req \in [Requests -> Request] /\ InPlace(r) /\ req[r] \in Request
  BY DEF Typed, TypeOK
<1>1. CASE CreateDb(r)
  <2>1. CASE Done(r) /\ UNCHANGED <<db, excused>>
    <3>1. ~Making(r)
      BY <1>1 DEF CreateDb, Making, At
    <3> QED BY <1>0, <2>1, <3>1, DoneEnds, EndsMade
  <2>2. CASE /\ db' = [NoDb EXCEPT !.inc = last']
             /\ \E k : req' = [req EXCEPT ![r].pc = "driver", ![r].acct = k,
                                          ![r].inc = last']
    <3>1. /\ req'[r].pc = "driver" /\ req'[r].inc = last' /\ req'[r].op = req[r].op
      BY <1>0, <2>2 DEF Request
    <3>2. Makes(r)
      BY <1>0, <1>1 DEF CreateDb, InPlace, At
    <3>3. Making(r)'
      BY <2>2, <3>1, <3>2 DEF Making, Makes, NoDb
    <3> QED BY <3>3 DEF NobodyIsLockedOut
  <2> QED BY <1>1, <2>1, <2>2 DEF CreateDb, Taken
<1>2. CASE Ensure(r)
  <2>1. CASE Fail(r, req) /\ UNCHANGED <<db, excused>>
    BY <2>1, FailMade
  <2>2. CASE db'.owners = db.owners \cup {req[r].acct}
    BY <2>2 DEF NobodyIsLockedOut
  <2>3. CASE /\ Goto(r, IF Is(r, "create") THEN "count" ELSE "import")
             /\ UNCHANGED db /\ excused \subseteq excused'
             /\ ~Is(r, "create") => req[r].inc \in excused'
    <3>1. CASE Is(r, "create")
      BY <1>0, <2>3, <3>1, GotoMoves, MovesMade DEF Is, Pcs
    <3>2. CASE ~Is(r, "create")
      <4>1. Making(r) => db.inc \in excused'
        BY <2>3, <3>2 DEF Making
      <4>2. Moves(r, "import")
        BY <1>0, <2>3, <3>2, GotoMoves DEF Is, Pcs
      <4> QED BY <2>3, <3>2, <4>1, <4>2, MovesMade DEF Pcs
    <3> QED BY <3>1, <3>2
  <2>4. ASSUME IF Is(r, "copy") THEN CopyOwner(r) ELSE InsertOwner(r)
        PROVE  \/ db'.owners = db.owners \cup {req[r].acct}
               \/ /\ UNCHANGED db /\ excused \subseteq excused'
                  /\ ~Is(r, "create") => req[r].inc \in excused'
    <3>1. db \in Databases /\ Makes(r)
      BY <1>0, <1>2 DEF Ensure, InPlace, At, Typed, TypeOK
    <3>2. CASE Is(r, "copy")
      BY <2>4, <3>1, <3>2 DEF CopyOwner, Is
    <3>3. CASE ~Is(r, "copy")
      BY <2>4, <3>1, <3>3 DEF InsertOwner, Makes, Is
    <3> QED BY <3>2, <3>3
  <2> QED BY <1>2, <2>1, <2>2, <2>3, <2>4 DEF Ensure
<1>3. CASE Count(r)
  <2>1. CASE Fail(r, req)
    BY <1>3, <2>1, FailMade DEF Count
  <2>2. CASE db.owners # {} /\ Goto(r, "upsert")
    BY <1>0, <1>3, <2>2, GotoMoves, MovesMade DEF Count, Pcs
  <2> QED BY <1>3, <2>1, <2>2 DEF Count, Provisioned
<1>4. CASE Import(r)
  <2>1. CASE Fail(r, req)
    BY <1>4, <2>1, FailMade DEF Import
  <2>2. CASE Goto(r, "upsert")
    <3>1. ~Making(r)
      BY <1>4 DEF Import, Making, At
    <3> QED BY <1>0, <1>4, <2>2, <3>1, GotoMoves, MovesMade DEF Import, Pcs
  <2> QED BY <1>4, <2>1, <2>2 DEF Import
<1> QED BY <1>1, <1>2, <1>3, <1>4

LEMMA BeginMade ==
  ASSUME Typed, NobodyIsLockedOut, NEW r \in Requests,
         \/ \E op \in Ops : BeginMaking(r, op)
         \/ \E op \in Ops, k \in Incs : BeginWithPassword(r, op, k)
         \/ \E op \in Ops, t \in Tokens : BeginWithToken(r, op, t)
         \/ BeginList(r)
  PROVE  NobodyIsLockedOut'
<1>1. ~Making(r) /\ UNCHANGED <<db, excused>>
  BY DEF BeginMaking, BeginWithPassword, BeginWithToken, BeginList, Making, At
<1>2. \A q \in Requests : q # r => req'[q] = req[q]
  BY DEF BeginMaking, BeginWithPassword, BeginWithToken, BeginList, Typed, TypeOK
<1> QED BY <1>1, <1>2, StillMade DEF Same

LEMMA LookMade ==
  ASSUME Typed, NobodyIsLockedOut, NEW r \in Requests, Look(r)
  PROVE  NobodyIsLockedOut'
<1>0. req \in [Requests -> Request] /\ InPlace(r) /\ req[r] \in Request
  BY DEF Typed, TypeOK
<1>1. CASE Lookup(r) \/ List(r) \/ Peek(r) \/ Upsert(r)
  <2>1. ~Making(r) /\ UNCHANGED <<db, excused>>
    BY <1>1 DEF Lookup, List, Peek, Upsert, At, Making
  <2>2. CASE Done(r)
    BY <1>0, <2>1, <2>2, DoneEnds, EndsMade
  <2>3. ASSUME NEW pc \in {"driver", "close", "peek"}, Goto(r, pc) PROVE NobodyIsLockedOut'
    BY <1>0, <2>1, <2>3, GotoMoves, MovesMade DEF Pcs
  <2> QED BY <1>1, <2>2, <2>3 DEF Lookup, List, Peek, Upsert
<1>2. CASE Driver(r)
  <2>1. UNCHANGED <<db, excused>>
    BY <1>2 DEF Driver
  <2>2. CASE Fail(r, Shut(req))
    BY <2>1, <2>2, FailMade
  <2>3. CASE req' = [req EXCEPT ![r].pc = AfterDriver(r), ![r].handle = "open"]
    <3>1. /\ req'[r].pc = AfterDriver(r) /\ req'[r].op = req[r].op
          /\ req'[r].inc = req[r].inc
          /\ \A q \in Requests : q # r => req'[q] = req[q]
      BY <1>0, <2>3 DEF Request
    <3>2. Makes(r) => AfterDriver(r) = "ensure"
      <4>1. Makes(r) => ~Is(r, "list") /\ req[r].tok = NoToken
        BY <1>0, <1>2 DEF Driver, InPlace, Makes, Is, At
      <4> QED BY <4>1, Zenon DEF AfterDriver
    <3>3. Making(r) => Making(r)'
      BY <2>1, <3>1, <3>2 DEF Making, Makes
    <3> QED BY <2>1, <3>1, <3>3, StillMade DEF Same
  <2> QED BY <1>2, <2>2, <2>3 DEF Driver
<1> QED BY <1>1, <1>2 DEF Look

LEMMA EnterMade ==
  ASSUME Typed, NobodyIsLockedOut, NEW r \in Requests,
         Auth(r) \/ Stamp(r) \/ Work(r) \/ \E t \in Tokens : OpenSession(r, t)
  PROVE  NobodyIsLockedOut'
<1>0. req \in [Requests -> Request] /\ InPlace(r) /\ req[r] \in Request
  BY DEF Typed, TypeOK
<1>1. ~Making(r) /\ UNCHANGED <<db, excused>>
  BY DEF Auth, Stamp, Work, OpenSession, At, Making
<1>2. CASE Done(r)
  BY <1>0, <1>1, <1>2, DoneEnds, EndsMade
<1>3. CASE Auth(r) /\ ~Done(r)
  <2>1. \A q \in Requests : q # r => req'[q] = req[q]
    BY <1>0, <1>3 DEF Auth
  <2> QED BY <1>1, <2>1, StillMade DEF Same
<1>4. CASE Stamp(r) /\ ~Done(r)
  <2>1. \A q \in Requests : q # r => req'[q] = req[q]
    BY <1>0, <1>4 DEF Stamp, Goto
  <2> QED BY <1>1, <2>1, StillMade DEF Same
<1> QED BY <1>2, <1>3, <1>4 DEF Work, OpenSession

LEMMA DeleteMade ==
  ASSUME Typed, NobodyIsLockedOut, NEW r \in Requests, Delete(r)
  PROVE  NobodyIsLockedOut'
<1>0. req \in [Requests -> Request] /\ InPlace(r) /\ req[r] \in Request
  BY DEF Typed, TypeOK
<1>1. CASE Close(r)
  <2>1. /\ req'[r].pc = "drop" /\ req'[r].op = req[r].op /\ req'[r].inc = req[r].inc
        /\ \A q \in Requests : q # r => Same(q)
    <3>1. req' = [Shut(req) EXCEPT ![r] = [Shut(req)[r] EXCEPT !.pc = "drop"]]
      BY <1>1 DEF Close
    <3>2. Shut(req)[r] \in Request /\ Shut(req) \in [Requests -> Request]
      BY <1>0, ShutTypes
    <3>3. req'[r] = [Shut(req)[r] EXCEPT !.pc = "drop"]
      BY <3>1, <3>2
    <3>4. \A q \in Requests : q # r => req'[q] = Shut(req)[q]
      BY <3>1, <3>2
    <3>5. req'[r].pc = "drop" /\ req'[r].op = req[r].op /\ req'[r].inc = req[r].inc
      BY <1>0, <3>2, <3>3, ShutTypes DEF Request
    <3> QED BY <1>0, <3>4, <3>5, ShutTypes DEF Same
  <2>2. UNCHANGED <<db, excused>>
    BY <1>1 DEF Close
  <2>3. Making(r) => Making(r)'
    BY <2>1, <2>2 DEF Making, Makes
  <2> QED BY <2>1, <2>2, <2>3, StillMade
<1>2. CASE Drop(r)
  <2>1. CASE db' = NoDb
    BY <2>1 DEF NobodyIsLockedOut, Exists, NoDb
  <2>2. CASE excused' = excused \cup Made({r}) /\ Done(r) /\ UNCHANGED db
    <3>1. Exists /\ Making(r) => db.inc \in excused'
      BY <2>2 DEF Making, Made, Exists
    <3>2. \A q \in Requests : q # r => Same(q)
      BY <1>0, <2>2, DoneEnds DEF Ends
    <3>3. CASE Exists
      BY <2>2, <3>1, <3>2, <3>3, StillMade
    <3>4. CASE ~Exists
      BY <2>2, <3>4 DEF NobodyIsLockedOut, Exists
    <3> QED BY <3>3, <3>4
  <2> QED BY <1>2, <2>1, <2>2 DEF Drop
<1>3. CASE Revoke(r) \/ Forget(r)
  <2>1. ~Making(r) /\ UNCHANGED <<db, excused>>
    BY <1>3 DEF Revoke, Forget, At, Making
  <2>2. \A q \in Requests : q # r => Same(q)
    BY <1>0, <1>3, GotoMoves, DoneEnds DEF Revoke, Forget, Moves, Ends, Pcs
  <2> QED BY <2>1, <2>2, StillMade
<1> QED BY <1>1, <1>2, <1>3 DEF Delete

LEMMA TroubleMade ==
  ASSUME Typed, NobodyIsLockedOut, Restart \/ \E r \in Requests : HangUp(r)
  PROVE  NobodyIsLockedOut'
<1>1. ASSUME NEW r \in Requests, HangUp(r) PROVE NobodyIsLockedOut'
  <2>1. \A q \in Requests : Same(q)
    BY <1>1 DEF HangUp, Same, Typed, TypeOK, Request
  <2>2. UNCHANGED db /\ excused \subseteq excused'
    BY <1>1 DEF HangUp
  <2>3. Making(r) => Making(r)'
    BY <2>1, <2>2 DEF Same, Making, Makes
  <2> QED BY <2>1, <2>2, <2>3, StillMade
<1>2. CASE Restart
  <2>1. UNCHANGED db /\ excused' = excused \cup Made(Requests)
    BY <1>2 DEF Restart
  <2>2. \A r \in Requests : Making(r) /\ Exists => db.inc \in excused'
    BY <2>1 DEF Making, Made, Exists
  <2> QED BY <2>1, <2>2 DEF NobodyIsLockedOut, Exists
<1> QED BY <1>1, <1>2

LEMMA NextMade == Typed /\ NobodyIsLockedOut /\ [Next]_vars => NobodyIsLockedOut'
<1> SUFFICES ASSUME Typed, NobodyIsLockedOut, [Next]_vars PROVE NobodyIsLockedOut'
  OBVIOUS
<1>1. CASE UNCHANGED vars
  BY <1>1 DEF vars, NobodyIsLockedOut, Exists, Making, Makes
<1>2. ASSUME NEW r \in Requests, Make(r) \/ Enter(r) \/ BeginList(r) PROVE NobodyIsLockedOut'
  BY <1>2, BeginMade, MakeMade, EnterMade DEF Make, Enter
<1> QED
  BY <1>1, <1>2, LookMade, DeleteMade, TroubleMade DEF Next

\* However many creations, clones, deletions, hang-ups and restarts overlap, a database
\* without an account is still being made or cleaned up, or its maker was interrupted or
\* looked away (CreateDatabase, solution_handler.go:209-301).
THEOREM Provisioning == Spec => []NobodyIsLockedOut
<1>1. Init => NobodyIsLockedOut
  BY DEF Init, NobodyIsLockedOut, Exists, NoDb
<1> QED BY <1>1, InitTyped, NextTyped, NextMade, PTL DEF Spec

----------------------------------------------------------------------------
(* Accounts and the database they are in.                                  *)

\* A maker that has yet to insert its account, and a request whose account was found,
\* by its password or by its session.
Unborn(r) == Makes(r) /\ req[r].pc \in {"driver", "ensure"}
Bound(r) == ~Makes(r) /\ req[r].inc # 0

MakersPcs == {"create", "driver", "ensure", "count", "import", "upsert", "close", "drop"}

\* Account k, found on database i, is one that a database of the name has had; if it
\* is in database d, then that is database i, or it was copied there too.
Known(d, had, k, i) == k \in had /\ (k \in d.owners => i = d.inc \/ k \in d.copies)

\* An account that is in the database was found in that very database, or copied there:
\* any other account is inserted once, by its maker, and before anybody can have found
\* it anywhere.
Homes ==
  /\ db.owners \subseteq born /\ \A k \in born : k <= last
  /\ \A t \in Tokens : session[t].st = "live" =>
       Known(db, born, session[t].acct, session[t].inc)
  /\ \A r \in Requests : Makes(r) => req[r].pc \in MakersPcs
  /\ \A r \in Requests : Bound(r) => Known(db, born, req[r].acct, req[r].inc)
  /\ \A r \in Requests : Unborn(r) =>
       /\ req[r].acct <= last
       /\ ~Is(r, "copy") =>
            /\ req[r].acct \notin born
            /\ \A q \in Requests : q # r /\ Unborn(q) => req[q].acct # req[r].acct

\* Sessions that begin or end and databases that are dropped change nothing about it.
LEMMA HomesStep ==
  ASSUME Typed, Homes, NEW r \in Requests, last' = last, born' = born,
         db' = db \/ db'.owners = {},
         \A t \in Tokens : session'[t].st = "live" =>
           Known(db, born, session'[t].acct, session'[t].inc),
         \A q \in Requests : q # r => Same(q),
         Makes(r)' => req'[r].pc \in MakersPcs,
         Unborn(r)' => Unborn(r) /\ req'[r].acct = req[r].acct /\ req'[r].op = req[r].op,
         Bound(r)' => Known(db, born, req'[r].acct, req'[r].inc)
  PROVE  Homes'
<1>1. \A q \in Requests : q # r =>
        /\ req'[q].acct = req[q].acct /\ req'[q].inc = req[q].inc
        /\ req'[q].op = req[q].op
        /\ Unborn(q)' <=> Unborn(q)
        /\ Bound(q)' <=> Bound(q)
  BY DEF Same, Unborn, Bound, Makes
<1>2. /\ db'.owners \subseteq born' /\ \A k \in born' : k <= last'
      /\ \A k, i : Known(db, born, k, i) => Known(db', born', k, i)
  BY DEF Homes, Known
<1>3. \A t \in Tokens : session'[t].st = "live" =>
        Known(db', born', session'[t].acct, session'[t].inc)
  BY <1>2
<1>4. \A q \in Requests : Makes(q)' => req'[q].pc \in MakersPcs
  BY DEF Homes, Same, Makes
<1>5. \A q \in Requests : Bound(q)' => Known(db', born', req'[q].acct, req'[q].inc)
  BY <1>1, <1>2 DEF Homes
<1>6. ASSUME NEW q \in Requests, Unborn(q)'
      PROVE  /\ req'[q].acct <= last'
             /\ ~Is(q, "copy")' =>
                  /\ req'[q].acct \notin born'
                  /\ \A p \in Requests : p # q /\ Unborn(p)' => req'[p].acct # req'[q].acct
  <2>1. Unborn(q) /\ req'[q].acct = req[q].acct /\ req'[q].op = req[q].op
    BY <1>1, <1>6
  <2>2. \A p \in Requests : Unborn(p)' => Unborn(p) /\ req'[p].acct = req[p].acct
    BY <1>1
  <2> QED BY <2>1, <2>2 DEF Homes, Is
<1> QED BY <1>2, <1>3, <1>4, <1>5, <1>6 DEF Homes

\* Sessions that stay what they were are known.
LEMMA SessionsKnown ==
  ASSUME Homes, \A t \in Tokens : session'[t].st = "live" => session'[t] = session[t]
  PROVE  \A t \in Tokens : session'[t].st = "live" =>
           Known(db, born, session'[t].acct, session'[t].inc)
BY DEF Homes

LEMMA HomesMoves ==
  ASSUME Typed, Homes, NEW r \in Requests, NEW pc \in Pcs, Moves(r, pc),
         Makes(r) => pc \in MakersPcs /\ (pc \in {"driver", "ensure"} => Unborn(r)),
         last' = last, born' = born,
         db' = db \/ db'.owners = {},
         \A t \in Tokens : session'[t].st = "live" => session'[t] = session[t]
  PROVE  Homes'
<1>1. /\ req'[r].acct = req[r].acct /\ req'[r].inc = req[r].inc /\ req'[r].op = req[r].op
      /\ Makes(r)' => req'[r].pc \in MakersPcs
      /\ Unborn(r)' => Unborn(r)
      /\ Bound(r)' => Bound(r)
  BY DEF Moves, Homes, Unborn, Bound, Makes
<1>2. Bound(r)' => Known(db, born, req'[r].acct, req'[r].inc)
  BY <1>1 DEF Homes
<1> QED BY <1>1, <1>2, SessionsKnown, HomesStep DEF Moves

LEMMA HomesEnds ==
  ASSUME Typed, Homes, NEW r \in Requests, Ends(r), last' = last, born' = born,
         db' = db \/ db'.owners = {},
         \A t \in Tokens : session'[t].st = "live" => session'[t] = session[t]
  PROVE  Homes'
<1>1. ~Unborn(r)' /\ ~Bound(r)' /\ ~Makes(r)'
  BY DEF Ends, Idle, Unborn, Bound, Makes
<1> QED BY <1>1, SessionsKnown, HomesStep DEF Ends

LEMMA HomesFail ==
  ASSUME Typed, Homes, NEW r \in Requests, UNCHANGED <<db, last, born, session>>,
         Fail(r, req) \/ Fail(r, Shut(req))
  PROVE  Homes'
<1>1. req \in [Requests -> Request]
  BY DEF Typed, TypeOK
<1> QED BY <1>1, FailMoves, HomesMoves, HomesEnds DEF Pcs, MakersPcs, Makes, Is

LEMMA BeginHomes ==
  ASSUME Typed, Homes, NEW r \in Requests,
         \/ \E op \in Ops : BeginMaking(r, op)
         \/ \E op \in Ops, k \in Incs : BeginWithPassword(r, op, k)
         \/ \E op \in Ops, t \in Tokens : BeginWithToken(r, op, t)
         \/ BeginList(r)
  PROVE  Homes'
<1>0. /\ req \in [Requests -> Request] /\ UNCHANGED <<db, last, born, session>>
      /\ \A t \in Tokens : session'[t].st = "live" =>
           Known(db, born, session'[t].acct, session'[t].inc)
  <2>1. UNCHANGED <<db, last, born, session>>
    BY DEF BeginMaking, BeginWithPassword, BeginWithToken, BeginList
  <2> QED BY <2>1, SessionsKnown DEF Typed, TypeOK
<1>1. ASSUME NEW rq, req' = [req EXCEPT ![r] = rq]
      PROVE  req'[r] = rq /\ \A q \in Requests : q # r => Same(q)
  BY <1>0, <1>1 DEF Same
<1>2. CASE BeginList(r) \/ \E op \in Ops : BeginMaking(r, op)
  <2>1. /\ req'[r].pc \in {"create", "list"} /\ req'[r].acct = 0 /\ req'[r].inc = 0
        /\ Makes(r)' => req'[r].pc = "create"
        /\ \A q \in Requests : q # r => Same(q)
    <3>1. CASE BeginList(r)
      BY <1>1, <3>1 DEF BeginList, Idle, Makes
    <3>2. ASSUME NEW op \in Ops, BeginMaking(r, op)
          PROVE  /\ req'[r].pc = "create" /\ req'[r].acct = 0 /\ req'[r].inc = 0
                 /\ \A q \in Requests : q # r => Same(q)
      BY <1>1, <3>2 DEF BeginMaking, Idle
    <3> QED BY <1>2, <3>1, <3>2
  <2>2. ~Unborn(r)' /\ ~Bound(r)' /\ (Makes(r)' => req'[r].pc \in MakersPcs)
    BY <2>1 DEF Unborn, Bound, MakersPcs
  <2> QED BY <1>0, <2>1, <2>2, HomesStep
<1>3. ASSUME NEW op \in Ops, NEW k \in Incs, BeginWithPassword(r, op, k) PROVE Homes'
  <2>1. /\ req'[r].pc = "lookup" /\ req'[r].op = op /\ req'[r].acct = k /\ req'[r].inc = 0
        /\ \A q \in Requests : q # r => Same(q)
    BY <1>1, <1>3 DEF BeginWithPassword, Idle
  <2>2. ~Unborn(r)' /\ ~Bound(r)' /\ ~Makes(r)'
    BY <1>3, <2>1 DEF BeginWithPassword, Unborn, Bound, Makes
  <2> QED BY <1>0, <2>1, <2>2, HomesStep
<1>4. ASSUME NEW op \in Ops, NEW t \in Tokens, BeginWithToken(r, op, t) PROVE Homes'
  <2> DEFINE rq == [Idle EXCEPT !.pc = "driver", !.op = op, !.tok = t,
                                 !.acct = session[t].acct, !.inc = session[t].inc]
  <2>1. /\ rq.pc = "driver" /\ rq.op = op
        /\ rq.acct = session[t].acct /\ rq.inc = session[t].inc
    BY DEF Idle
  <2>2. req' = [req EXCEPT ![r] = rq]
    BY <1>4 DEF BeginWithToken
  <2> HIDE DEF rq
  <2>3. /\ req'[r].pc = "driver" /\ req'[r].op = op /\ req'[r].acct = session[t].acct
        /\ req'[r].inc = session[t].inc
        /\ \A q \in Requests : q # r => Same(q)
    BY <1>1, <2>1, <2>2
  <2>4. op \in {"use", "delete"} /\ Known(db, born, session[t].acct, session[t].inc)
    BY <1>4 DEF BeginWithToken, Homes
  <2>5. ~Unborn(r)' /\ ~Makes(r)'
    BY <2>3, <2>4 DEF Unborn, Makes
  <2> QED BY <1>0, <2>3, <2>4, <2>5, HomesStep
<1> QED BY <1>2, <1>3, <1>4

LEMMA MakeHomes ==
  ASSUME Typed, Homes, NEW r \in Requests,
         CreateDb(r) \/ Ensure(r) \/ Count(r) \/ Import(r)
  PROVE  Homes'
<1>0. req \in [Requests -> Request] /\ InPlace(r) /\ req[r] \in Request /\ last \in Nat
  BY DEF Typed, TypeOK
<1>1. CASE CreateDb(r)
  <2>1. CASE Done(r) /\ UNCHANGED <<db, last>>
    BY <1>0, <1>1, <2>1, DoneEnds, HomesEnds DEF CreateDb
  <2>2. ASSUME NEW k \in IF Is(r, "copy") THEN born \cup {last'} ELSE {last'},
               last' = last + 1, db' = [NoDb EXCEPT !.inc = last'],
               req' = [req EXCEPT ![r].pc = "driver", ![r].acct = k, ![r].inc = last']
        PROVE  Homes'
    <3>1. /\ req'[r].acct = k /\ req'[r].op = req[r].op /\ req'[r].pc = "driver"
          /\ \A q \in Requests : q # r => req'[q] = req[q]
      BY <1>0, <2>2 DEF Request
    <3>2. UNCHANGED <<session, born>> /\ db'.owners = {} /\ Makes(r)
      BY <1>0, <1>1, <2>2 DEF CreateDb, InPlace, At, NoDb
    <3>3. ~Bound(r)' /\ (Makes(r)' => req'[r].pc \in MakersPcs)
      BY <3>1, <3>2 DEF Bound, Makes, MakersPcs
    <3>4. \A q \in Requests : q # r => (Unborn(q)' <=> Unborn(q)) /\ (Bound(q)' <=> Bound(q))
      BY <3>1 DEF Unborn, Bound, Makes
    <3>5. born \subseteq Nat /\ \A j \in born : j <= last
      BY DEF Homes, Typed, TypeOK, Incs
    <3>6. k <= last' /\ (k \in born \/ k = last') /\ (~Is(r, "copy") => k = last')
      BY <1>0, <2>2, <3>5
    <3>7. last' \notin born /\ last <= last' /\ ~(last' <= last)
      BY <1>0, <2>2, <3>5
    <3>8. \A i, j : Known(db, born, i, j) => Known(db', born', i, j)
      BY <3>2 DEF Known
    <3>9. ASSUME NEW q \in Requests, Unborn(q)'
          PROVE  /\ req'[q].acct <= last'
                 /\ ~Is(q, "copy")' =>
                      /\ req'[q].acct \notin born'
                      /\ \A p \in Requests : p # q /\ Unborn(p)'
                                               => req'[p].acct # req'[q].acct
      <4>1. CASE q = r
        <5>1. ASSUME NEW p \in Requests, p # q, Unborn(p)', k = last'
              PROVE  req'[p].acct # k
          BY <3>1, <3>4, <3>7, <4>1, <5>1 DEF Homes
        <5>2. Is(q, "copy")' <=> Is(r, "copy")
          BY <3>1, <4>1 DEF Is
        <5> QED BY <3>1, <3>2, <3>6, <3>7, <4>1, <5>1, <5>2
      <4>2. CASE q # r
        <5>1. Unborn(q) /\ req'[q] = req[q] /\ (Is(q, "copy")' <=> Is(q, "copy"))
          BY <3>1, <3>4, <3>9, <4>2 DEF Is
        <5>2. /\ req[q].acct <= last
              /\ ~Is(q, "copy") => req[q].acct \notin born /\ req[q].acct # last'
          BY <3>7, <5>1 DEF Homes
        <5>3. ASSUME NEW p \in Requests, p # q, Unborn(p)', ~Is(q, "copy")
              PROVE  req'[p].acct # req'[q].acct
          <6>1. CASE p = r
            BY <3>1, <3>6, <5>1, <5>2, <5>3, <6>1
          <6>2. CASE p # r
            BY <3>1, <3>4, <5>1, <5>3, <6>2 DEF Homes
          <6> QED BY <6>1, <6>2
        <5>4. req[q].acct <= last'
          BY <1>0, <2>2, <5>2 DEF Typed, TypeOK, Request
        <5> QED BY <3>2, <5>1, <5>2, <5>3, <5>4
      <4> QED BY <4>1, <4>2
    <3>10. \A q \in Requests :
             /\ Makes(q)' => req'[q].pc \in MakersPcs
             /\ Bound(q)' => Known(db', born', req'[q].acct, req'[q].inc)
      BY <3>1, <3>3, <3>4, <3>8 DEF Homes, Makes
    <3>11. \A t \in Tokens : session'[t].st = "live" =>
             Known(db', born', session'[t].acct, session'[t].inc)
      BY <3>2, <3>8 DEF Homes
    <3>12. db'.owners \subseteq born' /\ \A j \in born' : j <= last'
      BY <1>0, <2>2, <3>2, <3>5
    <3> QED BY <3>9, <3>10, <3>11, <3>12 DEF Homes
  <2> QED BY <1>1, <2>1, <2>2 DEF CreateDb, Taken
<1>2. CASE Ensure(r)
  <2>1. Unborn(r) /\ UNCHANGED <<last, session>>
    BY <1>0, <1>2 DEF Ensure, Unborn, InPlace, At
  <2>2. CASE Fail(r, req) /\ UNCHANGED <<db, born>>
    BY <2>1, <2>2, HomesFail
  <2>3. CASE Goto(r, IF Is(r, "create") THEN "count" ELSE "import")
    <3>1. PICK pc \in {"count", "import"} : Moves(r, pc)
      BY <1>0, <2>3, GotoMoves DEF Pcs
    <3>2. CASE UNCHANGED <<db, born>>
      BY <2>1, <3>1, <3>2, HomesMoves DEF Pcs, MakersPcs
    <3>3. ASSUME born' = born \cup {req[r].acct}, db'.inc = db.inc,
                 db'.owners = db.owners \cup {req[r].acct}, db.copies \subseteq db'.copies,
                 req[r].acct \in db'.copies \/ ~Is(r, "copy")
          PROVE  Homes'
      <4>1. ~Unborn(r)' /\ ~Bound(r)'
        BY <2>1, <3>1 DEF Unborn, Bound, Moves, Makes
      <4>2. \A q \in Requests : q # r =>
              /\ req'[q].acct = req[q].acct /\ req'[q].inc = req[q].inc
              /\ req'[q].op = req[q].op
              /\ Unborn(q)' <=> Unborn(q)
              /\ Bound(q)' <=> Bound(q)
        BY <3>1 DEF Moves, Same, Unborn, Bound, Makes
      <4>3. req[r].acct <= last /\ (req[r].acct \in born => req[r].acct \in db'.copies)
        BY <2>1, <3>3 DEF Homes
      <4>4. \A k, i : Known(db, born, k, i) => Known(db', born', k, i)
        BY <3>3, <4>3 DEF Known
      <4>5. \A t \in Tokens : session'[t].st = "live" =>
              Known(db', born', session'[t].acct, session'[t].inc)
        BY <2>1, <4>4 DEF Homes
      <4>6. \A q \in Requests :
              /\ Makes(q)' => req'[q].pc \in MakersPcs
              /\ Bound(q)' => Known(db', born', req'[q].acct, req'[q].inc)
        BY <3>1, <4>1, <4>2, <4>4 DEF Homes, Moves, Same, Makes, MakersPcs
      <4>7. ASSUME NEW q \in Requests, Unborn(q)'
            PROVE  /\ req'[q].acct <= last'
                   /\ ~Is(q, "copy")' =>
                        /\ req'[q].acct \notin born'
                        /\ \A p \in Requests : p # q /\ Unborn(p)'
                                                 => req'[p].acct # req'[q].acct
        <5>1. q # r /\ Unborn(q) /\ req'[q].acct = req[q].acct /\ req'[q].op = req[q].op
          BY <4>1, <4>2, <4>7
        <5>2. \A p \in Requests : Unborn(p)' => Unborn(p) /\ req'[p].acct = req[p].acct
          BY <4>1, <4>2
        <5> QED BY <2>1, <3>3, <5>1, <5>2 DEF Homes, Is
      <4>8. db'.owners \subseteq born' /\ \A k \in born' : k <= last'
        BY <2>1, <3>3, <4>3 DEF Homes
      <4> QED BY <4>5, <4>6, <4>7, <4>8 DEF Homes
    <3>4. ASSUME IF Is(r, "copy") THEN CopyOwner(r) ELSE InsertOwner(r)
          PROVE  \/ UNCHANGED <<db, born>>
                 \/ /\ born' = born \cup {req[r].acct} /\ db'.inc = db.inc
                    /\ db'.owners = db.owners \cup {req[r].acct}
                    /\ db.copies \subseteq db'.copies
                    /\ req[r].acct \in db'.copies \/ ~Is(r, "copy")
      <4>1. db \in Databases
        BY DEF Typed, TypeOK
      <4> QED BY <3>4, <4>1 DEF InsertOwner, CopyOwner
    <3> QED BY <1>2, <2>1, <3>1, <3>2, <3>3, <3>4, HomesFail, HomesMoves DEF Ensure, Pcs
  <2> QED BY <1>2, <2>2, <2>3 DEF Ensure
<1>3. CASE Count(r) \/ Import(r)
  <2>1. UNCHANGED <<db, last, born, session>>
    BY <1>3 DEF Count, Import
  <2>2. CASE Fail(r, req)
    BY <2>1, <2>2, HomesFail
  <2>3. CASE Goto(r, "upsert")
    BY <1>0, <2>1, <2>3, GotoMoves, HomesMoves DEF Pcs, MakersPcs
  <2> QED BY <1>3, <2>2, <2>3 DEF Count, Import
<1> QED BY <1>1, <1>2, <1>3

LEMMA LookHomes ==
  ASSUME Typed, Homes, NEW r \in Requests, Look(r)
  PROVE  Homes'
<1>0. req \in [Requests -> Request] /\ InPlace(r) /\ req[r] \in Request
  BY DEF Typed, TypeOK
<1>1. UNCHANGED <<db, last, born, session>>
  BY DEF Look, Lookup, List, Peek, Upsert, Driver
<1>2. CASE Done(r)
  BY <1>0, <1>1, <1>2, DoneEnds, HomesEnds
<1>3. ASSUME NEW pc \in {"driver", "close", "peek"}, Goto(r, pc),
             Lookup(r) \/ List(r) \/ Peek(r)
      PROVE  Homes'
  <2>1. ~Makes(r)
    BY <1>3 DEF Lookup, List, Peek, At, Homes, MakersPcs
  <2> QED BY <1>0, <1>1, <1>3, <2>1, GotoMoves, HomesMoves DEF Pcs
<1>4. CASE Driver(r)
  <2>1. CASE Fail(r, Shut(req))
    BY <1>1, <2>1, HomesFail
  <2>2. CASE req' = [req EXCEPT ![r].pc = AfterDriver(r), ![r].handle = "open"]
    <3>1. AfterDriver(r) \in Pcs
      BY DEF AfterDriver, Pcs
    <3>2. Moves(r, AfterDriver(r))
      BY <1>0, <2>2, <3>1 DEF Moves, Same, Request
    <3>3. Makes(r) => AfterDriver(r) = "ensure" /\ Unborn(r)
      <4>1. Makes(r) => ~Is(r, "list") /\ req[r].tok = NoToken /\ Unborn(r)
        BY <1>0, <1>4 DEF Driver, InPlace, Makes, Is, At, Unborn
      <4> QED BY <4>1, Zenon DEF AfterDriver
    <3> QED BY <1>1, <3>1, <3>2, <3>3, HomesMoves DEF MakersPcs
  <2> QED BY <1>4, <2>1, <2>2 DEF Driver
<1> QED BY <1>2, <1>3, <1>4 DEF Look, Lookup, List, Peek, Upsert

LEMMA EnterHomes ==
  ASSUME Typed, Homes, NEW r \in Requests,
         Auth(r) \/ Stamp(r) \/ Work(r) \/ \E t \in Tokens : OpenSession(r, t)
  PROVE  Homes'
<1>0. req \in [Requests -> Request] /\ InPlace(r) /\ req[r] \in Request
  BY DEF Typed, TypeOK
<1>1. UNCHANGED <<db, last, born>> /\ ~Makes(r)
  BY DEF Auth, Stamp, Work, OpenSession, At, Homes, MakersPcs
<1>2. CASE Auth(r)
  <2>1. CASE Done(r)
    BY <1>0, <1>1, <1>2, <2>1, DoneEnds, HomesEnds DEF Auth
  <2>2. CASE ~Done(r)
    <3>1. /\ req'[r].acct = req[r].acct /\ req'[r].op = req[r].op /\ req'[r].inc = db.inc
          /\ req[r].acct \in db.owners
          /\ \A q \in Requests : q # r => Same(q)
      BY <1>0, <1>2, <2>2 DEF Auth, Same, Request
    <3>2. ~Makes(r)' /\ ~Unborn(r)' /\ Known(db, born, req'[r].acct, req'[r].inc)
      BY <1>1, <3>1 DEF Homes, Makes, Unborn, Known
    <3>3. UNCHANGED session
      BY <1>2 DEF Auth
    <3> QED BY <1>1, <3>1, <3>2, <3>3, SessionsKnown, HomesStep
  <2> QED BY <2>1, <2>2
<1>3. CASE Stamp(r)
  <2>1. \A t \in Tokens : session'[t].st = "live" => session'[t] = session[t]
    <3>1. CASE UNCHANGED session
      BY <3>1
    <3>2. CASE End({req[r].tok})
      <4>1. {req[r].tok} \in SUBSET Tokens
        BY <1>0, <1>3 DEF Stamp, InPlace, Request
      <4> QED BY <3>2, <4>1, EndType
    <3> QED BY <1>3, <3>1, <3>2 DEF Stamp
  <2>2. CASE Done(r)
    BY <1>0, <1>1, <2>1, <2>2, DoneEnds, HomesEnds
  <2>3. ASSUME NEW pc \in {"work", "lookup"}, Goto(r, pc) PROVE Homes'
    BY <1>0, <1>1, <2>1, <2>3, GotoMoves, HomesMoves DEF Pcs
  <2> QED BY <1>3, <2>2, <2>3 DEF Stamp
<1>4. CASE Work(r)
  BY <1>0, <1>1, <1>4, DoneEnds, HomesEnds DEF Work
<1>5. ASSUME NEW t \in Tokens, OpenSession(r, t) PROVE Homes'
  <2>1. /\ session'[t].acct = req[r].acct /\ session'[t].inc = req[r].inc
        /\ \A u \in Tokens : u # t => session'[u] = session[u]
    BY <1>5 DEF OpenSession, Typed, TypeOK
  <2>2. Bound(r)
    BY <1>0, <1>1, <1>5 DEF OpenSession, InPlace, Bound, Incs
  <2>3. Ends(r)
    BY <1>0, <1>5, DoneEnds DEF OpenSession
  <2>4. ~Unborn(r)' /\ ~Bound(r)' /\ ~Makes(r)'
    BY <2>3 DEF Ends, Idle, Unborn, Bound, Makes
  <2>5. \A u \in Tokens : session'[u].st = "live" =>
          Known(db, born, session'[u].acct, session'[u].inc)
    BY <2>1, <2>2 DEF Homes
  <2> QED BY <1>1, <2>3, <2>4, <2>5, HomesStep DEF Ends
<1> QED BY <1>2, <1>3, <1>4, <1>5

LEMMA DeleteHomes ==
  ASSUME Typed, Homes, NEW r \in Requests, Delete(r)
  PROVE  Homes'
<1>0. req \in [Requests -> Request] /\ InPlace(r) /\ req[r] \in Request
  BY DEF Typed, TypeOK
<1>1. CASE Close(r)
  <2>1. Moves(r, "drop")
    <3>1. req' = [Shut(req) EXCEPT ![r] = [Shut(req)[r] EXCEPT !.pc = "drop"]]
      BY <1>1 DEF Close
    <3>2. Shut(req)[r] \in Request /\ Shut(req) \in [Requests -> Request]
      BY <1>0, ShutTypes
    <3>3. /\ req'[r] = [Shut(req)[r] EXCEPT !.pc = "drop"]
          /\ \A q \in Requests : q # r => req'[q] = Shut(req)[q]
      BY <3>1, <3>2
    <3> QED BY <1>0, <3>2, <3>3, ShutTypes DEF Moves, Same, Request
  <2> QED BY <1>1, <2>1, HomesMoves DEF Close, Pcs, MakersPcs
<1>2. CASE Drop(r)
  <2>1. UNCHANGED <<last, born, session>> /\ (db' = db \/ db'.owners = {})
    BY <1>2 DEF Drop, NoDb
  <2>2. CASE Done(r)
    BY <1>0, <2>1, <2>2, DoneEnds, HomesEnds
  <2>3. CASE Is(r, "delete") /\ Goto(r, "revoke")
    BY <1>0, <2>1, <2>3, GotoMoves, HomesMoves DEF Pcs, Is, Makes
  <2> QED BY <1>2, <2>2, <2>3 DEF Drop
<1>3. CASE Revoke(r)
  <2>1. \A t \in Tokens : session'[t].st = "live" => session'[t] = session[t]
    BY <1>3, EndType DEF Revoke
  <2>2. ~Makes(r)
    BY <1>3 DEF Revoke, At, Homes, MakersPcs
  <2> QED BY <1>0, <1>3, <2>1, <2>2, GotoMoves, HomesMoves DEF Revoke, Pcs
<1>4. CASE Forget(r)
  BY <1>0, <1>4, DoneEnds, HomesEnds DEF Forget
<1> QED BY <1>1, <1>2, <1>3, <1>4 DEF Delete

LEMMA TroubleHomes ==
  ASSUME Typed, Homes, Restart \/ \E r \in Requests : HangUp(r)
  PROVE  Homes'
<1>1. ASSUME NEW r \in Requests, HangUp(r) PROVE Homes'
  <2>1. Moves(r, req[r].pc) /\ req[r].pc \in Pcs
    BY <1>1 DEF HangUp, Moves, Same, Typed, TypeOK, Request
  <2> QED BY <1>1, <2>1, HomesMoves DEF HangUp, Homes, Unborn
<1>2. CASE Restart
  <2>1. \A q \in Requests : ~Makes(q)' /\ ~Unborn(q)' /\ ~Bound(q)'
    BY <1>2 DEF Restart, Idle, Makes, Unborn, Bound
  <2>2. UNCHANGED <<db, last, born>>
    BY <1>2 DEF Restart
  <2>3. \A t \in Tokens : session'[t].st = "live" => session'[t] = session[t]
    BY <1>2, EndType DEF Restart
  <2> QED BY <2>1, <2>2, <2>3 DEF Homes
<1> QED BY <1>1, <1>2

LEMMA NextHomes == Typed /\ Homes /\ [Next]_vars => Homes'
<1> SUFFICES ASSUME Typed, Homes, [Next]_vars PROVE Homes'
  OBVIOUS
<1>1. CASE UNCHANGED vars
  BY <1>1 DEF vars, Homes, Known, Unborn, Bound, Makes, Is
<1>2. ASSUME NEW r \in Requests, Make(r) \/ Enter(r) \/ BeginList(r) PROVE Homes'
  BY <1>2, BeginHomes, MakeHomes, EnterHomes DEF Make, Enter
<1> QED
  BY <1>1, <1>2, LookHomes, DeleteHomes, TroubleHomes DEF Next

LEMMA InitHomes == Init => Homes
BY DEF Init, Homes, Fresh, Idle, Unborn, Bound, Makes, NoDb

\* A step of one request leaves the others where they are.
LEMMA OthersSame ==
  ASSUME Typed, NEW q \in Requests, NEW r \in Requests, q # r,
         Make(q) \/ Enter(q) \/ Delete(q) \/ Look(q) \/ BeginList(q)
  PROVE  Same(r)
<1>0. req \in [Requests -> Request]
  BY DEF Typed, TypeOK
<1>1. ASSUME req'[r] = req[r] PROVE Same(r)
  BY <1>1 DEF Same
<1>3. CASE Close(q)
  <2>1. req'[r] = Shut(req)[r]
    BY <1>0, <1>3, ShutTypes DEF Close
  <2> QED BY <1>0, <2>1, ShutTypes DEF Same
<1>4. CASE Driver(q)
  BY <1>0, <1>1, <1>4, FailMoves DEF Driver, Moves, Ends
<1>5. CASE Fail(q, req)
  BY <1>0, <1>5, FailMoves DEF Moves, Ends
<1>6. CASE ~Close(q) /\ ~Driver(q) /\ ~Fail(q, req)
  <2>1. req'[r] = req[r]
    BY <1>0, <1>6 DEF Make, Enter, Delete, Look, BeginList, BeginMaking,
       BeginWithPassword, BeginWithToken, CreateDb, Taken, Ensure, InsertOwner, CopyOwner, Count, Import, Auth,
       Stamp, Work, OpenSession, Drop, Revoke, Forget, List, Peek, Lookup, Upsert,
       Goto, Done
  <2> QED BY <1>1, <2>1
<1> QED BY <1>3, <1>4, <1>5, <1>6

\* The guard is the only way from "stamp" on.
LEMMA StampAlone ==
  ASSUME Typed, Homes, NEW r \in Requests, At(r, "stamp"), [Next]_vars,
         req'[r].pc \in {"work", "lookup"}
  PROVE  Stamp(r)
<1>0. req \in [Requests -> Request] /\ ~Makes(r)
  BY DEF Typed, TypeOK, Homes, At, MakersPcs
<1>1. ASSUME Same(r) PROVE FALSE
  BY <1>1 DEF Same, At
<1>2. ASSUME req'[r] = Idle PROVE FALSE
  BY <1>2 DEF Idle
<1>3. ASSUME NEW q \in Requests, q # r,
             Make(q) \/ Enter(q) \/ Delete(q) \/ Look(q) \/ BeginList(q)
      PROVE  FALSE
  BY <1>1, <1>3, OthersSame
<1>4. CASE \E q \in Requests : HangUp(q)
  <2>1. Same(r)
    BY <1>0, <1>4 DEF HangUp, Same, Typed, TypeOK, Request
  <2> QED BY <1>1, <2>1
<1>5. CASE Restart
  BY <1>2, <1>5 DEF Restart
<1>6. CASE UNCHANGED vars
  BY <1>1, <1>6 DEF vars, Same
<1>7. CASE Make(r) \/ Enter(r) \/ Delete(r) \/ Look(r) \/ BeginList(r)
  BY <1>7 DEF At, Make, Enter, Delete, Look, BeginList, BeginMaking,
     BeginWithPassword, BeginWithToken, CreateDb, Ensure, Count, Import, Auth,
     Work, OpenSession, Close, Drop, Revoke, Forget, List, Peek, Lookup, Upsert, Driver
<1> QED BY <1>3, <1>4, <1>5, <1>6, <1>7 DEF Next

\* The guard admits a session to the very database its password was checked on, however
\* many databases have borne the name since, or to one that its account was copied into
\* (attach, auth.go:73-111; CopyOwnerAccount, developer_utilities.go:219-240).
THEOREM Admission == Spec => AdmittedInTheirDatabase
<1>1. ASSUME Typed, Homes, [Next]_vars
      PROVE  \A r \in Requests : At(r, "stamp") /\ req'[r].pc \in {"work", "lookup"}
                                   => req[r].inc = db.inc \/ req[r].acct \in db.copies
  <2> SUFFICES ASSUME NEW r \in Requests, At(r, "stamp"), req'[r].pc \in {"work", "lookup"}
               PROVE  req[r].inc = db.inc \/ req[r].acct \in db.copies
    OBVIOUS
  <2>1. Stamp(r) /\ InPlace(r) /\ ~Makes(r)
    BY <1>1, StampAlone DEF Typed, Homes, MakersPcs, At
  <2>2. ~Done(r)
    BY <1>1 DEF Done, Idle, Typed, TypeOK
  <2>3. req[r].acct \in db.owners /\ Bound(r)
    BY <2>1, <2>2 DEF Stamp, StampMatches, InPlace, Bound, Incs
  <2> QED BY <1>1, <2>3 DEF Homes, Known
<1> QED BY <1>1, InitTyped, InitHomes, NextTyped, NextHomes, PTL
        DEF Spec, AdmittedInTheirDatabase

----------------------------------------------------------------------------
(* Work and the pool it is done with.                                      *)

\* A pool that was not opened in the middle of a drop is a pool to the database there is,
\* which nobody is dropping; whoever works with it was admitted to that database.
AtHome(d, k, i) == i = d.inc \/ k \in d.copies

\* The database, and what was copied into it, is still there.
Stands == db'.inc = db.inc /\ db.copies \subseteq db'.copies

Abode ==
  /\ pool # NoPool /\ ~pool.mid => ~Dropping /\ Exists
  /\ \A r \in Requests : At(r, "work") /\ req[r].handle = "open" /\ ~pool.mid
                          => AtHome(db, req[r].acct, req[r].inc)

\* The pool stays; a database comes or goes only where no such pool is registered.
LEMMA AbodeStep ==
  ASSUME Typed, Abode, NEW r \in Requests, \A q \in Requests : q # r => Same(q),
         HandlesKept, UNCHANGED pool, Stands \/ pool = NoPool \/ pool.mid,
         req'[r].pc = "drop" => At(r, "drop"),
         req'[r].pc = "work" => Same(r) \/ AtHome(db', req'[r].acct, req'[r].inc)
  PROVE  Abode'
<1>1. Dropping' => Dropping
  BY DEF Dropping, At, Same
<1>2. pool' # NoPool /\ ~pool'.mid => ~Dropping' /\ Exists'
  BY <1>1 DEF Abode, Exists, Stands
<1>3. ASSUME NEW q \in Requests, At(q, "work")', req'[q].handle = "open", ~pool'.mid
      PROVE  AtHome(db', req'[q].acct, req'[q].inc)
  <2>1. req[q].handle = "open" /\ pool # NoPool /\ Stands
    BY <1>3 DEF HandlesKept, Typed, TypeOK
  <2>2. CASE Same(q)
    BY <1>3, <2>1, <2>2 DEF Abode, AtHome, Stands, Same, At
  <2> QED BY <1>3, <2>2 DEF At
<1> QED BY <1>2, <1>3 DEF Abode

LEMMA AbodeMoves ==
  ASSUME Typed, Abode, NEW r \in Requests, UNCHANGED pool,
         Stands \/ pool = NoPool \/ pool.mid, NEW pc \in Pcs, Goto(r, pc),
         pc \notin {"drop", "work"}
  PROVE  Abode'
<1>1. Moves(r, pc) /\ HandlesKept
  BY GotoMoves DEF Typed, TypeOK
<1> QED BY <1>1, AbodeStep DEF Moves

LEMMA AbodeEnds ==
  ASSUME Typed, Abode, NEW r \in Requests, UNCHANGED pool,
         Stands \/ pool = NoPool \/ pool.mid, Done(r)
  PROVE  Abode'
<1>1. Ends(r) /\ HandlesKept
  BY DoneEnds DEF Typed, TypeOK
<1>2. req'[r].pc = "idle"
  BY <1>1 DEF Ends, Idle
<1> QED BY <1>1, <1>2, AbodeStep DEF Ends

LEMMA AbodeFail ==
  ASSUME Typed, Abode, NEW r \in Requests, UNCHANGED <<pool, db>>, Fail(r, req)
  PROVE  Abode'
<1> USE DEF Stands
<1>1. /\ HandlesKept /\ req'[r].pc \in {"close", "upsert", "idle"}
      /\ \A q \in Requests : q # r => Same(q)
  BY FailMoves DEF Typed, TypeOK, Moves, Ends, Idle
<1> QED BY <1>1, AbodeStep

LEMMA BeginAbode ==
  ASSUME Typed, Abode, NEW r \in Requests,
         \/ \E op \in Ops : BeginMaking(r, op)
         \/ \E op \in Ops, k \in Incs : BeginWithPassword(r, op, k)
         \/ \E op \in Ops, t \in Tokens : BeginWithToken(r, op, t)
         \/ BeginList(r)
  PROVE  Abode'
<1>1. UNCHANGED pool /\ Stands
  BY DEF Stands, BeginMaking, BeginWithPassword, BeginWithToken, BeginList
<1>2. ASSUME NEW rq, req' = [req EXCEPT ![r] = rq], rq.handle = "none",
             rq.pc \in {"create", "lookup", "driver", "list"}
      PROVE  Abode'
  <2>1. /\ req'[r] = rq /\ HandlesKept
        /\ \A q \in Requests : q # r => Same(q)
    BY <1>2 DEF Same, HandlesKept, Typed, TypeOK
  <2> QED BY <1>1, <1>2, <2>1, AbodeStep
<1> QED BY <1>2 DEF BeginMaking, BeginWithPassword, BeginWithToken, BeginList, Idle

LEMMA EnsureStands ==
  ASSUME TypeOK, NEW r \in Requests, Ensure(r)
  PROVE  Stands
<1>1. db \in Databases
  BY DEF TypeOK
<1> QED BY <1>1 DEF Ensure, InsertOwner, CopyOwner, Stands

LEMMA MakeAbode ==
  ASSUME Typed, Abode, NEW r \in Requests,
         CreateDb(r) \/ Ensure(r) \/ Count(r) \/ Import(r)
  PROVE  Abode'
<1>0. req \in [Requests -> Request] /\ UNCHANGED pool
  BY DEF Typed, TypeOK, CreateDb, Ensure, Count, Import
<1>1. CASE CreateDb(r)
  <2>1. CASE Done(r) /\ UNCHANGED db
    BY <1>0, <2>1, AbodeEnds DEF Stands
  <2>2. CASE /\ ~Exists
             /\ \E k : req' = [req EXCEPT ![r].pc = "driver", ![r].acct = k,
                                          ![r].inc = last']
    <3>1. /\ req'[r].pc = "driver" /\ HandlesKept
          /\ \A q \in Requests : q # r => Same(q)
      BY <1>0, <2>2 DEF Request, Same, HandlesKept
    <3>2. pool = NoPool \/ pool.mid
      BY <2>2 DEF Abode, Typed, TypeOK
    <3> QED BY <1>0, <3>1, <3>2, AbodeStep
  <2> QED BY <1>1, <2>1, <2>2 DEF CreateDb, Taken
<1>2. CASE Ensure(r)
  <2>1. Stands
    BY <1>2, EnsureStands DEF Typed
  <2>2. CASE Fail(r, req) /\ UNCHANGED db
    BY <1>0, <2>2, AbodeFail
  <2>3. CASE Goto(r, IF Is(r, "create") THEN "count" ELSE "import")
    BY <1>0, <2>1, <2>3, AbodeMoves DEF Pcs
  <2> QED BY <1>2, <2>2, <2>3 DEF Ensure
<1>3. CASE Count(r) \/ Import(r)
  BY <1>0, <1>3, AbodeFail, AbodeMoves DEF Stands, Count, Import, Pcs
<1> QED BY <1>1, <1>2, <1>3

LEMMA LookAbode ==
  ASSUME Typed, Abode, NEW r \in Requests, Look(r)
  PROVE  Abode'
<1>0. req \in [Requests -> Request] /\ UNCHANGED db
  BY DEF Typed, TypeOK, Look, Lookup, List, Peek, Upsert, Driver
<1>1. CASE Lookup(r) \/ List(r) \/ Peek(r) \/ Upsert(r)
  BY <1>0, <1>1, AbodeEnds, AbodeMoves DEF Stands, Lookup, List, Peek, Upsert, Pcs
<1>2. CASE Driver(r)
  <2>1. CASE pool' = NoPool /\ Fail(r, Shut(req))
    <3>1. HandlesShut
      BY <1>0, <2>1, FailMoves
    <3> QED BY <2>1, <3>1 DEF Abode, HandlesShut
  <2>2. CASE /\ pool' = IF pool = NoPool THEN [inc |-> db.inc, mid |-> Dropping] ELSE pool
             /\ req' = [req EXCEPT ![r].pc = AfterDriver(r), ![r].handle = "open"]
             /\ Exists
    <3>1. AfterDriver(r) \in {"ensure", "upsert", "stamp", "auth"}
      BY DEF AfterDriver
    <3>2. req'[r].pc = AfterDriver(r) /\ \A q \in Requests : q # r => req'[q] = req[q]
      BY <1>0, <2>2, <3>1 DEF Request
    <3>3. Dropping' <=> Dropping
      BY <1>2, <3>1, <3>2 DEF Dropping, At, Driver
    <3>4. pool' # NoPool /\ ~pool'.mid => ~Dropping' /\ Exists'
      <4>1. CASE pool = NoPool
        <5>1. pool'.mid = Dropping
          BY <2>2, <4>1
        <5> QED BY <1>0, <2>2, <3>3, <5>1 DEF Exists
      <4>2. CASE pool # NoPool
        BY <1>0, <2>2, <3>3, <4>2 DEF Abode, Exists
      <4> QED BY <4>1, <4>2
    <3>5. ASSUME NEW q \in Requests, At(q, "work")', req'[q].handle = "open", ~pool'.mid
          PROVE  AtHome(db', req'[q].acct, req'[q].inc)
      <4>1. q # r /\ req'[q] = req[q]
        BY <3>1, <3>2, <3>5 DEF At
      <4>2. pool # NoPool /\ pool' = pool
        BY <2>2, <3>5, <4>1 DEF Typed, TypeOK
      <4> QED BY <1>0, <3>5, <4>1, <4>2 DEF Abode, At
    <3> QED BY <3>4, <3>5 DEF Abode
  <2> QED BY <1>2, <2>1, <2>2 DEF Driver
<1> QED BY <1>1, <1>2 DEF Look

\* The guard hands a request on to work in the database its session is for.
LEMMA EnterAbode ==
  ASSUME Typed, Homes, Abode, NEW r \in Requests,
         Auth(r) \/ Stamp(r) \/ Work(r) \/ \E t \in Tokens : OpenSession(r, t)
  PROVE  Abode'
<1>0. /\ req \in [Requests -> Request] /\ req[r] \in Request /\ InPlace(r)
      /\ UNCHANGED <<db, pool>> /\ Stands
  BY DEF Typed, TypeOK, Auth, Stamp, Work, OpenSession, Stands
<1>1. CASE Done(r)
  BY <1>0, <1>1, AbodeEnds
<1>2. CASE Auth(r) /\ ~Done(r)
  <2>1. /\ req'[r].pc \in {"session", "close"} /\ HandlesKept
        /\ \A q \in Requests : q # r => Same(q)
    BY <1>0, <1>2 DEF Auth, Same, HandlesKept, Request
  <2> QED BY <1>0, <2>1, AbodeStep
<1>3. CASE Stamp(r) /\ ~Done(r)
  <2>1. PICK pc \in {"work", "lookup"} : Goto(r, pc)
    BY <1>3 DEF Stamp
  <2>2. Moves(r, pc) /\ HandlesKept
    BY <1>0, <2>1, GotoMoves DEF Pcs
  <2>3. req[r].acct \in db.owners /\ Bound(r)
    BY <1>0, <1>3 DEF Stamp, StampMatches, InPlace, Bound, Incs, At, Homes, MakersPcs
  <2>4. AtHome(db', req'[r].acct, req'[r].inc)
    BY <1>0, <2>2, <2>3 DEF Homes, Known, AtHome, Moves
  <2> QED BY <1>0, <2>2, <2>4, AbodeStep DEF Moves
<1> QED BY <1>1, <1>2, <1>3 DEF Work, OpenSession

\* DropDatabase closes the pool before it drops.
LEMMA DeleteAbode ==
  ASSUME Typed, Abode, NEW r \in Requests, Delete(r)
  PROVE  Abode'
<1>0. req \in [Requests -> Request]
  BY DEF Typed, TypeOK
<1>1. CASE Close(r)
  <2>1. HandlesShut
    <3>1. req' = [Shut(req) EXCEPT ![r] = [Shut(req)[r] EXCEPT !.pc = "drop"]]
      BY <1>1 DEF Close
    <3>2. Shut(req)[r] \in Request /\ Shut(req) \in [Requests -> Request]
      BY <1>0, ShutTypes
    <3> QED BY <1>0, <3>1, <3>2, ShutTypes DEF HandlesShut, Request
  <2> QED BY <1>1, <2>1 DEF Close, Abode, HandlesShut
<1>2. CASE Drop(r)
  <2>1. UNCHANGED pool /\ (pool = NoPool \/ pool.mid)
    BY <1>2 DEF Drop, Abode, Dropping, Typed, TypeOK
  <2> QED BY <1>2, <2>1, AbodeEnds, AbodeMoves DEF Drop, Pcs
<1>3. CASE Revoke(r) \/ Forget(r)
  BY <1>3, AbodeEnds, AbodeMoves DEF Stands, Revoke, Forget, Pcs
<1> QED BY <1>1, <1>2, <1>3 DEF Delete

LEMMA TroubleAbode ==
  ASSUME Typed, Abode, Restart \/ \E r \in Requests : HangUp(r)
  PROVE  Abode'
<1>1. ASSUME NEW r \in Requests, HangUp(r) PROVE Abode'
  <2>1. HandlesKept /\ \A q \in Requests : Same(q)
    BY <1>1 DEF HangUp, Same, HandlesKept, Typed, TypeOK, Request
  <2> QED BY <1>1, <2>1, AbodeStep DEF Stands, HangUp, Same, At
<1>2. CASE Restart
  BY <1>2 DEF Restart, Abode, Idle, At
<1> QED BY <1>1, <1>2

LEMMA NextAbode == Typed /\ Homes /\ Abode /\ [Next]_vars => Abode'
<1> SUFFICES ASSUME Typed, Homes, Abode, [Next]_vars PROVE Abode'
  OBVIOUS
<1>1. CASE UNCHANGED vars
  BY <1>1 DEF vars, Abode, AtHome, Dropping, At, Exists
<1>2. ASSUME NEW r \in Requests, Make(r) \/ Enter(r) \/ BeginList(r) PROVE Abode'
  BY <1>2, BeginAbode, MakeAbode, EnterAbode DEF Make, Enter
<1> QED
  BY <1>1, <1>2, LookAbode, DeleteAbode, TroubleAbode DEF Next

\* What is noted as work on another database was done with a pool opened in mid-drop, or
\* by an account that was copied into that one.
LEMMA NextHome == Typed /\ Abode /\ WorkStaysHome /\ [Next]_vars => WorkStaysHome'
<1> SUFFICES ASSUME Typed, Abode, WorkStaysHome, [Next]_vars PROVE WorkStaysHome'
  OBVIOUS
<1>1. ASSUME NEW r \in Requests, Work(r) PROVE WorkStaysHome'
  <2>1. Answered(r) /\ ~pool.mid => req[r].inc = db.inc \/ req[r].acct \in db.copies
    BY <1>1 DEF Work, Answered, Abode, AtHome
  <2>2. Answered(r) /\ Note("work", r) => WorkStaysHome'
    <3> SUFFICES ASSUME Answered(r), Note("work", r), NEW e \in stray', e.what = "work"
                 PROVE  e.mid \/ e.copied
      BY DEF WorkStaysHome
    <3>1. CASE e \in stray
      BY <3>1 DEF WorkStaysHome
    <3>2. CASE e \notin stray
      <4>1. /\ req[r].inc # db.inc
            /\ e = [what |-> "work", mid |-> pool.mid, copied |-> req[r].acct \in db.copies]
        BY <3>2 DEF Note
      <4>2. CASE pool.mid
        BY <4>1, <4>2
      <4>3. CASE ~pool.mid
        <5>1. req[r].acct \in db.copies
          BY <2>1, <4>1, <4>3
        <5> QED BY <4>1, <5>1
      <4> QED BY <4>2, <4>3
    <3> QED BY <3>1, <3>2
  <2> QED BY <1>1, <2>2 DEF Work, WorkStaysHome
<1>2. ASSUME NEW r \in Requests, Ensure(r) \/ Drop(r) PROVE WorkStaysHome'
  <2>1. ASSUME NEW what \in {"own", "drop"}, Note(what, r) PROVE WorkStaysHome'
    <3>1. ASSUME NEW e \in stray', e.what = "work" PROVE e \in stray
      BY <2>1, <3>1 DEF Note
    <3> QED BY <3>1 DEF WorkStaysHome
  <2> QED BY <1>2, <2>1 DEF Ensure, InsertOwner, CopyOwner, Drop, WorkStaysHome
<1>3. ASSUME UNCHANGED stray PROVE WorkStaysHome'
  BY <1>3 DEF WorkStaysHome
<1>4. ASSUME NEW r \in Requests, ~Work(r), ~Ensure(r), ~Drop(r),
             Make(r) \/ Enter(r) \/ Delete(r) \/ Look(r) \/ BeginList(r) \/ HangUp(r)
      PROVE  UNCHANGED stray
  BY <1>4 DEF Make, Enter, Delete, Look, BeginList, HangUp, BeginMaking, BeginWithPassword,
     BeginWithToken, CreateDb, Count, Import, Auth, Stamp, OpenSession, Close, Revoke,
     Forget, List, Peek, Lookup, Driver, Upsert
<1> QED BY <1>1, <1>2, <1>3, <1>4 DEF Next, Restart, vars

\* A request reaches another database than the one its session was opened on only with a
\* pool opened between the two halves of a drop (DropDatabase, multi_db.go:341-388), or if
\* its account was copied into that one (CopyOwnerAccount, developer_utilities.go:219-240).
THEOREM Working == Spec => []WorkStaysHome
<1>1. Init => Abode /\ WorkStaysHome
  BY DEF Init, Abode, WorkStaysHome, Idle, At
<1> QED BY <1>1, InitTyped, InitHomes, NextTyped, NextHomes, NextAbode, NextHome, PTL DEF Spec

----------------------------------------------------------------------------
(* One change at a time.                                                   *)

\* A request that changes the database it found under the name: its maker, and a
\* deletion whose caller proved to own it.
Aimed(r) ==
  \/ Makes(r) /\ ~At(r, "create")
  \/ /\ Is(r, "delete")
     /\ \/ req[r].pc \in {"close", "drop"}
        \/ At(r, "lookup") /\ req[r].tok # NoToken

\* One that has changed it, but not its row yet.
InHand(r) ==
  \/ Makes(r) /\ ~At(r, "create")
  \/ req[r].pc \in {"revoke", "forget"}

\* Nobody hung up, and nobody lists; only deletions sign out, only changes drop.
Steady(r) ==
  /\ ~req[r].ended
  /\ Is(r, "list") => At(r, "idle")
  /\ req[r].pc \notin {"list", "peek"} /\ (At(r, "upsert") => Makes(r))
  /\ At(r, "lookup") => req[r].op \in {"login", "delete"}
  /\ req[r].pc \in {"close", "drop"} => Makes(r) \/ Is(r, "delete")
  /\ req[r].pc \in {"revoke", "forget"} => Is(r, "delete")

Fit(r) ==
  /\ Aimed(r) => AtHome(db, req[r].acct, req[r].inc)
  /\ Makes(r) /\ ~At(r, "create") => req[r].inc = db.inc /\ ~proj
  /\ req[r].pc \in {"revoke", "forget"} => ~Exists

\* An effect of a change is on its own database, unless it is a drop by an account that
\* was copied there.
Meant(e) == e.what = "work" \/ (e.what = "drop" /\ e.copied)

Followed == (proj <=> Exists) \/ db.inc \in excused

CalmInv ==
  /\ Typed /\ Homes /\ OneChange
  /\ \A r \in Requests : Steady(r) /\ Fit(r)
  /\ \A e \in stray : Meant(e)
  /\ (\A r \in Requests : ~InHand(r)) => Followed

\* No step but HangUp ends a context.
LEMMA NobodyHangsUp ==
  ASSUME Typed, NEW r \in Requests, Make(r) \/ Enter(r) \/ Delete(r) \/ Look(r),
         \A q \in Requests : ~req[q].ended
  PROVE  \A q \in Requests : ~req'[q].ended
<1>0. req \in [Requests -> Request]
  BY DEF Typed, TypeOK
<1>1. Shut(req) \in [Requests -> Request] /\ \A q \in Requests : ~Shut(req)[q].ended
  BY <1>0, ShutTypes DEF Shut, Request
<1>2. ASSUME NEW rq \in [Requests -> Request], Fail(r, rq), \A q \in Requests : ~rq[q].ended
      PROVE  \A q \in Requests : ~req'[q].ended
  BY <1>2 DEF Fail, Request, Idle
<1>3. ASSUME NEW pc, Goto(r, pc) PROVE \A q \in Requests : ~req'[q].ended
  BY <1>0, <1>3 DEF Goto, Request
<1>4. ASSUME Done(r) PROVE \A q \in Requests : ~req'[q].ended
  BY <1>0, <1>4 DEF Done, Idle
<1>5. CASE Make(r)
  <2>1. CASE \E op \in Ops : BeginMaking(r, op)
    BY <1>0, <2>1 DEF BeginMaking, Idle
  <2>2. CASE CreateDb(r)
    <3>1. ASSUME NEW k, req' = [req EXCEPT ![r].pc = "driver", ![r].acct = k,
                                           ![r].inc = last']
          PROVE  \A q \in Requests : ~req'[q].ended
      BY <1>0, <3>1 DEF Request
    <3>2. Done(r) \/ \E k : req' = [req EXCEPT ![r].pc = "driver", ![r].acct = k,
                                               ![r].inc = last']
      BY <2>2 DEF CreateDb, Taken
    <3> QED BY <1>4, <3>1, <3>2
  <2>3. CASE Ensure(r) \/ Count(r) \/ Import(r)
    BY <1>0, <1>2, <1>3, <2>3 DEF Ensure, Count, Import
  <2> QED BY <1>5, <2>1, <2>2, <2>3 DEF Make
<1>6. CASE Enter(r)
  <2>1. CASE \E op \in Ops, k \in Incs : BeginWithPassword(r, op, k)
    BY <1>0, <2>1 DEF BeginWithPassword, Idle
  <2>2. CASE \E op \in Ops, t \in Tokens : BeginWithToken(r, op, t)
    BY <1>0, <2>2 DEF BeginWithToken, Idle
  <2>3. CASE Auth(r)
    BY <1>0, <1>4, <2>3 DEF Auth, Request
  <2>4. CASE Stamp(r) \/ Work(r) \/ \E t \in Tokens : OpenSession(r, t)
    BY <1>3, <1>4, <2>4 DEF Stamp, Work, OpenSession
  <2> QED BY <1>6, <2>1, <2>2, <2>3, <2>4 DEF Enter
<1>7. CASE Delete(r)
  <2>1. CASE Close(r)
    BY <1>1, <2>1 DEF Close, Request
  <2>2. CASE Drop(r) \/ Revoke(r) \/ Forget(r)
    BY <1>3, <1>4, <2>2 DEF Drop, Revoke, Forget
  <2> QED BY <1>7, <2>1, <2>2 DEF Delete
<1>8. CASE Look(r)
  <2>1. CASE Driver(r)
    BY <1>0, <1>1, <1>2, <2>1 DEF Driver, Request
  <2>2. CASE List(r) \/ Peek(r) \/ Lookup(r) \/ Upsert(r)
    BY <1>3, <1>4, <2>2 DEF List, Peek, Lookup, Upsert
  <2> QED BY <1>8, <2>1, <2>2 DEF Look
<1> QED BY <1>5, <1>6, <1>7, <1>8

\* The invariant is a matter of the request that takes the step: only changes
\* touch the database and its row, and no other is under way.
LEMMA CalmStep ==
  ASSUME CalmInv, Typed', Homes', OneChange', NEW r \in Requests,
         \A q \in Requests : q # r => Same(q), \A q \in Requests : ~req'[q].ended,
         Steady(r)', Fit(r)', \A e \in stray' : Meant(e),
         Changes(r) \/ (Stands /\ proj' = proj),
         \/ InHand(r)' \/ Followed'
         \/ ~InHand(r) /\ db'.inc = db.inc /\ proj' = proj /\ excused \subseteq excused'
  PROVE  CalmInv'
<1>1. \A q \in Requests : Makes(q) => ~At(q, "idle")
  BY DEF CalmInv, Homes, MakersPcs, At
<1>2. \A q \in Requests : q # r => Steady(q)' /\ (InHand(q)' <=> InHand(q))
  BY DEF CalmInv, Steady, Same, Is, At, Makes, InHand
<1>3. ASSUME NEW q \in Requests, q # r PROVE Fit(q)'
  <2>1. CASE Changes(r)
    <3>1. ~Changes(q)  BY <1>3, <2>1 DEF CalmInv, OneChange
    <3>2. ~Makes(q) /\ (Is(q, "delete") => At(q, "idle"))
      BY <1>1, <3>1 DEF Changes, Makes, Is
    <3>3. ~Makes(q)' /\ ~Aimed(q)' /\ req'[q].pc \notin {"revoke", "forget"}
      BY <1>3, <3>2 DEF Same, Makes, Is, At, Aimed, CalmInv, Steady
    <3> QED BY <3>3 DEF Fit
  <2>2. CASE Stands /\ proj' = proj
    BY <1>3, <2>2 DEF CalmInv, Fit, AtHome, Stands, Same, Aimed, Makes, Is, At, Exists
  <2> QED BY <2>1, <2>2
<1>4. (\A q \in Requests : ~InHand(q)') => Followed'
  BY <1>2 DEF CalmInv, Followed, Exists
<1> QED BY <1>2, <1>3, <1>4 DEF CalmInv

\* A request goes on to another statement, and the database and its row stay.
LEMMA CalmMoves ==
  ASSUME CalmInv, Typed', Homes', OneChange', NEW r \in Requests, NEW pc \in Pcs,
         Moves(r, pc), \A q \in Requests : ~req'[q].ended,
         Stands, UNCHANGED <<proj, stray>>, excused \subseteq excused',
         ~At(r, "idle"), pc \notin {"idle", "create", "list", "peek"},
         pc = "lookup" => req[r].op \in {"login", "delete"},
         pc \in {"close", "drop"} => Makes(r) \/ Is(r, "delete"),
         pc = "upsert" => Makes(r),
         pc \in {"revoke", "forget"} => At(r, "revoke"),
         Is(r, "delete") /\ pc \in {"lookup", "close", "drop"} /\ req[r].tok # NoToken
           => AtHome(db, req[r].acct, req[r].inc),
         Is(r, "delete") /\ pc \in {"close", "drop"} => AtHome(db, req[r].acct, req[r].inc),
         Makes(r) => ~At(r, "create"),
         At(r, "revoke") \/ At(r, "forget") => pc \in {"revoke", "forget"}
  PROVE  CalmInv'
<1>1. \A e \in stray' : Meant(e)
  BY DEF CalmInv
<1>2. Steady(r) /\ Fit(r) /\ (Makes(r) => InPlace(r))
  BY DEF CalmInv, Typed
<1>3. Steady(r)'
  BY <1>2 DEF Moves, Steady, Makes, Is, At
<1>4. Fit(r)'
  BY <1>2 DEF Moves, Fit, AtHome, Stands, Steady, Aimed, Makes, Is, At, Exists
<1>5. InHand(r)' <=> InHand(r)
  BY <1>2 DEF Moves, InHand, Makes, Is, At, Homes, CalmInv, MakersPcs
<1> QED BY <1>1, <1>3, <1>4, <1>5, CalmStep DEF Moves, Stands

\* A request is over, and the database and its row stay.
LEMMA CalmEnds ==
  ASSUME CalmInv, Typed', Homes', OneChange', NEW r \in Requests, Ends(r),
         \A q \in Requests : ~req'[q].ended,
         UNCHANGED <<proj, stray>>, Stands, excused \subseteq excused',
         ~InHand(r) \/ db.inc \in excused'
  PROVE  CalmInv'
<1>1. Steady(r)' /\ Fit(r)'
  BY DEF Ends, Idle, Steady, Fit, Aimed, Makes, Is, At
<1>2. \A e \in stray' : Meant(e)
  BY DEF CalmInv
<1> QED BY <1>1, <1>2, CalmStep DEF Ends, Followed, Stands

\* A statement failed.
LEMMA CalmFails ==
  ASSUME CalmInv, Typed', Homes', OneChange', NEW r \in Requests,
         Fail(r, req) \/ Fail(r, Shut(req)),
         \A q \in Requests : ~req'[q].ended,
         UNCHANGED <<db, proj, stray, excused>>,
         ~At(r, "idle"), ~At(r, "create"), req[r].pc \notin {"revoke", "forget"}
  PROVE  CalmInv'
<1>1. req \in [Requests -> Request] /\ Steady(r)
  BY DEF CalmInv, Typed, TypeOK
<1>2. CASE Makes(r) /\ Moves(r, "close")
  <2>1. ~Is(r, "delete") /\ ~At(r, "revoke") /\ ~At(r, "forget") /\ "close" \in Pcs
    BY <1>2 DEF Makes, Is, At, Pcs
  <2> QED BY <1>2, <2>1, CalmMoves DEF Stands
<1>3. CASE ~Makes(r) /\ Ends(r)
  BY <1>3, CalmEnds DEF InHand, Stands
<1> QED BY <1>1, <1>2, <1>3, FailMoves DEF Steady, At

\* A request arrives.
LEMMA BeginCalm ==
  ASSUME CalmInv, Typed', Homes', OneChange', NEW r \in Requests,
         \A q \in Requests : ~req'[q].ended, \A q \in Requests : q # r => Same(q),
         \/ \E op \in Ops : BeginMaking(r, op)
         \/ \E op \in Ops, k \in Incs : BeginWithPassword(r, op, k)
         \/ \E op \in Ops, t \in Tokens : BeginWithToken(r, op, t)
  PROVE  CalmInv'
<1>0. req \in [Requests -> Request]
  BY DEF CalmInv, Typed, TypeOK
<1>1. At(r, "idle") /\ UNCHANGED <<db, proj, stray, excused>>
  BY Zenon DEF BeginMaking, BeginWithPassword, BeginWithToken
<1>2. ~InHand(r)
  BY <1>1 DEF InHand, At, CalmInv, Homes, MakersPcs
<1>3. /\ req'[r].pc \in {"create", "lookup", "driver"}
      /\ Makes(r)' => req'[r].pc = "create"
      /\ req'[r].pc = "lookup" => req'[r].op \in {"login", "delete"} /\ req'[r].tok = NoToken
      /\ req'[r].op # "list"
  <2>1. CASE \E op \in Ops : BeginMaking(r, op)
    BY <1>0, <2>1 DEF BeginMaking, Makes, Idle
  <2>2. CASE \E op \in Ops, k \in Incs : BeginWithPassword(r, op, k)
    BY <1>0, <2>2 DEF BeginWithPassword, Makes, Idle
  <2>3. CASE \E op \in Ops, t \in Tokens : BeginWithToken(r, op, t)
    BY <1>0, <2>3 DEF BeginWithToken, Makes, Idle
  <2> QED BY <2>1, <2>2, <2>3
<1>4. Steady(r)' /\ Fit(r)'
  BY <1>3 DEF Steady, Fit, Aimed, Makes, Is, At
<1>5. \A e \in stray' : Meant(e)
  BY <1>1 DEF CalmInv
<1> QED BY <1>1, <1>2, <1>4, <1>5, CalmStep DEF Stands

\* A database is made while nobody else touches one.
LEMMA MakeCalm ==
  ASSUME CalmInv, Typed', Homes', OneChange', NEW r \in Requests,
         \A q \in Requests : ~req'[q].ended, \A q \in Requests : q # r => Same(q),
         CreateDb(r) \/ Ensure(r) \/ Count(r) \/ Import(r)
  PROVE  CalmInv'
<1>0. /\ req \in [Requests -> Request] /\ req[r] \in Request /\ Steady(r) /\ Fit(r)
      /\ InPlace(r) /\ last \in Nat /\ MaxInc \in Nat /\ excused \subseteq Incs
      /\ db.inc \in 0 .. MaxInc /\ proj \in BOOLEAN
      /\ db \in Databases
  BY DEF CalmInv, Typed, TypeOK
<1>1. CASE CreateDb(r)
  <2>1. CASE Exists \/ req[r].ended
    <3>1. Ends(r) /\ ~InHand(r)
      BY <1>0, <1>1, <2>1, DoneEnds DEF Taken, CreateDb, InHand, At
    <3>2. UNCHANGED <<db, proj, stray, excused>>
      BY <1>1, <2>1 DEF CreateDb
    <3> QED BY <3>1, <3>2, CalmEnds DEF Stands
  <2>2. CASE ~(Exists \/ req[r].ended)
    <3>1. Makes(r) /\ Changes(r)
      BY <1>0, <1>1 DEF CreateDb, InPlace, At, Changes, Makes
    <3>2. \A q \in Requests : ~InHand(q)
      <4>1. ~InHand(r)
        BY <1>1 DEF CreateDb, InHand, At
      <4>2. ASSUME NEW q \in Requests, q # r PROVE ~InHand(q)
        <5>1. ~Changes(q)
          BY <3>1, <4>2 DEF CalmInv, OneChange
        <5> QED BY <5>1 DEF CalmInv, Homes, Steady, MakersPcs, Changes, InHand, Makes, Is, At
      <4> QED BY <4>1, <4>2
    <3>3. ~proj
      <4>1. Followed
        BY <3>2 DEF CalmInv
      <4> QED BY <1>0, <2>2, <4>1 DEF Followed, Exists, Incs
    <3>4. db'.inc = last + 1 /\ UNCHANGED <<proj, stray, excused>>
      BY <1>1, <2>2 DEF CreateDb, NoDb
    <3>5. req'[r].pc = "driver" /\ req'[r].op = req[r].op /\ req'[r].inc = last + 1
      <4>1. PICK k : req' = [req EXCEPT ![r].pc = "driver", ![r].acct = k,
                                        ![r].inc = last']
        BY <1>1, <2>2 DEF CreateDb
      <4>2. last' = last + 1
        BY <1>1, <2>2 DEF CreateDb
      <4> QED BY <1>0, <4>1, <4>2 DEF Request
    <3>6. Steady(r)' /\ Fit(r)' /\ InHand(r)'
      BY <3>1, <3>3, <3>4, <3>5 DEF Steady, Fit, AtHome, Aimed, InHand, Makes, Is, At
    <3>7. \A e \in stray' : Meant(e)
      BY <3>4 DEF CalmInv
    <3> QED BY <3>1, <3>6, <3>7, CalmStep
  <2> QED BY <1>1, <2>1, <2>2 DEF CreateDb
<1>2. CASE Ensure(r)
  <2>1. Makes(r) /\ ~At(r, "create") /\ ~At(r, "idle") /\ req[r].pc \notin {"revoke", "forget"}
    BY <1>0, <1>2 DEF Ensure, InPlace, At
  <2>2. req[r].inc = db.inc
    BY <1>0, <2>1 DEF Fit
  <2>3. CASE Fail(r, req) /\ UNCHANGED <<db, stray, excused>>
    BY <1>2, <2>1, <2>3, CalmFails DEF Ensure
  <2>4. CASE Goto(r, IF Is(r, "create") THEN "count" ELSE "import")
             /\ stray' = stray /\ excused \subseteq excused'
    <3> DEFINE pc == IF Is(r, "create") THEN "count" ELSE "import"
    <3>1. pc \in Pcs /\ Moves(r, pc)
      BY <1>0, <2>4, GotoMoves DEF Pcs
    <3>2. UNCHANGED proj
      BY <1>2 DEF Ensure
    <3>3. pc \in {"count", "import"} /\ ~Is(r, "delete") /\ ~At(r, "revoke") /\ ~At(r, "forget")
      BY <2>1 DEF Makes, Is, At
    <3> HIDE DEF pc
    <3>4. Stands
      BY <1>2, EnsureStands DEF CalmInv, Typed
    <3> QED BY <2>1, <2>4, <3>1, <3>2, <3>3, <3>4, CalmMoves
  <2>5. ASSUME IF Is(r, "copy") THEN CopyOwner(r) ELSE InsertOwner(r)
        PROVE  stray' = stray /\ excused \subseteq excused'
    BY <2>2, <2>5 DEF Note, InsertOwner, CopyOwner
  <2> QED BY <1>2, <2>3, <2>4, <2>5 DEF Ensure
<1>3. CASE Count(r) \/ Import(r)
  <2>1. Makes(r) /\ ~At(r, "create") /\ ~At(r, "idle") /\ req[r].pc \notin {"revoke", "forget"}
    BY <1>0, <1>3 DEF Count, Import, InPlace, At
  <2>2. UNCHANGED <<db, proj, stray, excused>>
    BY <1>3 DEF Count, Import
  <2>3. CASE Fail(r, req)
    BY <2>1, <2>2, <2>3, CalmFails
  <2>5. Stands
    BY <2>2 DEF Stands
  <2>4. CASE Goto(r, "upsert")
    <3>1. Moves(r, "upsert") /\ "upsert" \in Pcs
      BY <1>0, <2>4, GotoMoves DEF Pcs
    <3>2. ~Is(r, "delete") /\ ~At(r, "revoke") /\ ~At(r, "forget")
      BY <2>1 DEF Makes, Is, At
    <3> QED BY <2>1, <2>2, <2>5, <3>1, <3>2, CalmMoves
  <2> QED BY <1>3, <2>3, <2>4 DEF Count, Import
<1> QED BY <1>1, <1>2, <1>3

\* A request finds the database, or enters its name into the control store.
LEMMA LookCalm ==
  ASSUME CalmInv, Typed', Homes', OneChange', NEW r \in Requests,
         \A q \in Requests : ~req'[q].ended, \A q \in Requests : q # r => Same(q),
         Look(r)
  PROVE  CalmInv'
<1>0. /\ req \in [Requests -> Request] /\ Steady(r) /\ Fit(r)
      /\ InPlace(r) /\ (Makes(r) => req[r].pc \in MakersPcs)
  BY DEF CalmInv, Typed, TypeOK, Homes
<1>1. CASE Upsert(r)
  <2>1. Makes(r) /\ ~At(r, "create") /\ Changes(r)
    BY <1>0, <1>1 DEF Upsert, Steady, At, Changes, Makes
  <2>2. db.inc = req[r].inc /\ req[r].inc \in Incs
    BY <1>0, <2>1 DEF Fit, InPlace
  <2>3. proj' = TRUE /\ UNCHANGED <<db, stray, excused>> /\ Ends(r)
    BY <1>0, <1>1, DoneEnds DEF Upsert, Steady
  <2>4. Followed'
    BY <2>2, <2>3 DEF Followed, Exists, Incs
  <2>5. Steady(r)' /\ Fit(r)'
    BY <2>3 DEF Ends, Idle, Steady, Fit, Aimed, Makes, Is, At
  <2>6. \A e \in stray' : Meant(e)
    BY <2>3 DEF CalmInv
  <2> QED BY <2>1, <2>4, <2>5, <2>6, CalmStep
<1>2. CASE Lookup(r)
  <2>1. /\ req[r].op \in {"login", "delete"} /\ At(r, "lookup") /\ ~Makes(r)
        /\ req[r].tok # NoToken => Is(r, "delete") /\ AtHome(db, req[r].acct, req[r].inc)
        /\ UNCHANGED <<db, proj, stray, excused>> /\ Stands
    BY <1>0, <1>2 DEF Stands, Lookup, Steady, Fit, Aimed, InPlace, MakersPcs, At, Is
  <2>2. CASE Done(r)
    BY <1>0, <2>1, <2>2, DoneEnds, CalmEnds DEF InHand, At
  <2>3. CASE Goto(r, IF req[r].tok = NoToken THEN "driver" ELSE "close")
    <3> DEFINE pc == IF req[r].tok = NoToken THEN "driver" ELSE "close"
    <3>1. pc \in Pcs /\ Moves(r, pc) /\ pc \in {"driver", "close"}
      BY <1>0, <2>3, GotoMoves DEF Pcs
    <3>2. pc = "close" => Is(r, "delete") /\ AtHome(db, req[r].acct, req[r].inc)
      BY <2>1
    <3>3. ~At(r, "idle") /\ ~At(r, "revoke") /\ ~At(r, "forget")
      BY <2>1 DEF At
    <3> HIDE DEF pc
    <3> QED BY <2>1, <3>1, <3>2, <3>3, CalmMoves
  <2> QED BY <1>2, <2>2, <2>3 DEF Lookup
<1>3. CASE Driver(r)
  <2>1. At(r, "driver") /\ UNCHANGED <<db, proj, stray, excused>> /\ Stands
    BY <1>3 DEF Driver, Stands
  <2>2. /\ ~At(r, "idle") /\ ~At(r, "create") /\ ~At(r, "revoke") /\ ~At(r, "forget")
        /\ req[r].pc \notin {"revoke", "forget"}
    BY <2>1 DEF At
  <2>3. CASE Fail(r, Shut(req))
    BY <2>1, <2>2, <2>3, CalmFails
  <2>4. CASE req' = [req EXCEPT ![r].pc = AfterDriver(r), ![r].handle = "open"]
    <3> DEFINE pc == AfterDriver(r)
    <3>1. pc \in {"ensure", "stamp", "auth"}
      BY <1>0, <2>2 DEF AfterDriver, Steady
    <3>2. Moves(r, pc) /\ pc \in Pcs
      <4> HIDE DEF pc
      <4>1. req'[r].pc = pc /\ req'[r].op = req[r].op /\ req'[r].tok = req[r].tok
            /\ req'[r].acct = req[r].acct /\ req'[r].inc = req[r].inc
        BY <1>0, <2>4, SMT DEF Request, pc
      <4> QED BY <3>1, <4>1 DEF Moves, Pcs
    <3> HIDE DEF pc
    <3> QED BY <2>1, <2>2, <3>1, <3>2, CalmMoves
  <2> QED BY <1>3, <2>3, <2>4 DEF Driver
<1>4. ~List(r) /\ ~Peek(r)
  BY <1>0 DEF List, Peek, Steady, At
<1> QED BY <1>1, <1>2, <1>3, <1>4 DEF Look

\* A request proves who it comes from; a deletion finds, with its password or its
\* session, an account of the very database that it goes on to drop.
LEMMA EnterCalm ==
  ASSUME CalmInv, Typed', Homes', OneChange', NEW r \in Requests,
         \A q \in Requests : ~req'[q].ended, \A q \in Requests : q # r => Same(q),
         Auth(r) \/ Stamp(r) \/ Work(r) \/ \E t \in Tokens : OpenSession(r, t)
  PROVE  CalmInv'
<1>0. /\ req \in [Requests -> Request] /\ req[r] \in Request /\ Steady(r) /\ Fit(r)
      /\ InPlace(r) /\ (Makes(r) => req[r].pc \in MakersPcs)
  BY DEF CalmInv, Typed, TypeOK, Homes
<1>1. /\ req[r].pc \in {"auth", "stamp", "work", "session"} /\ ~Makes(r)
      /\ UNCHANGED <<db, proj, excused>> /\ Stands
  <2>1. /\ req[r].pc \in {"auth", "stamp", "work", "session"}
        /\ UNCHANGED <<db, proj, excused>>
    BY DEF Auth, Stamp, Work, OpenSession, At
  <2> QED BY <1>0, <2>1 DEF MakersPcs, Stands
<1>2. ~InHand(r)
  BY <1>1 DEF InHand
<1>3. ASSUME Done(r), stray' = stray PROVE CalmInv'
  BY <1>0, <1>1, <1>2, <1>3, DoneEnds, CalmEnds
<1>4. CASE Auth(r)
  <2>1. stray' = stray /\ req[r].op \in {"login", "delete"}
    BY <1>0, <1>4 DEF Auth, InPlace
  <2>2. CASE req' = [req EXCEPT ![r].inc = db.inc,
                                ![r].pc = IF Is(r, "login") THEN "session" ELSE "close"]
    <3>1. /\ req'[r].op = req[r].op /\ req'[r].inc = db.inc
          /\ req'[r].pc = IF Is(r, "login") THEN "session" ELSE "close"
      BY <1>0, <2>2 DEF Request
    <3>2. /\ req'[r].pc \in {"session", "close"} /\ req'[r].op \in {"login", "delete"}
          /\ req'[r].pc = "close" => req'[r].op = "delete"
      BY <2>1, <3>1 DEF Is
    <3>3. Steady(r)' /\ Fit(r)'
      BY <1>1, <3>1, <3>2 DEF Steady, Fit, AtHome, Aimed, Makes, Is, At
    <3>4. \A e \in stray' : Meant(e)
      BY <2>1 DEF CalmInv
    <3> QED BY <1>1, <1>2, <3>3, <3>4, CalmStep
  <2> QED BY <1>3, <1>4, <2>1, <2>2 DEF Auth
<1>5. CASE Stamp(r)
  <2>1. stray' = stray /\ req[r].tok # NoToken /\ req[r].op \in {"use", "delete"}
    BY <1>0, <1>5 DEF Stamp, InPlace
  <2>2. CASE Answered(r) /\ StampMatches(r)
             /\ Goto(r, IF Is(r, "use") THEN "work" ELSE "lookup")
    <3> DEFINE pc == IF Is(r, "use") THEN "work" ELSE "lookup"
    <3>1. AtHome(db, req[r].acct, req[r].inc)
      BY <1>0, <1>1, <2>1, <2>2
         DEF StampMatches, InPlace, Bound, Incs, CalmInv, Homes, Known, AtHome
    <3>2. pc \in Pcs /\ Moves(r, pc) /\ pc \in {"work", "lookup"}
      BY <1>0, <2>2, GotoMoves DEF Pcs
    <3>3. pc = "lookup" => Is(r, "delete")
      BY <2>1 DEF Is
    <3>4. ~At(r, "idle") /\ ~At(r, "revoke") /\ ~At(r, "forget")
      BY <1>5 DEF Stamp, At
    <3> HIDE DEF pc
    <3> QED BY <1>1, <2>1, <3>1, <3>2, <3>3, <3>4, CalmMoves DEF Is
  <2> QED BY <1>3, <1>5, <2>1, <2>2 DEF Stamp
<1>6. CASE Work(r)
  <2>1. \A e \in stray' : Meant(e)
    BY <1>6 DEF Work, Note, CalmInv, Meant
  <2>2. Ends(r)
    BY <1>0, <1>6, DoneEnds DEF Work
  <2>3. Steady(r)' /\ Fit(r)'
    BY <2>2 DEF Ends, Idle, Steady, Fit, Aimed, Makes, Is, At
  <2> QED BY <1>1, <1>2, <2>1, <2>3, CalmStep
<1>7. CASE \E t \in Tokens : OpenSession(r, t)
  BY <1>3, <1>7 DEF OpenSession
<1> QED BY <1>4, <1>5, <1>6, <1>7

\* What is dropped is what its maker made or its owner meant, and its row follows.
LEMMA DeleteCalm ==
  ASSUME CalmInv, Typed', Homes', OneChange', NEW r \in Requests,
         \A q \in Requests : ~req'[q].ended, \A q \in Requests : q # r => Same(q),
         Delete(r)
  PROVE  CalmInv'
<1>0. /\ req \in [Requests -> Request] /\ req[r] \in Request /\ Steady(r) /\ Fit(r)
      /\ InPlace(r) /\ (Makes(r) => req[r].pc \in MakersPcs)
  BY DEF CalmInv, Typed, TypeOK, Homes
<1>1. \A e \in stray : Meant(e)
  BY DEF CalmInv
<1>2. ASSUME Done(r) PROVE Steady(r)' /\ Fit(r)'
  BY <1>0, <1>2, DoneEnds DEF Ends, Idle, Steady, Fit, Aimed, Makes, Is, At
<1>3. CASE Close(r)
  <2>1. Moves(r, "drop")
    <3>1. Shut(req)[r] \in Request /\ Shut(req) \in [Requests -> Request]
      BY <1>0, ShutTypes
    <3>2. req'[r] = [Shut(req)[r] EXCEPT !.pc = "drop"]
      BY <1>3, <3>1 DEF Close
    <3> QED BY <1>0, <3>1, <3>2, ShutTypes DEF Moves, Same, Request
  <2>2. /\ UNCHANGED <<db, proj, stray, excused>> /\ "drop" \in Pcs
        /\ ~At(r, "idle") /\ ~At(r, "revoke") /\ ~At(r, "forget") /\ ~At(r, "create")
        /\ Is(r, "delete") => AtHome(db, req[r].acct, req[r].inc)
        /\ Stands
    BY <1>0, <1>3 DEF Close, Pcs, At, Fit, Aimed, Stands
  <2> QED BY <1>0, <1>3, <2>1, <2>2, CalmMoves DEF Close, Steady, At
<1>4. CASE Drop(r)
  <2>1. /\ At(r, "drop") /\ UNCHANGED proj /\ Changes(r)
        /\ AtHome(db, req[r].acct, req[r].inc) /\ (Makes(r) => req[r].inc = db.inc)
    BY <1>0, <1>4 DEF Drop, Fit, Aimed, Steady, Changes, Makes, Is, At
  <2>2. CASE db' = NoDb /\ (Exists => Note("drop", r)) /\ (~Exists => stray' = stray)
             /\ IF Is(r, "delete") THEN Goto(r, "revoke") ELSE Done(r)
    <3>1. \A e \in stray' : Meant(e)
      <4> SUFFICES ASSUME NEW e \in stray', e \notin stray PROVE Meant(e)
        BY <1>1
      <4>1. /\ req[r].inc # db.inc
            /\ e = [what |-> "drop", mid |-> pool.mid, copied |-> req[r].acct \in db.copies]
        BY <2>2 DEF Note
      <4>2. req[r].acct \in db.copies
        BY <2>1, <4>1 DEF AtHome
      <4> QED BY <4>1, <4>2 DEF Meant
    <3>2. ~Exists'
      BY <2>2 DEF Exists, NoDb
    <3>3. CASE Is(r, "delete")
      <4>1. req'[r].pc = "revoke" /\ req'[r].op = "delete"
        BY <1>0, <2>2, <3>3 DEF Goto, Is, Request
      <4>2. Steady(r)' /\ Fit(r)' /\ InHand(r)'
        BY <3>2, <4>1 DEF Steady, Fit, Aimed, InHand, Makes, Is, At
      <4> QED BY <1>1, <2>1, <3>1, <4>2, CalmStep
    <3>4. CASE ~Is(r, "delete")
      <4>1. ~proj
        BY <1>0, <2>1, <3>4 DEF Steady, Fit, At
      <4>2. Followed'
        BY <2>1, <3>2, <4>1 DEF Followed
      <4> QED BY <1>1, <1>2, <2>1, <2>2, <3>1, <3>4, <4>2, CalmStep
    <3> QED BY <3>3, <3>4
  <2>3. CASE excused' = excused \cup Made({r}) /\ Done(r) /\ UNCHANGED <<db, stray>>
    <3>1. ~InHand(r) \/ db.inc \in excused'
      <4>1. CASE Makes(r)
        <5>1. req[r].inc \in Incs
          BY <1>0, <2>1, <4>1 DEF InPlace, At
        <5>2. req[r].inc \in Made({r})
          BY <4>1, <5>1 DEF Made, Makes, Incs
        <5> QED BY <2>1, <2>3, <4>1, <5>2
      <4> QED BY <2>1, <4>1 DEF InHand, At
    <3> QED BY <1>0, <2>1, <2>3, <3>1, DoneEnds, CalmEnds DEF Stands
  <2> QED BY <1>4, <2>2, <2>3 DEF Drop
<1>5. CASE Revoke(r)
  <2>1. /\ Moves(r, "forget") /\ UNCHANGED <<db, proj, stray, excused>> /\ "forget" \in Pcs
        /\ Stands
    BY <1>0, <1>5, GotoMoves DEF Revoke, Pcs, Stands
  <2>2. At(r, "revoke") /\ ~At(r, "idle") /\ ~Makes(r)
    BY <1>0, <1>5 DEF Revoke, At, MakersPcs
  <2> QED BY <2>1, <2>2, CalmMoves
<1>6. CASE Forget(r)
  <2>1. UNCHANGED <<db, stray, excused>> /\ Done(r) /\ proj' = FALSE
    BY <1>0, <1>6 DEF Forget, RowLeft, Steady
  <2>2. Changes(r) /\ ~Exists
    BY <1>0, <1>6 DEF Forget, Steady, Fit, Changes, Is, At
  <2>3. Followed'
    BY <2>1, <2>2 DEF Followed, Exists
  <2> QED BY <1>1, <1>2, <2>1, <2>2, <2>3, CalmStep
<1> QED BY <1>3, <1>4, <1>5, <1>6 DEF Delete

\* A step of the run that stays in its scenario.
LEMMA CalmNext ==
  ASSUME Typed, Homes, scenario \in {"any", "calm"}, Calm => CalmInv,
         [MCNext]_<<vars, scenario>>
  PROVE  (Typed /\ Homes /\ scenario \in {"any", "calm"} /\ (Calm => CalmInv))'
<1>1. [Next]_vars
  <2>1. CASE MCNext /\ scenario = "any"
    BY <2>1 DEF MCNext
  <2>2. CASE MCNext /\ scenario = "calm"
    <3>1. \E r \in Requests : Make(r) \/ Enter(r) \/ Delete(r) \/ Look(r)
      BY <2>2 DEF MCNext
    <3> QED BY <3>1 DEF Next
  <2>3. CASE UNCHANGED vars
    BY <2>3
  <2> QED BY <2>1, <2>2, <2>3
<1>2. Typed' /\ Homes'
  BY <1>1, NextTyped, NextHomes
<1>3. scenario' = scenario
  BY DEF MCNext
<1>4. CASE MCNext /\ Calm
  <2>1. OneChange'
    BY <1>4 DEF MCNext, Calm
  <2>2. PICK r \in Requests : Make(r) \/ Enter(r) \/ Delete(r) \/ Look(r)
    BY <1>4 DEF MCNext, Calm
  <2>3. \A q \in Requests : ~req'[q].ended
    BY <1>4, <2>2, NobodyHangsUp DEF CalmInv, Steady
  <2>4. \A q \in Requests : q # r => Same(q)
    BY <2>2, OthersSame
  <2>5. CalmInv'
    BY <1>2, <1>4, <2>1, <2>2, <2>3, <2>4, BeginCalm, MakeCalm, EnterCalm, DeleteCalm,
       LookCalm DEF Make, Enter
  <2> QED BY <1>2, <1>3, <2>5
<1>5. CASE UNCHANGED <<vars, scenario>> /\ Calm
  <2>1. CalmInv
    BY <1>5
  <2>2. (OneChange /\ (\A r \in Requests : Steady(r) /\ Fit(r)))'
    BY <1>5, <2>1 DEF vars, CalmInv, OneChange, Changes, Steady, Fit, Aimed, Makes, Is, At,
       AtHome, Exists
  <2>3. ((\A e \in stray : Meant(e)) /\ ((\A r \in Requests : ~InHand(r)) => Followed))'
    BY <1>5, <2>1 DEF vars, CalmInv, Meant, InHand, Followed, Makes, At, Exists
  <2>4. CalmInv'
    BY <1>2, <2>2, <2>3 DEF CalmInv
  <2> QED BY <1>2, <1>3, <2>4
<1> QED BY <1>2, <1>3, <1>4, <1>5 DEF Calm

LEMMA InitCalm == Init => CalmInv
<1> SUFFICES ASSUME Init PROVE CalmInv
  OBVIOUS
<1>1. Typed /\ Homes /\ \A r \in Requests : req[r] = Idle
  BY InitTyped, InitHomes DEF Init
<1>2. \A r \in Requests : Steady(r) /\ Fit(r) /\ ~Changes(r)
  <2> SUFFICES ASSUME NEW r \in Requests PROVE Steady(r) /\ Fit(r) /\ ~Changes(r)
    OBVIOUS
  <2>1. req[r].pc = "idle" /\ req[r].op = "list" /\ ~req[r].ended
    BY <1>1 DEF Idle
  <2> QED BY <2>1 DEF Steady, Fit, Aimed, Changes, Makes, Is, At
<1>3. stray = {} /\ ~proj /\ ~Exists
  BY DEF Init, Exists, NoDb
<1> QED BY <1>1, <1>2, <1>3 DEF CalmInv, OneChange, Followed

\* With one change at a time no account is inserted into, and nothing drops, a database
\* that was not meant (CreateDatabase, DeleteDatabase, solution_handler.go:209-330,
\* 374-439), for any number of requests beside it; but a session that is left of an
\* earlier database of the name deletes its successor if its account was copied there.
THEOREM OwnDatabase == MCSpec => []CalmChangesHitTheirOwn
<1>1. MCInit => Typed /\ Homes /\ scenario \in {"any", "calm"} /\ (Calm => CalmInv)
  BY InitCalm DEF MCInit, CalmInv
<1>2. (Calm => CalmInv) => CalmChangesHitTheirOwn
  BY DEF CalmInv, Meant, CalmChangesHitTheirOwn
<1> QED BY <1>1, <1>2, CalmNext, PTL DEF MCSpec

\* And whenever it is over, the control store has a row exactly for the database there
\* is (UpsertProject, DeleteProject).
THEOREM RowFollows == MCSpec => []CalmProjectsFollow
<1>1. MCInit => Typed /\ Homes /\ scenario \in {"any", "calm"} /\ (Calm => CalmInv)
  BY InitCalm DEF MCInit, CalmInv
<1>2. (Calm => CalmInv) => CalmProjectsFollow
  <2>1. ASSUME CalmInv, \A r \in Requests : ~Changes(r) PROVE \A r \in Requests : ~InHand(r)
    BY <2>1 DEF CalmInv, Homes, MakersPcs, Steady, Changes, InHand, Makes, Is, At
  <2> QED BY <2>1 DEF CalmInv, CalmProjectsFollow, Followed
<1> QED BY <1>1, <1>2, CalmNext, PTL DEF MCSpec
=============================================================================
