--------------------------- MODULE AccountsProofs ---------------------------
(***************************************************************************)
(* Proofs about Accounts, for any number of accounts, sign-ins, concurrent *)
(* requests and password changes: its type invariant, and that the guard   *)
(* admits only sessions whose holder knows the present password.           *)
(***************************************************************************)
EXTENDS Accounts, FiniteSetTheorems, TLAPS

----------------------------------------------------------------------------
\* Types.

\* What the store and the requests are reset to (session.go:186-213, and the
\* return of a handler) is a session and a request.
LEMMA BlankTypes ==
  /\ NoStamp \in Stamp /\ Idle \in Request
  /\ NoSession("gone") \in Session /\ NoSession("fresh") \in Session
<1>1. (CHOOSE u \in Users : TRUE) \in Users  BY AccountsAssumption
<1>2. NoStamp \in Stamp  BY AccountsAssumption DEF NoStamp, Stamp, Pws, Roles
<1>3. \A st \in {"fresh", "gone"} : NoSession(st) \in Session
  BY <1>1, <1>2 DEF NoSession, Session, Roles
<1>4. Idle.cmd \in Command  BY <1>1 DEF Idle, Command, Ops
<1>. QED  BY <1>2, <1>3, <1>4 DEF Idle, Request, Pcs, Roles

\* Ending sessions (Revoke, RevokeUser, pruneLocked, session.go:186-307) and
\* finishing or advancing a request keep the types.
LEMMA EndTypes ==
  ASSUME TypeOK, NEW T, End(T)  PROVE session' \in [Tokens -> Session]
BY BlankTypes DEF TypeOK, End

\* A request that ends leaves a request slot behind.
LEMMA DoneTypes ==
  ASSUME TypeOK, NEW r \in Requests, Done(r)  PROVE req' \in [Requests -> Request]
BY BlankTypes DEF TypeOK, Done

\* Moving a handler to its next statement keeps the request a request.
LEMMA GotoTypes ==
  ASSUME TypeOK, NEW r \in Requests, NEW pc \in Pcs, Goto(r, pc)
  PROVE  req' \in [Requests -> Request]
BY DEF TypeOK, Goto, Request

\* Every change of UpdateUser and SetSuperOwner (security_service.go:432-521)
\* leaves an account row behind.
LEMMA UpdatedTypes ==
  ASSUME NEW is \in Stamp, NEW c \in Command, NEW role \in Roles, NEW pw \in Pws
  PROVE  Updated(is, c, role, pw) \in Stamp
<1>. DEFINE q == IF c.pw THEN pw ELSE is.pw
            a == IF c.active = "same" THEN is.active ELSE c.active = "on"
<1>1. CASE c.op = "super"  BY <1>1 DEF Updated, Stamp
<1>2. CASE c.op # "super"
  <2>1. Updated(is, c, role, pw) =
          [pw |-> q, role |-> role, active |-> a, super |-> is.super]
    BY <1>2 DEF Updated, Stamp
  <2>2. q \in Pws /\ a \in BOOLEAN /\ is.super \in BOOLEAN  BY DEF Stamp
  <2>. QED  BY <2>1, <2>2 DEF Stamp
<1>. QED  BY <1>1, <1>2


\* What Load and ReadStamp note down, and what Restamp puts into a session.
LEMMA LoadTypes ==
  ASSUME NEW q \in Request, NEW role \in Roles, NEW seen \in Roles,
         NEW keep \in Tokens \cup {NoToken}
  PROVE  [q EXCEPT !.pc = "guard", !.newRole = role, !.seen = seen, !.keep = keep]
           \in Request
<1>. DEFINE q1 == [q EXCEPT !.pc = "guard"]
            q2 == [q1 EXCEPT !.newRole = role]
            q3 == [q2 EXCEPT !.seen = seen]
<1>1. q1 \in Request  BY DEF Request, Pcs
<1>. HIDE DEF q1
<1>2. q2 \in Request  BY <1>1 DEF Request
<1>. HIDE DEF q2
<1>3. q3 \in Request  BY <1>2 DEF Request
<1>. HIDE DEF q3
<1>4. [q3 EXCEPT !.keep = keep] \in Request  BY <1>3 DEF Request
<1>. QED  BY <1>4 DEF q1, q2, q3

\* A session with another stamp is a session (Store.Restamp).
LEMMA RestampTypes ==
  ASSUME NEW s \in Session, NEW snap \in Stamp
  PROVE  [s EXCEPT !.stamp = snap] \in Session
BY DEF Session

\* The accounts, sessions and requests a server starts with have their types.
LEMMA InitTypes == Init => TypeOK
<1>. SUFFICES ASSUME Init PROVE TypeOK  OBVIOUS
<1>1. 0 \in Pws  BY AccountsAssumption DEF Pws
<1>2. acct \in [Users -> Account]
  <2>1. ASSUME NEW u \in Users, FirstRole[u] # "none" PROVE FirstRole[u] \in Roles
    BY <2>1, AccountsAssumption
  <2>. QED  BY <1>1, <2>1, BlankTypes DEF Init, Account, Stamp
<1>. QED  BY <1>1, <1>2, BlankTypes DEF Init, TypeOK

\* Every step of every handler and of the session store keeps the types.
LEMMA NextTypes == TypeOK /\ [Next]_vars => TypeOK'
<1>. SUFFICES ASSUME TypeOK, [Next]_vars PROVE TypeOK'  OBVIOUS
<1>. USE DEF TypeOK
<1>1. ASSUME NEW r \in Requests, SignIn(r) PROVE TypeOK'
  <2>1. ASSUME NEW u \in Users, Authenticate(r, u) PROVE TypeOK'
    <3>1. acct[u].is \in Stamp  BY DEF Account
    <3>2. [Idle EXCEPT !.pc = "create", !.cmd = [Idle.cmd EXCEPT !.target = u],
                    !.snap = acct[u].is] \in Request
      <4>1. [Idle.cmd EXCEPT !.target = u] \in Command
        BY BlankTypes DEF Request, Command
      <4>. DEFINE q1 == [Idle EXCEPT !.pc = "create"]
                  q2 == [q1 EXCEPT !.cmd = [Idle.cmd EXCEPT !.target = u]]
      <4>2. q1 \in Request  BY BlankTypes DEF Request, Pcs
      <4>. HIDE DEF q1
      <4>3. q2 \in Request  BY <4>1, <4>2 DEF Request
      <4>. HIDE DEF q2
      <4>4. [q2 EXCEPT !.snap = acct[u].is] \in Request  BY <3>1, <4>3 DEF Request
      <4>. QED  BY <4>4 DEF q1, q2
    <3>. QED  BY <2>1, <3>2 DEF Authenticate
  <2>2. ASSUME NEW t \in Tokens, Create(r, t) PROVE TypeOK'
    <3>1. req[r].snap \in Stamp /\ Target(r) \in Users  BY DEF Request, Command, Target
    <3>2. req' \in [Requests -> Request]  BY <2>2, DoneTypes DEF Create
    <3>3. session' \in [Tokens -> Session]  BY <2>2, <3>1 DEF Create, Session, Stamp
    <3>4. knows' \in [Tokens -> SUBSET Pws]  BY <2>2, <3>1 DEF Create, Stamp
    <3>. QED  BY <2>2, <3>2, <3>3, <3>4 DEF Create
  <2>. QED  BY <1>1, <2>1, <2>2 DEF SignIn
<1>2. ASSUME NEW r \in Requests, Guarded(r) PROVE TypeOK'
  <2>1. ASSUME NEW t \in Tokens, NEW c \in Commands, Begin(r, t, c) PROVE TypeOK'
    <3>1. [Idle EXCEPT !.pc = "check", !.tok = t, !.sess = session[t], !.cmd = c]
            \in Request
      <4>. DEFINE q1 == [Idle EXCEPT !.pc = "check"]
                  q2 == [q1 EXCEPT !.tok = t]
                  q3 == [q2 EXCEPT !.sess = session[t]]
      <4>1. q1 \in Request  BY BlankTypes DEF Request, Pcs
      <4>. HIDE DEF q1
      <4>2. q2 \in Request  BY <4>1 DEF Request
      <4>. HIDE DEF q2
      <4>3. q3 \in Request  BY <4>2 DEF Request
      <4>. HIDE DEF q3
      <4>4. [q3 EXCEPT !.cmd = c] \in Request  BY <4>3, AccountsAssumption DEF Request
      <4>. QED  BY <4>4 DEF q1, q2, q3
    <3>. QED  BY <2>1, <3>1 DEF Begin
  <2>2. CASE Admit(r)  BY <2>2, GotoTypes DEF Admit, Pcs
  <2>3. CASE Reject(r)  BY <2>3, DoneTypes, EndTypes DEF Reject
  <2>. QED  BY <1>2, <2>1, <2>2, <2>3 DEF Guarded
<1>3. ASSUME NEW r \in Requests, Handle(r) PROVE TypeOK'
  <2>. DEFINE c == req[r].cmd
              u == c.target
  <2>0. /\ c \in Command /\ u \in Users /\ acct[u].is \in Stamp
        /\ req[r].newRole \in Roles
    BY DEF Request, Command, Account
  <2>1. CASE Load(r)
    <3>1. acct[Target(r)].is.role \in Roles  BY <2>0 DEF Target, Stamp
    <3>2. NewRole(r) \in Roles  BY <2>0, <3>1 DEF NewRole, Command
    <3>. DEFINE keep == IF Keeps(r) THEN req[r].tok ELSE NoToken
    <3>3. keep \in Tokens \cup {NoToken}  BY DEF Request
    <3>4. req' = [req EXCEPT ![r] = [req[r] EXCEPT !.pc = "guard", !.newRole = NewRole(r),
                    !.seen = acct[Target(r)].is.role, !.keep = keep]]
      BY <2>1 DEF Load, Request
    <3>. HIDE DEF keep
    <3>5. [req[r] EXCEPT !.pc = "guard", !.newRole = NewRole(r),
                    !.seen = acct[Target(r)].is.role, !.keep = keep] \in Request
      BY <3>1, <3>2, <3>3, LoadTypes
    <3>6. req' \in [Requests -> Request]  BY <3>4, <3>5
    <3>. QED  BY <2>1, <3>6 DEF Load
  <2>2. CASE Forbid(r) \/ Read(r) \/ GiveUp(r) \/ NoNewStamp(r)
    BY <2>2, DoneTypes DEF Forbid, Read, GiveUp, NoNewStamp
  <2>3. CASE Logout(r)  BY <2>3, DoneTypes, EndTypes DEF Logout
  <2>4. CASE CreateUser(r)
    <3>1. req' \in [Requests -> Request]  BY <2>4, DoneTypes DEF CreateUser
    <3>2. lastPw + 1 \in Pws /\ lastPw' \in Pws
      BY <2>4, AccountsAssumption DEF CreateUser, Pws
    <3>3. c.role \in Roles  BY <2>0, <2>4 DEF CreateUser, Command, IsAdmin
    <3>4. [st |-> "live", is |-> [pw |-> lastPw + 1, role |-> c.role,
             active |-> c.active # "off", super |-> FALSE]] \in Account
      BY <3>2, <3>3 DEF Account, Stamp
    <3>5. acct' \in [Users -> Account]  BY <2>4, <3>4 DEF CreateUser
    <3>. QED  BY <2>4, <3>1, <3>2, <3>5 DEF CreateUser
  <2>5. CASE Guard(r) \/ Count(r)
    BY <2>5, DoneTypes, GotoTypes DEF Guard, Count, Pcs
  <2>6. CASE Write(r)
    <3>1. lastPw' \in Pws /\ (c.pw => lastPw + 1 \in Pws)
      BY <2>6, AccountsAssumption DEF Write, Pws
    <3>2. acct' \in [Users -> Account]
      <4>1. CASE ~Live(u)  BY <2>6, <4>1 DEF Write
      <4>2. CASE Live(u) /\ c.op = "delete"  BY <2>6, <4>2 DEF Write, Account
      <4>3. CASE Live(u) /\ c.op # "delete"
        <5>1. Updated(acct[u].is, c, req[r].newRole, lastPw + 1) \in Stamp
          <6>1. CASE c.pw  BY <2>0, <3>1, <6>1, UpdatedTypes
          <6>2. CASE ~c.pw
            <7>1. Updated(acct[u].is, c, req[r].newRole, lastPw + 1)
                    = Updated(acct[u].is, c, req[r].newRole, lastPw)
              BY <6>2 DEF Updated
            <7>. QED  BY <2>0, <7>1, UpdatedTypes
          <6>. QED  BY <6>1, <6>2
        <5>2. acct' = [acct EXCEPT ![u].is =
                         Updated(acct[u].is, c, req[r].newRole, lastPw + 1)]
          BY <2>6, <4>3 DEF Write
        <5>. QED  BY <5>1, <5>2 DEF Account
      <4>. QED  BY <4>1, <4>2, <4>3
    <3>3. knows' \in [Tokens -> SUBSET Pws]
      BY <2>6, <3>1 DEF Write
    <3>4. req' \in [Requests -> Request]
      BY <2>6, DoneTypes, GotoTypes DEF Write, Pcs
    <3>. QED  BY <2>6, <3>1, <3>2, <3>3, <3>4 DEF Write
  <2>7. CASE Revoke(r)  BY <2>7, DoneTypes, GotoTypes, EndTypes DEF Revoke, Pcs
  <2>8. CASE ReadStamp(r)
    <3>1. acct[Target(r)].is \in Stamp  BY <2>0 DEF Target
    <3>. DEFINE q == [req[r] EXCEPT !.pc = "restamp", !.snap = acct[Target(r)].is]
    <3>2. req' = [req EXCEPT ![r] = [req[r] EXCEPT !.pc = "restamp",
                                                   !.snap = acct[Target(r)].is]]
      BY <2>8 DEF ReadStamp, Request
    <3>3. q \in Request  BY <3>1 DEF Request, Pcs
    <3>4. req' \in [Requests -> Request]  BY <3>2, <3>3
    <3>. QED  BY <2>8, <3>4 DEF ReadStamp
  <2>9. CASE Restamp(r)
    <3>. DEFINE t == req[r].tok
    <3>0. req[r].snap \in Stamp  BY DEF Request
    <3>1. session' \in [Tokens -> Session]
      <4>1. CASE t \in Tokens /\ session[t].st = "live"
        <5>1. session' = [session EXCEPT ![t] = [session[t] EXCEPT !.stamp = req[r].snap]]
          BY <2>9, <4>1 DEF Restamp
        <5>. QED  BY <3>0, <4>1, <5>1, RestampTypes
      <4>2. CASE ~(t \in Tokens /\ session[t].st = "live")
        BY <2>9, <4>2 DEF Restamp
      <4>. QED  BY <4>1, <4>2
    <3>. QED  BY <2>9, <3>1, DoneTypes DEF Restamp
  <2>. QED  BY <1>3, <2>1, <2>2, <2>3, <2>4, <2>5, <2>6, <2>7, <2>8, <2>9 DEF Handle
<1>4. ASSUME NEW t \in Tokens, Expire(t) PROVE TypeOK'
  BY <1>4, EndTypes DEF Expire
<1>5. CASE Restart  BY <1>5, EndTypes, BlankTypes DEF Restart
<1>6. CASE UNCHANGED vars  BY <1>6 DEF vars
<1>. QED  BY <1>1, <1>2, <1>3, <1>4, <1>5, <1>6 DEF Next

\* The accounts, the session store and every request in progress keep the form
\* the handlers give them (security_handler.go, session.go), however the
\* requests interleave.
THEOREM Typing == Spec => []TypeOK
BY InitTypes, NextTypes, PTL DEF Spec

----------------------------------------------------------------------------
\* The inductive invariant of OnlyKnowersAreAdmitted.

Guarding(r) == req[r].pc \notin {"idle", "create"}
Admitted(r) == req[r].pc \notin {"idle", "create", "check"}
Changing(r) == req[r].pc \in {"guard", "count", "write", "revoke", "stamp", "restamp"}
Finishing(r) == req[r].pc \in {"revoke", "stamp", "restamp"}
Keeping(r) == req[r].keep # NoToken

\* The session t of u is over, or about to be.
Ends(t, u) == session[t].st = "live" => RevokePending(u, t)

\* A session belongs to an account that exists; its stamp is no newer than the
\* last password, and if it shows the account deactivated or with a password
\* the holder does not know, it is about to end.
SessionInv(t) ==
  LET s == session[t]
      u == s.user
  IN  /\ s.stamp.pw <= lastPw
      /\ s.st = "live" =>
           /\ acct[u].st # "unborn"
           /\ s.stamp.active \/ RevokePending(u, t)
           /\ Live(u) /\ s.stamp.pw = acct[u].is.pw
                => acct[u].is.pw \in knows[t] \/ RevokePending(u, t)

\* A request is served for the account its session belongs to.
Served(r) ==
  Guarding(r) =>
    /\ req[r].tok \in Tokens
    /\ session[req[r].tok].st # "fresh"
    /\ session[req[r].tok].st = "live" => session[req[r].tok].user = req[r].sess.user
    /\ acct[req[r].sess.user].st # "unborn"

\* What is left of the decision taken in Load: only a user who changes their
\* own password keeps a session.
Decided(r) ==
  /\ Changing(r) => req[r].cmd.op \in {"update", "delete", "super"}
  /\ Changing(r) /\ Keeping(r) =>
       /\ req[r].keep = req[r].tok
       /\ IsSelf(r) /\ ~Deactivates(req[r].cmd)
       /\ req[r].newRole = req[r].seen /\ req[r].cmd.op = "update"
  /\ Finishing(r) /\ Keeping(r) => req[r].cmd.pw
  /\ req[r].pc \in {"stamp", "restamp"} => Keeping(r)

\* A request in progress is about a stamp like those of the sessions.
Stamping(r) ==
  LET t == req[r].tok
      u == req[r].sess.user
  IN  /\ req[r].snap.pw <= lastPw
      /\ At(r, "create") => acct[Target(r)].st # "unborn" /\ req[r].snap.active
      /\ At(r, "check") => req[r].sess.stamp.active \/ Ends(t, u)
      /\ Admitted(r) => acct[u].is.active \/ Ends(t, u)
      /\ At(r, "restamp") => req[r].snap.active \/ Ends(t, u)
      /\ Finishing(r) /\ Keeping(r) /\ Live(u)
           => acct[u].is.pw \in knows[t] \/ Ends(t, u)

RequestInv(r) == Served(r) /\ Decided(r) /\ Stamping(r)

IInv ==
  /\ TypeOK
  /\ \A u \in Users : acct[u].is.pw <= lastPw
  /\ \A t \in Tokens : SessionInv(t)
  /\ \A r \in Requests : RequestInv(r)

----------------------------------------------------------------------------
\* What a step may do to sessions and requests it is not about.

Harmless ==
  /\ lastPw <= lastPw'
  /\ \A t \in Tokens :
       /\ session[t].st # "fresh" => session'[t].st # "fresh"
       /\ session[t].st # "fresh" /\ session'[t].st = "live"
            => session[t].st = "live" /\ session'[t].user = session[t].user
  /\ \A u \in Users : acct[u].st # "unborn" => acct'[u].st # "unborn"
  /\ \A t \in Tokens, u \in Users :
       session[t].st = "live" /\ session'[t].st = "live"
         /\ session[t].user = u /\ acct[u].st # "unborn" =>
         /\ RevokePending(u, t) => RevokePending(u, t)'
         /\ acct[u].is.active => acct'[u].is.active \/ RevokePending(u, t)'
         /\ Live(u)' =>
              /\ Live(u)
              /\ \/ acct'[u].is.pw = acct[u].is.pw /\ knows[t] \subseteq knows'[t]
                 \/ acct'[u].is.pw > lastPw
                      /\ (acct'[u].is.pw \in knows'[t] \/ RevokePending(u, t)')

\* The sessions and requests a harmless step leaves as they are keep their part
\* of the invariant: a password set by another handler is newer than their
\* stamps, and whoever is deactivated is about to lose their sessions.
LEMMA UntouchedSessions ==
  ASSUME IInv, TypeOK', Harmless, NEW t \in Tokens, session'[t] = session[t]
  PROVE  SessionInv(t)'
<1>. DEFINE s == session[t]
            u == s.user
<1>1. /\ s.stamp.pw \in Int /\ lastPw \in Int /\ lastPw' \in Int /\ u \in Users
  BY DEF IInv, TypeOK, Session, Stamp, Pws
<1>2. SessionInv(t)  BY DEF IInv
<1>3. s.stamp.pw <= lastPw'  BY <1>1, <1>2 DEF SessionInv, Harmless
<1>4. ASSUME s.st = "live"
      PROVE  /\ acct'[u].st # "unborn"
             /\ s.stamp.active \/ RevokePending(u, t)'
             /\ Live(u)' /\ s.stamp.pw = acct'[u].is.pw
                  => acct'[u].is.pw \in knows'[t] \/ RevokePending(u, t)'
  <2>1. /\ acct[u].st # "unborn"
        /\ s.stamp.active \/ RevokePending(u, t)
        /\ Live(u) /\ s.stamp.pw = acct[u].is.pw
             => acct[u].is.pw \in knows[t] \/ RevokePending(u, t)
    BY <1>2, <1>4 DEF SessionInv
  <2>2. acct'[u].st # "unborn" /\ (RevokePending(u, t) => RevokePending(u, t)')
    BY <1>1, <1>4, <2>1 DEF Harmless
  <2>3. ASSUME Live(u)', s.stamp.pw = acct'[u].is.pw
        PROVE  acct'[u].is.pw \in knows'[t] \/ RevokePending(u, t)'
    <3>1. Live(u) /\ \/ acct'[u].is.pw = acct[u].is.pw /\ knows[t] \subseteq knows'[t]
                     \/ acct'[u].is.pw \in knows'[t] \/ RevokePending(u, t)'
      BY <1>1, <1>4, <2>1, <2>3 DEF Harmless
    <3>. QED  BY <2>1, <2>2, <2>3, <3>1
  <2>. QED  BY <2>1, <2>2, <2>3
<1>. QED  BY <1>3, <1>4 DEF SessionInv

\* A session that is about to end is about to end after a harmless step, too.
LEMMA PendingStays ==
  ASSUME TypeOK', Harmless, NEW t \in Tokens, NEW u \in Users,
         session[t].st # "fresh", session[t].st = "live" => session[t].user = u,
         acct[u].st # "unborn"
  PROVE  /\ session'[t].st # "fresh"
         /\ session'[t].st = "live" => session'[t].user = u
         /\ acct'[u].st # "unborn"
         /\ Ends(t, u) => Ends(t, u)'
         /\ acct[u].is.active => acct'[u].is.active \/ Ends(t, u)'
BY DEF Harmless, Ends

\* What a session's holder must know, or the session ends, stays true over a
\* harmless step.
LEMMA KnowledgeStays ==
  ASSUME TypeOK', Harmless, NEW t \in Tokens, NEW u \in Users,
         session[t].st # "fresh", session[t].st = "live" => session[t].user = u,
         acct[u].st # "unborn",
         Live(u) => acct[u].is.pw \in knows[t] \/ Ends(t, u)
  PROVE  Live(u)' => acct'[u].is.pw \in knows'[t] \/ Ends(t, u)'
<1>. SUFFICES ASSUME Live(u)', session'[t].st = "live"
              PROVE  acct'[u].is.pw \in knows'[t] \/ RevokePending(u, t)'
  BY DEF Ends
<1>1. session[t].st = "live" /\ session[t].user = u  BY DEF Harmless
<1>2. /\ Live(u)
      /\ RevokePending(u, t) => RevokePending(u, t)'
      /\ \/ acct'[u].is.pw = acct[u].is.pw /\ knows[t] \subseteq knows'[t]
         \/ acct'[u].is.pw \in knows'[t] \/ RevokePending(u, t)'
  BY <1>1 DEF Harmless
<1>. QED  BY <1>1, <1>2 DEF Ends

\* A request a harmless step leaves as it is keeps its part of the invariant.
LEMMA UntouchedRequests ==
  ASSUME IInv, TypeOK', Harmless, NEW r \in Requests, req'[r] = req[r]
  PROVE  RequestInv(r)'
<1>. DEFINE t == req[r].tok
            u == req[r].sess.user
<1>1. RequestInv(r) /\ req[r] \in Request  BY DEF IInv, TypeOK
<1>2. u \in Users /\ Target(r) \in Users
  BY <1>1 DEF Request, Session, Command, Target
<1>3. Decided(r)'
  BY <1>1 DEF RequestInv, Decided, Changing, Finishing, Keeping, IsSelf, Target
<1>4. Served(r)'
  BY <1>1, <1>2, PendingStays DEF RequestInv, Served, Guarding
<1>5. Stamping(r)'
  <2>1. req[r].snap.pw <= lastPw'
    BY <1>1 DEF RequestInv, Stamping, Harmless, IInv, TypeOK, Request, Stamp, Pws
  <2>2. At(r, "create") => acct'[Target(r)].st # "unborn" /\ req[r].snap.active
    BY <1>1, <1>2 DEF RequestInv, Stamping, Harmless
  <2>3. ASSUME Guarding(r)
        PROVE  /\ Ends(t, u) => Ends(t, u)'
               /\ acct[u].is.active => acct'[u].is.active \/ Ends(t, u)'
    BY <1>1, <1>2, <2>3, PendingStays DEF RequestInv, Served
  <2>4. ASSUME Finishing(r), Keeping(r)
        PROVE  Live(u)' => acct'[u].is.pw \in knows'[t] \/ Ends(t, u)'
    BY <1>1, <1>2, <2>4, KnowledgeStays
       DEF RequestInv, Served, Stamping, Guarding, Finishing
  <2>. QED  BY <1>1, <2>1, <2>2, <2>3, <2>4
         DEF RequestInv, Stamping, Guarding, Admitted, Finishing, Keeping, At, Target
<1>. QED  BY <1>3, <1>4, <1>5 DEF RequestInv

----------------------------------------------------------------------------
\* What the pieces of the actions do.

OthersWait(r) == \A q \in Requests : q # r => req'[q] = req[q]

\* What the end of a request means for the requests.
LEMMA DoneFacts ==
  ASSUME TypeOK, NEW r \in Requests, Done(r)
  PROVE  OthersWait(r) /\ req'[r] = Idle
BY DEF TypeOK, Done, OthersWait

\* Going to the next statement changes nothing of a request but its place.
LEMMA GotoFacts ==
  ASSUME TypeOK, NEW r \in Requests, NEW pc \in Pcs, Goto(r, pc)
  PROVE  /\ OthersWait(r) /\ req'[r].pc = pc
         /\ req'[r].tok = req[r].tok /\ req'[r].sess = req[r].sess
         /\ req'[r].cmd = req[r].cmd /\ req'[r].newRole = req[r].newRole
         /\ req'[r].seen = req[r].seen /\ req'[r].keep = req[r].keep
         /\ req'[r].snap = req[r].snap
BY DEF TypeOK, Goto, OthersWait, Request

\* Ending sessions never revives one, and keeps those it does not end.
LEMMA EndFacts ==
  ASSUME TypeOK, NEW T \in SUBSET Tokens, End(T), NEW t \in Tokens
  PROVE  /\ session[t].st # "fresh" => session'[t].st # "fresh"
         /\ session'[t].st = "live" => session'[t] = session[t] /\ t \notin T
         /\ session'[t] = session[t] \/ session'[t] = NoSession("gone")
BY DEF TypeOK, End, NoSession

\* A request that is done, and a session that is over, keep their part.
LEMMA IdleInv ==
  ASSUME TypeOK', NEW r \in Requests, req'[r] = Idle
  PROVE  RequestInv(r)'
<1>1. lastPw' \in Nat  BY DEF TypeOK, Pws
<1>. QED
  BY <1>1 DEF Idle, NoStamp, RequestInv, Served, Decided, Stamping, Guarding, Admitted,
            Changing, Finishing, At

\* A session that is over has nothing left to satisfy.
LEMMA GoneInv ==
  ASSUME TypeOK', NEW t \in Tokens, session'[t] = NoSession("gone")
  PROVE  SessionInv(t)'
<1>1. lastPw' \in Nat  BY DEF TypeOK, Pws
<1>. QED  BY <1>1 DEF SessionInv, NoSession, NoStamp

\* A pending revocation outlasts the steps of other requests.
LEMMA PendingFrame ==
  ASSUME NEW r \in Requests, OthersWait(r), ~At(r, "revoke"),
         NEW u \in Users, NEW t \in Tokens, RevokePending(u, t)
  PROVE  RevokePending(u, t)'
BY DEF RevokePending, OthersWait, At, Target

\* A step of a request that is not revoking, that writes no account and at most
\* ends sessions, is harmless, and so the invariant is a matter of the request.
LEMMA CalmStep ==
  ASSUME IInv, TypeOK', NEW r \in Requests, OthersWait(r), ~At(r, "revoke"),
         UNCHANGED <<acct, lastPw, knows>>,
         session' = session \/ \E T \in SUBSET Tokens : End(T)
  PROVE  Harmless /\ (RequestInv(r)' => IInv')
<1>0. TypeOK /\ lastPw \in Int  BY DEF IInv, TypeOK, Pws
<1>1. \A t \in Tokens :
        /\ session[t].st # "fresh" => session'[t].st # "fresh"
        /\ session'[t].st = "live" => session'[t] = session[t]
        /\ session'[t] = session[t] \/ session'[t] = NoSession("gone")
  BY <1>0, EndFacts
<1>2. \A t \in Tokens : session[t].user \in Users  BY <1>0 DEF TypeOK, Session
<1>3. Harmless  BY <1>0, <1>1, <1>2, PendingFrame DEF Harmless, Live
<1>4. \A t \in Tokens : SessionInv(t)'
  BY <1>1, <1>3, UntouchedSessions, GoneInv
<1>5. \A q \in Requests : q # r => RequestInv(q)'
  BY <1>3, UntouchedRequests DEF OthersWait
<1>. QED  BY <1>3, <1>4, <1>5 DEF IInv

\* A request that moves on within the guarded part without deciding anything.
LEMMA MovesOn ==
  ASSUME IInv, TypeOK', Harmless, NEW r \in Requests,
         NEW pc \in {"load", "count", "write"}, Goto(r, pc), Guarding(r),
         pc # "load" => Changing(r), ~Finishing(r),
         acct[req[r].sess.user].is.active \/ Ends(req[r].tok, req[r].sess.user)
  PROVE  RequestInv(r)'
<1>. DEFINE t == req[r].tok
            u == req[r].sess.user
<1>1. RequestInv(r) /\ req[r] \in Request /\ TypeOK  BY DEF IInv, TypeOK
<1>2. /\ req'[r].pc = pc
      /\ req'[r].tok = t /\ req'[r].sess = req[r].sess
      /\ req'[r].cmd = req[r].cmd /\ req'[r].newRole = req[r].newRole
      /\ req'[r].seen = req[r].seen /\ req'[r].keep = req[r].keep
      /\ req'[r].snap = req[r].snap
  BY <1>1, GotoFacts DEF Pcs
<1>3. u \in Users  BY <1>1 DEF Request, Session
<1>4. Decided(r)'
  BY <1>1, <1>2 DEF RequestInv, Decided, Changing, Finishing, Keeping, IsSelf, Target
<1>5. /\ t \in Tokens /\ session'[t].st # "fresh" /\ acct'[u].st # "unborn"
      /\ session'[t].st = "live" => session'[t].user = u
      /\ acct'[u].is.active \/ Ends(t, u)'
  <2>1. /\ t \in Tokens /\ session[t].st # "fresh" /\ acct[u].st # "unborn"
        /\ session[t].st = "live" => session[t].user = u
    BY <1>1 DEF RequestInv, Served
  <2>2. PICK t0 \in Tokens, u0 \in Users : t0 = t /\ u0 = u  BY <1>3, <2>1
  <2>3. Ends(t0, u0) => Ends(t0, u0)'  BY <2>1, <2>2, PendingStays
  <2>4. Ends(t0, u0)' <=> Ends(t, u)'  BY <1>2, <2>2 DEF Ends, RevokePending
  <2>. QED  BY <1>3, <2>1, <2>2, <2>3, <2>4, PendingStays
<1>6. Served(r)'  BY <1>2, <1>5 DEF Served, Guarding
<1>7. req[r].snap.pw <= lastPw'
  BY <1>1 DEF RequestInv, Stamping, Harmless, TypeOK, Request, Stamp, Pws, IInv
<1>8. Stamping(r)'
  BY <1>2, <1>5, <1>7 DEF Stamping, At, Admitted, Finishing, Ends, RevokePending
<1>. QED  BY <1>4, <1>6, <1>8 DEF RequestInv

----------------------------------------------------------------------------
\* Each action keeps the invariant.

\* A sign-in, from the password check to the new session, keeps the invariant
\* (Login, security_handler.go:237-368).
LEMMA SignInInv ==
  ASSUME IInv, TypeOK', NEW r \in Requests, SignIn(r)  PROVE IInv'
<1>0. TypeOK /\ RequestInv(r) /\ req[r] \in Request  BY DEF IInv, TypeOK
<1>1. ASSUME NEW u \in Users, Authenticate(r, u) PROVE IInv'
  <2>1. /\ OthersWait(r) /\ ~At(r, "revoke")
        /\ req'[r].pc = "create" /\ req'[r].snap = acct[u].is /\ Target(r)' = u
    BY <1>0, <1>1 DEF Authenticate, OthersWait, At, TypeOK, Idle, Target
  <2>2. acct[u].is.pw <= lastPw /\ acct[u].is.active /\ acct[u].st # "unborn"
    BY <1>1 DEF Authenticate, Live, IInv
  <2>3. RequestInv(r)'
    BY <1>1, <2>1, <2>2 DEF Authenticate, RequestInv, Served, Decided, Stamping, Guarding,
          Changing, Finishing, Admitted, At
  <2>. QED  BY <1>1, <2>1, <2>3, CalmStep DEF Authenticate
<1>2. ASSUME NEW t \in Tokens, Create(r, t) PROVE IInv'
  <2>. DEFINE u == Target(r)
              snap == req[r].snap
  <2>1. /\ OthersWait(r) /\ ~At(r, "revoke") /\ req'[r] = Idle
        /\ session[t].st = "fresh" /\ \A s \in Tokens : s # t => session'[s] = session[s]
        /\ session'[t].st = "live" /\ session'[t].user = u /\ session'[t].stamp = snap
        /\ knows'[t] = {snap.pw} /\ \A s \in Tokens : s # t => knows'[s] = knows[s]
        /\ UNCHANGED <<acct, lastPw>>
    BY <1>0, <1>2, DoneFacts DEF Create, At, TypeOK
  <2>2. \A s \in Tokens : session[s].user \in Users  BY <1>0 DEF TypeOK, Session
  <2>3. Harmless
    BY <1>0, <2>1, <2>2, PendingFrame DEF Harmless, Live, TypeOK, Pws
  <2>4. \A s \in Tokens : s # t => SessionInv(s)'  BY <2>1, <2>3, UntouchedSessions
  <2>5. SessionInv(t)'
    BY <1>0, <1>2, <2>1 DEF SessionInv, RequestInv, Stamping, Create, At
  <2>6. \A q \in Requests : RequestInv(q)'
    BY <2>1, <2>3, UntouchedRequests, IdleInv DEF OthersWait
  <2>. QED  BY <2>1, <2>4, <2>5, <2>6 DEF IInv
<1>. QED  BY <1>1, <1>2 DEF SignIn

\* So does the guard of a request, admitted or refused (attach, auth.go:73-111).
LEMMA GuardedInv ==
  ASSUME IInv, TypeOK', NEW r \in Requests, Guarded(r)  PROVE IInv'
<1>0. TypeOK /\ RequestInv(r) /\ req[r] \in Request  BY DEF IInv, TypeOK
<1>1. ASSUME NEW t \in Tokens, NEW c \in Commands, Begin(r, t, c) PROVE IInv'
  <2>. DEFINE u == session[t].user
  <2>1. /\ OthersWait(r) /\ ~At(r, "revoke")
        /\ req'[r].pc = "check" /\ req'[r].tok = t /\ req'[r].sess = session[t]
        /\ req'[r].snap = NoStamp /\ UNCHANGED <<acct, lastPw, session, knows>>
    BY <1>0, <1>1 DEF Begin, OthersWait, At, TypeOK, Idle
  <2>2. SessionInv(t) /\ session[t].st = "live"  BY <1>1 DEF Begin, IInv
  <2>3. Served(r)' /\ Decided(r)'
    BY <2>1, <2>2 DEF SessionInv, Served, Decided, Guarding, Changing, Finishing
  <2>4. session[t].stamp.active \/ RevokePending(u, t)'
    BY <1>0, <2>1, <2>2, PendingFrame DEF SessionInv, TypeOK, Session
  <2>5. lastPw' \in Nat  BY DEF TypeOK, Pws
  <2>6. RevokePending(u, t)' => Ends(req[r].tok, req[r].sess.user)'
    BY <2>1 DEF Ends, RevokePending
  <2>7. Stamping(r)'
    BY <2>1, <2>4, <2>5, <2>6 DEF Stamping, At, Admitted, Finishing, NoStamp
  <2>. QED  BY <1>1, <2>1, <2>3, <2>7, CalmStep DEF Begin, RequestInv
<1>2. CASE Admit(r)
  <2>1. OthersWait(r) /\ ~At(r, "revoke")
    BY <1>0, <1>2, GotoFacts DEF Admit, At, Pcs
  <2>2. Harmless /\ (RequestInv(r)' => IInv')  BY <1>2, <2>1, CalmStep DEF Admit
  <2>3. acct[req[r].sess.user].is.active \/ Ends(req[r].tok, req[r].sess.user)
    BY <1>0, <1>2 DEF Admit, StampMatches, RequestInv, Stamping
  <2>. QED
    BY <1>2, <2>2, <2>3, MovesOn DEF Admit, Guarding, Finishing, At
<1>3. CASE Reject(r)
  <2>1. /\ OthersWait(r) /\ ~At(r, "revoke") /\ req'[r] = Idle /\ req[r].tok \in Tokens
    BY <1>0, <1>3, DoneFacts DEF Reject, At, RequestInv, Served, Guarding
  <2>. QED  BY <1>3, <2>1, CalmStep, IdleInv DEF Reject
<1>. QED  BY <1>1, <1>2, <1>3 DEF Guarded

\* Handlers that change no account: they read, refuse or give up.
LEMMA CalmHandlersInv ==
  ASSUME IInv, TypeOK', NEW r \in Requests,
         Forbid(r) \/ Read(r) \/ GiveUp(r) \/ NoNewStamp(r) \/ Logout(r) \/ Guard(r) \/ Count(r)
  PROVE  IInv'
<1>0. TypeOK /\ RequestInv(r) /\ req[r] \in Request  BY DEF IInv, TypeOK
<1>1. CASE Forbid(r) \/ Read(r) \/ GiveUp(r) \/ NoNewStamp(r)
  <2>1. OthersWait(r) /\ ~At(r, "revoke") /\ req'[r] = Idle
          /\ UNCHANGED <<acct, lastPw, session, knows>>
    BY <1>0, <1>1, DoneFacts DEF Forbid, Read, GiveUp, NoNewStamp, At
  <2>. QED  BY <2>1, CalmStep, IdleInv
<1>2. CASE Logout(r)
  <2>1. /\ OthersWait(r) /\ ~At(r, "revoke") /\ req'[r] = Idle /\ req[r].tok \in Tokens
    BY <1>0, <1>2, DoneFacts DEF Logout, At, RequestInv, Served, Guarding
  <2>. QED  BY <1>2, <2>1, CalmStep, IdleInv DEF Logout
<1>3. CASE Guard(r) \/ Count(r)
  <2>1. CASE Done(r)
    <3>1. OthersWait(r) /\ ~At(r, "revoke") /\ req'[r] = Idle
            /\ UNCHANGED <<acct, lastPw, session, knows>>
      BY <1>0, <1>3, <2>1, DoneFacts DEF Guard, Count, At
    <3>. QED  BY <3>1, CalmStep, IdleInv
  <2>2. ASSUME NEW pc \in {"count", "write"}, Goto(r, pc) PROVE IInv'
    <3>1. OthersWait(r) /\ ~At(r, "revoke") /\ UNCHANGED <<acct, lastPw, session, knows>>
      BY <1>0, <1>3, <2>2, GotoFacts DEF Guard, Count, At, Pcs
    <3>2. Harmless /\ (RequestInv(r)' => IInv')  BY <3>1, CalmStep
    <3>3. Guarding(r) /\ Changing(r) /\ Admitted(r) /\ ~Finishing(r)
      BY <1>3 DEF Guard, Count, At, Guarding, Changing, Admitted, Finishing
    <3>4. acct[req[r].sess.user].is.active \/ Ends(req[r].tok, req[r].sess.user)
      BY <1>0, <3>3 DEF RequestInv, Stamping
    <3>. QED  BY <2>2, <3>2, <3>3, <3>4, MovesOn
  <2>. QED  BY <1>3, <2>1, <2>2 DEF Guard, Count
<1>. QED  BY <1>1, <1>2, <1>3

\* So does the handler's decision (UpdateUser, security_handler.go:471-516).
LEMMA LoadInv ==
  ASSUME IInv, TypeOK', NEW r \in Requests, Load(r)  PROVE IInv'
<1>. DEFINE t == req[r].tok
            u == req[r].sess.user
<1>0. TypeOK /\ RequestInv(r) /\ req[r] \in Request  BY DEF IInv, TypeOK
<1>1. /\ OthersWait(r) /\ ~At(r, "revoke") /\ req'[r].pc = "guard"
      /\ req'[r].tok = t /\ req'[r].sess = req[r].sess /\ req'[r].cmd = req[r].cmd
      /\ req'[r].newRole = NewRole(r) /\ req'[r].seen = acct[Target(r)].is.role
      /\ req'[r].keep = IF Keeps(r) THEN t ELSE NoToken
      /\ req'[r].snap = req[r].snap
      /\ UNCHANGED <<acct, lastPw, session, knows>>
  BY <1>0 DEF Load, OthersWait, At, TypeOK, Request
<1>2. req[r].cmd.op \in {"update", "delete", "super"}  BY DEF Load, May
<1>3. Decided(r)'
  BY <1>1, <1>2 DEF Decided, Changing, Finishing, Keeping, Keeps, IsSelf, Target
<1>4. Served(r)'
  BY <1>0, <1>1 DEF RequestInv, Served, Guarding, Load, At
<1>5. acct[u].is.active \/ Ends(t, u)
  BY <1>0 DEF RequestInv, Stamping, Load, At, Admitted
<1>6. Ends(t, u) => Ends(req[r].tok, req[r].sess.user)'
  <2>1. t \in Tokens /\ u \in Users
    BY <1>0 DEF RequestInv, Served, Guarding, Load, At, Request, Session
  <2>2. PICK t0 \in Tokens, u0 \in Users : t0 = t /\ u0 = u  BY <2>1
  <2>3. RevokePending(u0, t0) => RevokePending(u0, t0)'  BY <1>1, PendingFrame
  <2>. QED  BY <1>1, <2>2, <2>3 DEF Ends, RevokePending
<1>7. Stamping(r)'
  BY <1>0, <1>1, <1>5, <1>6 DEF RequestInv, Stamping, At, Admitted, Finishing
<1>. QED  BY <1>1, <1>3, <1>4, <1>7, CalmStep DEF RequestInv

\* A new account has a password nobody has a session for yet.
LEMMA CreateUserInv ==
  ASSUME IInv, TypeOK', NEW r \in Requests, CreateUser(r)  PROVE IInv'
<1>. DEFINE w == req[r].cmd.target
<1>0. TypeOK /\ RequestInv(r) /\ req[r] \in Request /\ lastPw \in Int /\ w \in Users
  BY DEF IInv, TypeOK, Pws, Request, Command
<1>1. /\ OthersWait(r) /\ ~At(r, "revoke") /\ req'[r] = Idle
      /\ acct[w].st = "unborn" /\ lastPw' = lastPw + 1
      /\ acct'[w].st = "live" /\ acct'[w].is.pw = lastPw + 1
      /\ \A u \in Users : u # w => acct'[u] = acct[u]
      /\ UNCHANGED <<session, knows>>
  BY <1>0, DoneFacts DEF CreateUser, At, TypeOK
<1>2. \A t \in Tokens : session[t].user \in Users  BY <1>0 DEF TypeOK, Session
<1>3. Harmless  BY <1>0, <1>1, <1>2, PendingFrame DEF Harmless, Live
<1>4. \A t \in Tokens : SessionInv(t)'  BY <1>1, <1>3, UntouchedSessions
<1>5. \A q \in Requests : RequestInv(q)'
  BY <1>1, <1>3, UntouchedRequests, IdleInv DEF OthersWait
<1>6. ASSUME NEW u \in Users PROVE acct'[u].is.pw <= lastPw'
  <2>1. acct[u].is.pw \in Int /\ acct[u].is.pw <= lastPw
    BY <1>0 DEF IInv, TypeOK, Account, Stamp, Pws
  <2>. QED  BY <1>0, <1>1, <2>1
<1>. QED  BY <1>4, <1>5, <1>6 DEF IInv

\* The columns an UPDATE writes (UpdateUser and SetSuperOwner,
\* security_service.go:432-521).
LEMMA UpdatedColumns ==
  ASSUME NEW is \in Stamp, NEW c \in Command, NEW role, NEW pw,
         c.op \in {"update", "super"}
  PROVE  /\ \/ Updated(is, c, role, pw).pw = is.pw
            \/ c.pw /\ c.op # "super" /\ Updated(is, c, role, pw).pw = pw
         /\ is.active => Updated(is, c, role, pw).active \/ Deactivates(c)
<1>1. CASE c.op = "super"
  <2>1. Updated(is, c, role, pw) = [is EXCEPT !.super = (c.active = "on")]
    BY <1>1 DEF Updated
  <2>. QED  BY <2>1 DEF Stamp
<1>2. CASE c.op = "update"
  <2>. DEFINE q == IF c.pw THEN pw ELSE is.pw
              a == IF c.active = "same" THEN is.active ELSE c.active = "on"
  <2>1. Updated(is, c, role, pw) = [is EXCEPT !.pw = q, !.role = role, !.active = a]
    BY <1>2 DEF Updated
  <2>2. Updated(is, c, role, pw).pw = q /\ Updated(is, c, role, pw).active = a
    BY <2>1 DEF Stamp
  <2>3. is.active => a \/ Deactivates(c)  BY <1>2 DEF Deactivates, Command
  <2>. QED  BY <1>2, <2>2, <2>3
<1>. QED  BY <1>1, <1>2

\* A password that is reset, or an account that is disabled, by somebody else
\* or from another session, is followed by the end of the session.
LEMMA WriteIsAnnounced ==
  ASSUME IInv, TypeOK', NEW r \in Requests, Write(r)
  PROVE  LET c == req[r].cmd
             w == c.target
         IN  /\ OthersWait(r) /\ ~At(r, "revoke") /\ lastPw <= lastPw'
             /\ \A u \in Users : u # w => acct'[u] = acct[u]
             /\ acct[w].st # "unborn" => acct'[w].st # "unborn"
             /\ acct'[w].st = "live" => Live(w)
             /\ \/ acct'[w].is.pw = acct[w].is.pw
                \/ /\ acct'[w].is.pw = lastPw + 1 /\ lastPw' = lastPw + 1
                   /\ c.pw /\ c.op # "super"
             /\ acct[w].is.active => acct'[w].is.active \/ Deactivates(c)
             /\ c.pw \/ Deactivates(c) => req'[r].pc = "revoke"
             /\ req'[r].pc = "revoke" \/ req'[r] = Idle
             /\ req'[r].pc = "revoke" =>
                  /\ req'[r].tok = req[r].tok /\ req'[r].sess = req[r].sess
                  /\ req'[r].cmd = req[r].cmd /\ req'[r].newRole = req[r].newRole
                  /\ req'[r].seen = req[r].seen /\ req'[r].keep = req[r].keep
                  /\ req'[r].snap = req[r].snap
                  /\ Revokes(r)
             /\ \A t \in Tokens : knows[t] \subseteq knows'[t]
             /\ c.pw /\ IsSelf(r) => lastPw + 1 \in knows'[req[r].tok]
<1>. DEFINE c == req[r].cmd
            w == c.target
<1>0. /\ TypeOK /\ RequestInv(r) /\ req[r] \in Request /\ lastPw \in Int /\ w \in Users
      /\ acct[w] \in Account /\ acct[w].is \in Stamp
      /\ At(r, "write") /\ req[r].tok \in Tokens /\ c.op \in {"update", "delete", "super"}
  <2>1. TypeOK /\ RequestInv(r) /\ At(r, "write")  BY DEF IInv, Write
  <2>2. req[r] \in Request /\ lastPw \in Int  BY <2>1 DEF TypeOK, Pws
  <2>3. w \in Users  BY <2>2 DEF Request, Command
  <2>4. acct[w] \in Account /\ acct[w].is \in Stamp  BY <2>1, <2>3 DEF TypeOK, Account
  <2>5. req[r].tok \in Tokens /\ c.op \in {"update", "delete", "super"}
    BY <2>1 DEF RequestInv, Served, Guarding, At, Decided, Changing
  <2>. QED  BY <2>1, <2>2, <2>3, <2>4, <2>5
<1>1. /\ OthersWait(r) /\ ~At(r, "revoke")
      /\ c.pw \/ Deactivates(c) => req'[r].pc = "revoke"
      /\ req'[r].pc = "revoke" \/ req'[r] = Idle
      /\ req'[r].pc = "revoke" =>
           /\ req'[r].tok = req[r].tok /\ req'[r].sess = req[r].sess
           /\ req'[r].cmd = req[r].cmd /\ req'[r].newRole = req[r].newRole
           /\ req'[r].seen = req[r].seen /\ req'[r].keep = req[r].keep
           /\ req'[r].snap = req[r].snap
           /\ Revokes(r)
  <2>1. CASE Revokes(r) /\ Goto(r, "revoke")
    BY <1>0, <2>1, GotoFacts DEF At, Pcs
  <2>2. CASE ~Revokes(r) /\ Done(r)
    <3>1. ~c.pw /\ ~Deactivates(c)  BY <2>2 DEF Revokes
    <3>2. Idle.pc = "idle"  BY DEF Idle
    <3>. QED  BY <1>0, <2>2, <3>1, <3>2, DoneFacts DEF At
  <2>. QED  BY <2>1, <2>2 DEF Write
<1>2. /\ lastPw <= lastPw'
      /\ \A t \in Tokens : knows[t] \subseteq knows'[t]
      /\ c.pw /\ IsSelf(r) => lastPw + 1 \in knows'[req[r].tok]
  BY <1>0 DEF Write, TypeOK
<1>3. /\ \A u \in Users : u # w => acct'[u] = acct[u]
      /\ acct[w].st # "unborn" => acct'[w].st # "unborn"
      /\ acct'[w].st = "live" => Live(w)
      /\ acct[w].is.active => acct'[w].is.active \/ Deactivates(c)
      /\ \/ acct'[w].is.pw = acct[w].is.pw
         \/ acct'[w].is.pw = lastPw + 1 /\ c.pw /\ c.op # "super"
  <2>1. CASE ~Live(w)  BY <2>1 DEF Write, Live
  <2>2. CASE Live(w) /\ c.op = "delete"
    <3>1. acct' = [acct EXCEPT ![w] = [@ EXCEPT !.st = "deleted"]]
      BY <2>2 DEF Write
    <3>2. acct'[w] = [acct[w] EXCEPT !.st = "deleted"]  BY <1>0, <3>1 DEF TypeOK
    <3>3. acct'[w].st = "deleted" /\ acct'[w].is = acct[w].is
      BY <1>0, <3>2 DEF Account
    <3>. QED  BY <1>0, <3>1, <3>3 DEF TypeOK, Live
  <2>3. CASE Live(w) /\ c.op \in {"update", "super"}
    <3>. DEFINE new == Updated(acct[w].is, c, req[r].newRole, lastPw + 1)
    <3>1. acct' = [acct EXCEPT ![w].is = new]  BY <2>3 DEF Write
    <3>2. /\ \A u \in Users : u # w => acct'[u] = acct[u]
          /\ acct'[w].st = acct[w].st /\ acct'[w].is = new
      BY <1>0, <3>1 DEF TypeOK, Account
    <3>3. c \in Command  BY <1>0 DEF Request
    <3>4. /\ \/ new.pw = acct[w].is.pw
             \/ c.pw /\ c.op # "super" /\ new.pw = lastPw + 1
          /\ acct[w].is.active => new.active \/ Deactivates(c)
      BY <1>0, <2>3, <3>3, UpdatedColumns
    <3>. QED  BY <2>3, <3>2, <3>4 DEF Live
  <2>. QED  BY <1>0, <2>1, <2>2, <2>3
<1>4. c.pw => lastPw' = lastPw + 1  BY DEF Write
<1>. QED  BY <1>1, <1>2, <1>3, <1>4

\* The write keeps the invariant: what it invalidates is announced.
LEMMA WriteInv ==
  ASSUME IInv, TypeOK', NEW r \in Requests, Write(r)  PROVE IInv'
<1>. DEFINE c == req[r].cmd
            keep == req[r].keep
            tok == req[r].tok
            me == req[r].sess.user
<1>0. /\ TypeOK /\ RequestInv(r) /\ lastPw \in Int /\ c.target \in Users
      /\ me \in Users /\ req[r] \in Request
  BY DEF IInv, TypeOK, Pws, Request, Command, Session
<1>w. PICK w \in Users : w = c.target  BY <1>0
<1>1. /\ At(r, "write") /\ UNCHANGED session /\ tok \in Tokens /\ tok # NoToken
      /\ Changing(r) /\ Guarding(r) /\ Admitted(r)
  BY <1>0, AccountsAssumption
     DEF Write, RequestInv, Served, Guarding, Changing, Admitted, At
<1>2. /\ OthersWait(r) /\ ~At(r, "revoke") /\ lastPw <= lastPw'
      /\ \A u \in Users : u # w => acct'[u] = acct[u]
      /\ acct[w].st # "unborn" => acct'[w].st # "unborn"
      /\ acct'[w].st = "live" => Live(w)
      /\ \/ acct'[w].is.pw = acct[w].is.pw
         \/ /\ acct'[w].is.pw = lastPw + 1 /\ lastPw' = lastPw + 1
            /\ c.pw /\ c.op # "super"
      /\ acct[w].is.active => acct'[w].is.active \/ Deactivates(c)
      /\ c.pw \/ Deactivates(c) => req'[r].pc = "revoke"
      /\ req'[r].pc = "revoke" \/ req'[r] = Idle
      /\ \A t \in Tokens : knows[t] \subseteq knows'[t]
      /\ c.pw /\ IsSelf(r) => lastPw + 1 \in knows'[tok]
  BY <1>w, WriteIsAnnounced
<1>3. req'[r].pc = "revoke" =>
        /\ req'[r].tok = tok /\ req'[r].sess = req[r].sess
        /\ req'[r].cmd = c /\ req'[r].newRole = req[r].newRole
        /\ req'[r].seen = req[r].seen /\ req'[r].keep = keep
        /\ req'[r].snap = req[r].snap
        /\ Revokes(r)
  BY WriteIsAnnounced
<1>4. keep # NoToken => /\ keep = tok /\ me = w /\ IsSelf(r) /\ ~Deactivates(c)
                        /\ req[r].newRole = req[r].seen /\ c.op = "update"
  BY <1>0, <1>1, <1>w DEF RequestInv, Decided, Keeping, IsSelf, Target
\* Whoever loses access by this step is about to lose their sessions.
<1>5. ASSUME NEW t \in Tokens, t # keep, req'[r].pc = "revoke"
      PROVE  RevokePending(w, t)'
  BY <1>3, <1>5, <1>w DEF RevokePending, At, Target
<1>6. Harmless
  <2>1. ASSUME NEW t \in Tokens, NEW u \in Users, RevokePending(u, t)
        PROVE  RevokePending(u, t)'
    BY <1>2, <2>1, PendingFrame
  <2>2. ASSUME NEW t \in Tokens, acct[w].is.active
        PROVE  acct'[w].is.active \/ RevokePending(w, t)'
    BY <1>1, <1>2, <1>4, <1>5, <2>2, AccountsAssumption
  <2>3. ASSUME NEW t \in Tokens, acct'[w].st = "live"
        PROVE  \/ acct'[w].is.pw = acct[w].is.pw /\ knows[t] \subseteq knows'[t]
               \/ /\ acct'[w].is.pw > lastPw
                  /\ acct'[w].is.pw \in knows'[t] \/ RevokePending(w, t)'
    <3>1. CASE acct'[w].is.pw = acct[w].is.pw  BY <1>2, <3>1
    <3>2. CASE acct'[w].is.pw = lastPw + 1 /\ c.pw
      <4>1. CASE t = keep  BY <1>0, <1>1, <1>2, <1>4, <3>2, <4>1, AccountsAssumption
      <4>2. CASE t # keep  BY <1>0, <1>2, <1>5, <3>2, <4>2
      <4>. QED  BY <4>1, <4>2
    <3>. QED  BY <1>2, <3>1, <3>2
  <2>4. ASSUME NEW t \in Tokens, NEW u \in Users, session[t].st = "live"
        PROVE  /\ RevokePending(u, t) => RevokePending(u, t)'
               /\ acct[u].is.active => acct'[u].is.active \/ RevokePending(u, t)'
               /\ Live(u)' =>
                    /\ Live(u)
                    /\ \/ acct'[u].is.pw = acct[u].is.pw /\ knows[t] \subseteq knows'[t]
                       \/ acct'[u].is.pw > lastPw
                            /\ (acct'[u].is.pw \in knows'[t] \/ RevokePending(u, t)')
    <3>1. CASE u # w  BY <1>2, <2>1, <3>1 DEF Live
    <3>2. CASE u = w
      <4>1. acct[w].is.active => acct'[w].is.active \/ RevokePending(w, t)'  BY <2>2
      <4>2. Live(w)' =>
              /\ Live(w)
              /\ \/ acct'[w].is.pw = acct[w].is.pw /\ knows[t] \subseteq knows'[t]
                 \/ acct'[w].is.pw > lastPw
                      /\ (acct'[w].is.pw \in knows'[t] \/ RevokePending(w, t)')
        BY <1>2, <2>3 DEF Live
      <4>. QED  BY <2>1, <3>2, <4>1, <4>2
    <3>. QED  BY <3>1, <3>2
  <2>5. \A u \in Users : acct[u].st # "unborn" => acct'[u].st # "unborn"  BY <1>2
  <2>. QED  BY <1>1, <1>2, <2>4, <2>5 DEF Harmless
<1>7. \A t \in Tokens : SessionInv(t)'  BY <1>1, <1>6, UntouchedSessions
<1>8. \A q \in Requests : q # r => RequestInv(q)'
  BY <1>2, <1>6, UntouchedRequests DEF OthersWait
<1>9. RequestInv(r)'
  <2>1. CASE req'[r] = Idle  BY <2>1, IdleInv
  <2>2. CASE req'[r].pc = "revoke"
    <3>1. PICK t0 \in Tokens, u0 \in Users : t0 = tok /\ u0 = me  BY <1>0, <1>1
    <3>2. /\ session[t0].st # "fresh" /\ acct[u0].st # "unborn"
          /\ session[t0].st = "live" => session[t0].user = u0
          /\ acct[u0].is.active \/ Ends(t0, u0)
      BY <1>0, <1>1, <3>1 DEF RequestInv, Served, Stamping
    <3>3. /\ session'[t0].st # "fresh" /\ acct'[u0].st # "unborn"
          /\ session'[t0].st = "live" => session'[t0].user = u0
          /\ acct'[u0].is.active \/ Ends(t0, u0)'
      BY <1>6, <3>2, PendingStays
    <3>4. Served(r)'  BY <1>3, <2>2, <3>1, <3>3 DEF Served
    <3>5. keep # NoToken => c.pw
      BY <1>3, <1>4, <2>2 DEF Revokes
    <3>6. Decided(r)'
      BY <1>0, <1>1, <1>3, <1>4, <2>2, <3>5
         DEF RequestInv, Decided, Changing, Finishing, Keeping, IsSelf, Target
    <3>7. Ends(req[r].tok, req[r].sess.user)' <=> Ends(t0, u0)'
      BY <1>3, <2>2, <3>1 DEF Ends, RevokePending
    <3>8. keep # NoToken /\ acct'[me].st = "live" => acct'[me].is.pw \in knows'[tok]
      <4>. SUFFICES ASSUME keep # NoToken, acct'[me].st = "live"
                    PROVE  acct'[me].is.pw \in knows'[tok]
        OBVIOUS
      <4>1. me = w /\ c.op = "update" /\ c.pw /\ IsSelf(r)  BY <1>4, <3>5
      <4>2. acct' = [acct EXCEPT ![w].is =
                       Updated(acct[w].is, c, req[r].newRole, lastPw + 1)]
        BY <1>2, <1>w, <4>1 DEF Write
      <4>3. acct'[w].is.pw = lastPw + 1
        BY <1>0, <4>1, <4>2 DEF Updated, TypeOK, Account, Stamp
      <4>. QED  BY <1>2, <4>1, <4>3
    <3>9. req[r].snap.pw <= lastPw'
      BY <1>0, <1>2, <1>6 DEF RequestInv, Stamping, TypeOK, Request, Stamp, Pws
    <3>10. Stamping(r)'
      BY <1>3, <2>2, <3>1, <3>3, <3>7, <3>8, <3>9
         DEF Stamping, At, Admitted, Finishing, Keeping, Live
    <3>. QED  BY <3>4, <3>6, <3>10 DEF RequestInv
  <2>. QED  BY <1>2, <2>1, <2>2
<1>10. ASSUME NEW u \in Users PROVE acct'[u].is.pw <= lastPw'
  <2>1. acct[u].is.pw \in Int /\ acct[u].is.pw <= lastPw /\ lastPw' \in Int
    BY <1>0 DEF IInv, TypeOK, Account, Stamp, Pws
  <2>. QED  BY <1>0, <1>2, <2>1
<1>. QED  BY <1>7, <1>8, <1>9, <1>10 DEF IInv

\* Revoking ends every session the pending revocation stood in for.
LEMMA RevokeInv ==
  ASSUME IInv, TypeOK', NEW r \in Requests, Revoke(r)  PROVE IInv'
<1>. DEFINE T == SessionsOf(Target(r)) \ {req[r].keep}
            tok == req[r].tok
            me == req[r].sess.user
<1>0. TypeOK /\ RequestInv(r) /\ req[r] \in Request /\ lastPw \in Int /\ me \in Users
  BY DEF IInv, TypeOK, Pws, Request, Session
<1>1. /\ At(r, "revoke") /\ OthersWait(r) /\ UNCHANGED <<acct, lastPw, knows>>
      /\ IF req[r].keep # NoToken THEN Goto(r, "stamp") ELSE req'[r] = Idle
  BY <1>0, DoneFacts, GotoFacts DEF Revoke, Pcs
<1>2. T \in SUBSET Tokens /\ End(T)  BY DEF Revoke, SessionsOf
<1>3. \A t \in Tokens :
        /\ session[t].st # "fresh" => session'[t].st # "fresh"
        /\ session'[t].st = "live" => session'[t] = session[t] /\ t \notin T
        /\ session'[t] = session[t] \/ session'[t] = NoSession("gone")
  BY <1>0, <1>2, EndFacts
<1>4. ASSUME NEW t \in Tokens, NEW u \in Users, session[t].st = "live",
             session'[t].st = "live", session[t].user = u, RevokePending(u, t)
      PROVE  RevokePending(u, t)'
  <2>1. PICK q \in Requests : At(q, "revoke") /\ Target(q) = u /\ t # req[q].keep
    BY <1>4 DEF RevokePending
  <2>2. q # r  BY <1>3, <1>4, <2>1 DEF SessionsOf
  <2>. QED  BY <1>1, <2>1, <2>2 DEF RevokePending, OthersWait, At, Target
<1>5. Harmless  BY <1>0, <1>1, <1>3, <1>4 DEF Harmless, Live
<1>6. \A t \in Tokens : SessionInv(t)'  BY <1>3, <1>5, UntouchedSessions, GoneInv
<1>7. \A q \in Requests : q # r => RequestInv(q)'
  BY <1>1, <1>5, UntouchedRequests DEF OthersWait
<1>8. RequestInv(r)'
  <2>1. CASE req'[r] = Idle  BY <2>1, IdleInv
  <2>2. CASE Keeping(r) /\ Goto(r, "stamp")
    <3>1. /\ req'[r].pc = "stamp" /\ req'[r].tok = tok /\ req'[r].sess = req[r].sess
          /\ req'[r].cmd = req[r].cmd /\ req'[r].newRole = req[r].newRole
          /\ req'[r].seen = req[r].seen /\ req'[r].keep = req[r].keep
          /\ req'[r].snap = req[r].snap
      BY <1>0, <2>2, GotoFacts DEF Pcs
    <3>2. /\ Guarding(r) /\ Admitted(r) /\ Changing(r) /\ Finishing(r)
      BY <1>1 DEF At, Guarding, Admitted, Changing, Finishing
    <3>3. PICK t0 \in Tokens, u0 \in Users : t0 = tok /\ u0 = me
      BY <1>0, <3>2 DEF RequestInv, Served
    <3>4. /\ session[t0].st # "fresh" /\ acct[u0].st # "unborn"
          /\ session[t0].st = "live" => session[t0].user = u0
          /\ acct[u0].is.active \/ Ends(t0, u0)
          /\ Target(r) = u0
          /\ Live(u0) => acct[u0].is.pw \in knows[t0] \/ Ends(t0, u0)
      BY <1>0, <2>2, <3>2, <3>3 DEF RequestInv, Served, Stamping, Decided, IsSelf
    <3>5. /\ session'[t0].st # "fresh" /\ acct'[u0].st # "unborn"
          /\ session'[t0].st = "live" => session'[t0].user = u0
          /\ acct'[u0].is.active \/ Ends(t0, u0)'
          /\ Live(u0)' => acct'[u0].is.pw \in knows'[t0] \/ Ends(t0, u0)'
      BY <1>5, <3>4, PendingStays, KnowledgeStays
    <3>6. Ends(req[r].tok, req[r].sess.user)' <=> Ends(t0, u0)'
      BY <3>1, <3>3 DEF Ends, RevokePending
    <3>7. Served(r)'  BY <3>1, <3>3, <3>5 DEF Served
    <3>8. Decided(r)'
      BY <1>0, <2>2, <3>1, <3>2
         DEF RequestInv, Decided, Changing, Finishing, Keeping, IsSelf, Target
    <3>9. Stamping(r)'
      BY <1>0, <1>1, <3>1, <3>3, <3>5, <3>6
         DEF RequestInv, Stamping, At, Admitted, Finishing, Keeping, Live
    <3>. QED  BY <3>7, <3>8, <3>9 DEF RequestInv
  <2>. QED  BY <1>1, <2>1, <2>2 DEF Keeping
<1>9. \A u \in Users : acct'[u].is.pw <= lastPw'  BY <1>1 DEF IInv
<1>. QED  BY <1>6, <1>7, <1>8, <1>9 DEF IInv

\* The stamp read for the kept session shows a password its holder knows, or
\* the session is about to end.
LEMMA ReadStampInv ==
  ASSUME IInv, TypeOK', NEW r \in Requests, ReadStamp(r)  PROVE IInv'
<1>. DEFINE tok == req[r].tok
            me == req[r].sess.user
<1>0. TypeOK /\ RequestInv(r) /\ req[r] \in Request  BY DEF IInv, TypeOK
<1>1. /\ At(r, "stamp") /\ OthersWait(r) /\ ~At(r, "revoke") /\ req'[r].pc = "restamp"
      /\ req'[r].tok = tok /\ req'[r].sess = req[r].sess /\ req'[r].cmd = req[r].cmd
      /\ req'[r].newRole = req[r].newRole /\ req'[r].seen = req[r].seen
      /\ req'[r].keep = req[r].keep /\ req'[r].snap = acct[Target(r)].is
      /\ UNCHANGED <<acct, lastPw, session, knows>>
  BY <1>0 DEF ReadStamp, OthersWait, At, TypeOK, Request
<1>2. Guarding(r) /\ Admitted(r) /\ Changing(r) /\ Finishing(r) /\ Keeping(r)
  BY <1>0, <1>1 DEF At, Guarding, Admitted, Changing, Finishing, RequestInv, Decided
<1>3. PICK t0 \in Tokens, u0 \in Users : t0 = tok /\ u0 = me /\ u0 = Target(r)
  BY <1>0, <1>2 DEF RequestInv, Served, Decided, IsSelf, Request, Session
<1>4. /\ acct[u0].is.active \/ Ends(t0, u0)
      /\ Live(u0) => acct[u0].is.pw \in knows[t0] \/ Ends(t0, u0)
  BY <1>0, <1>2, <1>3 DEF RequestInv, Stamping
<1>5. Ends(t0, u0) => Ends(t0, u0)'  BY <1>1, PendingFrame DEF Ends
<1>6. Ends(req[r].tok, req[r].sess.user)' <=> Ends(t0, u0)'
  BY <1>1, <1>3 DEF Ends, RevokePending
<1>7. acct[u0].is.pw <= lastPw  BY DEF IInv
<1>8. Served(r)' /\ Decided(r)'
  BY <1>0, <1>1, <1>2
     DEF RequestInv, Served, Decided, Guarding, Changing, Finishing, Keeping, IsSelf, Target
<1>9. Stamping(r)'
  BY <1>1, <1>3, <1>4, <1>5, <1>6, <1>7
     DEF Stamping, At, Admitted, Finishing, Keeping, Live
<1>. QED  BY <1>1, <1>8, <1>9, CalmStep DEF RequestInv

\* A restamped session still belongs to someone who knows the password, or is
\* about to end (Store.Restamp, session.go:174-183).
LEMMA RestampInv ==
  ASSUME IInv, TypeOK', NEW r \in Requests, Restamp(r)  PROVE IInv'
<1>. DEFINE me == req[r].sess.user
<1>0. TypeOK /\ RequestInv(r) /\ req[r] \in Request /\ lastPw \in Int
  BY DEF IInv, TypeOK, Pws
<1>1. /\ At(r, "restamp") /\ OthersWait(r) /\ ~At(r, "revoke") /\ req'[r] = Idle
      /\ UNCHANGED <<acct, lastPw, knows>>
  BY <1>0, DoneFacts DEF Restamp, At
<1>2. Guarding(r) /\ Admitted(r) /\ Changing(r) /\ Finishing(r) /\ Keeping(r)
  BY <1>0, <1>1 DEF At, Guarding, Admitted, Changing, Finishing, RequestInv, Decided
<1>3. PICK t \in Tokens, u \in Users : t = req[r].tok /\ u = me /\ u = Target(r)
  BY <1>0, <1>2 DEF RequestInv, Served, Decided, IsSelf, Request, Session
<1>4. /\ \A s \in Tokens : s # t => session'[s] = session[s]
      /\ session'[t].st = session[t].st /\ session'[t].user = session[t].user
      /\ session[t].st # "live" => session'[t] = session[t]
      /\ session[t].st = "live" => session'[t].stamp = req[r].snap
  BY <1>0, <1>3 DEF Restamp, TypeOK, Session
<1>5. \A s \in Tokens : session[s].user \in Users  BY <1>0 DEF TypeOK, Session
<1>6. Harmless
  <2>1. ASSUME NEW s \in Tokens
        PROVE  session'[s].st = session[s].st /\ session'[s].user = session[s].user
    BY <1>4
  <2>2. \A s \in Tokens, v \in Users : RevokePending(v, s) => RevokePending(v, s)'
    BY <1>1, PendingFrame
  <2>. QED  BY <1>0, <1>1, <2>1, <2>2 DEF Harmless, Live
<1>7. \A s \in Tokens : s # t => SessionInv(s)'  BY <1>4, <1>6, UntouchedSessions
<1>8. SessionInv(t)'
  <2>1. CASE session[t].st # "live"  BY <1>4, <1>6, <2>1, UntouchedSessions
  <2>2. CASE session[t].st = "live"
    <3>1. /\ session[t].user = u /\ acct[u].st # "unborn"
          /\ req[r].snap.active \/ RevokePending(u, t)
          /\ Live(u) => acct[u].is.pw \in knows[t] \/ RevokePending(u, t)
          /\ req[r].snap.pw <= lastPw
      BY <1>0, <1>1, <1>2, <1>3, <2>2 DEF RequestInv, Served, Stamping, Ends
    <3>2. RevokePending(u, t) => RevokePending(u, t)'  BY <1>1, PendingFrame
    <3>3. /\ session'[t].user = u /\ session'[t].stamp = req[r].snap
      BY <1>4, <2>2, <3>1
    <3>4. RevokePending(u, t)' => RevokePending(session[t].user, t)'
      BY <3>3 DEF RevokePending
    <3>. QED  BY <1>1, <3>1, <3>2, <3>3, <3>4 DEF SessionInv, Live
  <2>. QED  BY <2>1, <2>2
<1>9. \A q \in Requests : RequestInv(q)'
  BY <1>1, <1>6, UntouchedRequests, IdleInv DEF OthersWait
<1>10. \A v \in Users : acct'[v].is.pw <= lastPw'  BY <1>1 DEF IInv
<1>. QED  BY <1>7, <1>8, <1>9, <1>10 DEF IInv

\* A session that runs out keeps the invariant (pruneLocked, Get).
LEMMA ExpireInv ==
  ASSUME IInv, TypeOK', NEW t \in Tokens, Expire(t)  PROVE IInv'
<1>0. TypeOK /\ lastPw \in Int  BY DEF IInv, TypeOK, Pws
<1>1. \A s \in Tokens :
        /\ session[s].st # "fresh" => session'[s].st # "fresh"
        /\ session'[s].st = "live" => session'[s] = session[s]
        /\ session'[s] = session[s] \/ session'[s] = NoSession("gone")
  BY <1>0, EndFacts DEF Expire
<1>2. \A s \in Tokens : session[s].user \in Users  BY <1>0 DEF TypeOK, Session
<1>3. \A u \in Users, s \in Tokens : RevokePending(u, s) => RevokePending(u, s)'
  BY DEF Expire, RevokePending, At, Target
<1>4. Harmless  BY <1>0, <1>1, <1>2, <1>3 DEF Harmless, Live, Expire
<1>5. \A s \in Tokens : SessionInv(s)'  BY <1>1, <1>4, UntouchedSessions, GoneInv
<1>6. \A q \in Requests : RequestInv(q)'  BY <1>4, UntouchedRequests DEF Expire
<1>. QED  BY <1>5, <1>6 DEF IInv, Expire

\* A restart ends every session and forgets every request.
LEMMA RestartInv ==
  ASSUME IInv, TypeOK', Restart  PROVE IInv'
<1>1. TypeOK  BY DEF IInv
<1>2. ASSUME NEW t \in Tokens PROVE SessionInv(t)'
  <2>1. CASE session'[t] = NoSession("gone")  BY <2>1, GoneInv
  <2>2. CASE session'[t] = session[t] /\ session'[t].st # "live"
    <3>1. session[t].stamp.pw <= lastPw'  BY DEF Restart, IInv, SessionInv
    <3>. QED  BY <2>2, <3>1 DEF SessionInv
  <2>. QED  BY <1>1, <2>1, <2>2, EndFacts DEF Restart
<1>3. \A r \in Requests : RequestInv(r)'
  BY <1>1, IdleInv DEF Restart, TypeOK
<1>. QED  BY <1>2, <1>3 DEF IInv, Restart

\* The server starts with the invariant.
LEMMA InitInv == Init => IInv
<1>. SUFFICES ASSUME Init PROVE IInv  OBVIOUS
<1>1. TypeOK  BY InitTypes
<1>2. \A u \in Users : acct[u].is.pw <= lastPw  BY DEF Init, NoStamp
<1>3. \A t \in Tokens : SessionInv(t)  BY DEF Init, NoSession, NoStamp, SessionInv
<1>4. \A r \in Requests : RequestInv(r)
  BY DEF Init, Idle, NoStamp, RequestInv, Served, Decided, Stamping, Guarding, Admitted,
         Changing, Finishing, At
<1>. QED  BY <1>1, <1>2, <1>3, <1>4 DEF IInv

\* Every step keeps the invariant: one case for each kind of step.
LEMMA NextInv == IInv /\ [Next]_vars => IInv'
<1>. SUFFICES ASSUME IInv, [Next]_vars PROVE IInv'  OBVIOUS
<1>0. TypeOK'  BY NextTypes DEF IInv
<1>1. ASSUME NEW r \in Requests, SignIn(r) PROVE IInv'  BY <1>0, <1>1, SignInInv
<1>2. ASSUME NEW r \in Requests, Guarded(r) PROVE IInv'  BY <1>0, <1>2, GuardedInv
<1>3. ASSUME NEW r \in Requests, Handle(r) PROVE IInv'
  BY <1>0, <1>3, LoadInv, CalmHandlersInv, CreateUserInv, WriteInv, RevokeInv, ReadStampInv,
     RestampInv DEF Handle
<1>4. ASSUME NEW t \in Tokens, Expire(t) PROVE IInv'  BY <1>0, <1>4, ExpireInv
<1>5. CASE Restart  BY <1>0, <1>5, RestartInv
<1>6. CASE UNCHANGED vars
  BY <1>6
     DEF vars, IInv, TypeOK, SessionInv, RequestInv, Served, Decided, Stamping, Guarding,
         Admitted, Changing, Finishing, Keeping, Ends, RevokePending, Live, At, Target, IsSelf
<1>. QED  BY <1>1, <1>2, <1>3, <1>4, <1>5, <1>6 DEF Next

\* No sign-in that was under way, no kept session and no restamp outlives a
\* password reset or a deactivation (auth.go:90-102, UpdateUser
\* security_handler.go:519-534), however many requests interleave.
THEOREM Knowing == Spec => []OnlyKnowersAreAdmitted
<1>1. ASSUME IInv, NEW t \in Tokens,
             session[t].st = "live", Live(session[t].user),
             session[t].stamp = acct[session[t].user].is
      PROVE  \/ /\ acct[session[t].user].is.pw \in knows[t]
                /\ acct[session[t].user].is.active
             \/ RevokePending(session[t].user, t)
  <2>1. SessionInv(t)  BY <1>1 DEF IInv
  <2>. QED  BY <1>1, <2>1 DEF SessionInv
<1>2. IInv => OnlyKnowersAreAdmitted
  BY <1>1 DEF OnlyKnowersAreAdmitted, Live
<1>. QED  BY <1>2, InitInv, NextInv, PTL DEF Spec

----------------------------------------------------------------------------
\* The inductive invariant of the properties of one change at a time: while
\* nobody else changes accounts, the caller of a change is what the session
\* says, and what the handler decided in Load still holds in Write.

\* A session bears the role of its stamp, and an account was active by then.
RoleStamped(t) ==
  LET s == session[t]
  IN  s.st = "live" => s.role = s.stamp.role /\ s.stamp.active

\* So does the copy a request works with, which agrees with the session as long
\* as there is one.
CallerStamped(r) ==
  LET s == req[r].sess
      t == req[r].tok
  IN  Guarding(r) => /\ s.role = s.stamp.role /\ s.stamp.active
                     /\ session[t].st = "live" => session[t].role = s.role

\* Between the guard and its write a change finds the caller's account as the
\* session's stamp has it.
Standing(r) ==
  Changes(r) /\ req[r].pc \in {"load", "guard", "count", "write"}
    => Live(req[r].sess.user) /\ acct[req[r].sess.user].is = req[r].sess.stamp

\* What Load made sure of.
Authorised(r) ==
  LET owner == req[r].sess.role = "owner"
      role == acct[Target(r)].is.role
  IN  req[r].pc \in {"guard", "count", "write"} =>
        /\ req[r].cmd.op = "delete" => ~IsSelf(r) /\ (role = "owner" => owner)
        /\ req[r].cmd.op = "update" /\ req[r].newRole = "owner" => owner \/ role = "owner"
        /\ Keeping(r) => req[r].newRole = req[r].sess.role

\* What Count made sure of: an active owner is left when one goes.
Spared(r) ==
  At(r, "write") /\ req[r].cmd.op = "update" /\ NeedsCount(r)
    => \E u \in ActiveOwners : u # Target(r)

\* A handler that keeps a session has left its account active and its role as it
\* was, and so will the stamp it read.
Kept(r) ==
  LET role == req[r].sess.role
      is == acct[req[r].sess.user].is
  IN  /\ Finishing(r) /\ Keeping(r) => is.role = role /\ is.active
      /\ At(r, "restamp") => req[r].snap.role = role /\ req[r].snap.active

RoleInvOf(r) ==
  CallerStamped(r) /\ Standing(r) /\ Authorised(r) /\ Spared(r) /\ Kept(r)

RoleInv ==
  /\ \A t \in Tokens : RoleStamped(t)
  /\ \A r \in Requests : RoleInvOf(r)

\* What every step does to the sessions: none gets another role, and none that
\* was over or has yet to begin comes to bear a role in passing.
RolesStay ==
  \A t \in Tokens :
    session[t].st # "fresh" =>
      /\ session'[t].st # "fresh"
      /\ session'[t].st = "live"
           => session[t].st = "live" /\ session'[t].role = session[t].role

\* A request that a step leaves as it is keeps its part of the invariant, if the
\* step changes no account or the request is not about to change one.
LEMMA RolesOfOthers ==
  ASSUME IInv, RoleInv, RolesStay, NEW r \in Requests, req'[r] = req[r],
         acct' = acct \/ ~Changes(r)
  PROVE  RoleInvOf(r)'
<1>1. RoleInvOf(r) /\ RequestInv(r)  BY DEF RoleInv, IInv
<1>2. CallerStamped(r)'
  BY <1>1 DEF RoleInvOf, CallerStamped, RequestInv, Served, Guarding, RolesStay
<1>3. CASE acct' = acct
  <2>1. Standing(r)' /\ Authorised(r)' /\ Kept(r)'
    BY <1>1, <1>3
       DEF RoleInvOf, Standing, Authorised, Kept, Changes, Finishing, Keeping, IsSelf, Target,
           Live, At
  <2>2. Spared(r)'
    BY <1>1, <1>3
       DEF RoleInvOf, Spared, NeedsCount, ActiveOwners, Owners, Live, Target, At
  <2>. QED  BY <1>2, <2>1, <2>2 DEF RoleInvOf
<1>4. CASE ~Changes(r)
  <2>1. ~Changes(r)' /\ ~Changing(r)'
    BY <1>1, <1>4 DEF Changes, RequestInv, Decided, Changing, At
  <2>. QED
    BY <1>2, <2>1 DEF RoleInvOf, Standing, Authorised, Spared, Kept, Changing, Finishing, At
<1>. QED  BY <1>3, <1>4

\* A request that is done has nothing left to satisfy.
LEMMA IdleRoles ==
  ASSUME NEW r \in Requests, req'[r] = Idle  PROVE RoleInvOf(r)'
BY DEF Idle, RoleInvOf, CallerStamped, Standing, Authorised, Spared, Kept, Guarding, Finishing,
       At

\* A request stands at one of the statements of a handler that changes accounts
\* only if it may change them.
LEMMA ChangingChanges ==
  ASSUME IInv, NEW r \in Requests, Changing(r)  PROVE Changes(r)
BY DEF IInv, RequestInv, Decided, Changing, Changes, At

\* A step of one request that changes no account and at most ends sessions is a
\* matter of that request.
LEMMA CalmRoles ==
  ASSUME IInv, RoleInv, NEW r \in Requests, OthersWait(r), acct' = acct,
         session' = session \/ \E T \in SUBSET Tokens : End(T)
  PROVE  RoleInvOf(r)' => RoleInv'
<1>0. TypeOK  BY DEF IInv
<1>1. \A t \in Tokens :
        /\ session[t].st # "fresh" => session'[t].st # "fresh"
        /\ session'[t].st = "live" => session'[t] = session[t]
        /\ session'[t] = session[t] \/ session'[t] = NoSession("gone")
  BY <1>0, EndFacts
<1>2. RolesStay  BY <1>1 DEF RolesStay, NoSession
<1>3. \A t \in Tokens : RoleStamped(t)'
  BY <1>1 DEF RoleInv, RoleStamped, NoSession
<1>4. \A q \in Requests : q # r => RoleInvOf(q)'  BY <1>2, RolesOfOthers DEF OthersWait
<1>. QED  BY <1>3, <1>4 DEF RoleInv

\* Signing in opens a session for the account as it was read.
LEMMA SignInRoles ==
  ASSUME IInv, RoleInv, NEW r \in Requests, SignIn(r)  PROVE RoleInv'
<1>0. TypeOK /\ RequestInv(r)  BY DEF IInv
<1>1. ASSUME NEW u \in Users, Authenticate(r, u) PROVE RoleInv'
  <2>1. OthersWait(r) /\ acct' = acct /\ session' = session /\ req'[r].pc = "create"
    BY <1>0, <1>1 DEF Authenticate, OthersWait, TypeOK, Idle
  <2>2. RoleInvOf(r)'
    BY <2>1 DEF RoleInvOf, CallerStamped, Standing, Authorised, Spared, Kept, Guarding,
                Finishing, At
  <2>. QED  BY <2>1, <2>2, CalmRoles
<1>2. ASSUME NEW t \in Tokens, Create(r, t) PROVE RoleInv'
  <2>1. OthersWait(r) /\ req'[r] = Idle /\ acct' = acct  BY <1>0, <1>2, DoneFacts DEF Create
  <2>2. /\ \A s \in Tokens : s # t => session'[s] = session[s]
        /\ session'[t].role = session'[t].stamp.role /\ session'[t].stamp = req[r].snap
        /\ session[t].st = "fresh"
    BY <1>0, <1>2 DEF Create, TypeOK
  <2>3. req[r].snap.active  BY <1>0, <1>2 DEF Create, RequestInv, Stamping
  <2>4. \A s \in Tokens : RoleStamped(s)'  BY <2>2, <2>3 DEF RoleInv, RoleStamped
  <2>5. RolesStay  BY <2>2 DEF RolesStay
  <2>6. \A q \in Requests : RoleInvOf(q)'
    BY <2>1, <2>5, RolesOfOthers, IdleRoles DEF OthersWait
  <2>. QED  BY <2>4, <2>6 DEF RoleInv
<1>. QED  BY <1>1, <1>2 DEF SignIn

\* The guard lets a change begin with the account the session was opened for.
LEMMA GuardedRoles ==
  ASSUME IInv, RoleInv, NEW r \in Requests, Guarded(r)  PROVE RoleInv'
<1>0. TypeOK /\ RequestInv(r) /\ RoleInvOf(r)  BY DEF IInv, RoleInv
<1>1. ASSUME NEW t \in Tokens, NEW c \in Commands, Begin(r, t, c) PROVE RoleInv'
  <2>1. /\ OthersWait(r) /\ acct' = acct /\ session' = session
        /\ req'[r].pc = "check" /\ req'[r].tok = t /\ req'[r].sess = session[t]
    BY <1>0, <1>1 DEF Begin, OthersWait, TypeOK, Idle
  <2>2. session[t].role = session[t].stamp.role /\ session[t].stamp.active
    BY <1>1 DEF Begin, RoleInv, RoleStamped
  <2>3. RoleInvOf(r)'
    BY <2>1, <2>2 DEF RoleInvOf, CallerStamped, Standing, Authorised, Spared, Kept, Guarding,
                      Finishing, At
  <2>. QED  BY <2>1, <2>3, CalmRoles
<1>2. CASE Admit(r)
  <2>1. /\ OthersWait(r) /\ acct' = acct /\ session' = session /\ req'[r].pc = "load"
        /\ req'[r].tok = req[r].tok /\ req'[r].sess = req[r].sess
    BY <1>0, <1>2, GotoFacts DEF Admit, Pcs
  <2>2. CallerStamped(r)'
    BY <1>0, <1>2, <2>1 DEF RoleInvOf, CallerStamped, Guarding, Admit, At
  <2>3. Standing(r)'  BY <1>2, <2>1 DEF Standing, Admit, StampMatches, Live
  <2>4. RoleInvOf(r)'
    BY <2>1, <2>2, <2>3 DEF RoleInvOf, Authorised, Spared, Kept, Finishing, At
  <2>. QED  BY <2>1, <2>4, CalmRoles
<1>3. CASE Reject(r)
  <2>1. req[r].tok \in Tokens  BY <1>0, <1>3 DEF Reject, RequestInv, Served, Guarding, At
  <2>2. OthersWait(r) /\ acct' = acct /\ req'[r] = Idle /\ End({req[r].tok})
    BY <1>0, <1>3, DoneFacts DEF Reject
  <2>. QED  BY <2>1, <2>2, CalmRoles, IdleRoles
<1>. QED  BY <1>1, <1>2, <1>3 DEF Guarded

\* A caller whose session bears a role is an account of that role, and active.
LEMMA CallerIsCurrent ==
  ASSUME RoleInv, NEW r \in Requests, Changes(r),
         req[r].pc \in {"load", "guard", "count", "write"}
  PROVE  /\ Live(req[r].sess.user)
         /\ acct[req[r].sess.user].is.role = req[r].sess.role
         /\ acct[req[r].sess.user].is.active
BY DEF RoleInv, RoleInvOf, CallerStamped, Standing, Guarding

\* What the handler decides in Load: whom it may make an owner, whom it may
\* delete, and that a session is kept only by an account that keeps its role.
LEMMA LoadRoles ==
  ASSUME IInv, RoleInv, NEW r \in Requests, Load(r)  PROVE RoleInv'
<1>. DEFINE me == req[r].sess.user
            role == acct[Target(r)].is.role
<1>0. TypeOK /\ RequestInv(r) /\ RoleInvOf(r) /\ req[r] \in Request
  BY DEF IInv, RoleInv, TypeOK
<1>1. /\ OthersWait(r) /\ UNCHANGED <<acct, session>> /\ req'[r].pc = "guard"
      /\ req'[r].tok = req[r].tok /\ req'[r].sess = req[r].sess /\ req'[r].cmd = req[r].cmd
      /\ req'[r].newRole = NewRole(r)
      /\ req'[r].keep = IF Keeps(r) THEN req[r].tok ELSE NoToken
  BY <1>0 DEF Load, OthersWait, TypeOK, Request
<1>2. At(r, "load") /\ May(r) /\ req[r].cmd.op \in {"update", "delete", "super"}
  BY <1>0 DEF Load, May, Request, Command, Ops
<1>3. Changes(r)  BY <1>2 DEF Changes, At
<1>4. /\ Live(me) /\ acct[me].is = req[r].sess.stamp
      /\ acct[me].is.role = req[r].sess.role
  BY <1>0, <1>2, <1>3, CallerIsCurrent DEF At, RoleInvOf, Standing
<1>5. CallerStamped(r)' /\ Standing(r)'
  BY <1>0, <1>1, <1>2, <1>4 DEF RoleInvOf, CallerStamped, Standing, Guarding, At, Live
<1>6. Authorised(r)'
  <2>1. req[r].cmd.op = "delete"
          => ~IsSelf(r) /\ (role = "owner" => req[r].sess.role = "owner")
    BY <1>2 DEF May, MayDelete
  <2>2. req[r].cmd.op = "update" /\ NewRole(r) = "owner"
          => req[r].sess.role = "owner" \/ role = "owner"
    BY <1>2 DEF May, MayUpdate
  <2>3. Keeps(r) => NewRole(r) = req[r].sess.role
    BY <1>4 DEF Keeps, IsSelf
  <2>. QED  BY <1>1, <2>1, <2>2, <2>3 DEF Authorised, IsSelf, Target, Keeping
<1>7. Spared(r)' /\ Kept(r)'  BY <1>1 DEF Spared, Kept, Finishing, At
<1>. QED  BY <1>1, <1>5, <1>6, <1>7, CalmRoles DEF RoleInvOf

\* An update passes the count only if another active owner is left.
LEMMA CountRoles ==
  ASSUME IInv, RoleInv, NEW r \in Requests, Guard(r) \/ Count(r)  PROVE RoleInv'
<1>0. TypeOK /\ RequestInv(r) /\ RoleInvOf(r)  BY DEF IInv, RoleInv
<1>1. OthersWait(r) /\ UNCHANGED <<acct, session>>
  BY <1>0, DoneFacts, GotoFacts DEF Guard, Count, Pcs
<1>2. CASE Done(r)  BY <1>0, <1>1, <1>2, DoneFacts, CalmRoles, IdleRoles
<1>3. ASSUME NEW pc \in {"count", "write"}, Goto(r, pc)
      PROVE  /\ req'[r].pc = pc /\ req'[r].tok = req[r].tok /\ req'[r].sess = req[r].sess
             /\ req'[r].cmd = req[r].cmd /\ req'[r].newRole = req[r].newRole
             /\ req'[r].keep = req[r].keep
             /\ CallerStamped(r)' /\ Standing(r)' /\ Authorised(r)' /\ Kept(r)'
  <2>1. /\ req'[r].pc = pc /\ req'[r].tok = req[r].tok /\ req'[r].sess = req[r].sess
        /\ req'[r].cmd = req[r].cmd /\ req'[r].newRole = req[r].newRole
        /\ req'[r].keep = req[r].keep
    BY <1>0, <1>3, GotoFacts DEF Pcs
  <2>2. Guarding(r) /\ req[r].pc \in {"guard", "count"}
    BY DEF Guarding, Guard, Count, At
  <2>3. Changes(r)  BY <2>2, ChangingChanges DEF Changing
  <2>4. CallerStamped(r)' /\ Standing(r)'
    BY <1>0, <1>1, <2>1, <2>2, <2>3 DEF RoleInvOf, CallerStamped, Standing, Live
  <2>5. Authorised(r)'
    BY <1>0, <1>1, <2>1, <2>2 DEF RoleInvOf, Authorised, IsSelf, Target, Keeping
  <2>6. Kept(r)'  BY <2>1 DEF Kept, Finishing, At
  <2>. QED  BY <2>1, <2>4, <2>5, <2>6
<1>4. CASE Goto(r, "count")
  <2>1. Spared(r)'  BY <1>3, <1>4 DEF Spared, At
  <2>. QED  BY <1>1, <1>3, <1>4, <2>1, CalmRoles DEF RoleInvOf
<1>5. CASE Goto(r, "write") /\ Guard(r)
  <2>1. ~NeedsCount(r)
    <3>1. req'[r].pc = "write"  BY <1>3, <1>5
    <3>2. ~Done(r)
      <4>. SUFFICES ASSUME Done(r) PROVE FALSE  OBVIOUS
      <4>1. req'[r] = Idle  BY <1>0, DoneFacts
      <4>. QED  BY <3>1, <4>1 DEF Idle
    <3>3. CASE NeedsCount(r)
      <4>1. Goto(r, "count")  BY <1>5, <3>2, <3>3 DEF Guard
      <4>. QED  BY <1>3, <3>1, <4>1
    <3>. QED  BY <3>3
  <2>2. Spared(r)'
    BY <1>1, <1>3, <1>5, <2>1 DEF Spared, NeedsCount, Target, At
  <2>. QED  BY <1>1, <1>3, <1>5, <2>2, CalmRoles DEF RoleInvOf
<1>6. CASE Goto(r, "write") /\ Count(r)
  <2>1. ~(Cardinality(Remaining(req[r].cmd)) <= 1)
    <3>1. req'[r].pc = "write"  BY <1>3, <1>6
    <3>2. ~Done(r)
      <4>. SUFFICES ASSUME Done(r) PROVE FALSE  OBVIOUS
      <4>1. req'[r] = Idle  BY <1>0, DoneFacts
      <4>. QED  BY <3>1, <4>1 DEF Idle
    <3>. QED  BY <1>6, <3>2 DEF Count
  <2>2. ASSUME req[r].cmd.op = "update" PROVE \E u \in ActiveOwners : u # Target(r)
    <3>. SUFFICES ASSUME \A u \in ActiveOwners : u = Target(r) PROVE FALSE  OBVIOUS
    <3>1. ~(Cardinality(ActiveOwners) <= 1)  BY <2>1, <2>2 DEF Remaining
    <3>2. CASE ActiveOwners = {}  BY <3>1, <3>2, FS_EmptySet
    <3>3. CASE ActiveOwners # {}
      <4>1. ActiveOwners = {Target(r)}  BY <3>3
      <4>2. Cardinality({Target(r)}) = 1  BY FS_Singleton
      <4>. QED  BY <3>1, <4>1, <4>2
    <3>. QED  BY <3>2, <3>3
  <2>3. Spared(r)'
    BY <1>1, <1>3, <1>6, <2>2
       DEF Spared, ActiveOwners, Owners, Live, Target, At
  <2>. QED  BY <1>1, <1>3, <1>6, <2>3, CalmRoles DEF RoleInvOf
<1>. QED  BY <1>2, <1>4, <1>5, <1>6 DEF Guard, Count

\* Writing leaves the caller of a kept session with the role the session bears:
\* nobody else has changed the account since the handler read it.
LEMMA WriteRoles ==
  ASSUME IInv, RoleInv, OneChange, NEW r \in Requests, Write(r)  PROVE RoleInv'
<1>. DEFINE me == req[r].sess.user
            c == req[r].cmd
<1>0. TypeOK /\ RequestInv(r) /\ RoleInvOf(r) /\ me \in Users /\ c \in Command
  BY DEF IInv, RoleInv, TypeOK, Request, Session
<1>1. At(r, "write") /\ Changing(r) /\ Guarding(r)
  BY DEF Write, At, Changing, Guarding
<1>2. Changes(r)  BY <1>1, ChangingChanges
<1>3. OthersWait(r) /\ session' = session
  BY <1>0, DoneFacts, GotoFacts DEF Write, Pcs
<1>4. \A q \in Requests : q # r => ~Changes(q)  BY <1>2 DEF OneChange
<1>5. RolesStay  BY <1>3 DEF RolesStay
<1>6. \A q \in Requests : q # r => RoleInvOf(q)'
  BY <1>3, <1>4, <1>5, RolesOfOthers DEF OthersWait
<1>7. \A t \in Tokens : RoleStamped(t)'  BY <1>3 DEF RoleInv, RoleStamped
<1>8. CASE Done(r)
  BY <1>0, <1>6, <1>7, <1>8, DoneFacts, IdleRoles DEF RoleInv
<1>9. CASE Goto(r, "revoke")
  <2>1. /\ req'[r].pc = "revoke" /\ req'[r].tok = req[r].tok /\ req'[r].sess = req[r].sess
        /\ req'[r].cmd = req[r].cmd /\ req'[r].keep = req[r].keep
    BY <1>0, <1>9, GotoFacts DEF Pcs
  <2>2. CallerStamped(r)'
    BY <1>0, <1>1, <1>3, <2>1 DEF RoleInvOf, CallerStamped, Guarding
  <2>3. ASSUME Keeping(r)
        PROVE  acct'[me].is.role = req[r].sess.role /\ acct'[me].is.active
    <3>1. /\ me = c.target /\ c.op = "update" /\ c.active # "off"
          /\ req[r].newRole = req[r].sess.role
      BY <1>0, <1>1, <2>3
         DEF RequestInv, Decided, RoleInvOf, Authorised, IsSelf, Target, Deactivates, At
    <3>2. Live(me) /\ acct[me].is.active
      BY <1>1, <1>2, CallerIsCurrent DEF At
    <3>3. acct' = [acct EXCEPT ![me].is =
                     Updated(acct[me].is, c, req[r].newRole, lastPw + 1)]
      BY <3>1, <3>2 DEF Write
    <3>4. acct'[me].is = Updated(acct[me].is, c, req[r].newRole, lastPw + 1)
      BY <1>0, <3>3 DEF TypeOK, Account
    <3>5. acct[me].is \in Stamp  BY <1>0 DEF TypeOK, Account
    <3>. QED  BY <1>0, <3>1, <3>2, <3>4, <3>5 DEF Updated, Stamp, Command
  <2>4. RoleInvOf(r)'
    BY <2>1, <2>2, <2>3
       DEF RoleInvOf, Standing, Authorised, Spared, Kept, Finishing, Keeping, At
  <2>. QED  BY <1>6, <1>7, <2>4 DEF RoleInv
<1>. QED  BY <1>8, <1>9 DEF Write

\* A new account concerns nobody who is at work.
LEMMA CreateUserRoles ==
  ASSUME IInv, RoleInv, OneChange, NEW r \in Requests, CreateUser(r)  PROVE RoleInv'
<1>0. TypeOK  BY DEF IInv
<1>1. OthersWait(r) /\ req'[r] = Idle /\ session' = session
  BY <1>0, DoneFacts DEF CreateUser
<1>2. Changes(r)  BY DEF CreateUser, Changes, At
<1>3. \A q \in Requests : q # r => ~Changes(q)  BY <1>2 DEF OneChange
<1>4. \A q \in Requests : RoleInvOf(q)'
  BY <1>1, <1>3, RolesOfOthers, IdleRoles DEF OthersWait, RolesStay
<1>. QED  BY <1>1, <1>4 DEF RoleInv, RoleStamped

\* After the write: sessions end, and the kept one gets the stamp of an account
\* whose role it bears.
LEMMA AfterWriteRoles ==
  ASSUME IInv, RoleInv, NEW r \in Requests, Revoke(r) \/ ReadStamp(r)  PROVE RoleInv'
<1>. DEFINE me == req[r].sess.user
<1>0. TypeOK /\ RequestInv(r) /\ RoleInvOf(r) /\ req[r] \in Request
  BY DEF IInv, RoleInv, TypeOK
<1>1. CASE Revoke(r)
  <2>. DEFINE T == SessionsOf(Target(r)) \ {req[r].keep}
  <2>1. T \in SUBSET Tokens /\ End(T) /\ OthersWait(r) /\ acct' = acct
    BY <1>0, <1>1, DoneFacts, GotoFacts DEF Revoke, SessionsOf, Pcs
  <2>2. CASE Done(r)  BY <1>0, <2>1, <2>2, DoneFacts, CalmRoles, IdleRoles
  <2>3. CASE Goto(r, "stamp")
    <3>1. /\ req'[r].pc = "stamp" /\ req'[r].tok = req[r].tok /\ req'[r].sess = req[r].sess
          /\ req'[r].keep = req[r].keep
      BY <1>0, <2>3, GotoFacts DEF Pcs
    <3>2. Guarding(r) /\ Finishing(r) /\ req[r].tok \in Tokens
      BY <1>0, <1>1 DEF Revoke, Guarding, Finishing, At, RequestInv, Served
    <3>3. session'[req[r].tok].st = "live" => session'[req[r].tok] = session[req[r].tok]
      BY <1>0, <2>1, <3>2, EndFacts
    <3>4. CallerStamped(r)'
      BY <1>0, <3>1, <3>2, <3>3 DEF RoleInvOf, CallerStamped, Guarding
    <3>5. RoleInvOf(r)'
      BY <1>0, <2>1, <3>1, <3>2, <3>4
         DEF RoleInvOf, Standing, Authorised, Spared, Kept, Finishing, Keeping, At
    <3>. QED  BY <2>1, <3>5, CalmRoles
  <2>. QED  BY <1>1, <2>2, <2>3 DEF Revoke
<1>2. CASE ReadStamp(r)
  <2>1. /\ OthersWait(r) /\ acct' = acct /\ session' = session /\ req'[r].pc = "restamp"
        /\ req'[r].tok = req[r].tok /\ req'[r].sess = req[r].sess
        /\ req'[r].keep = req[r].keep /\ req'[r].snap = acct[Target(r)].is
    BY <1>0, <1>2 DEF ReadStamp, OthersWait, TypeOK, Request
  <2>2. Guarding(r) /\ Finishing(r) /\ Keeping(r) /\ Changing(r)
    BY <1>0, <1>2
       DEF ReadStamp, Guarding, Finishing, Changing, At, RequestInv, Decided
  <2>3. Target(r) = me  BY <1>0, <2>2 DEF RequestInv, Decided, IsSelf
  <2>4. CallerStamped(r)'
    BY <1>0, <2>1, <2>2 DEF RoleInvOf, CallerStamped, Guarding
  <2>5. RoleInvOf(r)'
    BY <1>0, <2>1, <2>2, <2>3, <2>4
       DEF RoleInvOf, Standing, Authorised, Spared, Kept, Finishing, Keeping, At
  <2>. QED  BY <2>1, <2>5, CalmRoles
<1>. QED  BY <1>1, <1>2

\* Restamp leaves the session with the role it had and a stamp that agrees
\* (Store.Restamp, session.go:174-183).
LEMMA RestampRoles ==
  ASSUME IInv, RoleInv, NEW r \in Requests, Restamp(r)  PROVE RoleInv'
<1>0. TypeOK /\ RequestInv(r) /\ RoleInvOf(r)  BY DEF IInv, RoleInv
<1>1. /\ At(r, "restamp") /\ OthersWait(r) /\ req'[r] = Idle /\ acct' = acct
      /\ Guarding(r)
  BY <1>0, DoneFacts DEF Restamp, Guarding, At
<1>2. PICK t \in Tokens : t = req[r].tok  BY <1>0, <1>1 DEF RequestInv, Served
<1>3. /\ \A s \in Tokens : s # t => session'[s] = session[s]
      /\ session'[t].st = session[t].st /\ session'[t].role = session[t].role
      /\ session[t].st = "live" => session'[t].stamp = req[r].snap
  BY <1>0, <1>2 DEF Restamp, TypeOK, Session
<1>4. /\ session[t].st = "live" => session[t].role = req[r].sess.role
      /\ req[r].snap.role = req[r].sess.role /\ req[r].snap.active
  BY <1>0, <1>1, <1>2 DEF RoleInvOf, CallerStamped, Kept
<1>5. \A s \in Tokens : RoleStamped(s)'
  BY <1>3, <1>4 DEF RoleInv, RoleStamped
<1>6. RolesStay
  <2>1. \A s \in Tokens : session'[s].st = session[s].st /\ session'[s].role = session[s].role
    BY <1>3
  <2>. QED  BY <2>1 DEF RolesStay
<1>7. \A q \in Requests : RoleInvOf(q)'
  BY <1>1, <1>6, RolesOfOthers, IdleRoles DEF OthersWait
<1>. QED  BY <1>5, <1>7 DEF RoleInv

\* The server starts with the invariant.
LEMMA InitRoles == Init => RoleInv
BY DEF Init, Idle, NoSession, RoleInv, RoleStamped, RoleInvOf, CallerStamped, Standing,
       Authorised, Spared, Kept, Changes, Guarding, Finishing, At

\* Every step keeps it, as long as one request at a time changes accounts.
LEMMA NextRoles == IInv /\ RoleInv /\ OneChange /\ [Next]_vars => RoleInv'
<1>. SUFFICES ASSUME IInv, RoleInv, OneChange, [Next]_vars PROVE RoleInv'  OBVIOUS
<1>0. TypeOK  BY DEF IInv
<1>1. ASSUME NEW r \in Requests, SignIn(r) PROVE RoleInv'  BY <1>1, SignInRoles
<1>2. ASSUME NEW r \in Requests, Guarded(r) PROVE RoleInv'  BY <1>2, GuardedRoles
<1>3. ASSUME NEW r \in Requests, Handle(r) PROVE RoleInv'
  <2>1. CASE Forbid(r) \/ Read(r) \/ GiveUp(r) \/ NoNewStamp(r)
    <3>1. OthersWait(r) /\ req'[r] = Idle /\ UNCHANGED <<acct, session>>
      BY <1>0, <2>1, DoneFacts DEF Forbid, Read, GiveUp, NoNewStamp
    <3>. QED  BY <3>1, CalmRoles, IdleRoles
  <2>2. CASE Logout(r)
    <3>1. /\ OthersWait(r) /\ req'[r] = Idle /\ acct' = acct /\ End({req[r].tok})
          /\ req[r].tok \in Tokens
      BY <1>0, <2>2, DoneFacts DEF Logout, IInv, RequestInv, Served, Guarding, At
    <3>. QED  BY <3>1, CalmRoles, IdleRoles
  <2>. QED  BY <1>3, <2>1, <2>2, LoadRoles, CountRoles, CreateUserRoles, WriteRoles,
               AfterWriteRoles, RestampRoles DEF Handle
<1>4. CASE (\E t \in Tokens : Expire(t)) \/ Restart
  <2>1. PICK T \in SUBSET Tokens : End(T)  BY <1>4 DEF Expire, Restart
  <2>2. acct' = acct /\ \A r \in Requests : req'[r] = req[r] \/ req'[r] = Idle
    BY <1>0, <1>4 DEF Expire, Restart, TypeOK
  <2>3. \A t \in Tokens :
          /\ session[t].st # "fresh" => session'[t].st # "fresh"
          /\ session'[t].st = "live" => session'[t] = session[t]
    BY <1>0, <2>1, EndFacts
  <2>4. \A r \in Requests : RoleInvOf(r)'
    BY <2>2, <2>3, RolesOfOthers, IdleRoles DEF RolesStay
  <2>. QED  BY <2>3, <2>4 DEF RoleInv, RoleStamped
<1>5. CASE UNCHANGED vars
  <2>1. \A r \in Requests : RoleInvOf(r)'
    BY <1>5, RolesOfOthers DEF vars, RolesStay
  <2>. QED  BY <1>5, <2>1 DEF vars, RoleInv, RoleStamped
<1>. QED  BY <1>1, <1>2, <1>3, <1>4, <1>5 DEF Next

----------------------------------------------------------------------------
\* The properties of one change at a time.

\* A request is admitted with the role its account has (auth.go:90-102), however
\* many sign-ins, reads and sign-outs overlap with the one change.
THEOREM RoleIsCurrent == Spec /\ []OneChange => AdmittedRoleIsCurrent
<1>1. RoleInv /\ IInv =>
        [\A r \in Requests :
           Admit(r) => req[r].sess.role = acct[req[r].sess.user].is.role]_vars
  <2>. SUFFICES ASSUME RoleInv, NEW r \in Requests, Admit(r)
                PROVE  req[r].sess.role = acct[req[r].sess.user].is.role
    OBVIOUS
  <2>1. CallerStamped(r) /\ Guarding(r)
    BY DEF RoleInv, RoleInvOf, Admit, Guarding, At
  <2>. QED  BY <2>1 DEF CallerStamped, Admit, StampMatches
<1>. QED
  BY <1>1, InitInv, NextInv, InitRoles, NextRoles, PTL DEF Spec, AdmittedRoleIsCurrent

\* What is left of a row: an update keeps the role and the activity it does not
\* change, and the grant of the super-owner flag keeps both.
LEMMA UpdatedFacts ==
  ASSUME NEW is \in Stamp, NEW c, NEW role, NEW pw
  PROVE  /\ c.op = "super" => /\ Updated(is, c, role, pw).role = is.role
                              /\ Updated(is, c, role, pw).active = is.active
         /\ c.op # "super" =>
              /\ Updated(is, c, role, pw).role = role
              /\ c.active = "on" \/ (c.active = "same" /\ is.active)
                   => Updated(is, c, role, pw).active
BY DEF Updated, Stamp

\* What Write does to the accounts.
LEMMA WriteFacts ==
  ASSUME IInv, NEW r \in Requests, Write(r), NEW u \in Users
  PROVE  /\ u # Target(r) \/ ~Live(u) => acct'[u] = acct[u]
         /\ u = Target(r) /\ Live(u) /\ req[r].cmd.op # "delete" =>
              /\ Live(u)'
              /\ acct'[u].is = Updated(acct[u].is, req[r].cmd, req[r].newRole, lastPw + 1)
         /\ u = Target(r) /\ req[r].cmd.op = "delete" => ~Live(u)'
<1>1. TypeOK  BY DEF IInv
<1>. QED  BY <1>1 DEF Write, Target, Live, TypeOK, Account

\* One change leaves an active owner: an update is counted, and whoever deletes
\* an owner is another active owner.
LEMMA WriteSparesAnOwner ==
  ASSUME IInv, RoleInv, NEW r \in Requests, Write(r), SomeActiveOwner
  PROVE  SomeActiveOwner'
<1>. DEFINE c == req[r].cmd
<1>0. TypeOK /\ RequestInv(r) /\ RoleInvOf(r) /\ c \in Command /\ Target(r) \in Users
      /\ req[r].sess.user \in Users
  BY DEF IInv, RoleInv, TypeOK, Request, Session, Command, Target
<1>w. PICK w \in Users : w = Target(r)  BY <1>0
<1>1. At(r, "write") /\ Changing(r)  BY DEF Write, At, Changing
<1>2. c.op \in {"update", "delete", "super"}
  BY <1>0, <1>1 DEF RequestInv, Decided
<1>3. \A u \in Users : u \in ActiveOwners
        <=> Live(u) /\ acct[u].is.role = "owner" /\ acct[u].is.active
  BY DEF ActiveOwners, Owners
<1>4. \A u \in Users : Live(u)' /\ acct'[u].is.role = "owner" /\ acct'[u].is.active
        => u \in ActiveOwners'
  BY DEF ActiveOwners, Owners
<1>5. ASSUME NEW u \in ActiveOwners, u # w PROVE u \in ActiveOwners'
  <2>1. u \in Users /\ acct'[u] = acct[u]
    BY <1>w, <1>5, WriteFacts DEF ActiveOwners, Owners
  <2>. QED  BY <1>3, <1>4, <1>5, <2>1 DEF Live
<1>6. PICK v \in ActiveOwners : TRUE  BY DEF SomeActiveOwner
<1>7. CASE v # w  BY <1>5, <1>6, <1>7 DEF SomeActiveOwner
<1>8. CASE v = w
  <2>1. Live(w) /\ acct[w].is.role = "owner" /\ acct[w].is.active /\ acct[w].is \in Stamp
    BY <1>0, <1>3, <1>6, <1>8 DEF TypeOK, Account
  <2>2. CASE c.op = "delete"
    <3>1. req[r].sess.user # w /\ req[r].sess.role = "owner"
      BY <1>0, <1>1, <1>w, <2>1, <2>2 DEF RoleInvOf, Authorised, IsSelf, At
    <3>2. req[r].sess.user \in ActiveOwners
      BY <1>0, <1>1, <1>3, <3>1, ChangingChanges, CallerIsCurrent DEF At
    <3>. QED  BY <1>5, <3>1, <3>2 DEF SomeActiveOwner
  <2>3. CASE c.op # "delete"
    <3>1. Live(w)' /\ acct'[w].is = Updated(acct[w].is, c, req[r].newRole, lastPw + 1)
      BY <1>w, <2>1, <2>3, WriteFacts
    <3>2. CASE c.op = "super"
      <4>1. acct'[w].is.role = "owner" /\ acct'[w].is.active
        BY <2>1, <3>1, <3>2, UpdatedFacts
      <4>. QED  BY <1>4, <3>1, <4>1 DEF SomeActiveOwner
    <3>3. CASE c.op = "update" /\ NeedsCount(r)
      <4>1. PICK u \in ActiveOwners : u # w
        BY <1>0, <1>1, <1>w, <3>3 DEF RoleInvOf, Spared
      <4>. QED  BY <1>5, <4>1 DEF SomeActiveOwner
    <3>4. CASE c.op = "update" /\ ~NeedsCount(r)
      <4>1. req[r].newRole = "owner" /\ c.active # "off"
        BY <1>w, <2>1, <3>4 DEF NeedsCount, Deactivates, Target
      <4>2. acct'[w].is.role = "owner"
        BY <2>1, <3>1, <3>4, <4>1, UpdatedFacts
      <4>3. acct'[w].is.active
        <5>1. c.active = "same" \/ c.active = "on"  BY <1>0, <4>1 DEF Command
        <5>. QED  BY <2>1, <3>1, <3>4, <5>1, UpdatedFacts
      <4>. QED  BY <1>4, <3>1, <4>2, <4>3 DEF SomeActiveOwner
    <3>. QED  BY <1>2, <2>3, <3>2, <3>3, <3>4
  <2>. QED  BY <2>2, <2>3
<1>. QED  BY <1>7, <1>8

\* Which steps change accounts at all.
LEMMA AccountsFrame ==
  ASSUME [Next]_vars
  PROVE  acct' = acct \/ \E r \in Requests : CreateUser(r) \/ Write(r)
<1>1. ASSUME NEW r \in Requests, SignIn(r) PROVE acct' = acct
  BY <1>1, Zenon DEF SignIn, Authenticate, Create
<1>2. ASSUME NEW r \in Requests, Guarded(r) PROVE acct' = acct
  BY <1>2, Zenon DEF Guarded, Begin, Admit, Reject
<1>3. ASSUME NEW r \in Requests, Handle(r)
      PROVE  acct' = acct \/ CreateUser(r) \/ Write(r)
  BY <1>3 DEF Handle, Load, Forbid, Read, Logout, Guard, Count, Revoke, ReadStamp,
              NoNewStamp, Restamp, GiveUp
<1>4. (\E t \in Tokens : Expire(t)) \/ Restart \/ UNCHANGED vars => acct' = acct
  BY DEF Expire, Restart, vars
<1>. QED  BY <1>1, <1>2, <1>3, <1>4 DEF Next

\* A database that starts with an owner always keeps one (UpdateUser, DeleteUser,
\* security_service.go:447-474 and 523-543), as long as its accounts are changed
\* one after another.
THEOREM OwnerRemains ==
  ASSUME \E u \in Users : FirstRole[u] = "owner"
  PROVE  Spec /\ []OneChange => []SomeActiveOwner
<1>1. Init => SomeActiveOwner
  <2>. SUFFICES ASSUME Init PROVE SomeActiveOwner  OBVIOUS
  <2>1. PICK u \in Users : FirstRole[u] = "owner"  OBVIOUS
  <2>2. u \in ActiveOwners  BY <2>1 DEF Init, ActiveOwners, Owners, Live
  <2>. QED  BY <2>2 DEF SomeActiveOwner
<1>2. IInv /\ RoleInv /\ SomeActiveOwner /\ [Next]_vars => SomeActiveOwner'
  <2>. SUFFICES ASSUME IInv, RoleInv, SomeActiveOwner, [Next]_vars
                PROVE  SomeActiveOwner'
    OBVIOUS
  <2>1. CASE acct' = acct
    BY <2>1 DEF SomeActiveOwner, ActiveOwners, Owners, Live
  <2>2. ASSUME NEW r \in Requests, CreateUser(r) PROVE SomeActiveOwner'
    <3>1. PICK u \in ActiveOwners : TRUE  BY DEF SomeActiveOwner
    <3>2. u \in Users /\ Live(u) /\ acct'[u] = acct[u]
      BY <2>2 DEF CreateUser, ActiveOwners, Owners, Live, IInv, TypeOK
    <3>3. u \in ActiveOwners'  BY <3>1, <3>2 DEF ActiveOwners, Owners, Live
    <3>. QED  BY <3>3 DEF SomeActiveOwner
  <2>3. ASSUME NEW r \in Requests, Write(r) PROVE SomeActiveOwner'
    BY <2>3, WriteSparesAnOwner
  <2>. QED  BY <2>1, <2>2, <2>3, AccountsFrame
<1>. QED  BY <1>1, <1>2, InitInv, NextInv, InitRoles, NextRoles, PTL DEF Spec

\* No chain of creations and promotions makes an owner unless the very request
\* that writes the row is an active owner's (CreateUser, UpdateUser,
\* security_handler.go:433-516), as long as accounts are changed one after another.
THEOREM OwnersByOwners == Spec /\ []OneChange => OwnersMadeByOwners
<1>1. IInv /\ RoleInv /\ [Next]_vars =>
        [\A u \in Users : (u \in Owners' /\ u \notin Owners)
           => \E r \in Requests : /\ CreateUser(r) \/ Write(r)
                                  /\ Target(r) = u
                                  /\ req[r].sess.user \in ActiveOwners]_vars
  <2>. SUFFICES ASSUME IInv, RoleInv, [Next]_vars, NEW u \in Users, u \in Owners',
                       u \notin Owners
                PROVE  \E r \in Requests : /\ CreateUser(r) \/ Write(r)
                                           /\ Target(r) = u
                                           /\ req[r].sess.user \in ActiveOwners
    OBVIOUS
  <2>0. TypeOK /\ Live(u)' /\ acct'[u].is.role = "owner"  BY DEF IInv, Owners
  <2>1. acct' # acct  BY DEF Owners, Live
  <2>2. ASSUME NEW r \in Requests, Changes(r), req[r].sess.role = "owner",
               req[r].pc \in {"load", "write"}
        PROVE  req[r].sess.user \in ActiveOwners
    <3>1. req[r].sess.user \in Users  BY <2>0 DEF TypeOK, Request, Session
    <3>. QED  BY <2>2, <3>1, CallerIsCurrent DEF ActiveOwners, Owners
  <2>3. ASSUME NEW r \in Requests, CreateUser(r)
        PROVE  Target(r) = u /\ req[r].sess.user \in ActiveOwners
    <3>1. CASE u # req[r].cmd.target
      BY <2>0, <2>3, <3>1 DEF CreateUser, Owners, Live, TypeOK
    <3>2. CASE u = req[r].cmd.target
      <4>1. req[r].sess.role = "owner"
        BY <2>0, <2>3, <3>2 DEF CreateUser, TypeOK
      <4>. QED  BY <2>2, <2>3, <3>2, <4>1 DEF CreateUser, Changes, At, Target
    <3>. QED  BY <3>1, <3>2
  <2>4. ASSUME NEW r \in Requests, Write(r)
        PROVE  Target(r) = u /\ req[r].sess.user \in ActiveOwners
    <3>1. u = Target(r) /\ Live(u) /\ req[r].cmd.op # "delete"
      BY <2>0, <2>4, WriteFacts DEF Owners, Live
    <3>2. /\ acct'[u].is = Updated(acct[u].is, req[r].cmd, req[r].newRole, lastPw + 1)
          /\ acct[u].is \in Stamp /\ acct[u].is.role # "owner"
      BY <2>0, <2>4, <3>1, WriteFacts DEF Owners, TypeOK, Account
    <3>3. Changing(r) /\ At(r, "write") /\ RequestInv(r) /\ RoleInvOf(r)
      BY <2>4 DEF Write, Changing, At, IInv, RoleInv
    <3>4. req[r].cmd.op = "update" /\ req[r].newRole = "owner"
      BY <2>0, <3>1, <3>2, <3>3, UpdatedFacts DEF RequestInv, Decided
    <3>5. req[r].sess.role = "owner"
      BY <3>1, <3>2, <3>3, <3>4 DEF RoleInvOf, Authorised, At
    <3>. QED  BY <2>2, <3>1, <3>3, <3>5, ChangingChanges DEF At
  <2>. QED  BY <2>1, <2>3, <2>4, AccountsFrame
<1>. QED
  BY <1>1, InitInv, NextInv, InitRoles, NextRoles, PTL DEF Spec, OwnersMadeByOwners
=============================================================================
