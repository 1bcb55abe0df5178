------------------------------ MODULE Accounts ------------------------------
(***************************************************************************)
(* The accounts of one database (sys_users), the sessions the server keeps *)
(* for them, and the requests that use and change both:                    *)
(*   src/server/internal/auth/session.go           the session store       *)
(*   src/server/internal/api/auth.go               the request guard       *)
(*   src/server/internal/api/security_handler.go   the handlers            *)
(*   src/server/internal/schema/security_service.go the statements         *)
(*                                                                         *)
(* A handler is a process: every SQL statement and every call on the       *)
(* session store is a step of its own, because nothing is locked between   *)
(* them.  A password is the version it was set with: bcrypt salts make     *)
(* every hash, hence every stamp that holds it, new.  A stamp is the tuple *)
(* of what AccountStamp hashes.                                            *)
(***************************************************************************)
EXTENDS Integers, FiniteSets

CONSTANTS Users,     \* account ids, those still to be created included
          Tokens,    \* bound: sign-ins over the whole behaviour
          NoToken,   \* a request without one
          Requests,  \* bound: requests the server handles at once
          MaxPw,     \* bound: passwords ever set
          Seeded,    \* accounts named by FILE4BASE_SUPER_OWNER
          FirstRole, \* the role each initial account has, for the others "none"
          Commands   \* what requests may ask for, a subset of Command

Roles == {"owner", "admin", "user"}
Ops == {"read", "logout", "create", "update", "delete", "super"}

\* A request body.  role "same" is an empty role field; active "same" is a
\* missing is_active, which also stands for super_owner in op "super".
Command ==
  {c \in [op : Ops, target : Users, pw : BOOLEAN,
          role : Roles \cup {"same"}, active : {"same", "on", "off"}] :
     c.op = "create" => c.role # "same"}

ASSUME AccountsAssumption ==
  /\ Users # {}
  /\ NoToken \notin Tokens
  /\ MaxPw \in Nat
  /\ Seeded \subseteq Users
  /\ FirstRole \in [Users -> Roles \cup {"none"}]
  /\ Commands \subseteq Command

VARIABLES acct,    \* acct[u]: the row of sys_users
          lastPw,  \* the newest password version
          session, \* session[t]: the store's entry for token t
          req,     \* req[r]: the request r handles, with its local variables
          knows    \* observation: the passwords the holder of t proved or set

vars == <<acct, lastPw, session, req, knows>>

Pws == 0 .. MaxPw
Stamp == [pw : Pws, role : Roles, active : BOOLEAN, super : BOOLEAN]
Session == [st : {"fresh", "live", "gone"}, user : Users, role : Roles,
            super : BOOLEAN, stamp : Stamp]
Account == [st : {"unborn", "live", "deleted"}, is : Stamp]
Pcs == {"idle", "create", "check", "load", "guard", "count", "write",
        "revoke", "stamp", "restamp"}
Request == [pc : Pcs, tok : Tokens \cup {NoToken}, sess : Session, cmd : Command,
            newRole : Roles, seen : Roles, keep : Tokens \cup {NoToken},
            snap : Stamp]

NoStamp == [pw |-> 0, role |-> "user", active |-> FALSE, super |-> FALSE]
NoSession(st) == [st |-> st, user |-> CHOOSE u \in Users : TRUE,
                  role |-> "user", super |-> FALSE, stamp |-> NoStamp]
Idle == [pc |-> "idle", tok |-> NoToken,
         sess |-> NoSession("fresh"),
         cmd |-> [op |-> "read", target |-> CHOOSE u \in Users : TRUE,
                  pw |-> FALSE, role |-> "same", active |-> "same"],
         newRole |-> "user", seen |-> "user", keep |-> NoToken, snap |-> NoStamp]

TypeOK ==
  /\ acct \in [Users -> Account]
  /\ lastPw \in Pws
  /\ session \in [Tokens -> Session]
  /\ req \in [Requests -> Request]
  /\ knows \in [Tokens -> SUBSET Pws]

Init ==
  /\ acct = [u \in Users |->
       IF FirstRole[u] = "none" THEN [st |-> "unborn", is |-> NoStamp]
       ELSE [st |-> "live", is |-> [pw |-> 0, role |-> FirstRole[u],
                                    active |-> TRUE, super |-> FALSE]]]
  /\ lastPw = 0
  /\ session = [t \in Tokens |-> NoSession("fresh")]
  /\ req = [r \in Requests |-> Idle]
  /\ knows = [t \in Tokens |-> {}]

Live(u) == acct[u].st = "live"
At(r, pc) == req[r].pc = pc
Target(r) == req[r].cmd.target
Goto(r, pc) == req' = [req EXCEPT ![r].pc = pc]
Done(r) == req' = [req EXCEPT ![r] = Idle]

Owners == {u \in Users : Live(u) /\ acct[u].is.role = "owner"}
ActiveOwners == {u \in Owners : acct[u].is.active}

----------------------------------------------------------------------------
\* The session store.

End(T) == session' = [t \in Tokens |-> IF t \in T /\ session[t].st = "live"
                                       THEN NoSession("gone") ELSE session[t]]

SessionsOf(u) == {t \in Tokens : session[t].st = "live" /\ session[t].user = u}

\* The idle lifetime is over (Get and pruneLocked), or an administrator ends
\* the session by its id.
Expire(t) ==
  /\ session[t].st = "live"
  /\ End({t})
  /\ UNCHANGED <<acct, lastPw, req, knows>>

\* Sessions and requests live in memory only.
Restart ==
  /\ End(Tokens)
  /\ req' = [r \in Requests |-> Idle]
  /\ UNCHANGED <<acct, lastPw, knows>>

----------------------------------------------------------------------------
\* Signing in: the right password of an active account ...
Authenticate(r, u) ==
  /\ At(r, "idle")
  /\ Live(u) /\ acct[u].is.active
  /\ req' = [req EXCEPT ![r] = [Idle EXCEPT !.pc = "create",
                                            !.cmd = [Idle.cmd EXCEPT !.target = u],
                                            !.snap = acct[u].is]]
  /\ UNCHANGED <<acct, lastPw, session, knows>>

\* A fault: the session is stamped with the account as it is by then.
CreateRestamped(r, t) ==
  LET u == Target(r) IN
  /\ At(r, "create") /\ session[t].st = "fresh" /\ Live(u)
  /\ session' = [session EXCEPT ![t] =
       [st |-> "live", user |-> u, role |-> req[r].snap.role,
        super |-> req[r].snap.super, stamp |-> acct[u].is]]
  /\ knows' = [knows EXCEPT ![t] = {req[r].snap.pw}]
  /\ Done(r)
  /\ UNCHANGED <<acct, lastPw>>

\* ... and the session for the account as it was read.
Create(r, t) ==
  /\ At(r, "create")
  /\ session[t].st = "fresh"
  /\ LET snap == req[r].snap IN
     /\ session' = [session EXCEPT ![t] =
          [st |-> "live", user |-> Target(r), role |-> snap.role,
           super |-> snap.super \/ Target(r) \in Seeded, stamp |-> snap]]
     /\ knows' = [knows EXCEPT ![t] = {snap.pw}]
  /\ Done(r)
  /\ UNCHANGED <<acct, lastPw>>
----------------------------------------------------------------------------
\* The guard of every request with a token: look the session up ...
Begin(r, t, c) ==
  /\ At(r, "idle")
  /\ session[t].st = "live"
  /\ req' = [req EXCEPT ![r] = [Idle EXCEPT !.pc = "check", !.tok = t,
                                            !.sess = session[t], !.cmd = c]]
  /\ UNCHANGED <<acct, lastPw, session, knows>>

StampMatches(r) ==
  LET u == req[r].sess.user IN Live(u) /\ acct[u].is = req[r].sess.stamp

\* ... and compare the account with what the session was opened for.
Admit(r) ==
  /\ At(r, "check")
  /\ StampMatches(r)
  /\ Goto(r, "load")
  /\ UNCHANGED <<acct, lastPw, session, knows>>

Reject(r) ==
  /\ At(r, "check")
  /\ ~StampMatches(r)
  /\ End({req[r].tok})
  /\ Done(r)
  /\ UNCHANGED <<acct, lastPw, knows>>

\* The database does not answer, or the client hangs up, before the write.
GiveUp(r) ==
  /\ req[r].pc \in {"create", "check", "load", "guard", "count", "write"}
  /\ Done(r)
  /\ UNCHANGED <<acct, lastPw, session, knows>>

----------------------------------------------------------------------------
\* What each handler lets its caller do, given the target's row as it reads it.

IsSelf(r) == req[r].sess.user = Target(r)
IsAdmin(r) == req[r].sess.role \in {"owner", "admin"}
NewRoleAsSent(r) == req[r].cmd.role  \* a fault: no default for an empty role
NewRole(r) == IF req[r].cmd.role = "same" THEN acct[Target(r)].is.role
              ELSE req[r].cmd.role

\* Faults a change to this code could introduce; the specification uses none.
MayUpdatePromoting(r) ==
  \/ req[r].sess.role = "owner"
  \/ req[r].sess.role = "admin" /\ acct[Target(r)].is.role # "owner"
  \/ req[r].sess.role = "user" /\ IsSelf(r)
KeepsWhateverChanges(r) ==
  req[r].cmd.op = "update" /\ IsSelf(r) /\ ~(req[r].cmd.active = "off")

MayUpdate(r) ==
  LET role == acct[Target(r)].is.role IN
  \/ req[r].sess.role = "owner"
  \/ /\ req[r].sess.role = "admin"
     /\ role # "owner" /\ NewRole(r) # "owner"
  \/ /\ req[r].sess.role = "user" /\ IsSelf(r)
     /\ NewRole(r) = role /\ req[r].cmd.active = "same"

MayDelete(r) ==
  /\ IsAdmin(r) /\ ~IsSelf(r)
  /\ acct[Target(r)].is.role = "owner" => req[r].sess.role = "owner"

MaySetSuper(r) ==
  /\ req[r].sess.super
  /\ req[r].cmd.active = "on" => acct[Target(r)].is.role = "owner"
  /\ ~(IsSelf(r) /\ req[r].cmd.active # "on")

May(r) ==
  /\ Live(Target(r))
  /\ CASE req[r].cmd.op = "update" -> MayUpdate(r)
       [] req[r].cmd.op = "delete" -> MayDelete(r)
       [] req[r].cmd.op = "super" -> MaySetSuper(r)
       [] OTHER -> FALSE

Deactivates(c) == c.op = "update" /\ c.active = "off"

\* The caller keeps the session they change themselves from.
Keeps(r) ==
  LET c == req[r].cmd IN
  /\ c.op = "update" /\ IsSelf(r) /\ ~Deactivates(c)
  /\ NewRole(r) = acct[Target(r)].is.role

\* The handler reads the target and decides.
Load(r) ==
  /\ At(r, "load")
  /\ May(r)
  /\ req' = [req EXCEPT ![r].pc = "guard", ![r].newRole = NewRole(r),
                        ![r].seen = acct[Target(r)].is.role,
                        ![r].keep = IF Keeps(r) THEN req[r].tok
                                    ELSE NoToken]
  /\ UNCHANGED <<acct, lastPw, session, knows>>

Forbid(r) ==
  /\ At(r, "load")
  /\ req[r].cmd.op \in {"update", "delete", "super"}
  /\ ~May(r)
  /\ Done(r)
  /\ UNCHANGED <<acct, lastPw, session, knows>>

Read(r) ==
  /\ At(r, "load") /\ req[r].cmd.op = "read"
  /\ Done(r)
  /\ UNCHANGED <<acct, lastPw, session, knows>>

Logout(r) ==
  /\ At(r, "load") /\ req[r].cmd.op = "logout"
  /\ End({req[r].tok})
  /\ Done(r)
  /\ UNCHANGED <<acct, lastPw, knows>>

CreateUser(r) ==
  LET c == req[r].cmd IN
  /\ At(r, "load") /\ c.op = "create"
  /\ IsAdmin(r) /\ (c.role = "owner" => req[r].sess.role = "owner")
  /\ acct[c.target].st = "unborn"
  /\ lastPw < MaxPw
  /\ lastPw' = lastPw + 1
  /\ acct' = [acct EXCEPT ![c.target] =
       [st |-> "live", is |-> [pw |-> lastPw + 1, role |-> c.role,
                               active |-> c.active # "off", super |-> FALSE]]]
  /\ Done(r)
  /\ UNCHANGED <<session, knows>>

----------------------------------------------------------------------------
\* The service: read the row again, count the owners if one is about to go,
\* and write.

NeedsCountToDemote(r) ==  \* a fault: deactivation is not counted
  \/ /\ req[r].cmd.op = "update" /\ acct[Target(r)].is.role = "owner"
     /\ req[r].newRole # "owner"
  \/ req[r].cmd.op = "delete" /\ acct[Target(r)].is.role = "owner"

NeedsCount(r) ==
  LET c == req[r].cmd
      is == acct[c.target].is
  IN  \/ /\ c.op = "update" /\ is.role = "owner" /\ is.active
         /\ req[r].newRole # "owner" \/ Deactivates(c)
      \/ c.op = "delete" /\ is.role = "owner"

Refused(r) ==
  \/ ~Live(Target(r))
  \/ /\ req[r].cmd.op = "super" /\ req[r].cmd.active = "on"
     /\ acct[Target(r)].is.role # "owner"

Guard(r) ==
  /\ At(r, "guard")
  /\ IF Refused(r) THEN Done(r)
     ELSE Goto(r, IF NeedsCount(r) THEN "count" ELSE "write")
  /\ UNCHANGED <<acct, lastPw, session, knows>>

\* UpdateUser counts the active owners, DeleteUser all of them.
Remaining(c) == IF c.op = "update" THEN ActiveOwners ELSE Owners

Count(r) ==
  /\ At(r, "count")
  /\ IF Cardinality(Remaining(req[r].cmd)) <= 1 THEN Done(r)
     ELSE Goto(r, "write")
  /\ UNCHANGED <<acct, lastPw, session, knows>>

\* The row an UPDATE leaves behind; pw is the version of a new password.
Updated(is, c, role, pw) ==
  IF c.op = "super" THEN [is EXCEPT !.super = (c.active = "on")]
  ELSE [is EXCEPT !.pw = IF c.pw THEN pw ELSE @,
                  !.role = role,
                  !.active = IF c.active = "same" THEN @ ELSE c.active = "on"]

\* Which changes end the sessions of the account, as the handler decides it
\* from the request and the role it read first.
Revokes(r) ==
  LET c == req[r].cmd IN
  \/ c.op \in {"delete", "super"}
  \/ c.pw \/ req[r].newRole # req[r].seen \/ Deactivates(c)

Write(r) ==
  LET c == req[r].cmd
      u == c.target
  IN
  /\ At(r, "write")
  /\ c.pw => lastPw < MaxPw
  /\ lastPw' = IF c.pw THEN lastPw + 1 ELSE lastPw
  /\ acct' = IF ~Live(u) THEN acct
             ELSE IF c.op = "delete" THEN [acct EXCEPT ![u].st = "deleted"]
             ELSE [acct EXCEPT ![u].is = Updated(@, c, req[r].newRole, lastPw + 1)]
  /\ knows' = IF c.pw /\ IsSelf(r)
              THEN [knows EXCEPT ![req[r].tok] = @ \cup {lastPw + 1}] ELSE knows
  /\ IF Revokes(r) THEN Goto(r, "revoke") ELSE Done(r)
  /\ UNCHANGED session

----------------------------------------------------------------------------
\* After the write: the account's sessions end, and the one that is kept gets
\* the stamp the account has by then.

Revoke(r) ==
  /\ At(r, "revoke")
  /\ End(SessionsOf(Target(r)) \ {req[r].keep})
  /\ IF req[r].keep # NoToken THEN Goto(r, "stamp") ELSE Done(r)
  /\ UNCHANGED <<acct, lastPw, knows>>

ReadStamp(r) ==
  /\ At(r, "stamp")
  /\ Live(Target(r))
  /\ req' = [req EXCEPT ![r].pc = "restamp", ![r].snap = acct[Target(r)].is]
  /\ UNCHANGED <<acct, lastPw, session, knows>>

\* The account is gone, or the database does not answer: no new stamp.
NoNewStamp(r) ==
  /\ At(r, "stamp")
  /\ Done(r)
  /\ UNCHANGED <<acct, lastPw, session, knows>>

Restamp(r) ==
  /\ At(r, "restamp")
  /\ session' = IF session[req[r].tok].st = "live"
                THEN [session EXCEPT ![req[r].tok].stamp = req[r].snap] ELSE session
  /\ Done(r)
  /\ UNCHANGED <<acct, lastPw, knows>>

----------------------------------------------------------------------------
SignIn(r) == (\E u \in Users : Authenticate(r, u)) \/ (\E t \in Tokens : Create(r, t))

Guarded(r) ==
  (\E t \in Tokens, c \in Commands : Begin(r, t, c)) \/ Admit(r) \/ Reject(r)

Handle(r) ==
  \/ Load(r) \/ Forbid(r) \/ Read(r) \/ Logout(r) \/ CreateUser(r)
  \/ Guard(r) \/ Count(r) \/ Write(r)
  \/ Revoke(r) \/ ReadStamp(r) \/ NoNewStamp(r) \/ Restamp(r)
  \/ GiveUp(r)

Next ==
  \/ \E r \in Requests : SignIn(r) \/ Guarded(r) \/ Handle(r)
  \/ \E t \in Tokens : Expire(t)
  \/ Restart

Spec == Init /\ [][Next]_vars

----------------------------------------------------------------------------
\* A handler has changed u and has yet to end the sessions of u, t included.
RevokePending(u, t) ==
  \E r \in Requests : At(r, "revoke") /\ Target(r) = u /\ t # req[r].keep

\* A session the guard lets through belongs to someone who knows the account's
\* present password, and the account is active, unless the handler that changed
\* it is just about to end the session: no sign-in that was under way, no kept
\* session and no restamp outlives a password reset or a deactivation
\* (auth.go:90-102, UpdateUser security_handler.go:519-534).
OnlyKnowersAreAdmitted ==
  \A t \in Tokens :
    LET s == session[t]
        a == acct[s.user]
    IN  s.st = "live" /\ a.st = "live" /\ s.stamp = a.is
          => (a.is.pw \in knows[t] /\ a.is.active) \/ RevokePending(s.user, t)

\* "this rejects sessions of deleted, disabled, demoted or re-passworded
\* accounts" (auth.go:91): the role a request is admitted with is the role the
\* account has.
AdmittedRoleIsCurrent ==
  [][\A r \in Requests :
       Admit(r) => req[r].sess.role = acct[req[r].sess.user].is.role]_vars

\* "A database always keeps one active owner: the last one cannot be demoted,
\* deactivated or deleted" (docs/specs/security_model.md:105).  One request at a
\* time keeps it, although DeleteUser counts inactive owners too: whoever may
\* delete an owner is another active one.
SomeActiveOwner == ActiveOwners # {}

\* A request that may change accounts, and the server handling one such request
\* at a time, among any number of others.
Changes(r) ==
  ~At(r, "idle") /\ req[r].cmd.op \in {"create", "update", "delete", "super"}
OneChange == \A q, r \in Requests : Changes(q) /\ Changes(r) => q = r

\* With one change at a time, an account becomes an owner only at the hands of
\* an active owner (CreateUser, UpdateUser security_handler.go:433-516): whoever
\* sent the request that writes that very row is one at that moment, whatever
\* chain of promotions, creations, logins and deactivations went before.
OwnersMadeByOwners ==
  [][\A u \in Users : (u \in Owners' /\ u \notin Owners)
       => \E r \in Requests : /\ CreateUser(r) \/ Write(r)
                              /\ Target(r) = u
                              /\ req[r].sess.user \in ActiveOwners]_vars
=============================================================================
