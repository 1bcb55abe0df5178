------------------------ MODULE MCDatabaseLifecycle ------------------------
(***************************************************************************)
(* Small instances of DatabaseLifecycle.  MCSpec puts two into one run: in *)
(* scenario "any" requests of every kind overlap, clients hang up and the  *)
(* server restarts; in "calm" one request at a time creates, clones or     *)
(* deletes while others sign in and work, and nobody hangs up.             *)
(***************************************************************************)
EXTENDS DatabaseLifecycle, TLC

VARIABLE scenario

Symmetry == Permutations(Requests) \cup Permutations(Tokens)

Changes(r) == ~At(r, "idle") /\ req[r].op \in Makers \cup {"delete"}

OneChange == \A q, r \in Requests : Changes(q) /\ Changes(r) => q = r

MCInit == Init /\ scenario \in {"any", "calm"}
MCNext ==
  /\ UNCHANGED scenario
  /\ CASE scenario = "any" -> Next
       [] scenario = "calm" ->
            /\ \E r \in Requests : Make(r) \/ Enter(r) \/ Delete(r) \/ Look(r)
            /\ OneChange'
MCSpec == MCInit /\ [][MCNext]_<<vars, scenario>>

Calm == scenario = "calm"

\* With one change at a time nothing drops, or puts its account into, a database
\* it did not make or prove to own: "it never touches an existing database"
\* (CreateDatabase, solution_handler.go:206-208), "the caller must prove ownership
\* of the database being dropped" (DeleteDatabase, 371-373).  What drops another one
\* all the same is a deletion with a session that is left of an earlier database
\* of the name, when the account was copied into both.
CalmChangesHitTheirOwn ==
  Calm => \A e \in stray : e.what = "work" \/ (e.what = "drop" /\ e.copied)

\* With one change at a time and nobody listing, the control store has a row for
\* the name exactly if there is a database, once the change is over; a half-made
\* database that could not be dropped is the exception.
CalmProjectsFollow ==
  Calm /\ (\A r \in Requests : ~Changes(r)) => (proj <=> Exists) \/ db.inc \in excused
=============================================================================
