---------------------------- MODULE MCDesignLock ----------------------------
(***************************************************************************)
(* Small instances of DesignLock.  MCSpec puts several into one run: in    *)
(* scenario "pair" two requests at once, failing statements and clients    *)
(* that hang up, in "alone" one request after another with nothing         *)
(* failing, every operation and one more name; "any" is Spec.              *)
(***************************************************************************)
EXTENDS DesignLock, TLC

CONSTANTS PairNames,  \* the names of scenario "pair"
          Scenarios   \* a subset of {"pair", "alone", "any"}

VARIABLE scenario

Symmetry == Permutations(Requests)

RenamesAndLocks == {"rename", "lock"}

OneAtATime == \A q, r \in Requests : Busy(q) /\ Busy(r) => q = r

MCInit == Init /\ scenario \in Scenarios
MCNext ==
  /\ UNCHANGED scenario
  /\ CASE scenario = "pair" ->
            /\ Next
            /\ \A r \in Requests : req[r].name' \in PairNames
                                  /\ req[r].op' # "restore"
       [] scenario = "alone" ->
            /\ \E r \in Requests : Handle(r)
            /\ OneAtATime'
       [] scenario = "any" -> Next
MCSpec == MCInit /\ [][MCNext]_<<vars, scenario>>

Alone == scenario = "alone"

\* "Permanently and irreversibly" (docs/specs/developer_utilities.md:24): with
\* one request at a time no write of the row unlocks it.
AloneLockIsForever == [][Alone /\ meta.locked => meta'.locked]_vars

\* With one request at a time the references inside the design follow every
\* rename (RenameSolution, developer_utilities.go:111-170).
AloneRefsFollowName == Alone => RefsFollowName

\* With one request at a time the copy in the control store agrees with the row
\* (syncProjectRecord, solution_handler.go:61-83).
AloneMirrorFollowsMeta == Alone => MirrorFollowsMeta
=============================================================================
