-------------------------- MODULE MCCascadeDelete --------------------------
(***************************************************************************)
(* Small instances of CascadeDelete: a ring of two records, one of which   *)
(* has more children than fit on a page; a chain into a ring, whose record *)
(* has two parents.  One of the records is created later.                  *)
(***************************************************************************)
EXTENDS CascadeDelete, TLC

CONSTANTS a, b, c, d

Ring == a :> {b} @@ b :> {a, c, d} @@ c :> {} @@ d :> {}
Loop == a :> {d} @@ b :> {d} @@ c :> {a} @@ d :> {b}
AllShapes == {Ring, Loop}

MCInit == Init /\ new = {d}
MCSpec == MCInit /\ [][Next]_vars /\ \A r \in Requests : WF_vars(Step(r))
=============================================================================
