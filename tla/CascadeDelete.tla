---------------------------- MODULE CascadeDelete ----------------------------
(***************************************************************************)
(* Deleting a record together with the records that belong to it, while    *)
(* others delete and create related records:                               *)
(*   src/server/internal/data/service.go   DeleteRow, InsertRow            *)
(*   src/server/internal/data/related.go   cascadeDelete, RelatedRows,     *)
(*                                         CreateRelatedRow                *)
(*                                                                         *)
(* No transaction holds the statements of a cascade together: each is a    *)
(* step.  The recursion of deleteRow is a stack.  Which records match      *)
(* which is given by kids, for the records still to be created too; every  *)
(* table has one cascading relationship, as the relationships of a table   *)
(* are gone through one after another in the same way.                     *)
(***************************************************************************)
EXTENDS Naturals, Sequences, FiniteSets

CONSTANTS Records,  \* the records there are and those still to be created
          Shapes,   \* relationships: functions from a record to its children
          Requests, \* bound: requests the server handles at once
          PageSize  \* MaxPageSize

ASSUME CascadeAssumption ==
  /\ IsFiniteSet(Records)
  /\ Shapes \subseteq [Records -> SUBSET Records]
  /\ PageSize \in Nat \ {0}

VARIABLES kids,  \* kids[x]: the records the relationship finds for x
          live,  \* the records in the tables
          new,   \* the records still to be created
          job,   \* job[r]: the request r handles, with its local variables
          late,  \* observation, late[x]: parents that were gone or no longer looked
                 \* for children when x was created
          left   \* observation: records a failed cascade left after a parent of theirs

vars == <<kids, live, new, job, late, left>>

\* One call of deleteRow: reading a page of children, going through it (deleted
\* tells whether one was), or about to delete the record itself.
Frame == [rec : Records, st : {"read", "page", "delete"}, page : SUBSET Records,
          deleted : BOOLEAN]
Job == [op : {"idle", "delete", "insert"}, stack : Seq(Frame), seen : SUBSET Records,
        put : SUBSET Records, owed : SUBSET Records]
Idle == [op |-> "idle", stack |-> <<>>, seen |-> {}, put |-> {}, owed |-> {}]
Call(x) == [rec |-> x, st |-> "read", page |-> {}, deleted |-> FALSE]

TypeOK ==
  /\ kids \in Shapes
  /\ live \subseteq Records /\ new \subseteq Records /\ live \cap new = {}
  /\ job \in [Requests -> Job]
  /\ \A r \in Requests : Len(job[r].stack) <= Cardinality(Records)
  /\ late \in [Records -> SUBSET Records] /\ left \subseteq Records

Init ==
  /\ kids \in Shapes
  /\ new \in SUBSET Records
  /\ live = Records \ new
  /\ job = [r \in Requests |-> Idle]
  /\ late = [x \in Records |-> {}] /\ left = {}

Parents(x) == {p \in Records : x \in kids[p]}
Gone == Records \ (live \cup new \cup UNION {job[r].put : r \in Requests})

Top(r) == job[r].stack[Len(job[r].stack)]
Below(r) == SubSeq(job[r].stack, 1, Len(job[r].stack) - 1)
OnStack(r) == {job[r].stack[i].rec : i \in 1 .. Len(job[r].stack)}
Calls(r, st) == job[r].op = "delete" /\ Top(r).st = st
SetTop(r, f) == job' = [job EXCEPT ![r].stack = Append(Below(r), f)]
Done(r) == job' = [job EXCEPT ![r] = Idle]

\* X and what follows from it, down the whole chain: the least set that holds X and,
\* with a record, those that next has for it.
Down(next, X) == {z \in Records : \A S \in SUBSET Records :
  X \subseteq S /\ (\A y \in S : next[y] \subseteq S) => z \in S}
Family(x) == Down([y \in Records |-> kids[y] \cap live], {x} \cap live)

\* What is on the stack of r, and a parent of it is deleted.
Lost(r) == {x \in OnStack(r) : Parents(x) \cap job[r].seen \cap Gone # {}}

\* An error ends the request; what is deleted stays deleted.
Abort(r) ==
  /\ Done(r)
  /\ left' = left \cup (Lost(r) \cap live)
  /\ UNCHANGED <<kids, live, new, late>>

----------------------------------------------------------------------------
\* DeleteRow.

Begin(r, x) ==
  /\ job[r].op = "idle"
  /\ x \notin new
  /\ job' = [job EXCEPT ![r] = [Idle EXCEPT !.op = "delete", !.stack = <<Call(x)>>,
                                              !.seen = {x}, !.owed = Family(x)]]
  /\ UNCHANGED <<kids, live, new, late, left>>

\* A fault: a child that also belongs to another record is spared.
FoundUnshared(x) == {y \in kids[x] \cap live : Parents(y) \cap live = {x}}
Found(x) == kids[x] \cap live

\* RelatedRows: the match value of the record, then the first page of those that
\* match it.
Read(r) ==
  /\ Calls(r, "read")
  /\ LET found == Found(Top(r).rec) IN
     IF Top(r).rec \in live
     THEN /\ \E page \in SUBSET found :
               /\ \/ Cardinality(page) = PageSize
                  \/ page = found /\ Cardinality(found) < PageSize
               /\ SetTop(r, [Top(r) EXCEPT !.st = "page", !.page = page,
                                            !.deleted = FALSE])
          /\ UNCHANGED <<kids, live, new, late, left>>
     ELSE Abort(r)

SeenOrNot(r) == Top(r).page  \* a fault: records on their way out are not skipped

\* A child that is not on its way out yet is deleted by deleteRow itself.
Unseen(r) == Top(r).page \ job[r].seen
Descend(r) ==
  /\ Calls(r, "page")
  /\ \E y \in Unseen(r) :
       job' = [job EXCEPT
         ![r].stack = Append(Append(Below(r), [Top(r) EXCEPT !.page = @ \ {y},
                                                              !.deleted = TRUE]),
                             Call(y)),
         ![r].seen = @ \cup {y}]
  /\ UNCHANGED <<kids, live, new, late, left>>

\* The page is done: read again until nothing was deleted.
OnePage(f) == "delete"  \* a fault
Rereading(f) == "read"  \* a fault
AfterPage(f) == IF f.deleted THEN "read" ELSE "delete"
PageDone(r) ==
  /\ Calls(r, "page")
  /\ Unseen(r) = {}
  /\ SetTop(r, [Top(r) EXCEPT !.st = AfterPage(Top(r)), !.page = {}])
  /\ UNCHANGED <<kids, live, new, late, left>>

\* DELETE of the record itself; no row affected is an error.
Delete(r) ==
  /\ Calls(r, "delete")
  /\ IF Top(r).rec \in live
     THEN /\ live' = live \ {Top(r).rec}
          /\ IF Below(r) = <<>> THEN Done(r)
             ELSE job' = [job EXCEPT ![r].stack = Below(r)]
          /\ UNCHANGED <<kids, new, late, left>>
     ELSE Abort(r)

\* A statement fails, or the context of the request ends.
Break(r) ==
  /\ job[r].op = "delete"
  /\ Abort(r)

----------------------------------------------------------------------------
\* CreateRelatedRow: the parent's key is read ...
BeginInsert(r, x) ==
  /\ job[r].op = "idle"
  /\ x \in new
  /\ Parents(x) \cap live # {}
  /\ new' = new \ {x}
  /\ job' = [job EXCEPT ![r] = [Idle EXCEPT !.op = "insert", !.put = {x}]]
  /\ UNCHANGED <<kids, live, late, left>>

\* A deletion of p will read the children of p again.
WillSee(p) == \A r \in Requests : \A i \in 1 .. Len(job[r].stack) :
  LET f == job[r].stack[i] IN f.rec = p => f.st = "read" \/ f.deleted

Unaware(x) == {p \in Parents(x) : p \in Gone \/ ~WillSee(p)}

\* ... and the record is inserted, whether or not the parent is still there.
Insert(r) ==
  /\ job[r].op = "insert"
  /\ live' = live \cup job[r].put
  /\ late' = [x \in Records |-> IF x \in job[r].put THEN late[x] \cup Unaware(x)
                                ELSE late[x]]
  /\ Done(r)
  /\ UNCHANGED <<kids, new, left>>

Step(r) == Read(r) \/ Descend(r) \/ PageDone(r) \/ Delete(r) \/ Insert(r)

Next == \E r \in Requests :
  \/ \E x \in Records : Begin(r, x) \/ BeginInsert(r, x)
  \/ Step(r)
  \/ Break(r)

Spec == Init /\ [][Next]_vars /\ \A r \in Requests : WF_vars(Step(r))

----------------------------------------------------------------------------
\* "The children go first: once the parent is gone [...] they could no longer be
\* found" (service.go:498-499): a record that outlives a parent is on its way out too,
\* was created behind the back of that deletion, or left by a cascade that failed in a
\* ring of relationships.
ChildrenGoFirst ==
  \A x \in live : \A p \in Parents(x) \cap Gone :
    p \in late[x] \/ x \in left \/ \E r \in Requests : x \in OnStack(r)

\* "Every relationship of the table whose 'Delete related records' option is on
\* takes its matching records with it, down the whole chain" (service.go:475-477):
\* when a deletion succeeds, the records that belonged to the record when it began
\* are gone, but for those that outlived a parent as above and what belongs to them.
Spared(r) == {x \in Records : late[x] # {}}
             \cup left \cup UNION {Lost(q) : q \in Requests \ {r}}
Succeeds(r) == Calls(r, "delete") /\ Below(r) = <<>> /\ Top(r).rec \in live
FamilyGoesToo ==
  [][\A r \in Requests : Succeeds(r) /\ job'[r] = Idle /\ live' # live
       => job[r].owed \cap live' \subseteq UNION {Family(x)' : x \in Spared(r)}]_vars

\* The set of records on their way out "is what stops a ring of cascading
\* relationships from recursing forever" (service.go:486-487).
DeletionsEnd == \A r \in Requests : job[r].op # "idle" ~> job[r].op = "idle"
=============================================================================
