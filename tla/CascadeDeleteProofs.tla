------------------------ MODULE CascadeDeleteProofs ------------------------
(***************************************************************************)
(* What holds of CascadeDelete for every number of requests, every set of  *)
(* records and every relationship in which no page can be filled by        *)
(* records on their way out (RingsFit), whatever records are there first.  *)
(***************************************************************************)
EXTENDS CascadeDelete, FiniteSetTheorems, SequenceTheorems, TLAPS

USE CascadeAssumption

\* Every record has fewer children that lead back to it than fit on a page: a page of
\* a cascade is then never filled by records on their way out.
RingsFit == \A next \in Shapes, x \in Records :
  Cardinality({y \in next[x] : x \in Down(next, {y})}) < PageSize

----------------------------------------------------------------------------
(* The inductive invariant.                                                *)

\* Records that are in the tables or will be.
Puts == UNION {job[r].put : r \in Requests}
Present == live \cup new \cup Puts

\* Only deletions have a stack, and only insertions a record to insert.
Kinds(r) ==
  /\ job[r].op = "delete" <=> job[r].stack # <<>>
  /\ job[r].op # "insert" => job[r].put = {}

\* A record to insert is in nobody else's hand.
InHand(r) ==
  /\ job[r].put \cap (live \cup new) = {}
  /\ \A q \in Requests : q # r => job[q].put \cap job[r].put = {}

\* The stack of a cascade: each call is for a child of the one below it, which is
\* amid a page, and no record is called for twice.
Stacked(r) == LET s == job[r].stack IN
  /\ OnStack(r) \subseteq job[r].seen
  /\ Len(s) <= Cardinality(job[r].seen)
  /\ \A i \in 1 .. Len(s) :
       /\ s[i].page \subseteq kids[s[i].rec]
       /\ s[i].st = "delete" => ~s[i].deleted
       /\ i < Len(s) => s[i].st = "page" /\ s[i].deleted
       /\ \A j \in i .. Len(s) : s[j].rec \in Down(kids, {s[i].rec})

\* What was on its way out and is not any more is gone; what of a page was on its way
\* out when it was read still is, as long as nothing on it was deleted.
OnTheWayOut(r) ==
  /\ (job[r].seen \ OnStack(r)) \cap Present = {}
  /\ Calls(r, "page") /\ ~Top(r).deleted => Top(r).page \cap job[r].seen \subseteq OnStack(r)

\* A call that will not read its children again has them on the page it read, unless
\* that was full; or they are on the stack as well, or came too late.
Sighted(r) ==
  RingsFit /\ job[r].op = "delete" /\ Top(r).st # "read" /\ ~Top(r).deleted =>
    \A y \in kids[Top(r).rec] \cap live :
      \/ Top(r).rec \in late[y]
      \/ y \in OnStack(r)
      \/ Top(r).st = "page" /\ (y \in Top(r).page \/ Cardinality(Top(r).page) = PageSize)

\* Who outlives a parent.
Outliving == RingsFit => \A y \in live \ left : \A p \in Parents(y) \cap Gone :
  p \in late[y] \/ \E r \in Requests : y \in Lost(r)

CascadeInv ==
  /\ TypeOK
  /\ \A r \in Requests : Kinds(r) /\ InHand(r) /\ Stacked(r) /\ OnTheWayOut(r) /\ Sighted(r)
  /\ Outliving

----------------------------------------------------------------------------
(* Stacks.                                                                 *)

\* The stack without its top, with another top, and with a call on top of that.
LEMMA StackOps ==
  ASSUME NEW s \in Seq(Frame), s # <<>>, NEW f \in Frame, NEW g \in Frame
  PROVE  LET b == SubSeq(s, 1, Len(s) - 1)
             t == Append(b, f)
             u == Append(t, g)
         IN /\ Len(s) \in Nat /\ Len(s) >= 1 /\ s[Len(s)] \in Frame
            /\ b \in Seq(Frame) /\ Len(b) = Len(s) - 1 /\ (b = <<>> <=> Len(s) = 1)
            /\ \A i \in 1 .. Len(s) - 1 : b[i] = s[i]
            /\ t \in Seq(Frame) /\ Len(t) = Len(s) /\ t[Len(s)] = f
            /\ \A i \in 1 .. Len(s) - 1 : t[i] = s[i]
            /\ u \in Seq(Frame) /\ Len(u) = Len(s) + 1 /\ u[Len(s) + 1] = g
            /\ u[Len(s)] = f
            /\ \A i \in 1 .. Len(s) - 1 : u[i] = s[i]
<1> DEFINE b == SubSeq(s, 1, Len(s) - 1)
           t == Append(b, f)
           u == Append(t, g)
<1>1. Len(s) \in Nat /\ Len(s) >= 1 /\ s[Len(s)] \in Frame
  OBVIOUS
<1>2. b \in Seq(Frame) /\ Len(b) = Len(s) - 1 /\ \A i \in 1 .. Len(s) - 1 : b[i] = s[i]
  <2> DEFINE n == Len(s) - 1
  <2>1. n \in Int /\ 1 \in Int /\ n >= 0 /\ \A i \in 1 .. n : s[i] \in Frame
    BY <1>1
  <2> HIDE DEF n
  <2>5. SubSeq(s, 1, n) \in Seq(Frame)
    BY <2>1, SubSeqProperties
  <2>6. Len(SubSeq(s, 1, n)) = n
    BY <2>1
  <2>7. \A i \in 1 .. n : SubSeq(s, 1, n)[i] = s[i]
    BY <2>1
  <2>3. SubSeq(s, 1, n) = b
    BY DEF n
  <2> HIDE DEF b
  <2>4. b \in Seq(Frame) /\ Len(b) = n /\ \A i \in 1 .. n : b[i] = s[i]
    BY <2>3, <2>5, <2>6, <2>7
  <2> QED BY <2>4 DEF n
<1>3. b = <<>> <=> Len(s) = 1
  <2> HIDE DEF b
  <2>1. Len(b) = 0 <=> Len(s) = 1
    BY <1>1, <1>2
  <2> QED BY <1>2, <2>1
<1> HIDE DEF b
<1>4. t \in Seq(Frame) /\ Len(t) = Len(s) /\ t[Len(s)] = f /\ \A i \in 1 .. Len(s) - 1 : t[i] = s[i]
  BY <1>1, <1>2
<1> HIDE DEF t
<1>5. /\ u \in Seq(Frame) /\ Len(u) = Len(s) + 1 /\ u[Len(s) + 1] = g
      /\ \A i \in 1 .. Len(s) : u[i] = t[i]
  BY <1>1, <1>4
<1> HIDE DEF u
<1>6. u[Len(s)] = f /\ \A i \in 1 .. Len(s) - 1 : u[i] = s[i]
  BY <1>1, <1>4, <1>5
<1> QED BY <1>1, <1>2, <1>3, <1>4, <1>5, <1>6 DEF b, t, u

\* A request that is deleting has a top call.
LEMMA TopCall ==
  ASSUME TypeOK, NEW r \in Requests, Kinds(r), job[r].op = "delete"
  PROVE  LET s == job[r].stack IN
         /\ job[r] \in Job /\ s \in Seq(Frame) /\ s # <<>>
         /\ Len(s) \in Nat /\ Len(s) >= 1 /\ Len(s) \in 1 .. Len(s)
         /\ Top(r) = s[Len(s)] /\ Top(r) \in Frame /\ Top(r).rec \in OnStack(r)
         /\ job[r].put = {} /\ OnStack(r) \subseteq Records
<1>1. job[r] \in Job /\ job[r].stack \in Seq(Frame) /\ job[r].stack # <<>> /\ job[r].put = {}
  BY DEF TypeOK, Job, Kinds
<1>2. Len(job[r].stack) \in Nat /\ Len(job[r].stack) >= 1
  BY <1>1
<1>3. \A i \in 1 .. Len(job[r].stack) : job[r].stack[i] \in Frame
  BY <1>1
<1> QED BY <1>1, <1>2, <1>3 DEF Top, OnStack, Frame

\* SetTop.
LEMMA SetTopFacts ==
  ASSUME TypeOK, NEW r \in Requests, Kinds(r), job[r].op = "delete",
         NEW f \in Frame, SetTop(r, f)
  PROVE  LET s == job[r].stack
             t == job'[r].stack
         IN /\ job' \in [Requests -> Job] /\ job'[r].op = "delete" /\ job'[r].seen = job[r].seen
            /\ job'[r].put = job[r].put /\ job'[r].owed = job[r].owed
            /\ t \in Seq(Frame) /\ Len(t) = Len(s) /\ t # <<>> /\ t[Len(s)] = f
            /\ \A i \in 1 .. Len(s) - 1 : t[i] = s[i]
            /\ \A q \in Requests : q # r => job'[q] = job[q]
            /\ f.rec = Top(r).rec => OnStack(r)' = OnStack(r)
<1> DEFINE s == job[r].stack
           t == Append(Below(r), f)
<1>1. job[r] \in Job /\ s \in Seq(Frame) /\ s # <<>> /\ Top(r) = s[Len(s)]
  BY TopCall
<1>2. /\ t \in Seq(Frame) /\ Len(t) = Len(s) /\ t[Len(s)] = f /\ Len(s) \in Nat /\ Len(s) >= 1
      /\ \A i \in 1 .. Len(s) - 1 : t[i] = s[i]
  BY <1>1, StackOps DEF Below
<1> HIDE DEF t
<1>3. job' = [job EXCEPT ![r] = [job[r] EXCEPT !.stack = t]]
  BY DEF SetTop, t
<1>4. [job[r] EXCEPT !.stack = t] \in Job
  BY <1>1, <1>2 DEF Job
<1>5. job' \in [Requests -> Job] /\ job'[r] = [job[r] EXCEPT !.stack = t]
      /\ \A q \in Requests : q # r => job'[q] = job[q]
  BY <1>3, <1>4 DEF TypeOK
<1>6. /\ job'[r].op = "delete" /\ job'[r].seen = job[r].seen /\ job'[r].put = job[r].put
      /\ job'[r].owed = job[r].owed /\ job'[r].stack = t
  BY <1>1, <1>5 DEF Job
<1>7. t # <<>>
  BY <1>2
<1>8. ASSUME f.rec = Top(r).rec PROVE OnStack(r)' = OnStack(r)
  <2>1. \A i \in 1 .. Len(s) : t[i].rec = s[i].rec
    BY <1>1, <1>2, <1>8
  <2> QED BY <1>2, <1>6, <2>1 DEF OnStack
<1> QED BY <1>2, <1>5, <1>6, <1>7, <1>8

\* The top call returns: the one below it, if there is one, is at the top again.
LEMMA Pop ==
  ASSUME TypeOK, NEW r \in Requests, Kinds(r), job[r].op = "delete", Below(r) # <<>>,
         job' = [job EXCEPT ![r].stack = Below(r)]
  PROVE  LET s == job[r].stack
             t == job'[r].stack
         IN /\ job' \in [Requests -> Job] /\ job'[r].op = "delete" /\ job'[r].seen = job[r].seen
            /\ job'[r].put = job[r].put /\ job'[r].owed = job[r].owed
            /\ t \in Seq(Frame) /\ Len(t) = Len(s) - 1 /\ t # <<>>
            /\ \A i \in 1 .. Len(s) - 1 : t[i] = s[i]
            /\ \A q \in Requests : q # r => job'[q] = job[q]
            /\ OnStack(r) \ {Top(r).rec} \subseteq OnStack(r)' /\ OnStack(r)' \subseteq OnStack(r)
<1> DEFINE s == job[r].stack
           t == Below(r)
<1>1. job[r] \in Job /\ s \in Seq(Frame) /\ s # <<>> /\ Top(r) = s[Len(s)] /\ Top(r) \in Frame
  BY TopCall
<1>2. /\ t \in Seq(Frame) /\ Len(t) = Len(s) - 1 /\ Len(s) \in Nat /\ Len(s) >= 1
      /\ \A i \in 1 .. Len(s) - 1 : t[i] = s[i]
  BY <1>1, StackOps DEF Below
<1>3. t # <<>>
  OBVIOUS
<1> HIDE DEF t
<1>4. job' = [job EXCEPT ![r] = [job[r] EXCEPT !.stack = t]]
  BY DEF t
<1>5. [job[r] EXCEPT !.stack = t] \in Job
  BY <1>1, <1>2 DEF Job
<1>6. job' \in [Requests -> Job] /\ job'[r] = [job[r] EXCEPT !.stack = t]
      /\ \A q \in Requests : q # r => job'[q] = job[q]
  BY <1>4, <1>5 DEF TypeOK
<1>7. /\ job'[r].op = "delete" /\ job'[r].seen = job[r].seen /\ job'[r].put = job[r].put
      /\ job'[r].owed = job[r].owed /\ job'[r].stack = t
  BY <1>1, <1>6 DEF Job
<1>8. OnStack(r) \ {Top(r).rec} \subseteq OnStack(r)' /\ OnStack(r)' \subseteq OnStack(r)
  <2>1. OnStack(r)' = {t[i].rec : i \in 1 .. Len(s) - 1}
    BY <1>2, <1>7 DEF OnStack
  <2>2. \A i \in 1 .. Len(s) : i = Len(s) \/ i \in 1 .. Len(s) - 1
    BY <1>2
  <2>3. \A i \in 1 .. Len(s) - 1 : i \in 1 .. Len(s)
    BY <1>2
  <2> QED BY <1>1, <1>2, <2>1, <2>2, <2>3 DEF OnStack
<1> QED BY <1>2, <1>3, <1>6, <1>7, <1>8

\* The top call calls for a child of its record.
PushOn(r, f, y) == job' = [job EXCEPT ![r].stack = Append(Append(Below(r), f), Call(y)),
                                      ![r].seen = @ \cup {y}]

LEMMA Push ==
  ASSUME TypeOK, NEW r \in Requests, Kinds(r), job[r].op = "delete", NEW y \in Records,
         NEW f \in Frame, f.rec = Top(r).rec, PushOn(r, f, y)
  PROVE  LET s == job[r].stack
             t == job'[r].stack
         IN /\ job' \in [Requests -> Job] /\ job'[r].op = "delete"
            /\ job'[r].seen = job[r].seen \cup {y}
            /\ job'[r].put = job[r].put /\ job'[r].owed = job[r].owed
            /\ t \in Seq(Frame) /\ Len(t) = Len(s) + 1 /\ t # <<>>
            /\ t[Len(s) + 1] = Call(y) /\ t[Len(s)] = f
            /\ \A i \in 1 .. Len(s) - 1 : t[i] = s[i]
            /\ \A q \in Requests : q # r => job'[q] = job[q]
            /\ OnStack(r)' = OnStack(r) \cup {y}
<1> DEFINE s == job[r].stack
           t == Append(Append(Below(r), f), Call(y))
<1>1. job[r] \in Job /\ s \in Seq(Frame) /\ s # <<>> /\ Top(r) = s[Len(s)] /\ Top(r) \in Frame
  BY TopCall
<1>2. Call(y) \in Frame /\ Call(y).rec = y
  BY DEF Call, Frame
<1>3. /\ t \in Seq(Frame) /\ Len(t) = Len(s) + 1 /\ Len(s) \in Nat /\ Len(s) >= 1
      /\ t[Len(s) + 1] = Call(y) /\ t[Len(s)] = f /\ \A i \in 1 .. Len(s) - 1 : t[i] = s[i]
  <2> DEFINE g == Call(y)
  <2>1. g \in Frame
    BY <1>2
  <2> HIDE DEF g
  <2>2. LET u == Append(Append(Below(r), f), g) IN
        /\ u \in Seq(Frame) /\ Len(u) = Len(s) + 1 /\ Len(s) \in Nat /\ Len(s) >= 1
        /\ u[Len(s) + 1] = g /\ u[Len(s)] = f /\ \A i \in 1 .. Len(s) - 1 : u[i] = s[i]
    BY <1>1, <2>1, StackOps DEF Below
  <2> QED BY <2>2 DEF g
<1> HIDE DEF t
<1>4. job' = [job EXCEPT ![r] = [job[r] EXCEPT !.stack = t, !.seen = job[r].seen \cup {y}]]
  BY DEF t, PushOn
<1>5. [job[r] EXCEPT !.stack = t, !.seen = job[r].seen \cup {y}] \in Job
  BY <1>1, <1>3 DEF Job
<1>6. /\ job' \in [Requests -> Job]
      /\ job'[r] = [job[r] EXCEPT !.stack = t, !.seen = job[r].seen \cup {y}]
      /\ \A q \in Requests : q # r => job'[q] = job[q]
  BY <1>4, <1>5 DEF TypeOK
<1>7. /\ job'[r].op = "delete" /\ job'[r].seen = job[r].seen \cup {y}
      /\ job'[r].put = job[r].put /\ job'[r].owed = job[r].owed /\ job'[r].stack = t
  BY <1>1, <1>6 DEF Job
<1>8. t # <<>>
  BY <1>3
<1>9. OnStack(r)' = OnStack(r) \cup {y}
  <2>1. \A i \in 1 .. Len(s) : t[i].rec = s[i].rec
    BY <1>1, <1>3
  <2>2. OnStack(r)' = {t[i].rec : i \in 1 .. Len(s) + 1}
    BY <1>3, <1>7 DEF OnStack
  <2>3. \A i \in 1 .. Len(s) + 1 : i = Len(s) + 1 \/ i \in 1 .. Len(s)
    BY <1>3
  <2>4. Len(s) + 1 \in 1 .. Len(s) + 1 /\ \A i \in 1 .. Len(s) : i \in 1 .. Len(s) + 1
    BY <1>3
  <2>5. t[Len(s) + 1].rec = y
    BY <1>2, <1>3
  <2>6. {t[i].rec : i \in 1 .. Len(s) + 1} = {s[i].rec : i \in 1 .. Len(s)} \cup {y}
    BY <2>1, <2>3, <2>4, <2>5, Zenon
  <2> QED BY <2>2, <2>6 DEF OnStack
<1> QED BY <1>3, <1>6, <1>7, <1>8, <1>9

\* A request with nothing to do.
LEMMA AtRest ==
  ASSUME NEW r \in Requests, job[r] = Idle
  PROVE  /\ Kinds(r) /\ InHand(r) /\ Stacked(r) /\ OnTheWayOut(r) /\ Sighted(r)
         /\ OnStack(r) = {} /\ Lost(r) = {}
<1>1. job[r].op = "idle" /\ job[r].stack = <<>> /\ job[r].seen = {} /\ job[r].put = {}
  BY DEF Idle
<1>2. OnStack(r) = {} /\ Lost(r) = {}
  BY <1>1 DEF OnStack, Lost
<1>3. Stacked(r)
  BY <1>1, <1>2, FS_EmptySet DEF Stacked
<1> QED BY <1>1, <1>2, <1>3 DEF Kinds, InHand, OnTheWayOut, Sighted, Calls

\* The same of the next state.
LEMMA RestsNext ==
  ASSUME NEW r \in Requests, job'[r] = Idle
  PROVE  Kinds(r)' /\ Stacked(r)' /\ OnTheWayOut(r)' /\ Sighted(r)'
<1>1. job'[r].op = "idle" /\ job'[r].stack = <<>> /\ job'[r].seen = {} /\ job'[r].put = {}
  BY DEF Idle
<1>2. OnStack(r)' = {}
  BY <1>1 DEF OnStack
<1>3. Stacked(r)'
  BY <1>1, <1>2, FS_EmptySet DEF Stacked
<1> QED BY <1>1, <1>2, <1>3 DEF Kinds, OnTheWayOut, Sighted, Calls

\* What a step does to the requests that do not make it.
LEMMA OthersKeep ==
  ASSUME TypeOK, NEW q \in Requests, Kinds(q), Stacked(q), OnTheWayOut(q), Sighted(q),
         job'[q] = job[q], kids' = kids, Present' \subseteq Present,
         \A x \in Records : late[x] \subseteq late'[x],
         \A y \in live' \ live : Unaware(y) \subseteq late'[y],
         live' \subseteq Records
  PROVE  Kinds(q)' /\ Stacked(q)' /\ OnTheWayOut(q)' /\ Sighted(q)'
<1>1. Top(q)' = Top(q) /\ OnStack(q)' = OnStack(q)
  BY DEF Top, OnStack
<1>2. Kinds(q)'
  BY DEF Kinds
<1>3. Stacked(q)'
  BY <1>1 DEF Stacked
<1>4. OnTheWayOut(q)'
  BY <1>1 DEF OnTheWayOut, Calls
<1>5. Sighted(q)'
  <2> SUFFICES ASSUME RingsFit, job[q].op = "delete", Top(q).st # "read", ~Top(q).deleted,
                      NEW y \in Records, y \in kids[Top(q).rec], y \in live'
               PROVE  \/ Top(q).rec \in late'[y]
                      \/ y \in OnStack(q)
                      \/ Top(q).st = "page" /\ (y \in Top(q).page
                                                \/ Cardinality(Top(q).page) = PageSize)
    BY <1>1 DEF Sighted
  <2>1. CASE y \in live
    BY <2>1 DEF Sighted
  <2>2. CASE y \notin live
    <3>1. Len(job[q].stack) \in 1 .. Len(job[q].stack) /\ Top(q) = job[q].stack[Len(job[q].stack)]
          /\ Top(q).rec \in Records
      BY TopCall DEF Frame
    <3>2. ~WillSee(Top(q).rec)
      BY <3>1 DEF WillSee
    <3>3. Top(q).rec \in Unaware(y)
      BY <3>1, <3>2 DEF Unaware, Parents
    <3> QED BY <2>2, <3>3
  <2> QED BY <2>1, <2>2
<1> QED BY <1>2, <1>3, <1>4, <1>5

\* What is left to show of a step of r.
LEMMA StepOf ==
  ASSUME CascadeInv, NEW r \in Requests, kids' = kids,
         job' \in [Requests -> Job], \A q \in Requests : q # r => job'[q] = job[q],
         live' \subseteq Records, new' \subseteq Records, live' \cap new' = {},
         late' \in [Records -> SUBSET Records], left' \subseteq Records,
         live' \cup new' \subseteq live \cup new \cup job[r].put,
         job'[r].put \subseteq job[r].put \cup new, job'[r].put \cap (live' \cup new') = {},
         \A x \in Records : late[x] \subseteq late'[x],
         \A y \in live' \ live : Unaware(y) \subseteq late'[y],
         Kinds(r)', Stacked(r)', OnTheWayOut(r)', Sighted(r)', Outliving'
  PROVE  CascadeInv'
<1>1. Present' \subseteq Present
  BY DEF Present, Puts
<1>2. ASSUME NEW q \in Requests
      PROVE  Kinds(q)' /\ Stacked(q)' /\ OnTheWayOut(q)' /\ Sighted(q)'
  <2>1. CASE q = r
    BY <2>1
  <2>2. CASE q # r
    <3>1. job'[q] = job[q] /\ TypeOK /\ Kinds(q) /\ Stacked(q) /\ OnTheWayOut(q) /\ Sighted(q)
      BY <2>2 DEF CascadeInv
    <3> QED BY <1>1, <3>1, OthersKeep
  <2> QED BY <2>1, <2>2
<1>3. ASSUME NEW q \in Requests PROVE InHand(q)'
  <2>1. job[q].put \cap (live \cup new) = {} /\ job[r].put \cap (live \cup new) = {}
    BY DEF CascadeInv, InHand
  <2>2. \A p \in Requests : p # q => job[p].put \cap job[q].put = {}
    BY DEF CascadeInv, InHand
  <2>3. job'[q].put \cap (live' \cup new') = {}
    BY <2>1, <2>2
  <2>4. ASSUME NEW p \in Requests, p # q PROVE job'[p].put \cap job'[q].put = {}
    <3>1. job[p].put \cap (live \cup new) = {} /\ job[p].put \cap job[q].put = {}
      BY <2>2, <2>4 DEF CascadeInv, InHand
    <3>2. p = r \/ job'[p].put = job[p].put
      OBVIOUS
    <3>3. q = r \/ job'[q].put = job[q].put
      OBVIOUS
    <3> QED BY <2>1, <2>4, <3>1, <3>2, <3>3
  <2> QED BY <2>3, <2>4 DEF InHand
<1>4. ASSUME NEW q \in Requests PROVE Len(job'[q].stack) <= Cardinality(Records)
  <2>1. Len(job'[q].stack) <= Cardinality(job'[q].seen)
    BY <1>2 DEF Stacked
  <2>2. job'[q].seen \subseteq Records /\ job'[q].stack \in Seq(Frame)
    BY DEF Job
  <2>3. /\ Cardinality(job'[q].seen) <= Cardinality(Records)
        /\ Cardinality(job'[q].seen) \in Nat /\ Cardinality(Records) \in Nat
    BY <2>2, FS_Subset, FS_CardinalityType
  <2> QED BY <2>1, <2>2, <2>3
<1>5. TypeOK'
  BY <1>4 DEF CascadeInv, TypeOK
<1> QED BY <1>2, <1>3, <1>5 DEF CascadeInv

\* Nothing disappears, and r forgets nothing of what it is deleting.
LEMMA SameOutlive ==
  ASSUME Outliving, NEW r \in Requests, kids' = kids, live' = live, left' = left, late' = late,
         \A q \in Requests : q # r => job'[q] = job[q],
         Gone' \subseteq Gone, Gone \subseteq Gone',
         Lost(r) \subseteq Lost(r)'
  PROVE  Outliving'
<1>1. \A q \in Requests : q # r => OnStack(q)' = OnStack(q)
  BY DEF OnStack
<1>2. ASSUME NEW q \in Requests PROVE Lost(q) \subseteq Lost(q)'
  <2>1. CASE q = r
    BY <2>1
  <2>2. CASE q # r
    BY <1>1, <2>2 DEF Lost, Parents
  <2> QED BY <2>1, <2>2
<1> QED BY <1>2 DEF Outliving, Parents

\* The records that are gone, in terms of the records present.
LEMMA GoneIs == Gone = Records \ Present
BY DEF Gone, Present, Puts

\* A cascade that fails.
LEMMA AbortKeeps ==
  ASSUME CascadeInv, NEW r \in Requests, job[r].op = "delete", Abort(r)
  PROVE  CascadeInv'
<1>1. TypeOK /\ Kinds(r) /\ Outliving /\ job[r] \in Job /\ job[r].put = {}
  BY DEF CascadeInv, Kinds, TypeOK
<1>2. job' = [job EXCEPT ![r] = Idle] /\ left' = left \cup (Lost(r) \cap live)
      /\ kids' = kids /\ live' = live /\ new' = new /\ late' = late
  BY DEF Abort, Done
<1>3. Idle \in Job
  BY DEF Idle, Job
<1>4. /\ job' \in [Requests -> Job] /\ job'[r] = Idle
      /\ \A q \in Requests : q # r => job'[q] = job[q]
  BY <1>1, <1>2, <1>3 DEF TypeOK
<1>5. Kinds(r)' /\ Stacked(r)' /\ OnTheWayOut(r)' /\ Sighted(r)'
  BY <1>4, RestsNext
<1>6. job'[r].put = {} /\ left' \subseteq Records
  BY <1>1, <1>2, <1>4 DEF Idle, TypeOK
<1>7. Gone' \subseteq Gone
  BY <1>1, <1>2, <1>4, <1>6 DEF Gone
<1>8. Outliving'
  <2> SUFFICES ASSUME RingsFit, NEW y \in live \ left', NEW p \in Records, y \in kids[p], p \in Gone
               PROVE  p \in late[y] \/ \E q \in Requests : y \in Lost(q)'
    BY <1>2, <1>7 DEF Outliving, Parents
  <2>1. p \in late[y] \/ \E q \in Requests : y \in Lost(q)
    BY <1>1, <1>2 DEF Outliving, Parents
  <2>2. y \notin Lost(r)
    BY <1>2
  <2>3. ASSUME NEW q \in Requests, y \in Lost(q) PROVE y \in Lost(q)'
    <3>1. q # r /\ job'[q] = job[q]
      BY <1>4, <2>2, <2>3
    <3>2. Gone \subseteq Gone'
      <4>1. \A z \in Requests : job'[z].put \subseteq job[z].put
        BY <1>1, <1>4, <1>6
      <4> QED BY <1>2, <4>1 DEF Gone
    <3> QED BY <1>2, <2>3, <3>1, <3>2 DEF Lost, OnStack, Parents
  <2> QED BY <2>1, <2>3
<1> QED BY <1>1, <1>2, <1>4, <1>5, <1>6, <1>8, StepOf DEF TypeOK

\* What Down holds: X, and with a record what follows from it.
LEMMA DownHolds ==
  ASSUME NEW next \in [Records -> SUBSET Records], NEW X \in SUBSET Records
  PROVE  /\ Down(next, X) \subseteq Records /\ X \subseteq Down(next, X)
         /\ \A y \in Down(next, X) : next[y] \subseteq Down(next, X)
<1>1. X \subseteq Down(next, X)
  BY DEF Down
<1>2. ASSUME NEW y \in Down(next, X), NEW z \in next[y] PROVE z \in Down(next, X)
  <2>1. y \in Records /\ z \in Records
    BY DEF Down
  <2>2. ASSUME NEW S \in SUBSET Records, X \subseteq S, \A w \in S : next[w] \subseteq S
        PROVE  z \in S
    BY <2>2 DEF Down
  <2> QED BY <2>1, <2>2 DEF Down
<1> QED BY <1>1, <1>2 DEF Down

LEMMA StackedNext ==
  ASSUME NEW r \in Requests, kids' = kids, NEW t, job'[r].stack = t,
         OnStack(r)' \subseteq job'[r].seen, Len(t) <= Cardinality(job'[r].seen),
         \A i \in 1 .. Len(t) :
           /\ t[i].page \subseteq kids[t[i].rec]
           /\ t[i].st = "delete" => ~t[i].deleted
           /\ i < Len(t) => t[i].st = "page" /\ t[i].deleted
           /\ \A k \in i .. Len(t) : t[k].rec \in Down(kids, {t[i].rec})
  PROVE  Stacked(r)'
BY DEF Stacked

LEMMA BeginKeeps ==
  ASSUME CascadeInv, NEW r \in Requests, NEW x \in Records, Begin(r, x)
  PROVE  CascadeInv'
<1> DEFINE j == [Idle EXCEPT !.op = "delete", !.stack = <<Call(x)>>, !.seen = {x},
                             !.owed = Family(x)]
<1>1. TypeOK /\ Kinds(r) /\ Outliving /\ job[r] \in Job /\ job[r].put = {} /\ job[r].op = "idle"
      /\ kids \in [Records -> SUBSET Records]
  BY DEF CascadeInv, Kinds, TypeOK, Begin
<1>2. job[r].stack = <<>> /\ OnStack(r) = {}
  BY <1>1 DEF CascadeInv, Kinds, OnStack
<1>3. Call(x) \in Frame /\ <<Call(x)>> \in Seq(Frame) /\ Len(<<Call(x)>>) = 1
  BY DEF Call, Frame
<1>4. Family(x) \subseteq Records
  BY DEF Family, Down
<1>5. /\ j \in Job /\ j.op = "delete" /\ j.stack = <<Call(x)>> /\ j.seen = {x} /\ j.put = {}
  BY <1>3, <1>4 DEF Idle, Job
<1> HIDE DEF j
<1>6. job' = [job EXCEPT ![r] = j]
      /\ kids' = kids /\ live' = live /\ new' = new /\ late' = late /\ left' = left
  BY DEF Begin, j
<1>7. /\ job' \in [Requests -> Job] /\ job'[r] = j
      /\ \A q \in Requests : q # r => job'[q] = job[q]
  BY <1>1, <1>5, <1>6 DEF TypeOK
<1>8. OnStack(r)' = {x} /\ Top(r)' = Call(x) /\ Call(x).st = "read"
  BY <1>3, <1>5, <1>7 DEF OnStack, Top, Call
<1>9. Kinds(r)' /\ OnTheWayOut(r)' /\ Sighted(r)'
  BY <1>3, <1>5, <1>7, <1>8 DEF Kinds, OnTheWayOut, Sighted, Calls
<1>10. Stacked(r)'
  <2>1. Cardinality({x}) = 1
    BY FS_Singleton
  <2>2. x \in Down(kids, {x})
    BY DEF Down
  <2> DEFINE t == <<Call(x)>>
  <2>3. Len(t) = 1 /\ \A i \in 1 .. Len(t) : t[i].rec = x /\ t[i].page = {} /\ t[i].st = "read"
    BY DEF Call
  <2> HIDE DEF t
  <2>4. job'[r].stack = t
    BY <1>5, <1>7 DEF t
  <2>5. \A i \in 1 .. Len(t) : ~(i < Len(t))
    BY <2>3
  <2>6. \A i \in 1 .. Len(t) : \A k \in i .. Len(t) : k \in 1 .. Len(t)
    BY <2>3
  <2>7. ASSUME NEW i \in 1 .. Len(t)
        PROVE  /\ t[i].page \subseteq kids[t[i].rec]
               /\ t[i].st = "delete" => ~t[i].deleted
               /\ i < Len(t) => t[i].st = "page" /\ t[i].deleted
               /\ \A k \in i .. Len(t) : t[k].rec \in Down(kids, {t[i].rec})
    BY <2>2, <2>3, <2>5, <2>6
  <2>8. OnStack(r)' \subseteq job'[r].seen /\ Len(t) <= Cardinality(job'[r].seen)
    <3>1. job'[r].seen = {x}
      BY <1>5, <1>7
    <3>2. OnStack(r)' \subseteq job'[r].seen
      BY <1>8, <3>1
    <3>3. Cardinality(job'[r].seen) = 1
      BY <2>1, <3>1
    <3>4. Len(t) <= 1
      BY <2>3
    <3> QED BY <3>2, <3>3, <3>4
  <2> QED BY <1>6, <2>4, <2>7, <2>8, StackedNext
<1>11. Gone' \subseteq Gone /\ Gone \subseteq Gone'
  <2>1. \A q \in Requests : job'[q].put = job[q].put
    BY <1>1, <1>5, <1>7
  <2> QED BY <1>6, <2>1 DEF Gone
<1>13. Lost(r) = {}
  BY <1>2 DEF Lost
<1>12. Outliving'
  BY <1>1, <1>2, <1>6, <1>7, <1>11, <1>13, SameOutlive
<1> QED BY <1>1, <1>5, <1>6, <1>7, <1>9, <1>10, <1>12, StepOf DEF TypeOK

\* A call of a page, or at the end of its pages: the stack keeps its records.
LEMMA SetTopStacked ==
  ASSUME CascadeInv, NEW r \in Requests, job[r].op = "delete", kids' = kids,
         NEW f \in Frame, SetTop(r, f), f.rec = Top(r).rec, f.page \subseteq kids[f.rec],
         f.st = "delete" => ~f.deleted
  PROVE  Stacked(r)'
<1> DEFINE s == job[r].stack
           t == job'[r].stack
<1>1. TypeOK /\ Kinds(r) /\ Stacked(r)
  BY DEF CascadeInv
<1>2. /\ Len(s) \in Nat /\ Len(s) >= 1 /\ s \in Seq(Frame) /\ Top(r) = s[Len(s)]
  BY <1>1, TopCall
<1>3. /\ Len(t) = Len(s) /\ t[Len(s)] = f /\ job'[r].seen = job[r].seen
      /\ \A i \in 1 .. Len(s) - 1 : t[i] = s[i]
      /\ OnStack(r)' = OnStack(r)
  BY <1>1, SetTopFacts
<1> HIDE DEF t
<1>4. \A i \in 1 .. Len(s) : t[i].rec = s[i].rec /\ (i = Len(s) \/ t[i] = s[i])
  BY <1>2, <1>3
<1>5. OnStack(r)' \subseteq job'[r].seen /\ Len(t) <= Cardinality(job'[r].seen)
  BY <1>1, <1>3 DEF Stacked
<1>6. ASSUME NEW i \in 1 .. Len(t)
      PROVE  /\ t[i].page \subseteq kids[t[i].rec]
             /\ t[i].st = "delete" => ~t[i].deleted
             /\ i < Len(t) => t[i].st = "page" /\ t[i].deleted
             /\ \A k \in i .. Len(t) : t[k].rec \in Down(kids, {t[i].rec})
  <2>1. /\ i < Len(s) => t[i] = s[i] /\ s[i].st = "page" /\ s[i].deleted
        /\ s[i].page \subseteq kids[s[i].rec] /\ (s[i].st = "delete" => ~s[i].deleted)
        /\ \A k \in i .. Len(s) : s[k].rec \in Down(kids, {s[i].rec})
    <3>1. i \in 1 .. Len(s) /\ (i < Len(s) => i \in 1 .. Len(s) - 1)
      BY <1>2, <1>3
    <3>2. /\ i < Len(s) => s[i].st = "page" /\ s[i].deleted
          /\ s[i].page \subseteq kids[s[i].rec] /\ (s[i].st = "delete" => ~s[i].deleted)
          /\ \A k \in i .. Len(s) : s[k].rec \in Down(kids, {s[i].rec})
      BY <1>1, <3>1 DEF Stacked
    <3> QED BY <1>3, <3>1, <3>2
  <2>2. \A k \in i .. Len(t) : k \in 1 .. Len(s)
    BY <1>2, <1>3
  <2>3. \A k \in i .. Len(t) : t[k].rec \in Down(kids, {t[i].rec})
    BY <1>3, <1>4, <2>1, <2>2
  <2>4. CASE i = Len(s)
    BY <1>2, <1>3, <2>3, <2>4
  <2>5. CASE i < Len(s)
    BY <1>3, <2>1, <2>3, <2>5
  <2>6. i = Len(s) \/ i < Len(s)
    BY <1>2, <1>3
  <2> QED BY <2>4, <2>5, <2>6
<1> QED BY <1>5, <1>6, StackedNext DEF t

\* Who is on the stack of r leads to the record at its top.
LEMMA StackLeads ==
  ASSUME CascadeInv, NEW r \in Requests, job[r].op = "delete", NEW y \in OnStack(r)
  PROVE  Top(r).rec \in Down(kids, {y})
<1>1. PICK i \in 1 .. Len(job[r].stack) : y = job[r].stack[i].rec
  BY DEF OnStack
<1>2. /\ Len(job[r].stack) \in Nat /\ Top(r) = job[r].stack[Len(job[r].stack)]
      /\ Stacked(r)
  BY TopCall DEF CascadeInv
<1>3. Len(job[r].stack) \in i .. Len(job[r].stack)
  BY <1>2
<1> QED BY <1>1, <1>2, <1>3 DEF Stacked

\* Read, when the record is still there.
LEMMA ReadKeeps ==
  ASSUME CascadeInv, NEW r \in Requests, Read(r)
  PROVE  CascadeInv'
<1>1. CASE Top(r).rec \notin live
  BY <1>1, AbortKeeps DEF Read, Calls
<1>2. CASE Top(r).rec \in live
  <2> DEFINE found == Found(Top(r).rec)
  <2>1. PICK page \in SUBSET found :
          /\ Cardinality(page) = PageSize \/ page = found
          /\ SetTop(r, [Top(r) EXCEPT !.st = "page", !.page = page, !.deleted = FALSE])
    BY <1>2 DEF Read
  <2>2. kids' = kids /\ live' = live /\ new' = new /\ late' = late /\ left' = left
        /\ job[r].op = "delete"
    BY <1>2 DEF Read, Calls
  <2> DEFINE f == [Top(r) EXCEPT !.st = "page", !.page = page, !.deleted = FALSE]
  <2>3. TypeOK /\ Kinds(r) /\ Top(r) \in Frame /\ OnTheWayOut(r) /\ Outliving
        /\ kids \in [Records -> SUBSET Records]
    BY <2>2, TopCall DEF CascadeInv, TypeOK
  <2>4. page \subseteq kids[Top(r).rec] \cap live
    BY DEF Found
  <2>5. /\ f \in Frame /\ f.rec = Top(r).rec /\ f.st = "page" /\ f.page = page /\ ~f.deleted
    BY <2>3, <2>4 DEF Frame, TypeOK
  <2>6. SetTop(r, f)
    BY <2>1
  <2> HIDE DEF f
  <2>7. /\ job' \in [Requests -> Job] /\ job'[r].op = "delete" /\ job'[r].seen = job[r].seen
        /\ job'[r].put = job[r].put /\ job'[r].stack # <<>>
        /\ \A q \in Requests : q # r => job'[q] = job[q]
        /\ OnStack(r)' = OnStack(r) /\ Top(r)' = f
    BY <2>2, <2>3, <2>5, <2>6, SetTopFacts DEF Top
  <2>8. Present' = Present /\ Gone' \subseteq Gone /\ Gone \subseteq Gone'
    <3>1. \A q \in Requests : job'[q].put = job[q].put
      BY <2>7
    <3> QED BY <2>2, <3>1 DEF Gone, Present, Puts
  <2>9. Kinds(r)'
    BY <2>2, <2>3, <2>7 DEF Kinds
  <2>10. Stacked(r)'
    BY <2>2, <2>4, <2>5, <2>6, SetTopStacked
  <2>11. OnTheWayOut(r)'
    <3>1. page \cap job[r].seen \subseteq OnStack(r)
      BY <2>3, <2>4 DEF OnTheWayOut, Present
    <3> QED BY <2>3, <2>5, <2>7, <2>8, <3>1 DEF OnTheWayOut
  <2>12. Sighted(r)'
    BY <2>1, <2>2, <2>5, <2>7 DEF Sighted, Found
  <2>13. Lost(r) \subseteq Lost(r)'
    BY <2>2, <2>7, <2>8 DEF Lost, Parents
  <2>14. Outliving'
    BY <2>2, <2>3, <2>7, <2>8, <2>13, SameOutlive
  <2>15. job[r].put \cap (live \cup new) = {}
    BY DEF CascadeInv, InHand
  <2> QED BY <2>2, <2>3, <2>7, <2>9, <2>10, <2>11, <2>12, <2>14, <2>15, StepOf DEF TypeOK
<1> QED BY <1>1, <1>2

LEMMA CallAt ==
  ASSUME TypeOK, NEW r \in Requests, Stacked(r), NEW i \in 1 .. Len(job[r].stack)
  PROVE  LET s == job[r].stack IN
         /\ s[i] \in Frame /\ s[i].rec \in Records /\ s[i].rec \in OnStack(r)
         /\ s[i].page \subseteq kids[s[i].rec]
         /\ s[i].st = "delete" => ~s[i].deleted
         /\ i < Len(s) => s[i].st = "page" /\ s[i].deleted
         /\ \A k \in i .. Len(s) : s[k].rec \in Down(kids, {s[i].rec})
<1>1. job[r].stack \in Seq(Frame)
  BY DEF TypeOK, Job
<1>2. job[r].stack[i] \in Frame
  BY <1>1
<1>3. job[r].stack[i].rec \in Records /\ job[r].stack[i].rec \in OnStack(r)
  BY <1>2 DEF Frame, OnStack
<1> QED BY <1>2, <1>3 DEF Stacked

LEMMA DescendKeeps ==
  ASSUME CascadeInv, NEW r \in Requests, Descend(r)
  PROVE  CascadeInv'
<1>1. PICK y \in Unseen(r) :
        PushOn(r, [Top(r) EXCEPT !.page = @ \ {y}, !.deleted = TRUE], y)
  BY DEF Descend, PushOn
<1>2. /\ kids' = kids /\ live' = live /\ new' = new /\ late' = late /\ left' = left
      /\ job[r].op = "delete" /\ Top(r).st = "page"
  BY DEF Descend, Calls
<1> DEFINE f == [Top(r) EXCEPT !.page = @ \ {y}, !.deleted = TRUE]
           s == job[r].stack
           t == job'[r].stack
<1>3. /\ TypeOK /\ Kinds(r) /\ OnTheWayOut(r) /\ Stacked(r) /\ Outliving /\ Top(r) \in Frame
      /\ kids \in [Records -> SUBSET Records] /\ job[r] \in Job
      /\ Len(s) \in Nat /\ Len(s) >= 1 /\ Len(s) \in 1 .. Len(s) /\ Top(r) = s[Len(s)]
  BY <1>2, TopCall DEF CascadeInv, TypeOK
<1>4. Top(r).page \subseteq kids[Top(r).rec] /\ Top(r).rec \in Records
  BY <1>3 DEF Stacked, Frame
<1>5. y \in Records /\ y \in kids[Top(r).rec] /\ y \notin job[r].seen
  BY <1>3, <1>4 DEF Unseen
<1>6. /\ f \in Frame /\ f.rec = Top(r).rec /\ f.st = "page" /\ f.page \subseteq Top(r).page
      /\ f.deleted
  BY <1>2, <1>3 DEF Frame
<1>7. PushOn(r, f, y)
  BY <1>1
<1> HIDE DEF f
<1>8. /\ job' \in [Requests -> Job] /\ job'[r].op = "delete"
      /\ job'[r].seen = job[r].seen \cup {y} /\ job'[r].put = job[r].put
      /\ t # <<>> /\ Len(t) = Len(s) + 1 /\ t[Len(s) + 1] = Call(y) /\ t[Len(s)] = f
      /\ \A i \in 1 .. Len(s) - 1 : t[i] = s[i]
      /\ \A q \in Requests : q # r => job'[q] = job[q]
      /\ OnStack(r)' = OnStack(r) \cup {y} /\ Top(r)' = Call(y)
  BY <1>2, <1>3, <1>5, <1>6, <1>7, Push DEF Top
<1>9. Present' = Present /\ Gone' \subseteq Gone /\ Gone \subseteq Gone'
  <2>1. \A q \in Requests : job'[q].put = job[q].put
    BY <1>8
  <2> QED BY <1>2, <2>1 DEF Gone, Present, Puts
<1>10. Kinds(r)'
  BY <1>2, <1>3, <1>8 DEF Kinds
<1>11. Call(y).rec = y /\ Call(y).st = "read" /\ Call(y).page = {} /\ ~Call(y).deleted
  BY DEF Call
<1>12. Stacked(r)'
  <2> HIDE DEF t
  <2>1. \A i \in 1 .. Len(s) : t[i].rec = s[i].rec /\ (i = Len(s) \/ t[i] = s[i])
    BY <1>3, <1>6, <1>8
  <2>2. OnStack(r)' \subseteq job'[r].seen
    BY <1>3, <1>8 DEF Stacked
  <2>3. Len(t) <= Cardinality(job'[r].seen)
    <3>1. IsFiniteSet(job[r].seen)
      BY <1>3, FS_Subset DEF Job
    <3>2. Cardinality(job[r].seen \cup {y}) = Cardinality(job[r].seen) + 1
          /\ Cardinality(job[r].seen) \in Nat
      BY <1>5, <3>1, FS_AddElement, FS_CardinalityType
    <3>3. Len(s) <= Cardinality(job[r].seen)
      BY <1>3 DEF Stacked
    <3>4. Cardinality(job'[r].seen) = Cardinality(job[r].seen) + 1
      BY <1>8, <3>2
    <3> QED BY <1>3, <1>8, <3>2, <3>3, <3>4
  <2>4. ASSUME NEW i \in 1 .. Len(t)
        PROVE  /\ t[i].page \subseteq kids[t[i].rec]
               /\ t[i].st = "delete" => ~t[i].deleted
               /\ i < Len(t) => t[i].st = "page" /\ t[i].deleted
               /\ \A k \in i .. Len(t) : t[k].rec \in Down(kids, {t[i].rec})
    <3>1. CASE i = Len(s) + 1
      <4>1. \A k \in i .. Len(t) : k = i
        BY <1>3, <1>8, <3>1
      <4>2. y \in Down(kids, {y})
        BY <1>5 DEF Down
      <4>3. t[i] = Call(y) /\ ~(i < Len(t))
        BY <1>3, <1>8, <3>1
      <4> QED BY <1>11, <4>1, <4>2, <4>3
    <3>2. CASE i \in 1 .. Len(s)
      <4>1. /\ i < Len(s) => s[i].st = "page" /\ s[i].deleted
            /\ s[i].page \subseteq kids[s[i].rec] /\ s[i].rec \in Records
            /\ \A k \in i .. Len(s) : s[k].rec \in Down(kids, {s[i].rec})
        BY <1>3, <3>2, CallAt
      <4>2. t[i].page \subseteq s[i].page /\ t[i].st = "page" /\ t[i].deleted
        <5>1. CASE i = Len(s)
          BY <1>3, <1>6, <1>8, <5>1
        <5>2. CASE i # Len(s)
          <6>1. i < Len(s) /\ t[i] = s[i]
            BY <1>3, <2>1, <3>2, <5>2
          <6> QED BY <4>1, <6>1
        <5> QED BY <5>1, <5>2
      <4>3. y \in Down(kids, {s[i].rec})
        <5>1. Top(r).rec \in Down(kids, {s[i].rec})
          <6>1. Len(s) \in i .. Len(s)
            BY <1>3, <3>2
          <6> QED BY <1>3, <4>1, <6>1
        <5>2. \A z \in Down(kids, {s[i].rec}) : kids[z] \subseteq Down(kids, {s[i].rec})
          BY <1>3, <4>1, DownHolds
        <5> QED BY <1>5, <5>1, <5>2
      <4>4. ASSUME NEW k \in i .. Len(t) PROVE t[k].rec \in Down(kids, {s[i].rec})
        <5>1. CASE k = Len(s) + 1
          BY <1>8, <1>11, <4>3, <5>1
        <5>2. CASE k # Len(s) + 1
          <6>1. k \in i .. Len(s) /\ k \in 1 .. Len(s)
            BY <1>3, <1>8, <3>2, <5>2
          <6> QED BY <2>1, <4>1, <6>1
        <5> QED BY <5>1, <5>2
      <4> QED BY <2>1, <3>2, <4>1, <4>2, <4>4
    <3>3. i = Len(s) + 1 \/ i \in 1 .. Len(s)
      BY <1>3, <1>8
    <3> QED BY <3>1, <3>2, <3>3
  <2> QED BY <1>2, <2>2, <2>3, <2>4, StackedNext DEF t
<1>13. OnTheWayOut(r)'
  BY <1>3, <1>8, <1>9, <1>11 DEF OnTheWayOut, Calls
<1>14. Sighted(r)'
  BY <1>8, <1>11 DEF Sighted
<1>15. Outliving'
  <2>1. Lost(r) \subseteq Lost(r)'
    BY <1>2, <1>8, <1>9 DEF Lost, Parents
  <2> QED BY <1>2, <1>3, <1>8, <1>9, <2>1, SameOutlive
<1>16. job[r].put \cap (live \cup new) = {}
  BY DEF CascadeInv, InHand
<1> QED BY <1>2, <1>3, <1>8, <1>10, <1>12, <1>13, <1>14, <1>15, <1>16, StepOf DEF TypeOK

\* The page is done.  If nothing of it was deleted, all of it was on its way out; it was
\* not full then, and there is no child left to find.
LEMMA PageDoneKeeps ==
  ASSUME CascadeInv, NEW r \in Requests, PageDone(r)
  PROVE  CascadeInv'
<1> DEFINE f == [Top(r) EXCEPT !.st = AfterPage(Top(r)), !.page = {}]
<1>1. /\ kids' = kids /\ live' = live /\ new' = new /\ late' = late /\ left' = left
      /\ job[r].op = "delete" /\ Top(r).st = "page" /\ Unseen(r) = {} /\ SetTop(r, f)
  BY DEF PageDone, Calls
<1>2. /\ TypeOK /\ Kinds(r) /\ OnTheWayOut(r) /\ Stacked(r) /\ Sighted(r) /\ Outliving
      /\ kids \in [Records -> SUBSET Records] /\ kids \in Shapes
      /\ Top(r) \in Frame /\ Len(job[r].stack) \in 1 .. Len(job[r].stack)
      /\ Top(r) = job[r].stack[Len(job[r].stack)] /\ OnStack(r) \subseteq Records
  BY <1>1, TopCall DEF CascadeInv, TypeOK
<1>3. /\ f \in Frame /\ f.rec = Top(r).rec /\ f.page = {} /\ f.deleted = Top(r).deleted
      /\ f.st = IF Top(r).deleted THEN "read" ELSE "delete"
  BY <1>2 DEF Frame, AfterPage
<1> HIDE DEF f
<1>4. /\ job' \in [Requests -> Job] /\ job'[r].op = "delete" /\ job'[r].seen = job[r].seen
      /\ job'[r].put = job[r].put /\ job'[r].stack # <<>>
      /\ \A q \in Requests : q # r => job'[q] = job[q]
      /\ OnStack(r)' = OnStack(r) /\ Top(r)' = f
  BY <1>1, <1>2, <1>3, SetTopFacts DEF Top
<1>5. Present' = Present /\ Gone' \subseteq Gone /\ Gone \subseteq Gone'
  <2>1. \A q \in Requests : job'[q].put = job[q].put
    BY <1>4
  <2> QED BY <1>1, <2>1 DEF Gone, Present, Puts
<1>6. Kinds(r)'
  BY <1>1, <1>2, <1>4 DEF Kinds
<1>7. Stacked(r)'
  BY <1>1, <1>3, SetTopStacked
<1>8. OnTheWayOut(r)'
  BY <1>2, <1>3, <1>4, <1>5 DEF OnTheWayOut
<1>9. Sighted(r)'
  <2> SUFFICES ASSUME RingsFit, ~Top(r).deleted, NEW y \in kids[Top(r).rec] \cap live
               PROVE  Top(r).rec \in late[y] \/ y \in OnStack(r)
    BY <1>1, <1>3, <1>4 DEF Sighted
  <2>1. Top(r).page \subseteq OnStack(r)
    BY <1>1, <1>2 DEF OnTheWayOut, Calls, Unseen
  <2>2. Cardinality(Top(r).page) # PageSize
    <3> DEFINE back == {z \in kids[Top(r).rec] : Top(r).rec \in Down(kids, {z})}
    <3>1. Top(r).rec \in Records
      BY <1>2 DEF Frame
    <3>2. Top(r).page \subseteq back
      <4>1. Top(r).page \subseteq kids[Top(r).rec]
        BY <1>2 DEF Stacked
      <4>2. \A z \in Top(r).page : Top(r).rec \in Down(kids, {z})
        BY <1>1, <2>1, StackLeads
      <4> QED BY <4>1, <4>2
    <3>3. Cardinality(back) < PageSize
      BY <1>2, <3>1 DEF RingsFit
    <3> HIDE DEF back
    <3>4. IsFiniteSet(back) /\ Cardinality(back) \in Nat
      <4>1. back \subseteq Records
        BY <1>2, <3>1 DEF back
      <4> QED BY <4>1, FS_Subset, FS_CardinalityType
    <3>5. Cardinality(Top(r).page) <= Cardinality(back) /\ Cardinality(Top(r).page) \in Nat
      BY <3>2, <3>4, FS_Subset, FS_CardinalityType
    <3> QED BY <3>3, <3>4, <3>5
  <2> QED BY <1>1, <1>2, <2>1, <2>2 DEF Sighted
<1>10. Outliving'
  <2>1. Lost(r) \subseteq Lost(r)'
    BY <1>1, <1>4, <1>5 DEF Lost, Parents
  <2> QED BY <1>1, <1>2, <1>4, <1>5, <2>1, SameOutlive
<1>11. job[r].put \cap (live \cup new) = {}
  BY DEF CascadeInv, InHand
<1> QED BY <1>1, <1>2, <1>4, <1>6, <1>7, <1>8, <1>9, <1>10, <1>11, StepOf DEF TypeOK

\* What the deletion of p leaves to r, once its call is off the stack.
LEMMA DeleteOutlives ==
  ASSUME TypeOK, Outliving, NEW r \in Requests, NEW p \in live, job[r].op = "delete",
         OnStack(r) \subseteq job[r].seen, p \in OnStack(r),
         RingsFit => \A y \in kids[p] \cap live : p \in late[y] \/ y \in OnStack(r),
         kids' = kids, late' = late, left' = left, live' = live \ {p}, new' = new,
         \A q \in Requests : q # r => job'[q] = job[q],
         \A q \in Requests : job'[q].put = job[q].put,
         OnStack(r) \ {p} # {} => job'[r].seen = job[r].seen,
         OnStack(r) \ {p} \subseteq OnStack(r)'
  PROVE  Outliving'
<1>1. p \notin live' /\ Gone' \subseteq Gone \cup {p} /\ Gone \subseteq Gone'
  BY DEF Gone
<1>2. ASSUME NEW q \in Requests, NEW y \in Lost(q), y # p PROVE y \in Lost(q)'
  <2>1. CASE q = r
    BY <1>1, <1>2, <2>1 DEF Lost, Parents
  <2>2. CASE q # r
    <3>1. OnStack(q)' = OnStack(q) /\ job'[q].seen = job[q].seen
      BY <2>2 DEF OnStack
    <3> QED BY <1>1, <1>2, <3>1 DEF Lost, Parents
  <2> QED BY <2>1, <2>2
<1> SUFFICES ASSUME RingsFit, NEW y \in live \ left, y # p, NEW x \in Records, y \in kids[x], x \in Gone'
             PROVE  x \in late[y] \/ \E q \in Requests : y \in Lost(q)'
  BY DEF Outliving, Parents
<1>3. CASE x \in Gone
  <2>1. x \in late[y] \/ \E q \in Requests : y \in Lost(q)
    BY <1>3 DEF Outliving, Parents
  <2> QED BY <1>2, <2>1
<1>4. CASE x \notin Gone
  <2>1. x = p
    BY <1>1, <1>4
  <2>2. CASE y \in OnStack(r)
    <3>1. y \in OnStack(r)' /\ p \in job'[r].seen /\ p \in Gone'
      BY <2>1, <2>2
    <3> QED BY <2>1, <3>1 DEF Lost, Parents
  <2> QED BY <2>1, <2>2
<1> QED BY <1>3, <1>4

LEMMA DeleteKeeps ==
  ASSUME CascadeInv, NEW r \in Requests, Delete(r)
  PROVE  CascadeInv'
<1>1. CASE Top(r).rec \notin live
  BY <1>1, AbortKeeps DEF Delete, Calls
<1>2. CASE Top(r).rec \in live
  <2> DEFINE s == job[r].stack
             p == Top(r).rec
  <2>1. /\ kids' = kids /\ live' = live \ {p} /\ new' = new /\ late' = late /\ left' = left
        /\ job[r].op = "delete" /\ Top(r).st = "delete"
    BY <1>2, Zenon DEF Delete, Calls
  <2>2. /\ TypeOK /\ Kinds(r) /\ Stacked(r) /\ Sighted(r) /\ OnTheWayOut(r) /\ Outliving
        /\ Len(s) \in Nat /\ Len(s) >= 1 /\ Len(s) \in 1 .. Len(s) /\ Top(r) = s[Len(s)]
        /\ p \in OnStack(r) /\ job[r].put = {} /\ kids \in [Records -> SUBSET Records]
        /\ OnStack(r) \subseteq job[r].seen /\ s \in Seq(Frame) /\ s # <<>>
        /\ Top(r) \in Frame
    BY <2>1, TopCall DEF CascadeInv, Stacked, TypeOK
  <2>3. ~Top(r).deleted
    BY <2>1, <2>2, CallAt
  <2>4. RingsFit => \A y \in kids[p] \cap live : p \in late[y] \/ y \in OnStack(r)
    BY <2>1, <2>2, <2>3 DEF Sighted
  <2>5. /\ live' \cup new' \subseteq live \cup new \cup job[r].put
        /\ live' \subseteq Records /\ new' \subseteq Records /\ live' \cap new' = {}
        /\ late' \in [Records -> SUBSET Records] /\ left' \subseteq Records
        /\ \A x \in Records : late[x] \subseteq late'[x]
        /\ live' \ live = {}
    BY <2>1, <2>2 DEF TypeOK
  <2> HIDE DEF p
  <2>6. CASE Below(r) = <<>>
    <3>1. /\ job' \in [Requests -> Job] /\ job'[r] = Idle
          /\ \A q \in Requests : q # r => job'[q] = job[q]
      <4>1. job' = [job EXCEPT ![r] = Idle]
        BY <1>2, <2>6 DEF Delete, Done
      <4>2. Idle \in Job
        BY DEF Idle, Job
      <4> QED BY <2>2, <4>1, <4>2 DEF TypeOK
    <3>2. OnStack(r) = {p}
      <4>1. Len(s) = 1
        BY <2>2, <2>6, StackOps DEF Below
      <4> QED BY <2>2, <4>1 DEF OnStack, p
    <3>3. Kinds(r)' /\ Stacked(r)' /\ OnTheWayOut(r)' /\ Sighted(r)'
      BY <3>1, RestsNext
    <3>4. job'[r].put = {}
      BY <3>1 DEF Idle
    <3>5. \A q \in Requests : job'[q].put = job[q].put
      BY <2>2, <3>1, <3>4
    <3>6. Outliving'
      BY <1>2, <2>1, <2>2, <2>4, <3>1, <3>2, <3>5, DeleteOutlives DEF p
    <3> QED BY <2>1, <2>5, <3>1, <3>3, <3>4, <3>6, StepOf
  <2>7. CASE Below(r) # <<>>
    <3>1. job' = [job EXCEPT ![r].stack = Below(r)]
      BY <1>2, <2>7 DEF Delete
    <3>2. LET t == job'[r].stack IN
          /\ job' \in [Requests -> Job] /\ job'[r].op = "delete" /\ job'[r].seen = job[r].seen
          /\ job'[r].put = job[r].put
          /\ t \in Seq(Frame) /\ Len(t) = Len(s) - 1 /\ t # <<>>
          /\ \A i \in 1 .. Len(s) - 1 : t[i] = s[i]
          /\ \A q \in Requests : q # r => job'[q] = job[q]
          /\ OnStack(r) \ {p} \subseteq OnStack(r)' /\ OnStack(r)' \subseteq OnStack(r)
      BY <2>1, <2>2, <2>7, <3>1, Pop DEF p
    <3> DEFINE t == job'[r].stack
    <3>3. Len(t) \in Nat /\ Len(t) >= 1 /\ Len(t) \in 1 .. Len(s) - 1 /\ Len(t) < Len(s)
          /\ Top(r)' = t[Len(t)] /\ t[Len(t)] = s[Len(t)]
      <4>1. Top(r)' = t[Len(t)]
        BY DEF Top
      <4>2. t \in Seq(Frame) /\ Len(t) = Len(s) - 1 /\ t # <<>>
            /\ \A i \in 1 .. Len(s) - 1 : t[i] = s[i]
        BY <3>2
      <4> HIDE DEF t
      <4>3. Len(t) >= 1
        BY <4>2
      <4> QED BY <2>2, <4>1, <4>2, <4>3
    <3>4. \A i \in 1 .. Len(t) : i \in 1 .. Len(s) /\ i < Len(s) /\ t[i] = s[i]
      BY <2>2, <3>2
    <3>5. Top(r)'.st = "page" /\ Top(r)'.deleted
      <4>1. Len(t) \in 1 .. Len(s) /\ Len(t) < Len(s)
        BY <3>3, <3>4
      <4>2. s[Len(t)].st = "page" /\ s[Len(t)].deleted
        BY <2>2, <4>1, CallAt
      <4> QED BY <3>3, <4>2
    <3>6. Kinds(r)' /\ Sighted(r)'
      BY <2>1, <2>2, <3>2, <3>5 DEF Kinds, Sighted
    <3>7. OnTheWayOut(r)'
      <4>1. Present' \subseteq Present /\ p \notin Present'
        <5>1. \A q \in Requests : job'[q].put = job[q].put
          BY <3>2
        <5>2. \A q \in Requests : job[q].put \cap live = {}
          BY DEF CascadeInv, InHand
        <5>3. p \notin new
          BY <1>2, <2>2 DEF TypeOK, p
        <5> QED BY <1>2, <2>1, <5>1, <5>2, <5>3 DEF Present, Puts, p
      <4> QED BY <2>2, <3>2, <3>5, <4>1 DEF OnTheWayOut
    <3>8. Stacked(r)'
      <4>1. OnStack(r)' \subseteq job'[r].seen
        BY <2>2, <3>2
      <4>2. Len(t) <= Cardinality(job'[r].seen)
        <5>1. Len(s) <= Cardinality(job[r].seen)
          BY <2>2 DEF Stacked
        <5>2. IsFiniteSet(job[r].seen)
          BY <2>2, FS_Subset DEF TypeOK, Job
        <5>3. Cardinality(job[r].seen) \in Nat
          BY <5>2, FS_CardinalityType
        <5> QED BY <2>2, <3>2, <3>3, <5>1, <5>3
      <4>3. ASSUME NEW i \in 1 .. Len(t)
            PROVE  /\ t[i].page \subseteq kids[t[i].rec]
                   /\ t[i].st = "delete" => ~t[i].deleted
                   /\ i < Len(t) => t[i].st = "page" /\ t[i].deleted
                   /\ \A k \in i .. Len(t) : t[k].rec \in Down(kids, {t[i].rec})
        <5>1. /\ s[i].page \subseteq kids[s[i].rec] /\ s[i].st = "page" /\ s[i].deleted
              /\ \A k \in i .. Len(s) : s[k].rec \in Down(kids, {s[i].rec})
          BY <2>2, <3>4, CallAt
        <5>2. \A k \in i .. Len(t) : k \in i .. Len(s) /\ k \in 1 .. Len(t)
          BY <2>2, <3>3
        <5>3. \A k \in i .. Len(t) : t[k].rec \in Down(kids, {s[i].rec})
          BY <3>4, <5>1, <5>2
        <5>4. t[i] = s[i]
          BY <3>4
        <5> HIDE DEF t
        <5> QED BY <5>1, <5>3, <5>4
      <4> HIDE DEF t
      <4>4. job'[r].stack = t
        BY DEF t
      <4> QED BY <2>1, <4>1, <4>2, <4>3, <4>4, StackedNext
    <3>9. Outliving'
      <4>1. \A q \in Requests : job'[q].put = job[q].put
        BY <3>2
      <4> QED BY <1>2, <2>1, <2>2, <2>4, <3>2, <4>1, DeleteOutlives DEF p
    <3> QED BY <2>1, <2>2, <2>5, <3>2, <3>6, <3>7, <3>8, <3>9, StepOf
  <2> QED BY <2>6, <2>7
<1> QED BY <1>1, <1>2

LEMMA BeginInsertKeeps ==
  ASSUME CascadeInv, NEW r \in Requests, NEW x \in Records, BeginInsert(r, x)
  PROVE  CascadeInv'
<1> DEFINE j == [Idle EXCEPT !.op = "insert", !.put = {x}]
<1>1. /\ TypeOK /\ Kinds(r) /\ Outliving /\ job[r].put = {} /\ job[r].stack = <<>> /\ x \in new
      /\ \A q \in Requests : job[q].put \cap new = {}
  BY DEF CascadeInv, Kinds, BeginInsert, InHand
<1>2. j \in Job /\ j.op = "insert" /\ j.stack = <<>> /\ j.seen = {} /\ j.put = {x}
  <2>1. <<>> \in Seq(Frame)
    OBVIOUS
  <2> QED BY <2>1 DEF Idle, Job
<1> HIDE DEF j
<1>3. /\ job' = [job EXCEPT ![r] = j]
      /\ kids' = kids /\ live' = live /\ new' = new \ {x} /\ late' = late /\ left' = left
  BY DEF BeginInsert, j
<1>4. /\ job' \in [Requests -> Job] /\ job'[r] = j
      /\ \A q \in Requests : q # r => job'[q] = job[q]
  BY <1>1, <1>2, <1>3 DEF TypeOK
<1>5. OnStack(r)' = {} /\ OnStack(r) = {} /\ Lost(r) = {}
  BY <1>1, <1>2, <1>4 DEF OnStack, Lost
<1>6. Stacked(r)'
  <2>1. job'[r].stack = <<>> /\ job'[r].seen = {} /\ Len(<<>>) = 0
    BY <1>2, <1>4
  <2>2. Len(<<>>) <= Cardinality(job'[r].seen)
    BY <2>1, FS_EmptySet
  <2>3. 1 .. Len(<<>>) = {}
    OBVIOUS
  <2> QED BY <1>3, <1>5, <2>1, <2>2, <2>3, StackedNext
<1>7. Kinds(r)' /\ OnTheWayOut(r)' /\ Sighted(r)'
  BY <1>2, <1>4, <1>5 DEF Kinds, OnTheWayOut, Sighted, Calls
<1>8. Gone' \subseteq Gone /\ Gone \subseteq Gone'
  <2>1. \A q \in Requests : q # r => job'[q].put = job[q].put
    BY <1>4
  <2>2. job'[r].put = {x}
    BY <1>2, <1>4
  <2> QED BY <1>1, <1>3, <2>1, <2>2 DEF Gone
<1>9. Outliving'
  BY <1>1, <1>3, <1>4, <1>5, <1>8, SameOutlive
<1>10. /\ live' \subseteq Records /\ new' \subseteq Records /\ live' \cap new' = {}
       /\ late' \in [Records -> SUBSET Records] /\ left' \subseteq Records
       /\ live' \cup new' \subseteq live \cup new \cup job[r].put
       /\ job'[r].put \subseteq job[r].put \cup new /\ job'[r].put \cap (live' \cup new') = {}
  BY <1>1, <1>2, <1>3, <1>4 DEF TypeOK
<1> QED BY <1>3, <1>4, <1>6, <1>7, <1>9, <1>10, StepOf

\* A record is created: those of its parents that are gone will not look for it.
LEMMA InsertKeeps ==
  ASSUME CascadeInv, NEW r \in Requests, Insert(r)
  PROVE  CascadeInv'
<1>1. /\ TypeOK /\ Kinds(r) /\ Outliving /\ job[r].stack = <<>> /\ job[r] \in Job
      /\ job[r].put \subseteq Records /\ job[r].put \cap (live \cup new) = {}
      /\ late \in [Records -> SUBSET Records]
  BY DEF CascadeInv, Kinds, Insert, InHand, TypeOK, Job
<1>2. /\ job' = [job EXCEPT ![r] = Idle]
      /\ kids' = kids /\ live' = live \cup job[r].put /\ new' = new /\ left' = left
      /\ late' = [x \in Records |-> IF x \in job[r].put THEN late[x] \cup Unaware(x) ELSE late[x]]
  BY DEF Insert, Done
<1>3. Idle \in Job /\ Idle.put = {}
  BY DEF Idle, Job
<1>4. /\ job' \in [Requests -> Job] /\ job'[r] = Idle
      /\ \A q \in Requests : q # r => job'[q] = job[q]
  BY <1>1, <1>2, <1>3 DEF TypeOK
<1>5. Kinds(r)' /\ Stacked(r)' /\ OnTheWayOut(r)' /\ Sighted(r)'
  BY <1>4, RestsNext
<1>6. /\ late' \in [Records -> SUBSET Records]
      /\ \A x \in Records : late[x] \subseteq late'[x]
      /\ \A x \in job[r].put : Unaware(x) \subseteq late'[x]
  <2>1. \A x \in Records : Unaware(x) \subseteq Records
    BY DEF Unaware, Parents
  <2> QED BY <1>1, <1>2, <2>1
<1>7. Gone' \subseteq Gone /\ Gone \subseteq Gone'
  <2>1. \A q \in Requests : q # r => job'[q].put = job[q].put
    BY <1>4
  <2>2. job'[r].put = {}
    BY <1>3, <1>4
  <2> QED BY <1>2, <2>1, <2>2 DEF Gone
<1>8. Outliving'
  <2>1. ASSUME NEW q \in Requests, NEW y \in Lost(q) PROVE y \in Lost(q)'
    <3>1. q # r
      BY <1>1, <2>1 DEF Lost, OnStack
    <3>2. OnStack(q)' = OnStack(q) /\ job'[q].seen = job[q].seen
      BY <1>4, <3>1 DEF OnStack
    <3> QED BY <1>2, <1>7, <2>1, <3>2 DEF Lost, Parents
  <2> SUFFICES ASSUME RingsFit, NEW y \in live', y \notin left, NEW p \in Records, y \in kids[p], p \in Gone
               PROVE  p \in late'[y] \/ \E q \in Requests : y \in Lost(q)'
    BY <1>2, <1>7 DEF Outliving, Parents
  <2>2. CASE y \in job[r].put
    <3>1. p \in Unaware(y)
      BY DEF Unaware, Parents
    <3> QED BY <1>6, <2>2, <3>1
  <2>3. CASE y \in live
    <3>1. p \in late[y] \/ \E q \in Requests : y \in Lost(q)
      BY <1>1, <2>3 DEF Outliving, Parents
    <3>2. y \in Records
      BY <1>1, <2>3 DEF TypeOK
    <3> QED BY <1>6, <2>1, <3>1, <3>2
  <2> QED BY <1>2, <2>2, <2>3
<1>9. /\ live' \subseteq Records /\ new' \subseteq Records /\ live' \cap new' = {}
      /\ left' \subseteq Records /\ live' \cup new' \subseteq live \cup new \cup job[r].put
      /\ job'[r].put = {}
      /\ \A y \in live' \ live : Unaware(y) \subseteq late'[y]
  BY <1>1, <1>2, <1>3, <1>4, <1>6 DEF TypeOK
<1> QED BY <1>2, <1>4, <1>5, <1>6, <1>8, <1>9, StepOf

LEMMA Unchanged ==
  ASSUME CascadeInv, UNCHANGED vars
  PROVE  CascadeInv'
<1>1. /\ kids' = kids /\ live' = live /\ new' = new /\ job' = job /\ late' = late
      /\ left' = left
  BY DEF vars
<1>2. ASSUME NEW r \in Requests
      PROVE  OnStack(r)' = OnStack(r) /\ Top(r)' = Top(r) /\ Lost(r)' = Lost(r)
  BY <1>1 DEF OnStack, Top, Lost, Parents, Gone
<1>3. Present' = Present /\ Gone' = Gone
  BY <1>1 DEF Present, Puts, Gone
<1>4. TypeOK'
  BY <1>1 DEF CascadeInv, TypeOK
<1>5. ASSUME NEW r \in Requests PROVE Kinds(r)' /\ InHand(r)' /\ Stacked(r)'
  BY <1>1, <1>2 DEF CascadeInv, Kinds, InHand, Stacked
<1>6. ASSUME NEW r \in Requests PROVE OnTheWayOut(r)' /\ Sighted(r)'
  BY <1>1, <1>2, <1>3 DEF CascadeInv, OnTheWayOut, Sighted, Calls
<1>7. Outliving'
  BY <1>1, <1>2, <1>3 DEF CascadeInv, Outliving, Parents
<1> QED BY <1>4, <1>5, <1>6, <1>7 DEF CascadeInv

LEMMA CascadeNext ==
  ASSUME CascadeInv, [Next]_vars
  PROVE  CascadeInv'
<1>1. ASSUME NEW r \in Requests, NEW x \in Records, Begin(r, x) \/ BeginInsert(r, x)
      PROVE  CascadeInv'
  BY <1>1, BeginKeeps, BeginInsertKeeps
<1>2. ASSUME NEW r \in Requests, Step(r) PROVE CascadeInv'
  BY <1>2, ReadKeeps, DescendKeeps, PageDoneKeeps, DeleteKeeps, InsertKeeps DEF Step
<1>3. ASSUME NEW r \in Requests, Break(r) PROVE CascadeInv'
  BY <1>3, AbortKeeps DEF Break
<1>4. CASE UNCHANGED vars
  BY <1>4, Unchanged
<1> QED BY <1>1, <1>2, <1>3, <1>4 DEF Next

LEMMA CascadeInit ==
  ASSUME Init
  PROVE  CascadeInv
<1>1. /\ live = Records \ new /\ new \subseteq Records /\ kids \in Shapes
      /\ job = [r \in Requests |-> Idle] /\ late = [x \in Records |-> {}] /\ left = {}
  BY DEF Init
<1>2. Idle \in Job /\ Idle.put = {} /\ Idle.stack = <<>> /\ Len(Idle.stack) = 0
  BY DEF Idle, Job
<1>3. Cardinality(Records) \in Nat
  BY FS_CardinalityType
<1>4. TypeOK
  BY <1>1, <1>2, <1>3 DEF TypeOK
<1>5. \A r \in Requests : job[r] = Idle
  BY <1>1
<1>6. Outliving
  <2>1. Gone = {}
    BY <1>1 DEF Gone
  <2> QED BY <2>1 DEF Outliving
<1> QED BY <1>4, <1>5, <1>6, AtRest DEF CascadeInv

LEMMA Outlived ==
  ASSUME RingsFit, CascadeInv
  PROVE  ChildrenGoFirst
BY DEF CascadeInv, Outliving, Lost, ChildrenGoFirst

----------------------------------------------------------------------------
(* What a cascade owes.                                                    *)

\* The children each record has in the tables.
Kin == [y \in Records |-> kids[y] \cap live]

\* What belonged to the record when its deletion began is not created again, and as long
\* as it is in the tables it hangs on what is on its way out or on what is spared.
Owing(r) ==
  /\ job[r].owed \cap (new \cup Puts) = {}
  /\ job[r].owed \cap live \subseteq Down(Kin, (OnStack(r) \cup Spared(r)) \cap live)

\* Down is least.
LEMMA DownLeast ==
  ASSUME NEW next, NEW X, NEW S \in SUBSET Records, X \subseteq S,
         \A y \in S : next[y] \subseteq S
  PROVE  Down(next, X) \subseteq S
BY DEF Down

LEMMA KinType ==
  ASSUME TypeOK
  PROVE  /\ Kin \in [Records -> SUBSET Records]
         /\ \A y \in Records : Kin[y] = kids[y] \cap live
         /\ \A x : Family(x) = Down(Kin, {x} \cap live)
BY DEF TypeOK, Kin, Family

LEMMA KinTypeNext ==
  ASSUME TypeOK'
  PROVE  /\ Kin' \in [Records -> SUBSET Records]
         /\ \A y \in Records : Kin'[y] = kids'[y] \cap live'
         /\ \A x : Family(x)' = Down(Kin', {x} \cap live')
BY DEF TypeOK, Kin, Family

\* What a request still owes after a step: nothing of what it hung on is forgotten, and
\* the children of what was deleted are on their way out or spared.
LEMMA OwedStill ==
  ASSUME TypeOK, TypeOK', NEW q \in Requests, Owing(q), kids' = kids,
         job'[q].owed = job[q].owed,
         live' \subseteq live \cup Puts, new' \cup Puts' \subseteq new \cup Puts,
         (OnStack(q) \cup Spared(q)) \cap live' \subseteq OnStack(q)' \cup Spared(q)',
         \A p \in live \ live' : kids[p] \cap live' \subseteq OnStack(q)' \cup Spared(q)'
  PROVE  Owing(q)'
<1> DEFINE B == (OnStack(q) \cup Spared(q)) \cap live
           C == (OnStack(q)' \cup Spared(q)') \cap live'
           S == Down(Kin', C) \cup (live \ live')
<1>1. C \in SUBSET Records /\ live \subseteq Records /\ live' \subseteq Records
  BY DEF TypeOK
<1>2. /\ Down(Kin', C) \subseteq Records /\ C \subseteq Down(Kin', C)
      /\ \A y \in Down(Kin', C) : Kin'[y] \subseteq Down(Kin', C)
  BY <1>1, KinTypeNext, DownHolds
<1>3. B \subseteq S
  BY <1>2
<1>4. ASSUME NEW y \in S, NEW z \in Kin[y] PROVE z \in S
  <2>1. y \in Records /\ z \in kids[y] /\ z \in live
    BY <1>1, <1>2, <1>4, KinType
  <2>2. CASE z \in live'
    <3>1. CASE y \in Down(Kin', C)
      BY <1>2, <2>1, <2>2, <3>1, KinTypeNext
    <3>2. CASE y \in live \ live'
      BY <1>2, <2>1, <2>2, <3>2
    <3> QED BY <3>1, <3>2
  <2>3. CASE z \notin live'
    BY <2>1, <2>3
  <2> QED BY <2>2, <2>3
<1>5. Down(Kin, B) \subseteq S
  <2>1. S \in SUBSET Records
    BY <1>1, <1>2
  <2> HIDE DEF S, B
  <2> QED BY <1>3, <1>4, <2>1, DownLeast
<1>6. job'[q].owed \cap (new' \cup Puts') = {}
  BY DEF Owing
<1>7. job'[q].owed \cap live' \subseteq Down(Kin', C)
  <2>1. job[q].owed \cap live' \subseteq live
    BY DEF Owing
  <2>2. job[q].owed \cap live \subseteq Down(Kin, B)
    BY DEF Owing
  <2> HIDE DEF B
  <2> QED BY <1>5, <2>1, <2>2
<1> QED BY <1>6, <1>7 DEF Owing

LEMMA LostStays ==
  ASSUME NEW q \in Requests, job'[q] = job[q], kids' = kids, Gone \subseteq Gone'
  PROVE  Lost(q) \subseteq Lost(q)' /\ OnStack(q)' = OnStack(q)
<1>1. OnStack(q)' = OnStack(q)
  BY DEF OnStack
<1> QED BY <1>1 DEF Lost, Parents

\* Who is spared by q stays so when r makes a step.
LEMMA SparedStay ==
  ASSUME TypeOK, NEW r \in Requests, NEW q \in Requests, kids' = kids,
         \A p \in Requests : p # r => job'[p] = job[p],
         \A x \in Records : late[x] \subseteq late'[x], left \subseteq left',
         Gone \subseteq Gone', Lost(r) \cap live' \subseteq Lost(r)' \cup left'
  PROVE  Spared(q) \cap live' \subseteq Spared(q)'
<1>1. \A p \in Requests : p # r => Lost(p) \subseteq Lost(p)'
  BY LostStays
<1> SUFFICES ASSUME NEW x \in Spared(q), x \in live' PROVE x \in Spared(q)'
  OBVIOUS
<1>2. CASE x \in Records /\ late[x] # {}
  BY <1>2 DEF Spared
<1>3. CASE x \in left
  BY <1>3 DEF Spared
<1>4. CASE x \in UNION {Lost(p) : p \in Requests \ {q}}
  <2>1. PICK p \in Requests \ {q} : x \in Lost(p)
    BY <1>4
  <2>2. x \in Lost(p)' \/ x \in left'
    BY <1>1, <2>1
  <2> QED BY <2>1, <2>2 DEF Spared
<1> QED BY <1>2, <1>3, <1>4 DEF Spared

\* A step of a cascade between its statements that change the tables.
Quiet(r) ==
  /\ kids' = kids /\ live' = live /\ new' = new /\ late' = late /\ left' = left
  /\ \A q \in Requests : q # r => job'[q] = job[q]
  /\ job'[r].put = job[r].put /\ job'[r].owed = job[r].owed
  /\ job[r].seen \subseteq job'[r].seen /\ OnStack(r) \subseteq OnStack(r)'

LEMMA QuietSteps ==
  ASSUME CascadeInv, NEW r \in Requests,
         (Read(r) /\ Top(r).rec \in live) \/ Descend(r) \/ PageDone(r)
  PROVE  Quiet(r)
<1>1. job[r].op = "delete"
  BY DEF Read, Descend, PageDone, Calls
<1>2. /\ TypeOK /\ Kinds(r) /\ Stacked(r) /\ Top(r) \in Frame
      /\ kids \in [Records -> SUBSET Records]
  BY <1>1, TopCall DEF CascadeInv, TypeOK
<1>3. ASSUME NEW f \in Frame, SetTop(r, f), f.rec = Top(r).rec,
             UNCHANGED <<kids, live, new, late, left>>
      PROVE  Quiet(r)
  BY <1>1, <1>2, <1>3, SetTopFacts DEF Quiet
<1>4. CASE Read(r) /\ Top(r).rec \in live
  <2>1. PICK page \in SUBSET Found(Top(r).rec) :
          SetTop(r, [Top(r) EXCEPT !.st = "page", !.page = page, !.deleted = FALSE])
    BY <1>4 DEF Read
  <2>2. UNCHANGED <<kids, live, new, late, left>>
    BY <1>4 DEF Read
  <2> DEFINE f == [Top(r) EXCEPT !.st = "page", !.page = page, !.deleted = FALSE]
  <2>3. Top(r).rec \in Records /\ page \subseteq Records
    BY <1>2 DEF Frame, Found
  <2>4. f \in Frame /\ f.rec = Top(r).rec
    BY <1>2, <2>3 DEF Frame
  <2>5. SetTop(r, f)
    BY <2>1
  <2> HIDE DEF f
  <2> QED BY <1>3, <2>2, <2>4, <2>5
<1>5. CASE Descend(r)
  <2>1. PICK y \in Unseen(r) :
          PushOn(r, [Top(r) EXCEPT !.page = @ \ {y}, !.deleted = TRUE], y)
    BY <1>5 DEF Descend, PushOn
  <2> DEFINE f == [Top(r) EXCEPT !.page = @ \ {y}, !.deleted = TRUE]
  <2>2. f \in Frame /\ f.rec = Top(r).rec /\ y \in Records
    BY <1>2 DEF Frame, Unseen
  <2>3. PushOn(r, f, y)
    BY <2>1
  <2> HIDE DEF f
  <2>4. kids' = kids /\ live' = live /\ new' = new /\ late' = late /\ left' = left
    BY <1>5 DEF Descend
  <2> QED BY <1>1, <1>2, <2>2, <2>3, <2>4, Push DEF Quiet
<1>6. CASE PageDone(r)
  <2> DEFINE f == [Top(r) EXCEPT !.st = AfterPage(Top(r)), !.page = {}]
  <2>1. SetTop(r, f) /\ UNCHANGED <<kids, live, new, late, left>>
    BY <1>6 DEF PageDone
  <2>2. f \in Frame /\ f.rec = Top(r).rec
    BY <1>2 DEF Frame, AfterPage
  <2> HIDE DEF f
  <2> QED BY <1>3, <2>1, <2>2
<1> QED BY <1>4, <1>5, <1>6

LEMMA QuietOwes ==
  ASSUME CascadeInv, CascadeInv', \A q \in Requests : Owing(q), NEW r \in Requests, Quiet(r),
         NEW q \in Requests
  PROVE  Owing(q)'
<1>1. \A p \in Requests : job'[p].put = job[p].put
  BY DEF Quiet
<1>2. Gone \subseteq Gone' /\ Puts' = Puts
  BY <1>1 DEF Quiet, Gone, Puts
<1>3. Lost(r) \subseteq Lost(r)'
  BY <1>2 DEF Quiet, Lost, Parents
<1>4. TypeOK /\ TypeOK' /\ Owing(q)
  BY DEF CascadeInv
<1>5. Spared(q) \cap live' \subseteq Spared(q)'
  BY <1>2, <1>3, <1>4, SparedStay DEF Quiet
<1>6. OnStack(q) \subseteq OnStack(q)' /\ job'[q].owed = job[q].owed
  BY DEF Quiet, OnStack
<1> QED BY <1>2, <1>4, <1>5, <1>6, OwedStill DEF Quiet

\* A request that is not at work owes nothing.
LEMMA OwesNothing ==
  ASSUME NEW q \in Requests, job'[q].owed = {}
  PROVE  Owing(q)'
BY DEF Owing

LEMMA BeginOwes ==
  ASSUME CascadeInv, CascadeInv', \A q \in Requests : Owing(q), NEW r \in Requests,
         NEW x \in Records, Begin(r, x), NEW q \in Requests
  PROVE  Owing(q)'
<1> DEFINE j == [Idle EXCEPT !.op = "delete", !.stack = <<Call(x)>>, !.seen = {x},
                             !.owed = Family(x)]
<1>1. /\ TypeOK /\ TypeOK' /\ Owing(q) /\ Kinds(r) /\ job[r].put = {} /\ job[r].stack = <<>>
  BY DEF CascadeInv, Kinds, Begin
<1>2. j.stack = <<Call(x)>> /\ j.put = {} /\ j.owed = Family(x)
  BY DEF Idle
<1> HIDE DEF j
<1>3. /\ job' = [job EXCEPT ![r] = j]
      /\ kids' = kids /\ live' = live /\ new' = new /\ late' = late /\ left' = left
  BY DEF Begin, j
<1>4. job'[r] = j /\ \A p \in Requests : p # r => job'[p] = job[p]
  BY <1>1, <1>3 DEF TypeOK
<1>5. \A p \in Requests : job'[p].put = job[p].put
  BY <1>1, <1>2, <1>4
<1>6. Gone \subseteq Gone' /\ Puts' = Puts
  BY <1>3, <1>5 DEF Gone, Puts
<1>7. CASE q # r
  <2>1. Lost(r) = {}
    BY <1>1 DEF Lost, OnStack
  <2>2. Spared(q) \cap live' \subseteq Spared(q)'
    BY <1>1, <1>3, <1>4, <1>6, <2>1, SparedStay
  <2>3. OnStack(q)' = OnStack(q) /\ job'[q].owed = job[q].owed
    BY <1>4, <1>7 DEF OnStack
  <2> QED BY <1>1, <1>3, <1>6, <2>2, <2>3, OwedStill
<1>8. CASE q = r
  <2>1. job'[r].owed = Family(x)
    BY <1>2, <1>4
  <2>2. Kin' = Kin /\ Family(x) = Down(Kin, {x} \cap live)
    BY <1>1, <1>3, KinType DEF Kin
  <2>3. Family(x) \subseteq live
    <3>1. \A y \in live : Kin[y] \subseteq live
      BY <1>1, KinType DEF TypeOK
    <3>2. live \in SUBSET Records /\ {x} \cap live \subseteq live
      BY <1>1 DEF TypeOK
    <3> QED BY <2>2, <3>1, <3>2, DownLeast
  <2>4. live \cap (new \cup Puts) = {}
    BY <1>1 DEF CascadeInv, TypeOK, InHand, Puts
  <2>5. x \in OnStack(r)'
    <3>1. job'[r].stack = <<Call(x)>> /\ Len(<<Call(x)>>) = 1 /\ <<Call(x)>>[1].rec = x
      BY <1>2, <1>4 DEF Call
    <3> QED BY <3>1 DEF OnStack
  <2>6. Family(x) \subseteq Down(Kin, (OnStack(r)' \cup Spared(r)') \cap live)
    <3> DEFINE C == (OnStack(r)' \cup Spared(r)') \cap live
    <3>1. C \in SUBSET Records /\ {x} \cap live \subseteq C
      BY <1>1, <2>5 DEF TypeOK
    <3> HIDE DEF C
    <3>2. /\ Down(Kin, C) \in SUBSET Records /\ C \subseteq Down(Kin, C)
          /\ \A y \in Down(Kin, C) : Kin[y] \subseteq Down(Kin, C)
      BY <1>1, <3>1, KinType, DownHolds
    <3>3. Down(Kin, {x} \cap live) \subseteq Down(Kin, C)
      BY <3>1, <3>2, DownLeast
    <3> QED BY <2>2, <3>3 DEF C
  <2> QED BY <1>3, <1>6, <1>8, <2>1, <2>2, <2>3, <2>4, <2>6 DEF Owing
<1> QED BY <1>7, <1>8

LEMMA AbortOwes ==
  ASSUME CascadeInv, CascadeInv', \A q \in Requests : Owing(q), NEW r \in Requests,
         job[r].op = "delete", Abort(r), NEW q \in Requests
  PROVE  Owing(q)'
<1>1. TypeOK /\ TypeOK' /\ Owing(q) /\ Kinds(r) /\ job[r].put = {}
  BY DEF CascadeInv, Kinds
<1>2. job' = [job EXCEPT ![r] = Idle] /\ left' = left \cup (Lost(r) \cap live)
      /\ kids' = kids /\ live' = live /\ new' = new /\ late' = late
  BY DEF Abort, Done
<1>3. job'[r] = Idle /\ \A p \in Requests : p # r => job'[p] = job[p]
  BY <1>1, <1>2 DEF TypeOK
<1>4. Idle.owed = {} /\ Idle.put = {}
  BY DEF Idle
<1>5. CASE q = r
  BY <1>3, <1>4, <1>5, OwesNothing
<1>6. CASE q # r
  <2>1. \A p \in Requests : job'[p].put = job[p].put
    BY <1>1, <1>3, <1>4
  <2>2. Gone \subseteq Gone' /\ Puts' = Puts
    BY <1>2, <2>1 DEF Gone, Puts
  <2>3. Spared(q) \cap live' \subseteq Spared(q)'
    BY <1>1, <1>2, <1>3, <2>2, SparedStay
  <2>4. OnStack(q)' = OnStack(q) /\ job'[q].owed = job[q].owed
    BY <1>3, <1>6 DEF OnStack
  <2> QED BY <1>1, <1>2, <2>2, <2>3, <2>4, OwedStill
<1> QED BY <1>5, <1>6

\* The deletion of a record, for the request that makes it.
LEMMA DeleteDoes ==
  ASSUME CascadeInv, NEW r \in Requests, Delete(r), Top(r).rec \in live
  PROVE  /\ kids' = kids /\ live' = live \ {Top(r).rec} /\ new' = new /\ late' = late
         /\ left' = left
         /\ \A q \in Requests : q # r => job'[q] = job[q]
         /\ \A q \in Requests : job'[q].put = job[q].put
         /\ \/ Below(r) = <<>> /\ job'[r] = Idle /\ OnStack(r) = {Top(r).rec}
            \/ /\ Below(r) # <<>> /\ job'[r].op = "delete"
               /\ job'[r].owed = job[r].owed /\ job'[r].seen = job[r].seen
               /\ OnStack(r) \ {Top(r).rec} \subseteq OnStack(r)'
         /\ Top(r).rec \in OnStack(r) /\ OnStack(r) \subseteq job[r].seen
         /\ RingsFit => \A y \in kids[Top(r).rec] \cap live :
                          Top(r).rec \in late[y] \/ y \in OnStack(r)
<1>1. /\ kids' = kids /\ live' = live \ {Top(r).rec} /\ new' = new /\ late' = late
      /\ left' = left /\ job[r].op = "delete" /\ Top(r).st = "delete"
  BY Zenon DEF Delete, Calls
<1>2. /\ TypeOK /\ Kinds(r) /\ Stacked(r) /\ Sighted(r) /\ Top(r) \in Frame
      /\ job[r].stack \in Seq(Frame) /\ job[r].stack # <<>> /\ Top(r).rec \in OnStack(r)
      /\ Len(job[r].stack) \in 1 .. Len(job[r].stack) /\ job[r].put = {}
      /\ Top(r) = job[r].stack[Len(job[r].stack)]
  BY <1>1, TopCall DEF CascadeInv
<1>3. ~Top(r).deleted /\ OnStack(r) \subseteq job[r].seen
  BY <1>1, <1>2, CallAt DEF Stacked
<1>4. RingsFit => \A y \in kids[Top(r).rec] \cap live :
                    Top(r).rec \in late[y] \/ y \in OnStack(r)
  BY <1>1, <1>2, <1>3 DEF Sighted
<1>5. CASE Below(r) = <<>>
  <2>1. job' = [job EXCEPT ![r] = Idle]
    BY <1>5 DEF Delete, Done
  <2>2. job'[r] = Idle /\ Idle.put = {} /\ \A q \in Requests : q # r => job'[q] = job[q]
    BY <1>2, <2>1 DEF TypeOK, Idle
  <2>3. Len(job[r].stack) = 1
    BY <1>2, <1>5, StackOps DEF Below
  <2>4. OnStack(r) = {Top(r).rec}
    BY <1>2, <2>3 DEF OnStack
  <2> QED BY <1>1, <1>2, <1>3, <1>4, <1>5, <2>2, <2>4
<1>6. CASE Below(r) # <<>>
  <2>1. job' = [job EXCEPT ![r].stack = Below(r)]
    BY <1>6 DEF Delete
  <2>2. /\ job'[r].put = job[r].put /\ job'[r].owed = job[r].owed /\ job'[r].seen = job[r].seen
        /\ job'[r].op = "delete" /\ \A q \in Requests : q # r => job'[q] = job[q]
        /\ OnStack(r) \ {Top(r).rec} \subseteq OnStack(r)'
    BY <1>1, <1>2, <1>6, <2>1, Pop
  <2> QED BY <1>1, <1>2, <1>3, <1>4, <1>6, <2>2
<1> QED BY <1>5, <1>6

LEMMA DeleteOwes ==
  ASSUME RingsFit, CascadeInv, CascadeInv', \A q \in Requests : Owing(q), NEW r \in Requests,
         Delete(r), Top(r).rec \in live, NEW q \in Requests
  PROVE  Owing(q)'
<1> DEFINE p == Top(r).rec
<1>1. /\ kids' = kids /\ live' = live \ {p} /\ new' = new /\ late' = late /\ left' = left
      /\ \A z \in Requests : z # r => job'[z] = job[z]
      /\ \A z \in Requests : job'[z].put = job[z].put
      /\ p \in OnStack(r) /\ OnStack(r) \subseteq job[r].seen
      /\ \A y \in kids[p] \cap live : p \in late[y] \/ y \in OnStack(r)
  BY DeleteDoes
<1>2. \/ job'[r] = Idle /\ OnStack(r) = {p}
      \/ /\ job'[r].owed = job[r].owed /\ job'[r].seen = job[r].seen
         /\ OnStack(r) \ {p} \subseteq OnStack(r)'
  BY DeleteDoes
<1>3. TypeOK /\ TypeOK' /\ Owing(q) /\ p \in live /\ p \in Records
  BY DEF CascadeInv, TypeOK
<1> HIDE DEF p
<1>4. Gone \subseteq Gone' /\ Puts' = Puts /\ p \in Gone'
  <2>1. Puts \cap live = {} /\ live \cap new = {}
    BY <1>3 DEF CascadeInv, InHand, Puts, TypeOK
  <2>2. Puts' = Puts
    BY <1>1 DEF Puts
  <2>3. Gone = Records \ (live \cup new \cup Puts) /\ Gone' = Records \ (live' \cup new' \cup Puts')
    BY DEF Gone, Puts
  <2> QED BY <1>1, <1>3, <2>1, <2>2, <2>3
<1>5. ASSUME NEW y \in OnStack(r) \ {p}
      PROVE  /\ y \in OnStack(r)' /\ job'[r].seen = job[r].seen
             /\ y \in Lost(r) \/ y \in kids[p] => y \in Lost(r)'
  <2>1. y \in OnStack(r)' /\ job'[r].seen = job[r].seen
    BY <1>2
  <2> QED BY <1>1, <1>3, <1>4, <2>1 DEF Lost, Parents
<1>6. Lost(r) \cap live' \subseteq Lost(r)'
  <2>1. Lost(r) \subseteq OnStack(r)
    BY DEF Lost
  <2> QED BY <1>1, <1>5, <2>1
<1>7. Spared(q) \cap live' \subseteq Spared(q)'
  BY <1>1, <1>3, <1>4, <1>6, SparedStay
<1>8. live' \subseteq Records
  BY <1>3 DEF TypeOK
<1>9. ASSUME NEW y \in kids[p] \cap live' PROVE y \in Spared(q)' \/ y \in OnStack(r)'
  BY <1>1, <1>5, <1>8 DEF Spared
<1>10. CASE q # r
  <2>1. OnStack(q)' = OnStack(q) /\ job'[q].owed = job[q].owed
    BY <1>1, <1>10 DEF OnStack
  <2>2. Lost(r)' \subseteq Spared(q)'
    BY <1>10 DEF Spared
  <2>3. kids[p] \cap live' \subseteq Spared(q)'
    <3> SUFFICES ASSUME NEW y \in kids[p] \cap live' PROVE y \in Spared(q)'
      OBVIOUS
    <3>1. CASE p \in late[y]
      BY <1>1, <1>8, <3>1 DEF Spared
    <3>2. CASE y \in OnStack(r)
      BY <1>1, <1>5, <2>2, <3>2
    <3> QED BY <1>1, <3>1, <3>2
  <2> QED BY <1>1, <1>3, <1>4, <1>7, <2>1, <2>3, OwedStill
<1>11. CASE q = r
  <2>1. CASE job'[r] = Idle
    <3>1. Idle.owed = {}
      BY DEF Idle
    <3> QED BY <1>11, <2>1, <3>1, OwesNothing
  <2>2. CASE job'[r].owed = job[r].owed
    <3>1. OnStack(r) \cap live' \subseteq OnStack(r)'
      BY <1>1, <1>5
    <3> QED BY <1>1, <1>3, <1>4, <1>7, <1>9, <1>11, <2>2, <3>1, OwedStill
  <2> QED BY <1>2, <2>1, <2>2
<1> QED BY <1>10, <1>11

LEMMA InsertsOwe ==
  ASSUME CascadeInv, CascadeInv', \A q \in Requests : Owing(q), NEW r \in Requests,
         Insert(r) \/ \E x \in Records : BeginInsert(r, x), NEW q \in Requests
  PROVE  Owing(q)'
<1>1. TypeOK /\ TypeOK' /\ Owing(q) /\ Kinds(r) /\ job[r].stack = <<>>
      /\ late \in [Records -> SUBSET Records]
  BY DEF CascadeInv, Kinds, Insert, BeginInsert, TypeOK
<1>3. Idle.owed = {} /\ Idle.put = {}
  BY DEF Idle
<1>4. CASE Insert(r)
  <2>1. /\ job' = [job EXCEPT ![r] = Idle]
        /\ kids' = kids /\ live' = live \cup job[r].put /\ new' = new /\ left' = left
        /\ late' = [y \in Records |-> IF y \in job[r].put THEN late[y] \cup Unaware(y)
                                      ELSE late[y]]
    BY <1>4 DEF Insert, Done
  <2>2. job'[r] = Idle /\ \A z \in Requests : z # r => job'[z] = job[z]
    BY <1>1, <2>1 DEF TypeOK
  <2>3. \A y \in Records : late[y] \subseteq late'[y]
    BY <1>1, <2>1
  <2>4. \A z \in Requests : job'[z].put \subseteq job[z].put
    BY <1>3, <2>2
  <2>5. Puts' \subseteq Puts /\ Puts \subseteq Puts' \cup job[r].put /\ job[r].put \subseteq Puts
    BY <2>2, <2>4 DEF Puts
  <2>6. Gone \subseteq Gone'
    <3>1. Gone = Records \ (live \cup new \cup Puts) /\ Gone' = Records \ (live' \cup new' \cup Puts')
      BY DEF Gone, Puts
    <3> QED BY <2>1, <2>5, <3>1
  <2>7. Lost(r) = {} /\ OnStack(r) = {}
    BY <1>1 DEF Lost, OnStack
  <2>8. Spared(q) \cap live' \subseteq Spared(q)'
    BY <1>1, <2>1, <2>2, <2>3, <2>6, <2>7, SparedStay
  <2>9. CASE q = r
    BY <1>3, <2>2, <2>9, OwesNothing
  <2>10. CASE q # r
    <3>1. OnStack(q)' = OnStack(q) /\ job'[q].owed = job[q].owed
      BY <2>2, <2>10 DEF OnStack
    <3> QED BY <1>1, <2>1, <2>5, <2>8, <3>1, OwedStill
  <2> QED BY <2>9, <2>10
<1>5. ASSUME NEW x \in Records, BeginInsert(r, x) PROVE Owing(q)'
  <2> DEFINE i == [Idle EXCEPT !.op = "insert", !.put = {x}]
  <2>1. /\ job' = [job EXCEPT ![r] = i]
        /\ kids' = kids /\ live' = live /\ new' = new \ {x} /\ late' = late /\ left' = left
        /\ x \in new /\ job[r].put = {}
    BY <1>1, <1>5 DEF BeginInsert, Kinds
  <2>2. i.owed = {} /\ i.put = {x}
    BY DEF Idle
  <2> HIDE DEF i
  <2>3. job'[r] = i /\ \A z \in Requests : z # r => job'[z] = job[z]
    BY <1>1, <2>1 DEF TypeOK
  <2>4. Puts' = Puts \cup {x}
    BY <2>1, <2>2, <2>3 DEF Puts
  <2>5. Gone \subseteq Gone'
    <3>1. Gone = Records \ (live \cup new \cup Puts) /\ Gone' = Records \ (live' \cup new' \cup Puts')
      BY DEF Gone, Puts
    <3> QED BY <2>1, <2>4, <3>1
  <2>6. Lost(r) = {}
    BY <1>1 DEF Lost, OnStack
  <2>7. Spared(q) \cap live' \subseteq Spared(q)'
    BY <1>1, <2>1, <2>3, <2>5, <2>6, SparedStay
  <2>8. CASE q = r
    BY <2>2, <2>3, <2>8, OwesNothing
  <2>9. CASE q # r
    <3>1. OnStack(q)' = OnStack(q) /\ job'[q].owed = job[q].owed
      BY <2>3, <2>9 DEF OnStack
    <3> QED BY <1>1, <2>1, <2>4, <2>7, <3>1, OwedStill
  <2> QED BY <2>8, <2>9
<1> QED BY <1>4, <1>5

LEMMA OwingNext ==
  ASSUME RingsFit, CascadeInv, CascadeInv', \A q \in Requests : Owing(q), [Next]_vars
  PROVE  \A q \in Requests : Owing(q)'
<1> SUFFICES ASSUME NEW q \in Requests PROVE Owing(q)'
  OBVIOUS
<1>1. ASSUME NEW r \in Requests, NEW x \in Records, Begin(r, x) \/ BeginInsert(r, x)
      PROVE  Owing(q)'
  BY <1>1, BeginOwes, InsertsOwe
<1>2. ASSUME NEW r \in Requests, Step(r) PROVE Owing(q)'
  <2>1. CASE (Read(r) /\ Top(r).rec \in live) \/ Descend(r) \/ PageDone(r)
    BY <2>1, QuietSteps, QuietOwes
  <2>2. CASE Read(r) /\ Top(r).rec \notin live
    BY <2>2, AbortOwes DEF Read, Calls
  <2>3. CASE Delete(r) /\ Top(r).rec \in live
    BY <2>3, DeleteOwes
  <2>4. CASE Delete(r) /\ Top(r).rec \notin live
    BY <2>4, AbortOwes DEF Delete, Calls
  <2>5. CASE Insert(r)
    BY <2>5, InsertsOwe
  <2> QED BY <1>2, <2>1, <2>2, <2>3, <2>4, <2>5 DEF Step
<1>3. ASSUME NEW r \in Requests, Break(r) PROVE Owing(q)'
  BY <1>3, AbortOwes DEF Break
<1>4. CASE UNCHANGED vars
  <2>1. /\ kids' = kids /\ live' = live /\ new' = new /\ job' = job /\ late' = late
        /\ left' = left
    BY <1>4 DEF vars
  <2>2. \A p \in Requests : OnStack(p)' = OnStack(p) /\ Lost(p)' = Lost(p)
    BY <2>1 DEF OnStack, Lost, Parents, Gone
  <2>3. Puts' = Puts /\ Kin' = Kin /\ Spared(q)' = Spared(q)
    BY <2>1, <2>2 DEF Puts, Kin, Spared
  <2> QED BY <2>1, <2>2, <2>3 DEF Owing
<1> QED BY <1>1, <1>2, <1>3, <1>4 DEF Next

\* The deletion that was asked for succeeds: what it owes hangs on what is spared.
LEMMA SuccessPays ==
  ASSUME RingsFit, CascadeInv, CascadeInv', NEW r \in Requests, Owing(r), Delete(r),
         Top(r).rec \in live, Below(r) = <<>>
  PROVE  job[r].owed \cap live' \subseteq UNION {Family(x)' : x \in Spared(r)}
<1> DEFINE p == Top(r).rec
           B == (OnStack(r) \cup Spared(r)) \cap live
           U == UNION {Family(x)' : x \in Spared(r)}
           S == {p} \cup U
<1>1. /\ kids' = kids /\ live' = live \ {p} /\ OnStack(r) = {p} /\ late' = late
      /\ \A y \in kids[p] \cap live : p \in late[y] \/ y \in OnStack(r)
  BY DeleteDoes
<1>2. TypeOK /\ TypeOK' /\ p \in live /\ live \subseteq Records
  BY DEF CascadeInv, TypeOK
<1> HIDE DEF p
<1>3. ASSUME NEW x \in Spared(r)
      PROVE  /\ Family(x)' \subseteq Records /\ {x} \cap live' \subseteq Family(x)'
             /\ \A y \in Family(x)' : kids[y] \cap live' \subseteq Family(x)'
  <2>1. Family(x)' = Down(Kin', {x} \cap live') /\ {x} \cap live' \in SUBSET Records
    BY <1>1, <1>2, KinTypeNext
  <2>2. /\ Family(x)' \subseteq Records /\ {x} \cap live' \subseteq Family(x)'
        /\ \A y \in Family(x)' : Kin'[y] \subseteq Family(x)'
    BY <1>2, <2>1, KinTypeNext, DownHolds
  <2> QED BY <1>1, <1>2, <2>2, KinTypeNext
<1>4. S \in SUBSET Records
  BY <1>2, <1>3
<1>5. B \subseteq S
  BY <1>1, <1>3
<1>6. ASSUME NEW y \in S, NEW z \in Kin[y] PROVE z \in S
  <2>1. y \in Records /\ z \in kids[y] /\ z \in live /\ (z = p \/ z \in live')
    BY <1>1, <1>2, <1>4, <1>6, KinType
  <2>2. CASE y = p /\ z \in live'
    <3>1. z \in Spared(r)
      BY <1>1, <1>2, <2>1, <2>2 DEF Spared
    <3> QED BY <1>3, <2>2, <3>1
  <2>3. CASE y # p /\ z \in live'
    <3>1. PICK x \in Spared(r) : y \in Family(x)'
      BY <1>6, <2>3
    <3> QED BY <1>3, <2>1, <2>3, <3>1
  <2> QED BY <2>1, <2>2, <2>3
<1>7. Down(Kin, B) \subseteq S
  <2> HIDE DEF S, B
  <2> QED BY <1>4, <1>5, <1>6, DownLeast
<1>8. job[r].owed \cap live \subseteq Down(Kin, B)
  BY DEF Owing
<1> HIDE DEF B, U
<1> QED BY <1>1, <1>7, <1>8 DEF U

LEMMA FamilyStep ==
  ASSUME RingsFit, CascadeInv, CascadeInv', \A q \in Requests : Owing(q), [Next]_vars,
         NEW r \in Requests, Succeeds(r), job'[r] = Idle, live' # live
  PROVE  job[r].owed \cap live' \subseteq UNION {Family(x)' : x \in Spared(r)}
<1>1. job[r].op = "delete" /\ Idle.op = "idle" /\ job'[r] # job[r] /\ TypeOK
  BY DEF Succeeds, Calls, Idle, CascadeInv
<1>2. ASSUME NEW q \in Requests, NEW x \in Records, Begin(q, x) \/ BeginInsert(q, x)
      PROVE  FALSE
  BY <1>2 DEF Begin, BeginInsert
<1>3. ASSUME NEW q \in Requests, Break(q) PROVE FALSE
  BY <1>3 DEF Break, Abort
<1>4. PICK q \in Requests : Step(q)
  BY <1>2, <1>3 DEF Next, vars
<1>5. live' # live => (Delete(q) /\ Top(q).rec \in live) \/ Insert(q)
  <2>1. CASE Read(q)
    BY <2>1, Zenon DEF Read, Abort
  <2>2. CASE Descend(q) \/ PageDone(q)
    BY <2>2, Zenon DEF Descend, PageDone
  <2>3. CASE Delete(q)
    BY <2>3 DEF Delete, Abort
  <2> QED BY <1>4, <2>1, <2>2, <2>3 DEF Step
<1>6. CASE Delete(q) /\ Top(q).rec \in live
  <2>1. q = r
    BY <1>1, <1>6, DeleteDoes
  <2> QED BY <1>6, <2>1, SuccessPays DEF Succeeds
<1>7. CASE Insert(q)
  BY <1>1, <1>7 DEF Insert, Done, TypeOK
<1> QED BY <1>5, <1>6, <1>7

----------------------------------------------------------------------------
(* The theorems.                                                           *)

\* Whatever the requests do and in which order, the stack of a cascade never holds a
\* record twice: its calls are at most as many as there are records (related.go
\* cascadeDelete, the records already on their way out).
THEOREM Typing == Spec => []TypeOK
<1>1. CascadeInv => TypeOK
  BY DEF CascadeInv
<1>2. CascadeInv /\ [Next]_vars => CascadeInv'
  BY CascadeNext
<1> QED BY <1>1, <1>2, CascadeInit, PTL DEF Spec

\* The children go first, for any number of requests that delete and create related
\* records at once and any relationship whose rings fit on a page: a record outlives a
\* parent only when it is on its way out, was created behind the back of that deletion or
\* left by a cascade that failed (service.go:498-499).
THEOREM ChildrenFirst ==
  ASSUME RingsFit
  PROVE  Spec => []ChildrenGoFirst
<1>1. CascadeInv => ChildrenGoFirst
  BY Outlived
<1>2. CascadeInv /\ [Next]_vars => CascadeInv'
  BY CascadeNext
<1> QED BY <1>1, <1>2, CascadeInit, PTL DEF Spec

\* A cascade takes the whole family, for any number of requests that delete and create
\* related records at once and any relationship whose rings fit on a page: what belonged
\* to the record when its deletion began and is there when the deletion has succeeded hangs
\* on a record that was created behind the back of a deletion, left by a cascade that
\* failed, or is on the way out of another (service.go:475-477).
THEOREM WholeFamily ==
  ASSUME RingsFit
  PROVE  Spec => FamilyGoesToo
<1> DEFINE Inv == CascadeInv /\ \A q \in Requests : Owing(q)
<1>1. Init => Inv
  <2> SUFFICES ASSUME Init PROVE Inv
    OBVIOUS
  <2>1. \A q \in Requests : job[q].owed = {}
    BY DEF Init, Idle
  <2> QED BY <2>1, CascadeInit DEF Owing
<1>2. Inv /\ [Next]_vars => Inv'
  BY CascadeNext, OwingNext
<1>3. Inv /\ Inv' /\ [Next]_vars =>
        [\A r \in Requests : Succeeds(r) /\ job'[r] = Idle /\ live' # live
           => job[r].owed \cap live' \subseteq UNION {Family(x)' : x \in Spared(r)}]_vars
  BY FamilyStep
<1> QED BY <1>1, <1>2, <1>3, PTL DEF Spec, FamilyGoesToo
=============================================================================
