---------------------------- MODULE RealtimeProofs ----------------------------
(***************************************************************************)
(* What holds of Realtime for every number of clients, edits and reloads   *)
(* under way and every length of the queues: the types, that no reload is  *)
(* begun while somebody types, and that whatever a client does not show is *)
(* accounted for.                                                          *)
(***************************************************************************)
EXTENDS Realtime, TLAPS

USE RealtimeAssumption

Fetch == [st : {"none", "asked", "read"}, rows : SUBSET Edits, early : BOOLEAN]

----------------------------------------------------------------------------
\* Appending an event to a queue that is not full keeps its length within the
\* buffer, and what waits in it waits on (Hub.Publish).
LEMMA SendTypes ==
  ASSUME TypeOK, NEW o \in Clients \cup {Other}, Send(o), UNCHANGED link
  PROVE  /\ queue' \in [Clients -> Seq(Clients \cup {Other})]
         /\ \A c \in Clients :
           /\ Len(queue'[c]) <= Buffer
           /\ link'[c] # "up" => queue'[c] = <<>>
           /\ Waiting(c) => Waiting(c)'
           /\ Room(c) /\ o \notin {c, Other} => Waiting(c)'
<1> SUFFICES ASSUME NEW c \in Clients
             PROVE  /\ queue'[c] \in Seq(Clients \cup {Other})
                    /\ Len(queue'[c]) <= Buffer
                    /\ link'[c] # "up" => queue'[c] = <<>>
                    /\ Waiting(c) => Waiting(c)'
                    /\ Room(c) /\ o \notin {c, Other} => Waiting(c)'
  BY DEF Send
<1>1. /\ queue[c] \in Seq(Clients \cup {Other}) /\ Len(queue[c]) <= Buffer
      /\ link[c] # "up" => queue[c] = <<>>
  BY DEF TypeOK
<1>2. queue'[c] = IF Room(c) THEN Append(queue[c], o) ELSE queue[c]
  BY DEF Send
<1>3. CASE Room(c)
  <2>1. link'[c] = "up" /\ Len(queue[c]) < Buffer
    BY <1>3 DEF Room
  <2>2. /\ queue'[c] \in Seq(Clients \cup {Other})
        /\ Len(queue'[c]) = Len(queue[c]) + 1
        /\ queue'[c][Len(queue[c]) + 1] = o
        /\ \A i \in 1 .. Len(queue[c]) : queue'[c][i] = queue[c][i]
    BY <1>1, <1>2, <1>3
  <2>3. Len(queue[c]) \in Nat
    BY <1>1
  <2> QED BY <2>1, <2>2, <2>3 DEF Waiting
<1>4. CASE ~Room(c)
  BY <1>1, <1>2, <1>4 DEF Waiting
<1> QED BY <1>3, <1>4

\* Locking a workspace keeps the types (_handleSessionExpired).
LEMMA LockTypes ==
  ASSUME TypeOK, NEW c \in Clients, Lock(c)
  PROVE  /\ view' \in [Clients -> View]
         /\ fetch' \in [Clients -> [Slots -> Fetch]]
         /\ link' \in [Clients -> {"up", "down", "off"}]
         /\ queue' \in [Clients -> Seq(Clients \cup {Other})]
         /\ \A d \in Clients : /\ Len(queue'[d]) <= Buffer
                               /\ link'[d] # "up" => queue'[d] = <<>>
<1>1. [shown |-> {}, mode |-> "locked", focused |-> FALSE, pending |-> FALSE,
       frame |-> FALSE] \in View
  BY DEF View
<1>2. NoFetch \in Fetch
  BY DEF NoFetch, Fetch
<1>3. <<>> \in Seq(Clients \cup {Other}) /\ Len(<<>>) <= Buffer
  OBVIOUS
<1>4. view' \in [Clients -> View] /\ fetch' \in [Clients -> [Slots -> Fetch]]
  BY <1>1, <1>2 DEF Lock, TypeOK, Fetch
<1>5. ASSUME NEW d \in Clients
      PROVE  /\ Len(queue'[d]) <= Buffer
             /\ link'[d] # "up" => queue'[d] = <<>>
  <2>1. CASE d = c
    BY <1>3, <2>1 DEF Lock, TypeOK
  <2>2. CASE d # c
    BY <2>2 DEF Lock, TypeOK
  <2> QED BY <2>1, <2>2
<1>6. link' \in [Clients -> {"up", "down", "off"}]
  BY DEF Lock, TypeOK
<1>7. queue' \in [Clients -> Seq(Clients \cup {Other})]
  BY <1>3 DEF Lock, TypeOK
<1> QED BY <1>4, <1>5, <1>6, <1>7

\* Asking, putting off and giving up a reload keep the types (reloadFromRemote).
LEMMA ReloadTypes ==
  ASSUME TypeOK, NEW c \in Clients, Reload(c)
  PROVE  /\ view' \in [Clients -> View]
         /\ fetch' \in [Clients -> [Slots -> Fetch]]
         /\ missed' \in [Clients -> SUBSET Edits]
<1>1. view[c] \in View
  BY DEF TypeOK
<1>2. Settled(view[c]) \in View /\ Remembered(view[c]) \in View
  BY <1>1 DEF Settled, Remembered, View
<1>3. view' \in [Clients -> View]
  BY <1>2 DEF Reload, Set, TypeOK
<1>4. Stale(c) \subseteq Edits
  BY DEF Stale, Stored
<1>5. missed' \in [Clients -> SUBSET Edits]
  BY <1>4 DEF Reload, Miss, TypeOK
<1>6. ASSUME Ask(c) PROVE fetch' \in [Clients -> [Slots -> Fetch]]
  <2>1. [st |-> "asked", rows |-> {}, early |-> ~view[c].focused] \in Fetch
    BY <1>1 DEF Fetch, View
  <2> QED BY <1>6, <2>1 DEF Ask, TypeOK, Fetch
<1> QED BY <1>3, <1>5, <1>6 DEF Reload, TypeOK, Fetch

----------------------------------------------------------------------------
\* The server and the clients start with empty queues and nothing under way.
LEMMA InitTypes == Init => TypeOK
<1>1. NoFetch \in Fetch
  BY DEF NoFetch, Fetch
<1>2. <<>> \in Seq(Clients \cup {Other}) /\ Len(<<>>) <= Buffer
  OBVIOUS
<1> QED BY <1>1, <1>2 DEF Init, TypeOK, View, Fetch

\* Every step keeps the types and the bound of the queues.
LEMMA NextTypes == TypeOK /\ [Next]_vars => TypeOK'
<1> SUFFICES ASSUME TypeOK, [Next]_vars PROVE TypeOK'
  OBVIOUS
<1>0. \A c \in Clients : /\ view[c] \in View
                         /\ fetch[c] \in [Slots -> Fetch]
                         /\ Stale(c) \subseteq Edits
                         /\ \A k \in Slots : fetch[c][k].rows \subseteq Edits
  BY DEF TypeOK, Stale, Stored, Fetch
<1>1. CASE UNCHANGED vars
  BY <1>1 DEF vars, TypeOK
<1>2. ASSUME NEW c \in Clients, Connect(c) PROVE TypeOK'
  BY <1>2 DEF Connect, TypeOK
<1>3. ASSUME NEW c \in Clients, Disconnect(c) PROVE TypeOK'
  <2>1. <<>> \in Seq(Clients \cup {Other}) /\ Len(<<>>) <= Buffer
    OBVIOUS
  <2>2. missed' \in [Clients -> SUBSET Edits]
    BY <1>0, <1>3 DEF Disconnect, Miss, TypeOK
  <2>3. ASSUME NEW d \in Clients
        PROVE  /\ Len(queue'[d]) <= Buffer
               /\ link'[d] # "up" => queue'[d] = <<>>
    <3>1. CASE d = c
      BY <1>3, <2>1, <3>1 DEF Disconnect, TypeOK
    <3>2. CASE d # c
      BY <1>3, <3>2 DEF Disconnect, TypeOK
    <3> QED BY <3>1, <3>2
  <2>4. queue' \in [Clients -> Seq(Clients \cup {Other})]
    BY <1>3, <2>1 DEF Disconnect, TypeOK
  <2> QED BY <1>3, <2>2, <2>3, <2>4 DEF Disconnect, TypeOK
<1>4. ASSUME NEW c \in Clients, Revoke(c) PROVE TypeOK'
  BY <1>4 DEF Revoke, TypeOK
<1>5. ASSUME NEW c \in Clients, Deliver(c) PROVE TypeOK'
  <2>1. /\ Tail(queue[c]) \in Seq(Clients \cup {Other})
        /\ Len(Tail(queue[c])) <= Buffer
    BY <1>5 DEF Deliver, TypeOK
  <2>2. /\ view' \in [Clients -> View]
        /\ fetch' \in [Clients -> [Slots -> Fetch]]
        /\ missed' \in [Clients -> SUBSET Edits]
    BY <1>5, ReloadTypes DEF Deliver, TypeOK, Fetch
  <2> QED BY <1>5, <2>1, <2>2 DEF Deliver, TypeOK, Fetch
<1>6. ASSUME NEW c \in Clients, Frame(c) PROVE TypeOK'
  BY <1>6, ReloadTypes DEF Frame, AfterFrame, TypeOK, Fetch
<1>7. ASSUME NEW c \in Clients, NEW k \in Slots, Read(c, k) PROVE TypeOK'
  <2>1. CASE c \in valid
    <3>1. Stored \subseteq Edits
      BY DEF Stored
    <3>2. fetch' \in [Clients -> [Slots -> Fetch]]
      <4>1. [fetch[c][k] EXCEPT !.st = "read", !.rows = Stored] \in Fetch
        <5>1. fetch[c][k] \in Fetch
          BY <1>0
        <5> QED BY <3>1, <5>1 DEF Fetch
      <4>2. fetch' = [fetch EXCEPT ![c] = [fetch[c] EXCEPT ![k] =
                       [fetch[c][k] EXCEPT !.st = "read", !.rows = Stored]]]
        BY <1>7, <2>1 DEF Read, TypeOK, Fetch
      <4> QED BY <1>0, <4>1, <4>2 DEF TypeOK, Fetch
    <3> QED BY <1>7, <2>1, <3>2 DEF Read, TypeOK, Fetch
  <2>2. CASE c \notin valid
    BY <1>7, <2>2, LockTypes DEF Read, TypeOK, Fetch
  <2> QED BY <2>1, <2>2
<1>8. ASSUME NEW c \in Clients, NEW k \in Slots, Answer(c, k) PROVE TypeOK'
  <2>1. NoFetch \in Fetch
    BY DEF NoFetch, Fetch
  <2>2. fetch' \in [Clients -> [Slots -> Fetch]]
    BY <1>8, <2>1, <1>0 DEF Answer, TypeOK, Fetch
  <2>3. [view[c] EXCEPT !.shown = fetch[c][k].rows, !.focused = FALSE] \in View
    BY <1>0 DEF View
  <2>4. view' \in [Clients -> View]
    BY <1>8, <2>3 DEF Answer, Set, TypeOK
  <2>5. view[c].shown \subseteq Edits /\ Stored \subseteq Edits
    BY <1>0 DEF View, Stored
  <2>6. missed' \in [Clients -> SUBSET Edits]
    BY <1>8, <2>5 DEF Answer, TypeOK
  <2> QED BY <1>8, <2>2, <2>4, <2>6 DEF Answer, TypeOK, Fetch
<1>9. ASSUME NEW c \in Clients, NEW k \in Slots, FetchFails(c, k) PROVE TypeOK'
  <2>1. NoFetch \in Fetch
    BY DEF NoFetch, Fetch
  <2>2. fetch' \in [Clients -> [Slots -> Fetch]]
    BY <1>9, <2>1, <1>0 DEF FetchFails, TypeOK, Fetch
  <2>3. missed' \in [Clients -> SUBSET Edits]
    BY <1>9, <1>0 DEF FetchFails, Miss, TypeOK
  <2> QED BY <1>9, <2>2, <2>3 DEF FetchFails, TypeOK, Fetch
<1>10. ASSUME NEW c \in Clients, Use(c) PROVE TypeOK'
  <2>1. /\ [view[c] EXCEPT !.focused = TRUE] \in View
        /\ [view[c] EXCEPT !.focused = FALSE, !.frame = @ \/ view[c].pending] \in View
        /\ \A m \in {"browse", "find"} :
             [view[c] EXCEPT !.mode = m, !.focused = FALSE] \in View
    BY <1>0 DEF View
  <2>2. view' \in [Clients -> View]
    BY <1>10, <2>1 DEF Use, Focus, Blur, SwitchMode, Move, Rebuild, Set, TypeOK
  <2>3. missed' \in [Clients -> SUBSET Edits]
    <3>1. UNCHANGED missed \/ Miss(c, Stale(c))
      BY <1>10 DEF Use, Focus, Blur, SwitchMode, Move, Rebuild
    <3>2. missed[c] \cup Stale(c) \in SUBSET Edits
      BY <1>0 DEF TypeOK
    <3> QED BY <3>1, <3>2 DEF Miss, TypeOK
  <2> QED BY <1>10, <2>2, <2>3 DEF Use, Focus, Blur, SwitchMode, Move, Rebuild, TypeOK
<1>11. ASSUME NEW e \in Edits, Save(e) PROVE TypeOK'
  <2>1. Author[e] \in Clients
    OBVIOUS
  <2>2. [view[Author[e]] EXCEPT !.shown = @ \cup {e}] \in View
    BY <1>0, <2>1 DEF View
  <2> QED BY <1>11, <2>1, <2>2 DEF Save, Set, TypeOK
<1>12. ASSUME NEW e \in Edits, Commit(e) PROVE TypeOK'
  <2>1. Author[e] \in Clients
    OBVIOUS
  <2>2. edit' \in [Edits -> {"new", "sent", "committed", "published", "silent", "refused"}]
    BY <1>12 DEF Commit, TypeOK
  <2>3. missed' \in [Clients -> SUBSET Edits]
    BY <1>12 DEF Commit, TypeOK
  <2> QED BY <1>12, <2>1, <2>2, <2>3, LockTypes DEF Commit, TypeOK, Fetch
<1>13. ASSUME NEW e \in Edits, Publish(e) PROVE TypeOK'
  <2>1. Author[e] \in Clients \cup {Other}
    OBVIOUS
  <2>2. Send(Author[e]) /\ UNCHANGED link
    BY <1>13 DEF Publish
  <2>3. queue' \in [Clients -> Seq(Clients \cup {Other})]
    BY <2>1, <2>2, SendTypes DEF Send
  <2>4. missed' \in [Clients -> SUBSET Edits]
    BY <1>13 DEF Publish, TypeOK
  <2> QED BY <1>13, <2>1, <2>2, <2>4, SendTypes DEF Publish, TypeOK
<1>14. CASE Chatter
  BY <1>14, SendTypes DEF Chatter, TypeOK
<1> QED
  BY <1>1, <1>2, <1>3, <1>4, <1>5, <1>6, <1>7, <1>8, <1>9, <1>10, <1>11, <1>12, <1>13, <1>14
     DEF Next, Serve, Run, Trouble

\* Type correctness: no queue outgrows its buffer (hub.go:89), and a client without a
\* connection has none.
THEOREM Typing == Spec => []TypeOK
<1>1. Init /\ [][Next]_vars => []TypeOK
  BY InitTypes, NextTypes, PTL
<1> QED BY <1>1, PTL DEF Spec

----------------------------------------------------------------------------
\* reloadFromRemote asks only while no field has the focus.
LEMMA ReloadEarly ==
  ASSUME TypeOK, NoReloadBegunWhileTyping, NEW c \in Clients, Reload(c)
  PROVE  NoReloadBegunWhileTyping'
<1>1. CASE UNCHANGED fetch
  BY <1>1 DEF NoReloadBegunWhileTyping
<1>2. CASE ~view[c].focused /\ Ask(c)
  BY <1>2 DEF NoReloadBegunWhileTyping, Ask, TypeOK
<1> QED BY <1>1, <1>2 DEF Reload

\* No step begins a reload in the face of a focus, and no other step touches one
\* but to end it.
LEMMA NextEarly ==
  TypeOK /\ NoReloadBegunWhileTyping /\ [Next]_vars => NoReloadBegunWhileTyping'
<1> SUFFICES ASSUME TypeOK, NoReloadBegunWhileTyping, [Next]_vars
             PROVE  NoReloadBegunWhileTyping'
  OBVIOUS
<1>1. CASE UNCHANGED fetch
  BY <1>1 DEF NoReloadBegunWhileTyping
<1>2. ASSUME NEW c \in Clients, Lock(c) PROVE NoReloadBegunWhileTyping'
  BY <1>2 DEF NoReloadBegunWhileTyping, Lock, NoFetch, TypeOK
<1>3. ASSUME NEW c \in Clients, Deliver(c) PROVE NoReloadBegunWhileTyping'
  BY <1>1, <1>3, ReloadEarly DEF Deliver
<1>4. ASSUME NEW c \in Clients, Frame(c) PROVE NoReloadBegunWhileTyping'
  BY <1>4, ReloadEarly DEF Frame, AfterFrame
<1>5. ASSUME NEW c \in Clients, NEW k \in Slots, Read(c, k)
      PROVE  NoReloadBegunWhileTyping'
  <2>1. CASE c \in valid
    <3>1. fetch' = [fetch EXCEPT ![c] = [fetch[c] EXCEPT ![k] =
                     [fetch[c][k] EXCEPT !.st = "read", !.rows = Stored]]]
      BY <1>5, <2>1 DEF Read, TypeOK
    <3>2. fetch'[c][k].early = fetch[c][k].early /\ fetch[c][k].st # "none"
      BY <1>5, <3>1 DEF Read, TypeOK
    <3>3. \A d \in Clients, l \in Slots : <<d, l>> # <<c, k>> => fetch'[d][l] = fetch[d][l]
      BY <3>1 DEF TypeOK
    <3> QED BY <3>2, <3>3 DEF NoReloadBegunWhileTyping
  <2>2. CASE c \notin valid
    BY <1>2, <1>5, <2>2 DEF Read
  <2> QED BY <2>1, <2>2
<1>6. ASSUME NEW c \in Clients, NEW k \in Slots, Answer(c, k) \/ FetchFails(c, k)
      PROVE  NoReloadBegunWhileTyping'
  <2>1. fetch' = [fetch EXCEPT ![c][k] = NoFetch]
    BY <1>6 DEF Answer, FetchFails
  <2>2. \A d \in Clients, l \in Slots : fetch'[d][l] \in {NoFetch, fetch[d][l]}
    BY <2>1 DEF TypeOK
  <2> QED BY <2>2 DEF NoReloadBegunWhileTyping, NoFetch
<1>7. ASSUME NEW e \in Edits, Commit(e) PROVE NoReloadBegunWhileTyping'
  BY <1>1, <1>2, <1>7 DEF Commit
<1>8. ASSUME NEW e \in Edits, Save(e) \/ Publish(e) PROVE UNCHANGED fetch
  BY <1>8 DEF Save, Publish
<1>9. ASSUME NEW c \in Clients, Use(c) \/ Connect(c) \/ Disconnect(c) \/ Revoke(c)
      PROVE  UNCHANGED fetch
  BY <1>9 DEF Use, Focus, Blur, SwitchMode, Move, Rebuild, Connect, Disconnect, Revoke
<1>10. CASE Chatter
  BY <1>1, <1>10 DEF Chatter
<1>11. CASE UNCHANGED vars
  BY <1>1, <1>11 DEF vars
<1> QED
  BY <1>1, <1>3, <1>4, <1>5, <1>6, <1>7, <1>8, <1>9, <1>10, <1>11
     DEF Next, Serve, Run, Trouble

\* However many events and reloads overlap, a reload is asked for while no field has
\* the focus (reloadFromRemote, data_browser_widget.dart:261-275).
THEOREM Typists == Spec => []NoReloadBegunWhileTyping
<1>1. Init => NoReloadBegunWhileTyping
  BY DEF Init, NoReloadBegunWhileTyping, NoFetch
<1>2. Init /\ [][Next]_vars => [](TypeOK /\ NoReloadBegunWhileTyping)
  BY <1>1, InitTypes, NextTypes, NextEarly, PTL
<1> QED BY <1>2, PTL DEF Spec

----------------------------------------------------------------------------
\* What a client does not show is accounted for.
Accounted(c) ==
  view[c].mode # "locked" =>
    \A e \in Stale(c) : Comes(c, e) \/ e \in missed[c]

\* No event tells a client of its own edits, nor anybody of an edit that could not be
\* read back.  A client shows its own from the moment it sends them, unless an answer
\* read earlier took one away again; the others are missed by whoever does not show
\* them.  Without this such an edit could be stored and unseen with nothing to come.
Untold(c, e) ==
  \/ edit[e] = "silent"
  \/ c = Author[e] /\ edit[e] \in {"sent", "committed", "published"}
UntoldIsKnown ==
  \A c \in Clients, e \in Edits :
    Untold(c, e) /\ view[c].mode # "locked" => e \in view[c].shown \cup missed[c]

IInv == TypeOK /\ UntoldIsKnown /\ \A c \in Clients : Accounted(c)

LEMMA InitIInv == Init => IInv
BY InitTypes DEF Init, IInv, UntoldIsKnown, Untold, Accounted, Stale, Stored

\* A client no step touches, while no edit of others is announced, stays accounted for.
LEMMA Untouched ==
  ASSUME IInv, NEW d \in Clients, Waiting(d) => Waiting(d)',
         UNCHANGED edit, view'[d] = view[d], fetch'[d] = fetch[d],
         missed[d] \subseteq missed'[d]
  PROVE  Accounted(d)'
<1>1. Stale(d)' = Stale(d)
  BY DEF Stale, Stored
<1>2. \A e \in Edits : InHand(d, e) => InHand(d, e)'
  BY DEF InHand
<1>3. Stale(d) \subseteq Edits
  BY DEF Stale, Stored
<1> QED BY <1>1, <1>2, <1>3 DEF IInv, Accounted, Comes

\* A client whose workspace is locked has nothing to account for, and no other
\* client is touched.
LEMMA LockIInv ==
  ASSUME IInv, NEW c \in Clients, Lock(c), UNCHANGED missed, TypeOK',
         \A e \in Edits : edit'[e] = edit[e] \/ edit'[e] = "refused"
  PROVE  IInv'
<1>1. \A d \in Clients : d # c => /\ view'[d] = view[d] /\ fetch'[d] = fetch[d]
                                   /\ queue'[d] = queue[d]
  BY DEF Lock, IInv, TypeOK
<1>2. view'[c].mode = "locked"
  BY DEF Lock, IInv, TypeOK
<1>3. UntoldIsKnown'
  BY <1>1, <1>2 DEF IInv, UntoldIsKnown, Untold, TypeOK
<1>4. ASSUME NEW d \in Clients, d # c PROVE Accounted(d)'
  <2>1. Stale(d)' \subseteq Stale(d)
    BY <1>1, <1>4 DEF Stale, Stored
  <2>2. \A e \in Stale(d)' : edit'[e] = edit[e]
    BY DEF Stale, Stored
  <2>3. \A e \in Edits : InHand(d, e) => InHand(d, e)'
    BY <1>1, <1>4 DEF InHand
  <2>4. Waiting(d) => Waiting(d)'
    BY <1>1, <1>4 DEF Waiting
  <2>5. Stale(d)' \subseteq Edits
    BY DEF Stale, Stored
  <2> QED BY <1>1, <1>4, <2>1, <2>2, <2>3, <2>4, <2>5 DEF IInv, Accounted, Comes
<1>5. Accounted(c)'
  BY <1>2 DEF Accounted
<1> QED BY <1>3, <1>4, <1>5 DEF IInv

\* A reload that is put off, asked for or given up accounts for everything the
\* client does not show.
LEMMA ReloadIInv ==
  ASSUME IInv, NEW c \in Clients, Reload(c), UNCHANGED edit, TypeOK',
         \A d \in Clients : d # c => (Waiting(d) => Waiting(d)')
  PROVE  IInv'
<1>1. /\ view[c] \in View /\ view \in [Clients -> View]
      /\ fetch \in [Clients -> [Slots -> Fetch]] /\ fetch[c] \in [Slots -> Fetch]
      /\ missed \in [Clients -> SUBSET Edits]
  BY DEF IInv, TypeOK, Fetch
<1>2. /\ view'[c].shown = view[c].shown /\ view'[c].mode = view[c].mode
      /\ missed[c] \subseteq missed'[c]
      /\ \A d \in Clients : d # c => /\ view'[d] = view[d] /\ fetch'[d] = fetch[d]
                                     /\ missed'[d] = missed[d]
  <2>1. \E w \in {Settled(view[c]), Remembered(view[c])} : Set(c, w)
    BY DEF Reload
  <2>2. \A w \in {Settled(view[c]), Remembered(view[c])} :
          w.shown = view[c].shown /\ w.mode = view[c].mode
    BY <1>1 DEF Settled, Remembered, View
  <2>3. /\ view'[c].shown = view[c].shown /\ view'[c].mode = view[c].mode
        /\ \A d \in Clients : d # c => view'[d] = view[d]
    BY <1>1, <2>1, <2>2 DEF Set
  <2>4. UNCHANGED missed \/ Miss(c, Stale(c))
    BY DEF Reload
  <2>5. UNCHANGED fetch \/ Ask(c)
    BY DEF Reload
  <2> QED BY <1>1, <2>3, <2>4, <2>5 DEF Miss, Ask
<1>3. Stale(c)' = Stale(c)
  BY <1>2 DEF Stale, Stored
<1>4. Accounted(c)'
  <2>1. CASE Miss(c, Stale(c))
    BY <1>1, <1>3, <2>1 DEF Miss, Accounted
  <2>2. CASE view[c].focused /\ Set(c, Remembered(view[c]))
    <3>1. view'[c].pending /\ view'[c].focused
      BY <1>1, <2>2 DEF Set, Remembered, View
    <3> QED BY <3>1 DEF Accounted, Comes, InHand
  <2>3. CASE Ask(c)
    <3>1. \E k \in Slots : fetch'[c][k].st = "asked"
      <4>1. PICK k \in Free(c) :
              fetch' = [fetch EXCEPT ![c][k] =
                          [st |-> "asked", rows |-> {}, early |-> ~view[c].focused]]
        BY <2>3 DEF Ask
      <4>2. k \in Slots
        BY DEF Free
      <4> QED BY <1>1, <4>1, <4>2
    <3> QED BY <3>1 DEF Accounted, Comes, InHand
  <2> QED BY <2>1, <2>2, <2>3 DEF Reload
<1>5. UntoldIsKnown'
  BY <1>2 DEF IInv, UntoldIsKnown, Untold
<1>6. ASSUME NEW d \in Clients, d # c PROVE Accounted(d)'
  BY <1>2, <1>6, Untouched
<1> QED BY <1>4, <1>5, <1>6 DEF IInv

\* A step of the user, the connection or the answers of client c alone.
LEMMA OneClient ==
  ASSUME IInv, NEW c \in Clients, UNCHANGED edit, TypeOK', Accounted(c)',
         view'[c].mode = view[c].mode \/ view[c].mode # "locked",
         view[c].shown \cup missed[c] \subseteq view'[c].shown \cup missed'[c],
         \A d \in Clients : d # c => /\ view'[d] = view[d] /\ fetch'[d] = fetch[d]
                                     /\ missed'[d] = missed[d] /\ queue'[d] = queue[d]
  PROVE  IInv'
<1>1. UntoldIsKnown'
  BY DEF IInv, UntoldIsKnown, Untold
<1>2. ASSUME NEW d \in Clients, d # c PROVE Accounted(d)'
  <2>1. Waiting(d) => Waiting(d)'
    BY <1>2 DEF Waiting
  <2> QED BY <1>2, <2>1, Untouched
<1> QED BY <1>1, <1>2 DEF IInv

\* An answer shows what it was read with; what it takes away was shown or is missed.
LEMMA AnswerIInv ==
  ASSUME IInv, TypeOK', NEW c \in Clients, NEW k \in Slots, Answer(c, k)
  PROVE  IInv'
<1> DEFINE v == view[c]
           rows == fetch[c][k].rows
<1>1. /\ v \in View /\ view \in [Clients -> View]
      /\ fetch \in [Clients -> [Slots -> Fetch]]
      /\ missed \in [Clients -> SUBSET Edits]
  BY DEF IInv, TypeOK, Fetch
<1>2. /\ view'[c].shown = rows /\ view'[c].mode = v.mode
      /\ view'[c].frame = v.frame
      /\ missed'[c] = (missed[c] \cup v.shown
                       \cup IF v.pending /\ v.focused THEN Stored ELSE {}) \ rows
      /\ \A l \in Slots : l # k => fetch'[c][l] = fetch[c][l]
      /\ \A d \in Clients : d # c => /\ view'[d] = view[d] /\ fetch'[d] = fetch[d]
                                     /\ missed'[d] = missed[d] /\ queue'[d] = queue[d]
      /\ UNCHANGED <<edit, queue>>
  BY <1>1 DEF Answer, Set, View
<1>3. ASSUME NEW e \in Stale(c)', v.mode # "locked" PROVE Comes(c, e)' \/ e \in missed'[c]
  <2>1. e \in Stored /\ e \notin rows /\ e \in Edits
    BY <1>2, <1>3 DEF Stale, Stored
  <2>2. CASE e \in v.shown \cup missed[c]
    BY <1>2, <2>1, <2>2
  <2>3. CASE e \in Stale(c) /\ Comes(c, e)
    <3>1. CASE InHand(c, e)
      <4>1. CASE v.pending /\ v.focused
        BY <1>2, <2>1, <4>1
      <4>2. CASE v.frame
        BY <1>2, <4>2 DEF Comes, InHand
      <4>3. ASSUME NEW l \in Slots, \/ fetch[c][l].st = "asked"
                                    \/ fetch[c][l].st = "read" /\ e \in fetch[c][l].rows
            PROVE  Comes(c, e)'
        <5>1. l # k
          BY <2>1, <4>3 DEF Answer
        <5> QED BY <1>2, <4>3, <5>1 DEF Comes, InHand
      <4> QED BY <3>1, <4>1, <4>2, <4>3 DEF InHand
    <3>2. CASE ~InHand(c, e)
      BY <1>2, <2>3, <3>2 DEF Comes, Waiting
    <3> QED BY <3>1, <3>2
  <2> QED BY <1>3, <2>1, <2>2, <2>3 DEF IInv, Accounted, Stale
<1>4. Accounted(c)'
  BY <1>2, <1>3 DEF Accounted
<1>5. v.shown \cup missed[c] \subseteq view'[c].shown \cup missed'[c]
  BY <1>2
<1> QED BY <1>2, <1>4, <1>5, OneClient

\* What the user does in Browse.
LEMMA UseIInv ==
  ASSUME IInv, TypeOK', NEW c \in Clients, Use(c)
  PROVE  IInv'
<1>1. view[c] \in View /\ view \in [Clients -> View] /\ missed \in [Clients -> SUBSET Edits]
  BY DEF IInv, TypeOK
<1>2. UNCHANGED <<edit, queue, fetch>> /\ (UNCHANGED missed \/ Miss(c, Stale(c)))
  BY DEF Use, Focus, Blur, SwitchMode, Move, Rebuild
<1>3. /\ view'[c].shown = view[c].shown
      /\ view'[c].mode = view[c].mode \/ view[c].mode # "locked"
      /\ view[c].frame => view'[c].frame
      /\ \/ view[c].pending /\ view[c].focused
             => view'[c].frame \/ (view'[c].pending /\ view'[c].focused)
         \/ Miss(c, Stale(c))
      /\ \A d \in Clients : d # c => view'[d] = view[d]
  <2>1. CASE Focus(c)
    <3>1. view' = [view EXCEPT ![c] = [view[c] EXCEPT !.focused = TRUE]]
      BY <2>1 DEF Focus, Set
    <3> QED BY <1>1, <3>1 DEF View
  <2>2. CASE Blur(c)
    <3>1. view' = [view EXCEPT ![c] = [view[c] EXCEPT !.focused = FALSE,
                                        !.frame = view[c].frame \/ view[c].pending]]
      BY <2>2 DEF Blur, Set
    <3>2. DOMAIN view[c] = {"shown", "mode", "focused", "pending", "frame"}
      BY <1>1 DEF View
    <3>3. view'[c] = [view[c] EXCEPT !.focused = FALSE,
                                     !.frame = view[c].frame \/ view[c].pending]
      BY <1>1, <3>1
    <3>4. /\ view'[c].shown = view[c].shown /\ view'[c].mode = view[c].mode
          /\ view'[c].frame = (view[c].frame \/ view[c].pending)
      BY <1>1, <3>3 DEF View
    <3> QED BY <1>1, <3>1, <3>4
  <2>3. ASSUME NEW mode \in {"browse", "find"}, Rebuild(c, mode)
        PROVE  /\ view'[c].shown = view[c].shown /\ view'[c].frame = view[c].frame
               /\ \A d \in Clients : d # c => view'[d] = view[d]
               /\ view[c].pending /\ view[c].focused => Miss(c, Stale(c))
    <3>1. /\ view' = [view EXCEPT ![c] = [view[c] EXCEPT !.mode = mode, !.focused = FALSE]]
          /\ view[c].pending /\ view[c].focused => Miss(c, Stale(c))
      BY <2>3 DEF Rebuild, Set
    <3> QED BY <1>1, <3>1 DEF View
  <2>4. CASE SwitchMode(c) \/ Move(c)
    <3>1. view[c].mode # "locked" /\ \E mode \in {"browse", "find"} : Rebuild(c, mode)
      BY <2>4 DEF SwitchMode, Move
    <3> QED BY <2>3, <3>1
  <2> QED BY <2>1, <2>2, <2>4 DEF Use
<1>4. /\ missed[c] \subseteq missed'[c]
      /\ \A d \in Clients : d # c => missed'[d] = missed[d]
  BY <1>1, <1>2 DEF Miss
<1>5. Stale(c)' = Stale(c) /\ Stale(c) \subseteq Edits
  BY <1>2, <1>3 DEF Stale, Stored
<1>6. CASE Miss(c, Stale(c))
  <2>1. Accounted(c)'
    BY <1>1, <1>5, <1>6 DEF Miss, Accounted
  <2> QED BY <1>2, <1>3, <1>4, <2>1, OneClient
<1>7. CASE UNCHANGED missed /\ ~Miss(c, Stale(c))
  <2>1. \A e \in Edits : InHand(c, e) => InHand(c, e)'
    BY <1>2, <1>3, <1>7 DEF InHand
  <2>2. view'[c].mode # "locked" => view[c].mode # "locked"
    BY <1>3
  <2>3. Accounted(c)'
    BY <1>2, <1>4, <1>5, <2>1, <2>2 DEF IInv, Accounted, Comes, Waiting
  <2> QED BY <1>2, <1>3, <1>4, <2>3, OneClient
<1> QED BY <1>2, <1>6, <1>7

\* Everyone but the author is announced an edit, hears of it anyway, or is known to miss it.
LEMMA PublishIInv ==
  ASSUME IInv, TypeOK', NEW e \in Edits, Publish(e)
  PROVE  IInv'
<1>1. /\ edit' = [edit EXCEPT ![e] = "published"] /\ edit[e] = "committed"
      /\ UNCHANGED <<view, fetch, link>> /\ Send(Author[e])
      /\ missed' = [c \in Clients |->
           IF c = Author[e] \/ Room(c) \/ Waiting(c) \/ e \in view[c].shown THEN missed[c]
           ELSE missed[c] \cup {e}]
  BY DEF Publish
<1>2. Author[e] \in Clients /\ edit \in [Edits -> {"new", "sent", "committed", "published", "silent", "refused"}]
  BY DEF IInv, TypeOK
<1>3. Stored' = Stored /\ \A f \in Edits : f # e => edit'[f] = edit[f]
  BY <1>1, <1>2 DEF Stored
<1>4. ASSUME NEW c \in Clients
      PROVE  /\ missed[c] \subseteq missed'[c]
             /\ Waiting(c) => Waiting(c)'
             /\ Room(c) /\ c # Author[e] => Waiting(c)'
  BY <1>1, <1>2, SendTypes DEF IInv
<1>5. UntoldIsKnown'
  <2>1. \A c \in Clients, f \in Edits : Untold(c, f)' => Untold(c, f)
    BY <1>1, <1>2, <1>3 DEF Untold
  <2> QED BY <1>1, <1>4, <2>1 DEF IInv, UntoldIsKnown
<1>6. ASSUME NEW c \in Clients, view[c].mode # "locked", NEW f \in Stale(c)
      PROVE  Comes(c, f)' \/ f \in missed'[c]
  <2>1. f \in Edits /\ f \notin view[c].shown
    BY <1>6 DEF Stale, Stored
  <2>2. Comes(c, f) \/ f \in missed[c]
    BY <1>6 DEF IInv, Accounted
  <2>3. CASE f # e \/ Waiting(c)
    <3>1. InHand(c, f) => InHand(c, f)'
      BY <1>1 DEF InHand
    <3> QED BY <1>3, <1>4, <2>1, <2>2, <2>3, <3>1 DEF Comes
  <2>4. CASE f = e /\ c = Author[e]
    BY <1>1, <1>4, <1>6, <2>1, <2>4 DEF IInv, UntoldIsKnown, Untold
  <2>5. CASE f = e /\ c # Author[e] /\ ~Waiting(c)
    BY <1>1, <1>4, <2>1, <2>5 DEF Comes
  <2> QED BY <2>3, <2>4, <2>5
<1>7. ASSUME NEW c \in Clients PROVE Accounted(c)'
  BY <1>1, <1>3, <1>6 DEF Accounted, Stale
<1> QED BY <1>5, <1>7 DEF IInv

\* The remaining steps, one by one.
LEMMA NextIInv == IInv /\ [Next]_vars => IInv'
<1> SUFFICES ASSUME IInv, [Next]_vars PROVE IInv'
  OBVIOUS
<1>0. TypeOK /\ TypeOK'
  BY NextTypes DEF IInv
<1> USE <1>0
<1>1. CASE UNCHANGED vars
  <2>1. UNCHANGED <<edit, queue, view, fetch, missed>>
    BY <1>1 DEF vars
  <2>2. \A c \in Clients : Waiting(c) => Waiting(c)'
    BY <2>1 DEF Waiting
  <2>3. \A c \in Clients : Accounted(c)'
    BY <2>1, <2>2, Untouched
  <2> QED BY <2>1, <2>3 DEF IInv, UntoldIsKnown, Untold
<1>2. ASSUME NEW c \in Clients, Connect(c) \/ Revoke(c) PROVE IInv'
  <2>1. UNCHANGED <<edit, queue, view, fetch, missed>>
    BY <1>2 DEF Connect, Revoke
  <2>2. \A d \in Clients : Waiting(d) => Waiting(d)'
    BY <2>1 DEF Waiting
  <2>3. \A d \in Clients : Accounted(d)'
    BY <2>1, <2>2, Untouched
  <2> QED BY <2>1, <2>3 DEF IInv, UntoldIsKnown, Untold
<1>3. ASSUME NEW c \in Clients, Disconnect(c) PROVE IInv'
  <2> DEFINE E == IF Waiting(c) THEN {e \in Stale(c) \cap Published : ~InHand(c, e)} ELSE {}
  <2>1. /\ UNCHANGED <<edit, view, fetch>>
        /\ missed'[c] = missed[c] \cup E
        /\ \A d \in Clients : d # c => missed'[d] = missed[d] /\ queue'[d] = queue[d]
    BY <1>3 DEF Disconnect, Miss, TypeOK
  <2>2. ASSUME NEW e \in Stale(c), view[c].mode # "locked"
        PROVE  Comes(c, e)' \/ e \in missed'[c]
    <3>1. e \in Edits /\ edit[e] \in {"committed", "published", "silent"} /\ e \notin view[c].shown
      BY DEF Stale, Stored
    <3>2. CASE InHand(c, e)
      BY <2>1, <3>2 DEF Comes, InHand
    <3>3. CASE edit[e] = "published" /\ ~InHand(c, e)
      <4>1. CASE Waiting(c)
        BY <2>1, <2>2, <3>1, <3>3, <4>1 DEF Published
      <4>2. CASE ~Waiting(c)
        BY <2>1, <2>2, <3>3, <4>2 DEF IInv, Accounted, Comes
      <4> QED BY <4>1, <4>2
    <3>4. CASE Untold(c, e)
      BY <2>1, <2>2, <3>1, <3>4 DEF IInv, UntoldIsKnown, Untold
    <3>5. CASE edit[e] = "committed" /\ c # Author[e]
      BY <2>1, <3>5 DEF Comes
    <3> QED BY <3>1, <3>2, <3>3, <3>4, <3>5 DEF Untold
  <2>3. Accounted(c)'
    BY <2>1, <2>2 DEF Accounted, Stale, Stored
  <2> QED BY <2>1, <2>3, OneClient
<1>4. ASSUME NEW c \in Clients, Deliver(c) PROVE IInv'
  <2>1. UNCHANGED edit /\ queue' = [queue EXCEPT ![c] = Tail(@)] /\ queue[c] # <<>>
    BY <1>4 DEF Deliver
  <2>2. \A d \in Clients : d # c => (Waiting(d) => Waiting(d)')
    BY <2>1 DEF Waiting, TypeOK
  <2>3. CASE ~Concerns(c) /\ UNCHANGED <<view, fetch, missed>>
    <3>1. ASSUME Waiting(c) PROVE Waiting(c)'
      <4>1. queue[c] \in Seq(Clients \cup {Other}) /\ queue'[c] = Tail(queue[c])
        BY <2>1 DEF TypeOK
      <4>2. PICK i \in 1 .. Len(queue[c]) : queue[c][i] \notin {c, Other}
        BY <3>1 DEF Waiting
      <4>3. i # 1
        BY <2>1, <2>3, <4>1, <4>2 DEF Concerns
      <4>4. /\ Len(Tail(queue[c])) = Len(queue[c]) - 1 /\ Len(queue[c]) \in Nat
            /\ \A j \in 1 .. Len(queue[c]) - 1 : Tail(queue[c])[j] = queue[c][j + 1]
        BY <2>1, <4>1
      <4>5. i - 1 \in 1 .. Len(queue[c]) - 1 /\ (i - 1) + 1 = i
        BY <4>2, <4>3, <4>4
      <4>6. i - 1 \in 1 .. Len(queue'[c]) /\ queue'[c][i - 1] = queue[c][i]
        BY <4>1, <4>4, <4>5
      <4> QED BY <4>2, <4>6 DEF Waiting
    <3>2. \A d \in Clients : Accounted(d)'
      BY <2>1, <2>2, <2>3, <3>1, Untouched
    <3> QED BY <2>1, <2>3, <3>2 DEF IInv, UntoldIsKnown, Untold
  <2>4. CASE Reload(c)
    BY <2>1, <2>2, <2>4, ReloadIInv
  <2> QED BY <1>4, <2>3, <2>4 DEF Deliver
<1>5. ASSUME NEW c \in Clients, Frame(c) PROVE IInv'
  BY <1>5, ReloadIInv DEF Frame, AfterFrame, Waiting
<1>6. ASSUME NEW c \in Clients, NEW k \in Slots, Read(c, k) PROVE IInv'
  <2>1. CASE c \in valid
    <3>1. UNCHANGED <<edit, queue, view, missed>>
      BY <1>6, <2>1 DEF Read
    <3>2. /\ fetch'[c][k].st = "read" /\ fetch'[c][k].rows = Stored
          /\ \A l \in Slots : l # k => fetch'[c][l] = fetch[c][l]
          /\ \A d \in Clients : d # c => fetch'[d] = fetch[d]
      BY <1>6, <2>1 DEF Read, TypeOK
    <3>3. \A e \in Stale(c) : InHand(c, e) => InHand(c, e)'
      BY <3>1, <3>2 DEF InHand, Stale
    <3>4. Accounted(c)'
      BY <3>1, <3>3 DEF IInv, Accounted, Comes, Waiting, Stale, Stored
    <3> QED BY <3>1, <3>2, <3>4, OneClient
  <2>2. CASE c \notin valid
    BY <1>6, <2>2, LockIInv DEF Read
  <2> QED BY <2>1, <2>2
<1>7. ASSUME NEW c \in Clients, NEW k \in Slots, Answer(c, k) PROVE IInv'
  BY <1>7, AnswerIInv
<1>8. ASSUME NEW c \in Clients, NEW k \in Slots, FetchFails(c, k) PROVE IInv'
  <2>1. /\ UNCHANGED <<edit, queue, view>> /\ Miss(c, Stale(c))
        /\ fetch' = [fetch EXCEPT ![c][k] = NoFetch]
    BY <1>8 DEF FetchFails
  <2>2. /\ missed'[c] = missed[c] \cup Stale(c)
        /\ \A d \in Clients : d # c => missed'[d] = missed[d] /\ fetch'[d] = fetch[d]
    BY <2>1 DEF Miss, TypeOK
  <2>3. Accounted(c)'
    BY <2>1, <2>2 DEF Accounted, Stale, Stored
  <2> QED BY <2>1, <2>2, <2>3, OneClient
<1>9. ASSUME NEW c \in Clients, Use(c) PROVE IInv'
  BY <1>9, UseIInv
<1>10. ASSUME NEW e \in Edits, Save(e) PROVE IInv'
  <2> DEFINE c == Author[e]
  <2>1. c \in Clients
    OBVIOUS
  <2>2. /\ edit[e] = "new" /\ edit' = [edit EXCEPT ![e] = "sent"]
        /\ UNCHANGED <<queue, fetch, missed>>
        /\ view' = [view EXCEPT ![c] = [view[c] EXCEPT !.shown = @ \cup {e}]]
    BY <1>10 DEF Save, Set
  <2>3. /\ \A d \in Clients : /\ view[d].shown \subseteq view'[d].shown
                              /\ view'[d].mode = view[d].mode
        /\ e \in view'[c].shown
    <3>1. view[c] \in View /\ view'[c] = [view[c] EXCEPT !.shown = @ \cup {e}]
      BY <2>1, <2>2 DEF TypeOK
    <3>2. view'[c].shown = view[c].shown \cup {e} /\ view'[c].mode = view[c].mode
      BY <3>1 DEF View
    <3>3. \A d \in Clients : d # c => view'[d] = view[d]
      BY <2>2 DEF TypeOK
    <3> QED BY <3>2, <3>3
  <2>4. \A f \in Edits : f # e => edit'[f] = edit[f]
    BY <2>2 DEF TypeOK
  <2>5. UntoldIsKnown'
    <3>1. \A f \in Edits : Author[f] \in Clients
      OBVIOUS
    <3> QED BY <2>2, <2>3, <2>4, <3>1 DEF IInv, UntoldIsKnown, Untold
  <2>6. ASSUME NEW d \in Clients PROVE Accounted(d)'
    <3>1. Stale(d)' \subseteq Stale(d) \ {e}
      BY <2>2, <2>3, <2>4 DEF Stale, Stored, TypeOK
    <3>2. \A f \in Edits : InHand(d, f) => InHand(d, f)'
      <4>1. /\ view'[d].pending = view[d].pending /\ view'[d].focused = view[d].focused
            /\ view'[d].frame = view[d].frame
        BY <2>1, <2>2 DEF TypeOK, View
      <4> QED BY <2>2, <4>1 DEF InHand
    <3>3. Waiting(d) => Waiting(d)'
      BY <2>2 DEF Waiting
    <3>4. Stale(d) \subseteq Edits
      BY DEF Stale, Stored
    <3> QED BY <2>2, <2>3, <2>4, <3>1, <3>2, <3>3, <3>4 DEF IInv, Accounted, Comes
  <2> QED BY <2>5, <2>6 DEF IInv
<1>11. ASSUME NEW e \in Edits, Commit(e) PROVE IInv'
  <2>1. Author[e] \in Clients /\ edit[e] = "sent"
    BY <1>11 DEF Commit
  <2>2. \A f \in Edits : f # e => edit'[f] = edit[f]
    BY <1>11 DEF Commit, TypeOK
  <2>3. CASE edit' = [edit EXCEPT ![e] = "refused"] /\ Lock(Author[e]) /\ UNCHANGED missed
    BY <2>1, <2>3, LockIInv DEF TypeOK
  <2>4. CASE /\ edit'[e] \in {"committed", "silent", "refused"}
             /\ UNCHANGED <<view, fetch, link, queue>>
             /\ \A d \in Clients : missed[d] \subseteq missed'[d]
             /\ edit'[e] = "silent" =>
                  \A d \in Clients : e \in view[d].shown \cup missed'[d]
    <3>1. UntoldIsKnown'
      <4> SUFFICES ASSUME NEW d \in Clients, NEW f \in Edits, Untold(d, f)',
                          view[d].mode # "locked"
                   PROVE  f \in view[d].shown \cup missed'[d]
        BY <2>4 DEF UntoldIsKnown
      <4>1. CASE f # e \/ edit'[e] # "silent"
        BY <2>1, <2>2, <2>4, <4>1 DEF IInv, UntoldIsKnown, Untold
      <4>2. CASE f = e /\ edit'[e] = "silent"
        BY <2>4, <4>2
      <4> QED BY <4>1, <4>2
    <3>2. ASSUME NEW d \in Clients PROVE Accounted(d)'
      <4>1. Stale(d)' \subseteq Stale(d) \cup {e} /\ Stale(d)' \subseteq Edits
        BY <2>2, <2>4 DEF Stale, Stored
      <4>2. ASSUME NEW f \in Stale(d)', view[d].mode # "locked"
            PROVE  Comes(d, f)' \/ f \in missed'[d]
        <5>1. CASE f = e /\ (d = Author[e] \/ edit'[e] = "silent")
          <6>1. Untold(d, e) \/ edit'[e] = "silent"
            BY <2>1, <5>1 DEF Untold
          <6> QED BY <2>1, <2>4, <4>2, <5>1, <6>1 DEF IInv, UntoldIsKnown, Stale
        <5>2. CASE f = e /\ d # Author[e] /\ edit'[e] # "silent"
          BY <2>4, <4>2, <5>2 DEF Comes, Stale, Stored
        <5>3. CASE f # e
          BY <2>2, <2>4, <4>1, <4>2, <5>3 DEF IInv, Accounted, Comes, Waiting, InHand
        <5> QED BY <5>1, <5>2, <5>3
      <4> QED BY <2>4, <4>2 DEF Accounted
    <3> QED BY <3>1, <3>2 DEF IInv
  <2>5. CASE /\ edit' = [edit EXCEPT ![e] = "silent"]
             /\ missed' = [d \in Clients |->
                  IF e \in view[d].shown THEN missed[d] ELSE missed[d] \cup {e}]
             /\ UNCHANGED <<view, fetch, link, queue>>
    BY <2>4, <2>5 DEF TypeOK
  <2>6. CASE /\ \E st \in {"committed", "refused"} : edit' = [edit EXCEPT ![e] = st]
             /\ UNCHANGED <<view, fetch, link, queue, missed>>
    BY <2>4, <2>6 DEF TypeOK
  <2> QED BY <1>11, <2>3, <2>5, <2>6 DEF Commit
<1>12. ASSUME NEW e \in Edits, Publish(e) PROVE IInv'
  BY <1>12, PublishIInv
<1>13. CASE Chatter
  <2>1. UNCHANGED <<edit, view, fetch, missed, link>> /\ Send(Other)
    BY <1>13 DEF Chatter
  <2>2. \A c \in Clients : Waiting(c) => Waiting(c)'
    BY <2>1, SendTypes
  <2>3. \A c \in Clients : Accounted(c)'
    BY <2>1, <2>2, Untouched
  <2> QED BY <2>1, <2>3 DEF IInv, UntoldIsKnown, Untold
<1> QED
  BY <1>1, <1>2, <1>3, <1>4, <1>5, <1>6, <1>7, <1>8, <1>9, <1>10, <1>11, <1>12, <1>13
     DEF Next, Serve, Run, Trouble

\* For any number of clients and edits, whatever is stored and not shown is announced,
\* on its way, or lost at one of the statements that write "missed" (hub.go:1-5).
THEOREM Accounting == Spec => []StaleIsAccountedFor
<1>1. IInv => StaleIsAccountedFor
  BY DEF IInv, Accounted, StaleIsAccountedFor
<1>2. Init /\ [][Next]_vars => []StaleIsAccountedFor
  BY InitIInv, NextIInv, <1>1, PTL
<1> QED BY <1>2, PTL DEF Spec
=============================================================================
