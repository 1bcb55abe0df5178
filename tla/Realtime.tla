------------------------------ MODULE Realtime ------------------------------
(***************************************************************************)
(* Change notification between the clients that show one table:            *)
(*   src/server/internal/realtime/hub.go            the hub                *)
(*   src/server/internal/api/realtime_handler.go    ServeWS and the        *)
(*                                                  middleware that emits  *)
(*   src/client/lib/core/realtime/realtime_service.dart   the connection   *)
(*   src/client/lib/main.dart                       what an event reloads  *)
(*   src/client/lib/features/data_browser/data_browser_widget.dart  Browse *)
(*                                                                         *)
(* A record set is the set of the edits it contains: the edits concern     *)
(* different fields and never undo each other.  An event carries no data,  *)
(* only the session it came from.  The queue of a subscriber stands for    *)
(* the channel of the hub together with what is under way on the socket.   *)
(* Browse shows the whole table here: found sets, records inserted and     *)
(* deleted, and reloads the user asks for are left out.                    *)
(* The variable "missed" is an observation: a step that leaves a client    *)
(* behind with nothing on its way says so there, at the statement that     *)
(* does it.                                                                *)
(***************************************************************************)
EXTENDS Naturals, Sequences

CONSTANTS Clients,
          Other,    \* an event about something this table's viewers ignore
          Edits,    \* bound: edits over the whole behaviour
          Author,   \* Author[e]: the client that makes edit e
          Slots,    \* bound: reloads a client has under way at once
          Buffer    \* subscriptionBuffer

ASSUME RealtimeAssumption ==
  /\ Other \notin Clients
  /\ Author \in [Edits -> Clients]
  /\ Buffer \in Nat \ {0}

VARIABLES edit,    \* edit[e]: how far the request that saves it is
          queue,   \* queue[c]: the events for c, a sequence of origins
          link,    \* link[c]: c's connection
          valid,   \* the clients whose session the server still knows
          view,    \* view[c]: Browse of client c
          fetch,   \* fetch[c][k]: a reload of c under way
          missed   \* observation: missed[c], edits c may never hear of again

vars == <<edit, queue, link, valid, view, fetch, missed>>

View == [shown : SUBSET Edits, mode : {"browse", "find", "locked"},
         focused : BOOLEAN, pending : BOOLEAN, frame : BOOLEAN]
NoFetch == [st |-> "none", rows |-> {}, early |-> TRUE]

TypeOK ==
  /\ edit \in [Edits -> {"new", "sent", "committed", "published", "silent", "refused"}]
  /\ queue \in [Clients -> Seq(Clients \cup {Other})]
  /\ \A c \in Clients : /\ Len(queue[c]) <= Buffer
                        /\ link[c] # "up" => queue[c] = <<>>
  /\ link \in [Clients -> {"up", "down", "off"}]
  /\ valid \subseteq Clients
  /\ view \in [Clients -> View]
  /\ fetch \in [Clients -> [Slots -> [st : {"none", "asked", "read"},
                                      rows : SUBSET Edits, early : BOOLEAN]]]
  /\ missed \in [Clients -> SUBSET Edits]

Init ==
  /\ edit = [e \in Edits |-> "new"]
  /\ queue = [c \in Clients |-> <<>>]
  /\ link = [c \in Clients |-> "down"]
  /\ valid = Clients
  /\ view = [c \in Clients |-> [shown |-> {}, mode |-> "browse", focused |-> FALSE,
                                pending |-> FALSE, frame |-> FALSE]]
  /\ fetch = [c \in Clients |-> [k \in Slots |-> NoFetch]]
  /\ missed = [c \in Clients |-> {}]

Stored == {e \in Edits : edit[e] \in {"committed", "published", "silent"}}
Stale(c) == Stored \ view[c].shown
Published == {e \in Edits : edit[e] = "published"}

\* A reload of c is put off or under way that will bring edit e.
InHand(c, e) ==
  \/ view[c].pending /\ view[c].focused
  \/ view[c].frame
  \/ \E k \in Slots : \/ fetch[c][k].st = "asked"
                      \/ fetch[c][k].st = "read" /\ e \in fetch[c][k].rows

\* An event for the table waits in c's queue: its reload will come.
Waiting(c) == \E i \in 1 .. Len(queue[c]) : queue[c][i] \notin {c, Other}

Miss(c, E) == missed' = [missed EXCEPT ![c] = @ \cup E]
Set(c, v) == view' = [view EXCEPT ![c] = v]

----------------------------------------------------------------------------
\* The connection.

AdmitsAnyone(c) == TRUE  \* a fault

\* ServeWS looks the session up once; the welcome precedes every event.
Admits(c) == c \in valid
Connect(c) ==
  /\ link[c] = "down" /\ Admits(c)
  /\ link' = [link EXCEPT ![c] = "up"]
  /\ UNCHANGED <<edit, queue, valid, view, fetch, missed>>

\* A failing read, write or ping ends the connection, and after 60 seconds the
\* timeout that wraps every request does; what waits in the queue goes with it.
\* The client does not reload when it is back.
Disconnect(c) ==
  /\ link[c] = "up"
  /\ link' = [link EXCEPT ![c] = "down"]
  /\ queue' = [queue EXCEPT ![c] = <<>>]
  /\ Miss(c, IF Waiting(c) THEN {e \in Stale(c) \cap Published : ~InHand(c, e)} ELSE {})
  /\ UNCHANGED <<edit, valid, view, fetch>>

\* The session ends on the server: logout elsewhere, revocation, expiry.
Revoke(c) ==
  /\ c \in valid
  /\ valid' = valid \ {c}
  /\ UNCHANGED <<edit, queue, link, view, fetch, missed>>

\* The server answers 401: _handleSessionExpired closes the connection and
\* locks the workspace.
Lock(c) ==
  /\ view' = [view EXCEPT ![c] = [shown |-> {}, mode |-> "locked", focused |-> FALSE,
                                  pending |-> FALSE, frame |-> FALSE]]
  /\ fetch' = [fetch EXCEPT ![c] = [k \in Slots |-> NoFetch]]
  /\ link' = [link EXCEPT ![c] = "off"]
  /\ queue' = [queue EXCEPT ![c] = <<>>]

----------------------------------------------------------------------------
\* Reloading.

Free(c) == {k \in Slots : fetch[c][k].st = "none"}
Forgotten(v) == [v EXCEPT !.frame = FALSE]  \* a fault
Remembered(v) == [v EXCEPT !.pending = TRUE, !.frame = FALSE]
Settled(v) == [v EXCEPT !.pending = FALSE, !.frame = FALSE]

Ask(c) ==
  /\ Free(c) # {}
  /\ fetch' = [fetch EXCEPT ![c][CHOOSE k \in Free(c) : TRUE] =
                 [st |-> "asked", rows |-> {}, early |-> ~view[c].focused]]

\* A fault: a reload that was put off does not look at the focus again.
ReloadAtOnce(c) ==
  /\ view[c].mode = "browse"
  /\ Set(c, Settled(view[c]))
  /\ Ask(c)
  /\ UNCHANGED missed

\* reloadFromRemote: never during a find, and not while a field has the focus.
Reload(c) ==
  LET v == view[c] IN
  \/ /\ v.mode # "browse"
     /\ Set(c, Settled(v))
     /\ Miss(c, Stale(c))
     /\ UNCHANGED fetch
  \/ /\ v.mode = "browse" /\ v.focused
     /\ Set(c, Remembered(v))
     /\ UNCHANGED <<fetch, missed>>
  \/ /\ v.mode = "browse" /\ ~v.focused
     /\ Set(c, Settled(v))
     /\ Ask(c)
     /\ UNCHANGED missed

\* A fault: the name of the table is compared as it is spelled.
ConcernsNothing(c) == FALSE

\* _onMessage drops the client's own events, _onRealtimeEvent those about
\* something else.
Concerns(c) == Head(queue[c]) \notin {c, Other}

\* The next event reaches the client.
Deliver(c) ==
  /\ link[c] = "up" /\ queue[c] # <<>>
  /\ queue' = [queue EXCEPT ![c] = Tail(@)]
  /\ IF Concerns(c) THEN Reload(c) ELSE UNCHANGED <<view, fetch, missed>>
  /\ UNCHANGED <<edit, link, valid>>

\* The callback after the frame in which the last field lost the focus.
AfterFrame(c) == Reload(c)
Frame(c) ==
  /\ view[c].frame
  /\ AfterFrame(c)
  /\ UNCHANGED <<edit, queue, link, valid>>

\* The server reads the rows for a reload ...
Read(c, k) ==
  /\ fetch[c][k].st = "asked"
  /\ IF c \in valid
     THEN /\ fetch' = [fetch EXCEPT ![c][k].st = "read", ![c][k].rows = Stored]
          /\ UNCHANGED <<view, link, queue>>
     ELSE Lock(c)
  /\ UNCHANGED <<edit, valid, missed>>

\* ... and its answer replaces what the client shows, whichever order answers
\* come in.  The field controllers and their focus nodes are made anew: whoever
\* was typing is not any more, and what was put off waits for the next field.
Answer(c, k) ==
  LET v == view[c]  rows == fetch[c][k].rows IN
  /\ fetch[c][k].st = "read"
  /\ fetch' = [fetch EXCEPT ![c][k] = NoFetch]
  /\ Set(c, [v EXCEPT !.shown = rows, !.focused = FALSE])
  /\ missed' = [missed EXCEPT ![c] =
       (@ \cup v.shown \cup IF v.pending /\ v.focused THEN Stored ELSE {}) \ rows]
  /\ UNCHANGED <<edit, queue, link, valid>>

\* A reload fails; nothing tries again.
FetchFails(c, k) ==
  /\ fetch[c][k].st # "none"
  /\ fetch' = [fetch EXCEPT ![c][k] = NoFetch]
  /\ Miss(c, Stale(c))
  /\ UNCHANGED <<edit, queue, link, valid, view>>

----------------------------------------------------------------------------
\* The user.

Focus(c) ==
  /\ view[c].mode = "browse" /\ ~view[c].focused
  /\ Set(c, [view[c] EXCEPT !.focused = TRUE])
  /\ UNCHANGED <<edit, queue, link, valid, fetch, missed>>

\* The focus listener saves the field (Save, the answer not awaited) and then
\* schedules the reload that was put off.
Blur(c) ==
  /\ view[c].focused
  /\ Set(c, [view[c] EXCEPT !.focused = FALSE, !.frame = @ \/ view[c].pending])
  /\ UNCHANGED <<edit, queue, link, valid, fetch, missed>>

\* _rebuildFieldControllers: the field in use and its focus node are disposed of
\* without a blur, so a reload put off for it is scheduled by nobody.
Rebuild(c, mode) ==
  LET v == view[c] IN
  /\ Set(c, [v EXCEPT !.mode = mode, !.focused = FALSE])
  /\ IF v.pending /\ v.focused THEN Miss(c, Stale(c)) ELSE UNCHANGED missed
  /\ UNCHANGED <<edit, queue, link, valid, fetch>>

\* Entering or leaving Find mode makes the controllers anew and reads nothing.
SwitchMode(c) ==
  /\ view[c].mode # "locked"
  /\ Rebuild(c, IF view[c].mode = "find" THEN "browse" ELSE "find")

\* Another or a new record, a revert, a sort, another layout, other columns: so do
\* they, also while a field is being edited.  What was typed is saved before (Save).
Move(c) ==
  /\ view[c].mode = "browse" /\ view[c].focused
  /\ Rebuild(c, "browse")

\* _saveField: shown at once, sent to the server.
Save(e) ==
  LET c == Author[e] IN
  /\ edit[e] = "new"
  /\ view[c].focused
  /\ edit' = [edit EXCEPT ![e] = "sent"]
  /\ Set(c, [view[c] EXCEPT !.shown = @ \cup {e}])
  /\ UNCHANGED <<queue, link, valid, fetch, missed>>

----------------------------------------------------------------------------
\* The server.

\* The handler stores the edit, or refuses it.  UpdateRow reads the row back after
\* storing it: when that fails, the answer is an error and nobody is told.
Commit(e) ==
  /\ edit[e] = "sent"
  /\ \/ /\ Author[e] \in valid
        /\ \E st \in {"committed", "refused"} : edit' = [edit EXCEPT ![e] = st]
        /\ UNCHANGED <<view, fetch, link, queue, missed>>
     \/ /\ Author[e] \in valid
        /\ edit' = [edit EXCEPT ![e] = "silent"]
        /\ missed' = [c \in Clients |->
             IF e \in view[c].shown THEN missed[c] ELSE missed[c] \cup {e}]
        /\ UNCHANGED <<view, fetch, link, queue>>
     \/ /\ Author[e] \notin valid
        /\ edit' = [edit EXCEPT ![e] = "refused"]
        /\ Lock(Author[e])
        /\ UNCHANGED missed
  /\ UNCHANGED valid

RoomAlways(c) == link[c] = "up"  \* a fault

\* Hub.Publish: a subscriber with a full queue is skipped.
Room(c) == link[c] = "up" /\ Len(queue[c]) < Buffer
Send(origin) == queue' = [c \in Clients |->
  IF Room(c) THEN Append(queue[c], origin) ELSE queue[c]]

\* emitChangeEvents, after the handler has answered with success.
Publish(e) ==
  /\ edit[e] = "committed"
  /\ edit' = [edit EXCEPT ![e] = "published"]
  /\ Send(Author[e])
  /\ missed' = [c \in Clients |->
       IF c = Author[e] \/ Room(c) \/ Waiting(c) \/ e \in view[c].shown THEN missed[c]
       ELSE missed[c] \cup {e}]
  /\ UNCHANGED <<link, valid, view, fetch>>

\* Something this table's viewers ignore changes.
Chatter ==
  /\ Send(Other)
  /\ queue' # queue
  /\ UNCHANGED <<edit, link, valid, view, fetch, missed>>

Serve(e) == Commit(e) \/ Publish(e)
Run(c) == Deliver(c) \/ Frame(c) \/ \E k \in Slots : Read(c, k) \/ Answer(c, k)
Use(c) == Focus(c) \/ Blur(c) \/ SwitchMode(c) \/ Move(c)
Trouble(c) == Revoke(c) \/ \E k \in Slots : FetchFails(c, k)

Next ==
  \/ \E e \in Edits : Save(e) \/ Serve(e)
  \/ \E c \in Clients : Run(c) \/ Use(c) \/ Connect(c) \/ Disconnect(c) \/ Trouble(c)
  \/ Chatter

\* Handlers end, timers fire, frames are drawn and requests are answered.
Fairness ==
  /\ \A e \in Edits : WF_vars(Commit(e)) /\ WF_vars(Publish(e))
  /\ \A c \in Clients :
       /\ WF_vars(Deliver(c)) /\ WF_vars(Frame(c))
       /\ WF_vars(Connect(c))
       /\ \A k \in Slots : WF_vars(Read(c, k)) /\ WF_vars(Answer(c, k))

Spec == Init /\ [][Next]_vars /\ Fairness

----------------------------------------------------------------------------
Comes(c, e) ==
  \/ Author[e] # c /\ edit[e] = "committed"
  \/ Waiting(c)
  \/ InHand(c, e)

\* "Every open window reloads [...] instead of going stale" (hub.go:1-5): an edit
\* that is stored and not shown is still to be announced, announced, waiting for
\* the user to leave a field, being read, or lost at one of the statements that
\* write it into "missed": a row that cannot be read back, a full queue, no
\* connection, a connection that ends, a find, a field taken away under a reload
\* put off, an older answer after a newer one, a reload that fails.
StaleIsAccountedFor ==
  \A c \in Clients, e \in Edits :
    e \in Stale(c) /\ view[c].mode # "locked" => Comes(c, e) \/ e \in missed[c]

\* "it never interrupts your typing" (CHANGELOG.md:112): a reload that takes the
\* field away was asked for before the field had the focus, never while it had it.
NoReloadBegunWhileTyping ==
  \A c \in Clients, k \in Slots : fetch[c][k].st # "none" => fetch[c][k].early

\* Events are delivered and reloads end (_onRealtimeEvent, main.dart:305-312): a
\* client whose user does not stay in a field shows in the end what another has
\* stored and the server has announced, unless it is lost or the user signed out.
\* Nothing obliges a connection to end, so that is no excuse.
ChangesAreShown ==
  \A c \in Clients, e \in Edits :
    <>[]~view[c].focused =>
      (edit[e] = "published" /\ e \in Stale(c) ~>
         e \in view[c].shown \cup missed[c] \/ view[c].mode = "locked")

\* The session is looked up once, when the connection is made
\* (realtime_handler.go:70).  If no connection outlives the timeout of a request
\* (main.go:238), a dead session is cut off for good.
DeadSessionsAreCutOff ==
  (\A c \in Clients : WF_vars(Disconnect(c))) =>
    \A c \in Clients : <>[](c \in valid \/ link[c] # "up")
=============================================================================
