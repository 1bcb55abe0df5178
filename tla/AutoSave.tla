------------------------------- MODULE AutoSave -------------------------------
(***************************************************************************)
(* The client keeps the design of the open solution in a file:             *)
(*   src/client/lib/core/services/auto_save_service.dart                   *)
(*   src/client/lib/core/services/solution_storage.dart     saveSolutionFile *)
(*   src/client/lib/main.dart           Save, Save As, Quit                *)
(*                                                                         *)
(* The design lives on the server; its states are numbered.  A save runs   *)
(* between its awaits as a process: it asks the server for the design,     *)
(* then looks up directory and name, then writes.  Nothing keeps two saves *)
(* apart.  What markDirty is told of has been stored before; the steps in  *)
(* between are left out, as is opening another solution.                   *)
(***************************************************************************)
EXTENDS Naturals

CONSTANTS MaxDesign, \* bound: changes of the design
          Saves,     \* bound: saves under way at once
          Places,    \* directories with a file name in each
          NoPlace    \* before the user has chosen one

ASSUME AutoSaveAssumption == MaxDesign \in Nat /\ NoPlace \notin Places

VARIABLES design, \* the newest state of the design
          status, \* _currentStatus
          timer,  \* _debounceTimer runs
          place,  \* _directory and _baseName
          file,   \* file[p]: the design in the file at p, 0 if there is none
          save,   \* save[s]: a call of _performAutoSave
          lost    \* observation: designs the service has stopped caring for

vars == <<design, status, timer, place, file, save, lost>>

Designs == 0 .. MaxDesign
Save == [st : {"none", "asked", "read", "writing"}, holds : Designs,
         to : Places \cup {NoPlace}]
NoSave == [st |-> "none", holds |-> 0, to |-> NoPlace]

TypeOK ==
  /\ design \in Designs
  /\ status \in {"idle", "dirty", "saving", "saved", "error"}
  /\ timer \in BOOLEAN
  /\ place \in Places \cup {NoPlace}
  /\ file \in [Places -> Designs]
  /\ save \in [Saves -> Save]
  /\ lost \subseteq Designs
  /\ \A s \in Saves : save[s].st # "none" => place # NoPlace
  /\ \A s \in Saves : save[s].st = "writing" => save[s].to # NoPlace
  /\ place = NoPlace => ~timer /\ status \in {"idle", "dirty"}

Init ==
  /\ design = 0 /\ status = "idle" /\ timer = FALSE
  /\ place = NoPlace /\ file = [p \in Places |-> 0]
  /\ save = [s \in Saves |-> NoSave]
  /\ lost = {}

Under(s, st) == save[s].st = st

\* A save under way will bring the newest design to the present place.
Brings(s) ==
  \/ Under(s, "asked")
  \/ /\ save[s].holds = design
     /\ Under(s, "read") \/ (Under(s, "writing") /\ save[s].to = place)

Lose(D) == lost' = lost \cup D

----------------------------------------------------------------------------
RestartsAlways == TRUE                  \* a fault: without a directory, too
RestartsUnlessSaving ==                 \* a fault: the save under way will do
  place # NoPlace /\ (timer \/ status # "saving")

\* markDirty: the timer starts anew, if there is a place to save to.
Restarts == place # NoPlace
Change ==
  /\ design < MaxDesign
  /\ design' = design + 1
  /\ status' = "dirty"
  /\ timer' = Restarts
  /\ UNCHANGED <<place, file, save, lost>>

\* _performAutoSave: the save begins ...
Start(s) ==
  /\ Under(s, "none")
  /\ save' = [save EXCEPT ![s] = [NoSave EXCEPT !.st = "asked"]]
  /\ status' = "saving"

DueWhileDirty == timer /\ status = "dirty"  \* a fault

\* ... when the timer fires, whatever the status is by then ...
Due == timer
Fire(s) ==
  /\ Due
  /\ timer' = FALSE
  /\ Start(s)
  /\ UNCHANGED <<design, place, file, lost>>

\* ... or at once: flushNow stops the timer, and then goes by the status.
Flushed ==
  /\ timer' = FALSE
  /\ \/ /\ status \in {"idle", "saved"}
        /\ Lose(IF file[place'] < design THEN {design} ELSE {})
        /\ UNCHANGED <<status, save>>
     \/ /\ status \notin {"idle", "saved"}
        /\ \E s \in Saves : Start(s)
        /\ UNCHANGED lost

\* Save, and Quit before it asks.
Flush ==
  /\ place # NoPlace
  /\ UNCHANGED <<design, place, file>>
  /\ Flushed

\* Save As: updateLocation, then Save.  Nothing marks the design dirty.
SaveAs(p) ==
  /\ place' = p
  /\ UNCHANGED <<design, file>>
  /\ Flushed

----------------------------------------------------------------------------
\* The server reads the design for the save.
Read(s) ==
  /\ Under(s, "asked")
  /\ save' = [save EXCEPT ![s].st = "read", ![s].holds = design]
  /\ UNCHANGED <<design, status, timer, place, file, lost>>

\* The bytes are here; where they go is looked up only now.
Receive(s) ==
  /\ Under(s, "read")
  /\ save' = [save EXCEPT ![s].st = "writing", ![s].to = place]
  /\ UNCHANGED <<design, status, timer, place, file, lost>>

\* The save ends as saved, whatever was marked or failed meanwhile.
Saved(s) ==
  /\ status' = "saved"
  /\ save' = [save EXCEPT ![s] = NoSave]

\* A save that does not bring the newest design hides the error of one that would
\* have, or takes its place in the file.
Hides(s) ==
  IF ~Brings(s) /\ \/ status = "error"
                   \/ save[s].to = place /\ save[s].holds < file[place]
  THEN {design} ELSE {}

Write(s) ==
  /\ Under(s, "writing")
  /\ file' = [file EXCEPT ![save[s].to] = save[s].holds]
  /\ Lose(Hides(s))
  /\ Saved(s)
  /\ UNCHANGED <<design, timer, place>>

\* The directory cannot be written to: the bytes go to the downloads or to a file
\* the user picks or declines to pick, and the result is not looked at.
WriteElsewhere(s) ==
  /\ Under(s, "writing")
  /\ Lose(Hides(s) \cup {save[s].holds})
  /\ Saved(s)
  /\ UNCHANGED <<design, timer, place, file>>

\* The server does not answer, or saving a file fails altogether.
Fail(s) ==
  /\ save[s].st # "none"
  /\ status' = "error"
  /\ save' = [save EXCEPT ![s] = NoSave]
  /\ UNCHANGED <<design, timer, place, file, lost>>

Run(s) == Fire(s) \/ Read(s) \/ Receive(s) \/ Write(s)

Next ==
  \/ Change \/ Flush
  \/ \E p \in Places : SaveAs(p)
  \/ \E s \in Saves : Run(s) \/ WriteElsewhere(s) \/ Fail(s)

\* Timers fire and awaits end.
Spec ==
  /\ Init /\ [][Next]_vars
  /\ \A s \in Saves : /\ WF_vars(Fire(s))
                      /\ WF_vars(Read(s)) /\ WF_vars(Receive(s)) /\ WF_vars(Write(s))

----------------------------------------------------------------------------
\* "Structural data [...] is saved automatically" (auto_save_service.dart:20-21): once
\* there is a place, the newest design is in the file, on its way there, waiting for
\* the timer, reported as an error, or lost in one of the ways the code has.
ChangesAreAccountedFor ==
  place # NoPlace =>
    \/ file[place] = design \/ design \in lost
    \/ timer \/ status = "error" \/ \E s \in Saves : Brings(s)

\* Timers fire and saves end, so a change is in the file in the end, unless a later
\* one takes its place, it is lost, an error is shown, or the solution moves on.
ChangesReachTheFile ==
  \A n \in Designs, p \in Places :
    design = n /\ place = p ~>
      file[p] >= n \/ n \in lost \/ design > n \/ status = "error" \/ place # p
=============================================================================
