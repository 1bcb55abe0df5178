---------------------------- MODULE AutoSaveProofs ----------------------------
(***************************************************************************)
(* What holds of AutoSave for every number of changes, of places and of    *)
(* saves under way at once.                                                *)
(***************************************************************************)
EXTENDS AutoSave, TLAPS

USE AutoSaveAssumption

\* Nothing that is stored or under way is ahead of the design on the server.
Behind ==
  /\ \A p \in Places : file[p] <= design
  /\ \A s \in Saves : save[s].holds <= design

\* The inductive invariant: without Behind a file could hold a design that is yet
\* to be made, which a change would then not have to save.
IInv == TypeOK /\ Behind /\ ChangesAreAccountedFor

\* No directory, no changes and no saves to begin with.
LEMMA InitIInv == Init => IInv
<1> SUFFICES ASSUME Init PROVE IInv
  OBVIOUS
<1>1. 0 \in Designs
  BY DEF Designs
<1>2. NoSave \in Save /\ NoSave.st = "none" /\ NoSave.holds = 0
  BY <1>1 DEF NoSave, Save
<1>3. TypeOK
  BY <1>1, <1>2 DEF Init, TypeOK
<1>4. Behind
  BY <1>2 DEF Init, Behind
<1> QED BY <1>3, <1>4 DEF Init, IInv, ChangesAreAccountedFor

\* A save that begins keeps the types, and is behind no design (_performAutoSave).
LEMMA StartTypes ==
  ASSUME TypeOK, Behind, NEW s \in Saves, Start(s), place' # NoPlace
  PROVE  /\ save' \in [Saves -> Save]
         /\ status' = "saving"
         /\ save'[s].st = "asked"
         /\ \A t \in Saves : save'[t].holds <= design
         /\ \A t \in Saves : save'[t].st = "writing" => save'[t].to # NoPlace
<1>1. [NoSave EXCEPT !.st = "asked"] = [st |-> "asked", holds |-> 0, to |-> NoPlace]
  BY DEF NoSave
<1>2. [st |-> "asked", holds |-> 0, to |-> NoPlace] \in Save
  BY DEF Save, Designs
<1>3. design >= 0
  BY DEF TypeOK, Designs
<1> QED BY <1>1, <1>2, <1>3 DEF Start, TypeOK, Behind, Designs

\* A save that ends leaves nothing behind.
LEMMA EndTypes ==
  ASSUME TypeOK, Behind, NEW s \in Saves, save' = [save EXCEPT ![s] = NoSave]
  PROVE  /\ save' \in [Saves -> Save]
         /\ save'[s].st = "none"
         /\ \A t \in Saves : t # s => save'[t] = save[t]
         /\ \A t \in Saves : save'[t].holds <= design
         /\ \A t \in Saves : save'[t].st = "writing" => save'[t].to # NoPlace
         /\ \A t \in Saves : save'[t].st # "none" => place # NoPlace
<1>1. NoSave \in Save /\ NoSave.st = "none" /\ NoSave.holds = 0
  BY DEF NoSave, Save, Designs
<1>2. design >= 0
  BY DEF TypeOK, Designs
<1> QED BY <1>1, <1>2 DEF TypeOK, Behind

\* A flush, by itself or as a part of Save As, keeps the invariant (flushNow).
LEMMA FlushedIInv ==
  ASSUME IInv, Flushed, UNCHANGED <<design, file>>,
         place' \in Places \cup {NoPlace}, place' # NoPlace
  PROVE  IInv'
<1> USE DEF IInv
<1>1. timer' = FALSE
  BY DEF Flushed
<1>2. design \in Nat /\ \A p \in Places : file[p] \in Nat
  BY DEF TypeOK, Designs
<1>3. CASE /\ status \in {"idle", "saved"}
           /\ Lose(IF file[place'] < design THEN {design} ELSE {})
           /\ UNCHANGED <<status, save>>
  <2>1. file[place'] = design \/ design \in lost'
    BY <1>2, <1>3 DEF Lose, Behind
  <2>2. lost' \subseteq Designs
    BY <1>3 DEF Lose, TypeOK
  <2> QED BY <1>1, <1>3, <2>1, <2>2 DEF TypeOK, Behind, ChangesAreAccountedFor
<1>4. ASSUME NEW s \in Saves, Start(s), UNCHANGED lost PROVE IInv'
  <2>1. Brings(s)'
    BY <1>4, StartTypes DEF Brings, Under
  <2> QED BY <1>1, <1>4, <2>1, StartTypes DEF TypeOK, Behind, ChangesAreAccountedFor
<1> QED BY <1>3, <1>4 DEF Flushed

\* A save that ends as saved has brought the newest design, or what would have
\* brought it is still there, or the design is lost.
LEMMA EndIInv ==
  ASSUME IInv, NEW s \in Saves, Under(s, "writing"), Saved(s),
         UNCHANGED <<design, timer, place>>,
         \/ file' = [file EXCEPT ![save[s].to] = save[s].holds]
         \/ UNCHANGED file /\ save[s].holds \in lost',
         lost' \subseteq Designs, lost \cup Hides(s) \subseteq lost'
  PROVE  IInv'
<1> USE DEF IInv
<1>1. /\ save[s].to \in Places /\ save[s].holds \in Designs /\ save[s].holds <= design
      /\ design \in Nat /\ file \in [Places -> Designs] /\ Designs \subseteq Nat
      /\ save[s].st = "writing" /\ place # NoPlace /\ place \in Places
      /\ \A p \in Places : file[p] <= design
  BY DEF Under, TypeOK, Save, Designs, Behind
<1>2. save' = [save EXCEPT ![s] = NoSave] /\ status' = "saved"
  BY DEF Saved
<1>3. file' \in [Places -> Designs] /\ \A p \in Places : file'[p] <= design
  BY <1>1
<1>4. TypeOK' /\ Behind'
  BY <1>1, <1>2, <1>3, EndTypes DEF TypeOK, Behind
<1>5. CASE Brings(s)
  <2>1. save[s].holds = design /\ save[s].to = place
    BY <1>1, <1>5 DEF Brings, Under
  <2>2. file'[place] = design \/ design \in lost'
    BY <1>1, <2>1
  <2> QED BY <1>4, <2>2 DEF ChangesAreAccountedFor
<1>6. CASE ~Brings(s) /\ design \notin lost'
  <2>1. status # "error" /\ ~(save[s].to = place /\ save[s].holds < file[place])
    BY <1>6 DEF Hides
  <2>2. ASSUME file[place] = design PROVE file'[place] = design
    <3>1. CASE save[s].to # place
      BY <1>1, <2>2, <3>1
    <3>2. CASE save[s].to = place
      <4>1. save[s].holds = design
        <5>1. save[s].holds \in Nat /\ design \in Nat /\ save[s].holds <= design
          BY <1>1
        <5>2. ~(save[s].holds < design)
          BY <2>1, <2>2, <3>2
        <5> QED BY <5>1, <5>2
      <4> QED BY <1>1, <1>6, <3>2, <4>1 DEF Brings, Under
    <3> QED BY <3>1, <3>2
  <2>3. ASSUME NEW t \in Saves, Brings(t) PROVE Brings(t)'
    <3>1. t # s
      BY <1>6, <2>3
    <3>2. save'[t] = save[t]
      BY <1>2, <3>1, EndTypes
    <3> QED BY <2>3, <3>2 DEF Brings, Under
  <2>4. \/ file[place] = design \/ design \in lost
        \/ timer \/ \E t \in Saves : Brings(t)
    BY <1>1, <2>1 DEF ChangesAreAccountedFor
  <2> QED BY <1>4, <1>6, <2>2, <2>3, <2>4 DEF ChangesAreAccountedFor
<1>7. CASE design \in lost'
  BY <1>4, <1>7 DEF ChangesAreAccountedFor
<1> QED BY <1>5, <1>6, <1>7

\* Every step of the service, the server and the user keeps the invariant.
LEMMA NextIInv == IInv /\ [Next]_vars => IInv'
<1> SUFFICES ASSUME IInv, [Next]_vars PROVE IInv'
  OBVIOUS
<1> USE DEF IInv
<1>0. design \in Nat /\ MaxDesign \in Nat
  BY DEF TypeOK, Designs
<1>1. CASE UNCHANGED vars
  BY <1>1 DEF vars, TypeOK, Behind, ChangesAreAccountedFor, Brings, Under
<1>2. CASE Change
  <2>1. design' \in Designs /\ design' = design + 1
    BY <1>0, <1>2 DEF Change, Designs
  <2>2. \A n \in Nat : n <= design => n <= design'
    BY <1>0, <2>1
  <2>3. Behind'
    BY <1>2, <2>2 DEF Change, TypeOK, Behind, Save, Designs
  <2> QED BY <1>2, <2>1, <2>3 DEF Change, Restarts, TypeOK, ChangesAreAccountedFor
<1>3. CASE Flush
  BY <1>3, FlushedIInv DEF Flush, TypeOK
<1>4. ASSUME NEW p \in Places, SaveAs(p) PROVE IInv'
  BY <1>4, FlushedIInv DEF SaveAs
<1>5. ASSUME NEW s \in Saves, Fire(s) PROVE IInv'
  <2>1. place' # NoPlace
    BY <1>5 DEF Fire, Due, TypeOK
  <2>2. Start(s) /\ timer' = FALSE /\ UNCHANGED <<design, place, file, lost>>
    BY <1>5 DEF Fire
  <2>3. Brings(s)'
    BY <2>1, <2>2, StartTypes DEF Brings, Under
  <2> QED BY <2>1, <2>2, <2>3, StartTypes DEF TypeOK, Behind, ChangesAreAccountedFor
<1>6. ASSUME NEW s \in Saves, Read(s) PROVE IInv'
  <2>1. /\ save'[s].st = "read" /\ save'[s].holds = design
        /\ \A t \in Saves : t # s => save'[t] = save[t]
    BY <1>6 DEF Read, TypeOK, Save
  <2>2. TypeOK' /\ Behind'
    <3>1. save' \in [Saves -> Save]
      BY <1>6 DEF Read, TypeOK, Save
    <3>2. place # NoPlace
      BY <1>6 DEF Read, TypeOK, Under
    <3>3. design <= design
      BY <1>0
    <3> QED BY <1>6, <2>1, <3>1, <3>2, <3>3 DEF Read, TypeOK, Behind
  <2>3. \A t \in Saves : Brings(t) => Brings(t)'
    BY <1>6, <2>1 DEF Read, Brings, Under
  <2> QED BY <1>6, <2>2, <2>3 DEF Read, ChangesAreAccountedFor
<1>7. ASSUME NEW s \in Saves, Receive(s) PROVE IInv'
  <2>1. /\ save'[s].st = "writing" /\ save'[s].holds = save[s].holds
        /\ save'[s].to = place
        /\ \A t \in Saves : t # s => save'[t] = save[t]
    BY <1>7 DEF Receive, TypeOK, Save
  <2>2. TypeOK' /\ Behind'
    BY <1>7, <1>0, <2>1 DEF Receive, TypeOK, Behind, Save, Under
  <2>3. \A t \in Saves : Brings(t) => Brings(t)'
    BY <1>7, <2>1 DEF Receive, Brings, Under
  <2> QED BY <1>7, <2>2, <2>3 DEF Receive, ChangesAreAccountedFor
<1>8. ASSUME NEW s \in Saves, Write(s) PROVE IInv'
  <2>1. Hides(s) \subseteq Designs
    BY DEF Hides, TypeOK
  <2>2. lost' \subseteq Designs /\ lost \cup Hides(s) \subseteq lost'
    BY <1>8, <2>1 DEF Write, Lose, TypeOK
  <2> QED BY <1>8, <2>2, EndIInv DEF Write
<1>9. ASSUME NEW s \in Saves, WriteElsewhere(s) PROVE IInv'
  <2>1. Hides(s) \cup {save[s].holds} \subseteq Designs
    BY DEF Hides, TypeOK, Save
  <2>2. /\ lost' \subseteq Designs /\ lost \cup Hides(s) \subseteq lost'
        /\ save[s].holds \in lost'
    BY <1>9, <2>1 DEF WriteElsewhere, Lose, TypeOK
  <2> QED BY <1>9, <2>2, EndIInv DEF WriteElsewhere
<1>10. ASSUME NEW s \in Saves, Fail(s) PROVE IInv'
  BY <1>10, EndTypes DEF Fail, TypeOK, Behind, ChangesAreAccountedFor
<1> QED
  BY <1>1, <1>2, <1>3, <1>4, <1>5, <1>6, <1>7, <1>8, <1>9, <1>10 DEF Next, Run

\* The service keeps its types, and nothing is under way before there is a place to
\* save to (auto_save_service.dart:92-95).
THEOREM Typing == Spec => []TypeOK
<1>1. IInv => TypeOK
  BY DEF IInv
<1> QED BY InitIInv, NextIInv, <1>1, PTL DEF Spec

\* However many saves overlap, a change that markDirty was told of is saved, under
\* way, due, reported, or lost in a way the model names.
THEOREM Accounting == Spec => []ChangesAreAccountedFor
<1>1. IInv => ChangesAreAccountedFor
  BY DEF IInv
<1> QED BY InitIInv, NextIInv, <1>1, PTL DEF Spec
=============================================================================
