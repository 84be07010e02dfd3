--------------------------- MODULE StaffDevice_proofs ---------------------------
(***************************************************************************)
(* A dialog of the manager edits an order at most once (ManagerDesk as     *)
(* StaffDevice runs it).  Operation ids are what ties the two counters: an *)
(* edit needs an id of its own, and ids are drawn only by dialogs that     *)
(* open.                                                                   *)
(***************************************************************************)
EXTENDS StaffDevice, FiniteSetTheorems, TLAPS

\* The fields of a call that matter here.
CallFields == {"what", "op", "id", "verdict"}

\* Calls and the dialog have their fields.
CallsAreCalls ==
  /\ asked = [s \in Lanes |-> asked[s]]
  /\ \A s \in Lanes : CallFields \subseteq DOMAIN asked[s]
  /\ {"op", "id"} \subseteq DOMAIN form

\* The ids D were drawn by dialogs: no more of them than dialogs, and every id at
\* the server, in a call or in the dialog is one of them.
Drawn(D) ==
  /\ D \subseteq 1..moves /\ IsFiniteSet(D) /\ Cardinality(D) <= opened
  /\ applied \subseteq D
  /\ \A s \in Lanes : asked[s].op = "edit" => asked[s].id \in D
  /\ form.op = "edit" => form.id \in D

\* The inductive invariant: as many edits as ids that were used, as many ids as dialogs.
DeskInv ==
  /\ CallsAreCalls
  /\ moves \in Nat /\ opened \in Nat /\ edits = Cardinality(applied)
  /\ \E D \in SUBSET Nat : Drawn(D)

\* The call c goes on as the call e: another one of the same dialog, or none.
GoesOn(c, e) == CallFields \subseteq DOMAIN e /\ (e.op = "none" \/ (e.op = c.op /\ e.id = c.id))

\* The dialog that edits, if any, was there.
FormKept == /\ {"op", "id"} \subseteq DOMAIN form'
            /\ form'.op = "edit" => form.op = "edit" /\ form'.id = form.id

\* What a step may change without drawing an id or editing.
DrawsNothing ==
  /\ CallsAreCalls'
  /\ moves' = moves \/ moves' = moves + 1
  /\ UNCHANGED << applied, edits, opened >>
  /\ \A s \in Lanes : asked'[s].op = "edit" =>
       \/ asked[s].op = "edit" /\ asked'[s].id = asked[s].id
       \/ form.op = "edit" /\ asked'[s].id = form.id
  /\ form'.op = "edit" => form.op = "edit" /\ form'.id = form.id

\* A step that draws no id and edits nothing keeps it.
LEMMA NothingDrawn == ASSUME DeskInv, DrawsNothing PROVE DeskInv'
  <1>1. PICK D \in SUBSET Nat : Drawn(D)
    BY DEF DeskInv
  <1>2. 1..moves \subseteq 1..moves'
    BY DEF DeskInv, DrawsNothing
  <1>3. Drawn(D)'
    BY <1>1, <1>2 DEF Drawn, DrawsNothing
  <1> QED
    BY <1>3 DEF DeskInv, DrawsNothing

\* A call of kind c is sent.
LEMMA CallSent ==
  ASSUME DeskInv, NEW s \in Lanes, NEW c, Desk!Send(s, c),
         CallFields \subseteq DOMAIN c
  PROVE  /\ asked' = [r \in Lanes |-> asked'[r]]
         /\ \A r \in Lanes : CallFields \subseteq DOMAIN asked'[r]
         /\ asked'[s].op = c.op /\ asked'[s].id = c.id
         /\ \A r \in Lanes \ {s} : asked'[r] = asked[r]
  BY DEF DeskInv, CallsAreCalls, CallFields, Desk!Send

\* A call that asks for a page.
LEMMA QuestionSent ==
  ASSUME DeskInv, NEW s \in Lanes, Desk!load(s) \/ Desk!poll(s) \/ Desk!refresh(s)
  PROVE  DeskInv'
  <1> DEFINE timed == [Desk!Question EXCEPT !.timer = TRUE]
  <1>1. /\ CallFields \subseteq DOMAIN Desk!Question /\ Desk!Question.op = "none"
        /\ CallFields \subseteq DOMAIN timed /\ timed.op = "none"
    BY DEF CallFields, Desk!Question, Desk!Free
  <1>2. Desk!Send(s, Desk!Question) \/ Desk!Send(s, timed)
    BY DEF Desk!load, Desk!poll, Desk!refresh
  <1>3. UNCHANGED << applied, edits, opened, form >> /\ (moves' = moves \/ moves' = moves + 1)
    BY DEF Desk!load, Desk!poll, Desk!refresh, Desk!serverVars, Desk!Move
  <1> HIDE DEF timed
  <1> QED
    BY <1>1, <1>2, <1>3, CallSent, NothingDrawn DEF DrawsNothing, DeskInv, CallsAreCalls

\* The button of a dialog: its command carries the dialog's id.
LEMMA CommandSent ==
  ASSUME DeskInv, NEW s \in Lanes, Desk!submit(s) \/ Desk!submitItem(s)
  PROVE  DeskInv'
  <1> DEFINE command == Desk!FormCommand
             item == [Desk!FormCommand EXCEPT !.id = form.id]
  <1>1. /\ CallFields \subseteq DOMAIN command /\ command.op = form.op
        /\ CallFields \subseteq DOMAIN item
        /\ item.op = form.op /\ item.id = form.id
    BY DEF CallFields, Desk!FormCommand, Desk!Question, Desk!Free
  <1>2. /\ UNCHANGED << applied, edits, opened, moves >>
        /\ form' = [form EXCEPT !.pending = TRUE, !.error = FALSE]
    BY DEF Desk!submit, Desk!submitItem, Desk!Submit, Desk!serverVars
  <1>3. form'.op = form.op /\ form'.id = form.id /\ {"op", "id"} \subseteq DOMAIN form'
    BY <1>2 DEF DeskInv, CallsAreCalls
  <1>4. CASE Desk!submit(s)
    <2>1. form.op # "edit" /\ Desk!Send(s, command)
      BY <1>4 DEF Desk!submit, Desk!Submit
    <2> HIDE DEF command
    <2> QED
      BY <1>1, <1>2, <1>3, <2>1, CallSent, NothingDrawn DEF DrawsNothing, DeskInv, CallsAreCalls
  <1>5. CASE Desk!submitItem(s)
    <2>1. form.op = "edit" /\ Desk!Send(s, item)
      BY <1>5 DEF Desk!submitItem, Desk!Submit
    <2> HIDE DEF item
    <2> QED
      BY <1>1, <1>2, <1>3, <2>1, CallSent, NothingDrawn DEF DrawsNothing, DeskInv, CallsAreCalls
  <1> QED
    BY <1>4, <1>5

\* A dialog that stays is the same one.
LEMMA FormStays ==
  ASSUME DeskInv, NEW c, NEW error, Desk!FormEnds(c, error)
  PROVE  FormKept
  BY DEF DeskInv, CallsAreCalls, FormKept, Desk!FormEnds, Desk!NoForm

\* A call of the lane s goes on as another one of the same dialog, or is over.
LEMMA CallGoesOn ==
  ASSUME DeskInv, NEW s \in Lanes, NEW c, asked' = [asked EXCEPT ![s] = c],
         GoesOn(asked[s], c), FormKept,
         moves' = moves \/ moves' = moves + 1
  PROVE  /\ CallsAreCalls'
         /\ UNCHANGED << applied, edits, opened >> => DeskInv'
  <1>1. CallsAreCalls'
    BY DEF DeskInv, CallsAreCalls, GoesOn, FormKept
  <1>2. UNCHANGED << applied, edits, opened >> => DrawsNothing
    BY <1>1 DEF DeskInv, CallsAreCalls, DrawsNothing, GoesOn, FormKept
  <1> QED
    BY <1>1, <1>2, NothingDrawn

\* A call that is over carries nothing.
LEMMA FreeIsFree == \A c : GoesOn(c, Desk!Free)
  BY DEF Desk!Free, GoesOn, CallFields

\* Answers are applied.
LEMMA SettledKeeps == ASSUME DeskInv, NEW s \in Lanes, Desk!Settled(s) PROVE DeskInv'
  <1> DEFINE c == asked[s]
  <1>1. UNCHANGED << applied, edits, opened, moves >>
    BY DEF Desk!Settled, Desk!receiveLoad, Desk!receiveCommand, Desk!fail, Desk!serverVars
  <1>2. FormKept
    BY FormStays DEF Desk!Settled, Desk!receiveLoad, Desk!receiveCommand, Desk!fail, DeskInv,
                     CallsAreCalls, FormKept
  <1>3. \E e : asked' = [asked EXCEPT ![s] = e] /\ GoesOn(c, e)
    <2>1. CASE asked' = [asked EXCEPT ![s] = Desk!Free]
      BY <2>1, FreeIsFree
    <2> DEFINE ghost == [c EXCEPT !.what = "ghost", !.mounted = FALSE]
               question == [c EXCEPT !.what = "load", !.verdict = "none", !.cut = ~linked]
    <2>2. GoesOn(c, ghost) /\ GoesOn(c, question)
      BY DEF DeskInv, CallsAreCalls, GoesOn, CallFields
    <2>3. \/ asked' = [asked EXCEPT ![s] = Desk!Free]
          \/ asked' = [asked EXCEPT ![s] = ghost] \/ asked' = [asked EXCEPT ![s] = question]
      BY DEF Desk!Settled, Desk!receiveLoad, Desk!receiveCommand, Desk!fail
    <2> HIDE DEF ghost, question
    <2> QED
      BY <2>1, <2>2, <2>3
  <1> QED
    BY <1>1, <1>2, <1>3, CallGoesOn

\* The server answers, but for edits.
LEMMA AnsweredKeeps ==
  ASSUME DeskInv, NEW s \in Lanes, NEW verdict, Desk!Answered(s, verdict), UNCHANGED form,
         moves' = moves \/ moves' = moves + 1
  PROVE  /\ CallsAreCalls'
         /\ UNCHANGED << applied, edits, opened >> => DeskInv'
         /\ \A r \in Lanes : asked'[r].op = "edit" =>
              asked[r].op = "edit" /\ asked'[r].id = asked[r].id
  <1> DEFINE c == IF asked[s].what = "ghost" THEN Desk!Free
                  ELSE [asked[s] EXCEPT !.verdict = verdict]
  <1>1. asked' = [asked EXCEPT ![s] = c]
    BY DEF Desk!Answered
  <1>2. GoesOn(asked[s], c) /\ FormKept
    BY FreeIsFree DEF DeskInv, CallsAreCalls, GoesOn, CallFields, FormKept
  <1> HIDE DEF c
  <1> QED
    BY <1>1, <1>2, CallGoesOn DEF DeskInv, CallsAreCalls, GoesOn

\* The server edits for an id it does not know, and knows it then.
LEMMA EditAnswered == ASSUME DeskInv, NEW s \in Lanes, Desk!answerEdit(s) PROVE DeskInv'
  <1>1. /\ asked[s].op = "edit" /\ UNCHANGED << form, opened, moves >>
        /\ \E verdict : Desk!Answered(s, verdict)
    BY DEF Desk!answerEdit
  <1>2. CallsAreCalls' /\ \A r \in Lanes :
          asked'[r].op = "edit" => asked[r].op = "edit" /\ asked'[r].id = asked[r].id
    BY <1>1, AnsweredKeeps
  <1>3. PICK D \in SUBSET Nat : Drawn(D)
    BY DEF DeskInv
  <1>4. \/ UNCHANGED << applied, edits >>
        \/ asked[s].id \notin applied /\ applied' = applied \cup {asked[s].id} /\ edits' = edits + 1
    BY DEF Desk!answerEdit, Desk!Known
  <1>5. Drawn(D)'
    BY <1>1, <1>2, <1>3, <1>4 DEF Drawn
  <1>6. edits' = Cardinality(applied')
    <2>1. IsFiniteSet(applied)
      BY <1>3, FS_Subset DEF Drawn
    <2> QED
      BY <1>4, <2>1, FS_AddElement DEF DeskInv
  <1> QED
    BY <1>1, <1>2, <1>5, <1>6 DEF DeskInv

\* The server, and other people at it.
LEMMA ServerKeeps ==
  ASSUME DeskInv, NEW s \in Lanes, Desk!answerLoad(s) \/ Desk!answerCommand(s) \/ Desk!throttle(s)
  PROVE  DeskInv'
  <1>1. UNCHANGED << applied, edits, opened, form >> /\ (moves' = moves \/ moves' = moves + 1)
    BY DEF Desk!answerLoad, Desk!answerCommand, Desk!throttle, Desk!serverVars, Desk!Move
  <1>2. CASE Desk!answerLoad(s)
    <2> DEFINE c == [asked[s] EXCEPT !.verdict = "ok", !.ans = Desk!Asked(asked[s].sc)]
    <2>1. asked' = [asked EXCEPT ![s] = c]
      BY <1>2 DEF Desk!answerLoad
    <2>2. GoesOn(asked[s], c) /\ FormKept
      BY <1>1 DEF DeskInv, CallsAreCalls, GoesOn, CallFields, FormKept
    <2> HIDE DEF c
    <2> QED
      BY <1>1, <2>1, <2>2, CallGoesOn
  <1>3. CASE Desk!answerCommand(s) \/ Desk!throttle(s)
    <2>1. \E verdict : Desk!Answered(s, verdict)
      BY <1>3 DEF Desk!answerCommand, Desk!throttle
    <2> QED
      BY <1>1, <2>1, AnsweredKeeps
  <1> QED
    BY <1>2, <1>3

\* A dialog that edits opens with an id no one has had.
LEMMA ItemOpened == ASSUME DeskInv, NEW d \in Orders, Desk!openItem(d) PROVE DeskInv'
  <1>1. PICK D \in SUBSET Nat : Drawn(D)
    BY DEF DeskInv
  <1>2. /\ moves' = moves + 1 /\ opened' = opened + 1
        /\ form' = [Desk!NoForm EXCEPT !.op = "edit", !.id = moves']
        /\ UNCHANGED << applied, edits, asked >>
    BY DEF Desk!openItem, Desk!serverVars, Desk!Move
  <1>3. PICK n \in Nat : n = moves + 1
    BY DEF DeskInv
  <1>4. n \notin D /\ D \cup {n} \in SUBSET Nat /\ D \cup {n} \subseteq 1..moves'
    BY <1>1, <1>2, <1>3 DEF Drawn, DeskInv
  <1>5. /\ IsFiniteSet(D \cup {n}) /\ Cardinality(D \cup {n}) = Cardinality(D) + 1
        /\ Cardinality(D) \in Nat
    BY <1>1, <1>4, FS_AddElement, FS_CardinalityType DEF Drawn
  <1>6. {"op", "id"} \subseteq DOMAIN form' /\ form'.id = n
    BY <1>2, <1>3 DEF Desk!NoForm
  <1>7. Drawn(D \cup {n})'
    <2>1. Cardinality(D \cup {n}) <= opened'
      BY <1>1, <1>2, <1>5 DEF Drawn, DeskInv
    <2>2. applied' \subseteq D \cup {n}
          /\ \A s \in Lanes : asked'[s].op = "edit" => asked'[s].id \in D \cup {n}
      BY <1>1, <1>2 DEF Drawn
    <2> QED
      BY <1>4, <1>5, <1>6, <2>1, <2>2 DEF Drawn
  <1>8. CallsAreCalls' /\ moves' \in Nat /\ opened' \in Nat /\ edits' = Cardinality(applied')
    BY <1>2, <1>6 DEF DeskInv, CallsAreCalls
  <1> QED
    BY <1>4, <1>7, <1>8 DEF DeskInv

\* Other dialogs, the pages, the tab, the network and the other people draw no id.
LEMMA PagesKeep ==
  ASSUME DeskInv,
         \/ \E d \in Desk!Documents, op \in DOMAIN Desk!From : Desk!openForm(d, op)
         \/ Desk!closeForm \/ Desk!deadline
         \/ \E d \in Desk!Documents : Desk!Others(d)
         \/ \E sc \in Desk!Lists \cup Desk!Pages : Desk!goTo(sc) \/ Desk!changeFilters(sc)
         \/ Desk!goOffline \/ Desk!goOnline \/ Desk!hide \/ Desk!show
  PROVE  DeskInv'
  <1>1. UNCHANGED << applied, edits, opened >> /\ (moves' = moves \/ moves' = moves + 1)
    BY DEF Desk!openForm, Desk!closeForm, Desk!deadline, Desk!Others, Desk!goTo, Desk!changeFilters,
           Desk!goOffline, Desk!goOnline, Desk!hide, Desk!show, Desk!serverVars, Desk!Move
  <1>2. FormKept
    <2>1. ASSUME NEW d, NEW op, Desk!openForm(d, op) PROVE FormKept
      BY <2>1 DEF Desk!openForm, Desk!NoForm, FormKept
    <2>2. CASE form' = Desk!NoForm
      BY <2>2 DEF Desk!NoForm, FormKept
    <2>3. CASE Desk!deadline
      BY <2>3 DEF Desk!deadline, DeskInv, CallsAreCalls, FormKept
    <2>4. CASE UNCHANGED form
      BY SMTT(30), <2>4 DEF DeskInv, CallsAreCalls, FormKept
    <2> QED
      BY <2>1, <2>2, <2>3, <2>4
         DEF Desk!closeForm, Desk!goTo, Desk!Others, Desk!changeFilters, Desk!goOffline,
             Desk!goOnline, Desk!hide, Desk!show
  <1>3. \/ UNCHANGED asked
        \/ asked' = [s \in Lanes |-> [asked[s] EXCEPT !.timer = FALSE]]
        \/ asked' = [s \in Lanes |-> [asked[s] EXCEPT !.timer = FALSE, !.mounted = FALSE]]
        \/ asked' = [s \in Lanes |->
                       [Desk!Disposed(asked)[s] EXCEPT !.cut = asked[s].what # "free"]]
    BY DEF Desk!openForm, Desk!closeForm, Desk!deadline, Desk!Others, Desk!goTo, Desk!changeFilters,
           Desk!goOffline, Desk!goOnline, Desk!hide, Desk!show, Desk!Disposed
  <1>4. /\ asked' = [s \in Lanes |-> asked'[s]]
        /\ \A s \in Lanes : CallFields \subseteq DOMAIN asked'[s]
        /\ \A s \in Lanes : asked'[s].op = asked[s].op /\ asked'[s].id = asked[s].id
    BY <1>3 DEF DeskInv, CallsAreCalls, CallFields, Desk!Disposed
  <1> QED
    BY <1>1, <1>2, <1>4, NothingDrawn DEF DrawsNothing, CallsAreCalls, FormKept

------------------------------------------------------------------------------
(* The theorem. *)

\* At first nothing was edited.
LEMMA DeskStart == DeviceInit => DeskInv
  <1> SUFFICES ASSUME DeviceInit PROVE DeskInv
    OBVIOUS
  <1>1. Desk!DeskMount
    BY DEF DeviceInit, DeskClosed, Desk!DeskInit
  <1>2. CallsAreCalls /\ form.op # "edit" /\ \A s \in Lanes : asked[s].op # "edit"
    BY <1>1 DEF Desk!DeskMount, CallsAreCalls, CallFields, Desk!Free, Desk!NoForm
  <1>3. Drawn({})
    BY <1>1, <1>2, FS_EmptySet DEF Drawn, Desk!DeskMount
  <1> QED
    BY <1>1, <1>2, <1>3, FS_EmptySet DEF DeskInv, Desk!DeskMount

\* Every step keeps the invariant.
LEMMA DeskStep == DeskInv /\ [DeviceNext]_deviceVars => DeskInv'
  <1> SUFFICES ASSUME DeskInv, [DeviceNext]_deviceVars PROVE DeskInv'
    OBVIOUS
  <1>1. CASE UNCHANGED deskVars
    BY <1>1 DEF deskVars, DeskInv, CallsAreCalls, Drawn
  <1>2. CASE Desk!DeskNext
    <2>1. ASSUME NEW s \in Lanes, Desk!Served(s) \/ Desk!throttle(s) PROVE DeskInv'
      BY <2>1, EditAnswered, ServerKeeps DEF Desk!Served
    <2>2. ASSUME NEW s \in Lanes,
                 \/ Desk!load(s) \/ Desk!poll(s) \/ Desk!refresh(s)
                 \/ Desk!submit(s) \/ Desk!submitItem(s) \/ Desk!Settled(s)
          PROVE  DeskInv'
      BY <2>2, QuestionSent, CommandSent, SettledKeeps
    <2>3. ASSUME NEW d \in Orders, Desk!openItem(d) PROVE DeskInv'
      BY <2>3, ItemOpened
    <2> QED
      BY <1>2, <2>1, <2>2, <2>3, PagesKeep DEF Desk!DeskNext
  <1> QED
    BY <1>1, <1>2 DEF DeviceNext, InPicker, InDesk, deviceVars

\* As many edits as ids, as many ids as dialogs.
LEMMA IdsBoundEdits == DeskInv => DeskEditsOncePerDialog
  <1> SUFFICES ASSUME DeskInv PROVE edits <= opened
    BY DEF DeskEditsOncePerDialog, Desk!EditedOncePerDialog
  <1>1. PICK D \in SUBSET Nat : Drawn(D)
    BY DEF DeskInv
  <1>2. /\ Cardinality(applied) <= Cardinality(D)
        /\ Cardinality(applied) \in Nat /\ Cardinality(D) \in Nat
    BY <1>1, FS_Subset, FS_CardinalityType DEF Drawn
  <1> QED
    BY <1>1, <1>2 DEF DeskInv, Drawn

\* For every number of orders, calls at once and dialogs: a dialog of the manager
\* changes an order once at most, however often its button is pressed after an answer
\* was lost (ManagerItemDialog, removeOperationId; perform keeps the operation ids).
THEOREM EditsOncePerDialog == DeviceSpec => []DeskEditsOncePerDialog
  <1>1. DeviceSpec => []DeskInv
    BY DeskStart, DeskStep, PTL DEF DeviceSpec
  <1> QED
    BY <1>1, IdsBoundEdits, PTL
================================================================================
