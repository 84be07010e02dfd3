------------------------------ MODULE ManagerDesk ------------------------------
(***************************************************************************)
(* The manager's cabinet: lists and pages read through useManagerQuery,    *)
(* and the dialogs that send commands, over the server's orders, cases of  *)
(* shortage (issues) and requests of customers.                            *)
(*                                                                         *)
(* useManagerQuery keeps one answer per page.  A question is asked when    *)
(* the page opens or its filters change, by the timer, by the button and   *)
(* after a command; any answer that comes while the page is there is       *)
(* stored, whichever filters it was asked with.                            *)
(***************************************************************************)
EXTENDS Naturals, FiniteSets

CONSTANTS
  Orders, Issues, Requests,
  Filters,     \* the sets of stages the tabs of a list ask for
  Lanes,       \* bound: calls in flight at once
  MaxMoves     \* bound: what the manager, the others and the network do

VARIABLES
  status,               \* the server's stage of each document
  applied, edits,       \* operation ids of the edits done, and how many were done
  linked, visible,      \* online, and the tab is looked at
  scope,                \* the page: what its loader asks for
  due,                  \* the loading effect has to run
  shown, loaded, fetching, refreshing, failed,  \* useManagerQuery
  form,                 \* the dialog of the page
  asked,                \* calls in flight
  opened,               \* edit dialogs opened so far
  moves

deskVars == << status, applied, edits, linked, visible, scope, due, shown, loaded, fetching,
               refreshing, failed, form, asked, opened, moves >>
serverVars == << status, applied, edits >>
queryVars == << shown, loaded, fetching, refreshing, failed >>

Documents == Orders \cup Issues \cup Requests

Stages == {"waiting", "mine", "other", "closed", "resolved", "rejected", "over",
           "pending", "confirmed", "cancelled"}

DeskAssumption ==
  /\ Orders \cap Issues = {} /\ Orders \cap Requests = {} /\ Issues \cap Requests = {}
  /\ Filters \subseteq SUBSET Stages /\ MaxMoves \in Nat

\* The stages each command starts from and the one it leads to.
From == [take |-> {"waiting"}, release |-> {"mine"}, close |-> {"mine"}, resolve |-> {"mine"},
         reject |-> {"mine"}, confirm |-> {"pending"}, cancel |-> {"pending", "confirmed"},
         edit |-> {"pending"}]
To == [take |-> "mine", release |-> "waiting", close |-> "closed", resolve |-> "resolved",
       reject |-> "rejected", confirm |-> "confirmed", cancel |-> "cancelled"]

CommandsOf(d) == CASE d \in Issues -> {"take", "release", "close"}
                   [] d \in Requests -> {"take", "release", "resolve", "reject"}
                   [] OTHER -> {"confirm", "cancel", "edit"}

\* The buttons a document comes with (`actions`).
Offered(d, stage) == {op \in CommandsOf(d) : stage \in From[op]}

Listing(docs, stages) == [docs |-> docs, stages |-> stages]
Page(d) == Listing({d}, Stages)
Lists == {Listing(docs, f) : docs \in {Orders, Issues, Requests}, f \in Filters}
Pages == {Page(d) : d \in Documents}

Nothing == [d \in Documents |-> "absent"]

\* What the server answers to the loader of a page.
Asked(sc) == [d \in Documents |-> IF d \in sc.docs /\ status[d] \in sc.stages THEN status[d]
                                  ELSE "absent"]

Move == moves < MaxMoves /\ moves' = moves + 1

NoForm == [op |-> "none", id |-> 0, pending |-> FALSE, error |-> FALSE, wait |-> FALSE]

Free == [what |-> "free", sc |-> Listing({}, {}), op |-> "none", id |-> 0, ans |-> Nothing,
         verdict |-> "none", mounted |-> FALSE, timer |-> FALSE, form |-> FALSE, cut |-> FALSE]

Send(s, call) ==
  /\ asked[s].what = "free"
  /\ asked' = [asked EXCEPT ![s] = [call EXCEPT !.mounted = TRUE, !.cut = ~linked]]

Question == [Free EXCEPT !.what = "load", !.sc = scope]

\* The timers are disposed of; what they asked for is still to come.
Disposed(calls) == [s \in Lanes |-> [calls[s] EXCEPT !.timer = FALSE]]

------------------------------------------------------------------------------
(* useManagerQuery. *)

load(s) ==
  /\ due /\ due' = FALSE
  /\ Send(s, Question)
  /\ fetching' = TRUE /\ refreshing' = TRUE
  /\ UNCHANGED << serverVars, linked, visible, scope, shown, loaded, failed, form, opened, moves >>

\* Mutant: after an error the timer is not set again.
PollsUntilFailure == linked /\ visible /\ ~due /\ ~failed

Polls == linked /\ visible /\ ~due

poll(s) ==
  /\ Polls
  /\ \A r \in Lanes : ~asked[r].timer
  /\ Send(s, [Question EXCEPT !.timer = TRUE])
  /\ UNCHANGED << serverVars, linked, visible, scope, due, queryVars, form, opened, moves >>

\* The button; it is not disabled without a network.
refresh(s) ==
  /\ ~refreshing /\ Move
  /\ Send(s, Question)
  /\ refreshing' = TRUE
  /\ UNCHANGED << serverVars, linked, visible, scope, due, shown, loaded, fetching, failed, form,
                  opened >>

\* The dialog whose command and refresh have ended.
FormEnds(c, error) ==
  form' = IF ~(c.form /\ c.mounted) THEN form
          ELSE IF error THEN [form EXCEPT !.pending = FALSE, !.error = TRUE,
                                          !.wait = c.verdict = "throttled"]
          ELSE NoForm

LoadEnds == fetching' = FALSE /\ refreshing' = FALSE

receiveLoad(s) ==
  LET c == asked[s] IN
  /\ c.what = "load" /\ c.verdict = "ok"
  /\ IF c.mounted
     THEN /\ shown' = c.ans /\ loaded' = TRUE /\ failed' = FALSE /\ LoadEnds
     ELSE UNCHANGED queryVars
  /\ FormEnds(c, FALSE)
  /\ asked' = [asked EXCEPT ![s] = Free]
  /\ UNCHANGED << serverVars, linked, visible, scope, due, opened, moves >>

\* A call over a network that was away; the server may still carry a command out.
fail(s) ==
  LET c == asked[s] IN
  /\ c.cut /\ c.what \in {"load", "command"}
  /\ IF c.mounted /\ c.what = "load"
     THEN failed' = TRUE /\ LoadEnds /\ UNCHANGED << shown, loaded >>
     ELSE UNCHANGED queryVars
  /\ FormEnds(c, TRUE)
  /\ asked' = [asked EXCEPT ![s] = IF c.what = "command" /\ c.verdict = "none"
                                   THEN [c EXCEPT !.what = "ghost", !.mounted = FALSE] ELSE Free]
  /\ UNCHANGED << serverVars, linked, visible, scope, due, opened, moves >>

------------------------------------------------------------------------------
(* The dialogs. *)

\* A button of the page opens the dialog of its command.
openForm(d, op) ==
  /\ scope = Page(d) /\ loaded /\ linked /\ form = NoForm
  /\ op \in Offered(d, shown[d]) \ {"edit"}
  /\ Move
  /\ form' = [NoForm EXCEPT !.op = op]
  /\ UNCHANGED << serverVars, linked, visible, scope, due, queryVars, asked, opened >>

\* A dialog that edits an order draws its operation id when it opens.
openItem(d) ==
  /\ scope = Page(d) /\ loaded /\ linked /\ form = NoForm
  /\ "edit" \in Offered(d, shown[d])
  /\ Move
  /\ form' = [NoForm EXCEPT !.op = "edit", !.id = moves']
  /\ opened' = opened + 1
  /\ UNCHANGED << serverVars, linked, visible, scope, due, queryVars, asked >>

closeForm ==
  /\ form.op # "none" /\ ~form.pending
  /\ form' = NoForm
  /\ UNCHANGED << serverVars, linked, visible, scope, due, queryVars, asked, opened, moves >>

\* The button of a dialog waits for the command and for the countdown of a 429.
Submit(s, command) ==
  /\ ~form.pending /\ ~form.wait
  /\ Send(s, command)
  /\ form' = [form EXCEPT !.pending = TRUE, !.error = FALSE]
  /\ UNCHANGED << serverVars, linked, visible, scope, due, queryVars, opened, moves >>

FormCommand == [Question EXCEPT !.what = "command", !.op = form.op, !.form = TRUE]

submit(s) == form.op \notin {"none", "edit"} /\ Submit(s, FormCommand)

\* A repeated attempt of one dialog repeats its operation id.
submitItem(s) == form.op = "edit" /\ Submit(s, [FormCommand EXCEPT !.id = form.id])

\* The countdown of a 429 ends.
deadline ==
  /\ form.wait
  /\ form' = [form EXCEPT !.wait = FALSE]
  /\ UNCHANGED << serverVars, linked, visible, scope, due, queryVars, asked, opened, moves >>

\* After a command its page is asked for again; the dialog waits for that too.
receiveCommand(s) ==
  LET c == asked[s] IN
  /\ c.what = "command" /\ c.verdict # "none"
  /\ IF c.verdict = "ok"
     THEN /\ asked' = [asked EXCEPT ![s] = [c EXCEPT !.what = "load", !.verdict = "none",
                                                     !.cut = ~linked]]
          /\ UNCHANGED form
     ELSE asked' = [asked EXCEPT ![s] = Free] /\ FormEnds(c, TRUE)
  /\ UNCHANGED << serverVars, linked, visible, scope, due, queryVars, opened, moves >>

------------------------------------------------------------------------------
(* The server and the others. *)

answerLoad(s) ==
  LET c == asked[s] IN
  /\ linked /\ c.what = "load" /\ c.verdict = "none"
  /\ asked' = [asked EXCEPT ![s].verdict = "ok", ![s].ans = Asked(c.sc)]
  /\ UNCHANGED << serverVars, linked, visible, scope, due, queryVars, form, opened, moves >>

Answered(s, verdict) ==
  asked' = [asked EXCEPT ![s] = IF asked[s].what = "ghost" THEN Free
                                ELSE [asked[s] EXCEPT !.verdict = verdict]]

\* A command whose work is done already repeats its answer: take by the same
\* manager, release of a waiting case, a finish with the same outcome.
answerCommand(s) ==
  LET c == asked[s] d == CHOOSE d \in c.sc.docs : TRUE IN
  /\ linked /\ c.what \in {"command", "ghost"} /\ c.verdict = "none" /\ c.op # "edit"
  /\ status' = [status EXCEPT ![d] = IF @ \in From[c.op] THEN To[c.op] ELSE @]
  /\ Answered(s, IF status'[d] = To[c.op] THEN "ok" ELSE "refused")
  /\ UNCHANGED << applied, edits, linked, visible, scope, due, queryVars, form, opened, moves >>

\* Mutant: the operation ids are not kept.
KnownNever(id) == FALSE

Known(id) == id \in applied

\* perform: an operation id the server knows is answered without an edit.
answerEdit(s) ==
  LET c == asked[s] d == CHOOSE d \in c.sc.docs : TRUE
      new == ~Known(c.id) /\ status[d] \in From["edit"] IN
  /\ linked /\ c.what \in {"command", "ghost"} /\ c.verdict = "none" /\ c.op = "edit"
  /\ applied' = IF new THEN applied \cup {c.id} ELSE applied
  /\ edits' = IF new THEN edits + 1 ELSE edits
  /\ Answered(s, IF Known(c.id) \/ new THEN "ok" ELSE "refused")
  /\ UNCHANGED << status, linked, visible, scope, due, queryVars, form, opened, moves >>

\* 429: too many commands.
throttle(s) ==
  /\ linked /\ asked[s].what = "command" /\ asked[s].verdict = "none" /\ Move
  /\ Answered(s, "throttled")
  /\ UNCHANGED << serverVars, linked, visible, scope, due, queryVars, form, opened >>

\* Other managers take, return and finish cases, an administrator returns one of
\* this manager's, a customer withdraws a waiting request.
Others(d) ==
  /\ Move
  /\ \/ d \notin Orders /\ status[d] = "waiting" /\ status' = [status EXCEPT ![d] = "other"]
     \/ status[d] \in {"mine", "other"} /\ status' = [status EXCEPT ![d] = "waiting"]
     \/ status[d] = "other" /\ status' = [status EXCEPT ![d] = "over"]
     \/ d \in Requests /\ status[d] = "waiting" /\ status' = [status EXCEPT ![d] = "over"]
     \/ status[d] = "pending" /\ status' = [status EXCEPT ![d] = "cancelled"]
  /\ UNCHANGED << applied, edits, linked, visible, scope, due, queryVars, form, asked, opened >>

------------------------------------------------------------------------------
(* The pages, the tab and the network. *)

\* Another page: what the last one held is gone, its calls go on unheard.
goTo(sc) ==
  /\ sc.docs # scope.docs \/ (sc \in Pages) # (scope \in Pages)
  /\ sc \in Pages => /\ scope \in Lists /\ loaded
                     /\ \E d \in sc.docs : shown[d] # "absent"
  /\ Move
  /\ scope' = sc /\ due' = TRUE
  /\ shown' = Nothing /\ loaded' = FALSE /\ fetching' = TRUE /\ refreshing' = FALSE
  /\ failed' = FALSE /\ form' = NoForm
  /\ asked' = [s \in Lanes |-> [asked[s] EXCEPT !.timer = FALSE, !.mounted = FALSE]]
  /\ UNCHANGED << serverVars, linked, visible, opened >>

\* Other filters of the same list: what is shown stays until an answer comes.
changeFilters(sc) ==
  /\ scope \in Lists /\ sc \in Lists /\ sc.docs = scope.docs /\ sc # scope
  /\ Move
  /\ scope' = sc /\ due' = TRUE
  /\ asked' = Disposed(asked)
  /\ UNCHANGED << serverVars, linked, visible, queryVars, form, opened >>

goOffline ==
  /\ linked /\ Move
  /\ linked' = FALSE
  /\ asked' = [s \in Lanes |-> [Disposed(asked)[s] EXCEPT !.cut = asked[s].what # "free"]]
  /\ UNCHANGED << serverVars, visible, scope, due, queryVars, form, opened >>

goOnline ==
  /\ ~linked /\ linked' = TRUE
  /\ UNCHANGED << serverVars, visible, scope, due, queryVars, form, asked, opened, moves >>

hide ==
  /\ visible /\ Move
  /\ visible' = FALSE /\ asked' = Disposed(asked)
  /\ UNCHANGED << serverVars, linked, scope, due, queryVars, form, opened >>

show ==
  /\ ~visible /\ visible' = TRUE
  /\ UNCHANGED << serverVars, linked, scope, due, queryVars, form, asked, opened, moves >>

\* A page of the cabinet as it is mounted.
DeskMount ==
  /\ status = [d \in Documents |-> IF d \in Orders THEN "pending" ELSE "waiting"]
  /\ applied = {} /\ edits = 0 /\ opened = 0 /\ moves = 0
  /\ linked = TRUE /\ visible = TRUE /\ due = TRUE
  /\ shown = Nothing /\ loaded = FALSE /\ fetching = TRUE /\ refreshing = FALSE /\ failed = FALSE
  /\ form = NoForm
  /\ asked = [s \in Lanes |-> Free]

DeskInit == DeskMount /\ scope \in Lists \cup Pages

Served(s) == answerLoad(s) \/ answerCommand(s) \/ answerEdit(s)

Settled(s) == receiveLoad(s) \/ receiveCommand(s) \/ fail(s)

DeskNext ==
  \/ \E s \in Lanes : \/ load(s) \/ poll(s) \/ refresh(s) \/ submit(s) \/ submitItem(s)
                      \/ Served(s) \/ Settled(s) \/ throttle(s)
  \/ \E d \in Documents, op \in DOMAIN From : op \in CommandsOf(d) /\ openForm(d, op)
  \/ closeForm \/ deadline
  \/ \E d \in Documents : Others(d)
  \/ \E d \in Orders : openItem(d)
  \/ \E sc \in Lists \cup Pages : goTo(sc) \/ changeFilters(sc)
  \/ goOffline \/ goOnline \/ hide \/ show

------------------------------------------------------------------------------
(* Properties. *)

\* A dialog that edits an order changes it once at most, however often its button
\* is pressed after an answer was lost (ManagerItemDialog, removeOperationId).
EditedOncePerDialog == edits <= opened

\* The button that is disabled while it refreshes comes back.
RefreshEnds == refreshing ~> ~refreshing

\* A manager who stays on a page sees in the end what the server holds for its
\* filters, whatever older answers came later (polling of useManagerQuery).
DeskCatchesUp ==
  \A sc \in Lists \cup Pages :
    <>[](scope = sc) => <>[](loaded /\ shown = Asked(sc))
===============================================================================
