------------------------------ MODULE PickerApp ------------------------------
(***************************************************************************)
(* The picker's app: PickerContext, its layout and its pages, over the      *)
(* server's tasks as this picker is shown them.                            *)
(*                                                                         *)
(* Every `await` of the context is a call in flight: the server answers    *)
(* each GET of it at a moment of its own, and the answer is applied later, *)
(* whatever has been chosen or shown meanwhile.  The layout puts a spinner *)
(* in place of the page while the context is loading, so a page and what    *)
(* it held are gone when the network comes or goes.                        *)
(***************************************************************************)
EXTENDS Naturals, FiniteSets

CONSTANTS
  Tasks, Points,  \* orders to pick, work locations of the picker
  at,             \* the point of each task
  NoTask, NoPoint,
  Slots,          \* bound: calls in flight at once
  MaxEvents       \* bound: what the picker, the others and the network do

VARIABLES
  task,                       \* the server's stage of each task
  online, initDue,            \* the browser's flag; the layout's effect has to run
  point, saved, located, ready, loading,  \* warehouseId, its storage key, work locations
  queue, mine, transfers,     \* the lists shown, with the stage each order came in
  screen, page, accepting,    \* the route, PickerOrderPage, busyId of the transfers
  calls,
  events

listVars == << queue, mine, transfers >>
pickerVars == << task, online, initDue, point, saved, located, ready, loading, queue, mine,
                 transfers, screen, page, accepting, calls, events >>

PickerAssumption ==
  /\ NoTask \notin Tasks /\ NoPoint \notin Points
  /\ at \in [Tasks -> Points]
  /\ MaxEvents \in Nat

Stages == {"hidden", "free", "mine", "done", "arrived", "received"}

From == [take |-> "free", release |-> "mine", complete |-> "mine", escalate |-> "mine",
         shortage |-> "mine", receive |-> "arrived"]
To == [take |-> "mine", release |-> "free", complete |-> "done", escalate |-> "hidden",
       shortage |-> "hidden", receive |-> "received"]

Dialogs == {"escalate", "shortage"}

\* The buttons an order comes with (`actions`).
Offered(stage) == {op \in DOMAIN From : From[op] = stage}

\* GET /orders with status=confirmed, with mine and status=processing, one order.
Available(p) == {t \in Tasks : at[t] = p /\ task[t] = "free"}
MyWork(p) == {t \in Tasks : at[t] = p /\ task[t] = "mine"}
Arrived == {t \in Tasks : task[t] = "arrived"}
Accessible(t) == task[t] \in {"free", "mine", "done"}

Empty == [t \in Tasks |-> "absent"]
Listed(S, stage) == [t \in Tasks |-> IF t \in S THEN stage ELSE "absent"]

\* Mutant: an answer adds to the list.
Merged(list, S, stage) == [t \in Tasks |-> IF t \in S THEN stage ELSE list[t]]

\* An answer replaces the list.
Replaced(list, S, stage) == Listed(S, stage)

\* upsertInLists: an order a list knows is replaced, none is added.
replaceKnown(list, t, stage) == IF list[t] = "absent" THEN list ELSE [list EXCEPT ![t] = stage]

Known(t) == {list[t] : list \in {queue, mine, transfers}} \ {"absent"}

\* loadOrder looks through the three lists in this order.
FirstKnown(t) == IF queue[t] # "absent" THEN queue[t]
                 ELSE IF mine[t] # "absent" THEN mine[t] ELSE transfers[t]

Event == events < MaxEvents /\ events' = events + 1

Idle == [kind |-> "idle", op |-> "none", task |-> NoTask, target |-> NoPoint, got |-> {},
         q |-> {}, m |-> {}, t |-> {}, ans |-> "none", page |-> FALSE, cut |-> FALSE]

NoPage == [task |-> NoTask, shown |-> "none", error |-> FALSE, busy |-> FALSE,
           loading |-> FALSE, due |-> FALSE, dialog |-> "none"]

Opened(t) == IF t = NoTask THEN NoPage
             ELSE [NoPage EXCEPT !.task = t, !.loading = TRUE, !.due = TRUE]

Mounted == ready /\ ~loading

InFlight(kinds) == {s \in Slots : calls[s].kind \in kinds}

Orphaned == [s \in Slots |-> [calls[s] EXCEPT !.page = FALSE]]

Start(s, cs, call) ==
  /\ cs[s].kind = "idle"
  /\ calls' = [cs EXCEPT ![s] = call]

Spins == {"init", "initLists", "select"}

ListCalls == {"initLists", "select", "refresh", "reconcile"}

\* The spinner takes the place of the page.
Unmount == page' = Opened(page.task) /\ accepting' = NoTask

------------------------------------------------------------------------------
(* The context: start, choice of the point, refresh. *)

\* init: one at a time, a second caller gets the promise of the first.
init(s) ==
  /\ initDue /\ initDue' = FALSE
  /\ IF InFlight({"init", "initLists"}) # {}
     THEN UNCHANGED << loading, page, accepting, calls >>
     ELSE /\ Start(s, Orphaned, [Idle EXCEPT !.kind = "init"])
          /\ loading' = TRUE
          /\ Unmount
  /\ UNCHANGED << task, online, point, saved, located, ready, listVars, screen, events >>

\* The work locations arrive: the saved point is restored or nothing is.
receiveLocations(s) ==
  /\ calls[s].kind = "init" /\ online
  /\ located' = TRUE
  /\ point' = saved
  /\ IF saved = NoPoint
     THEN /\ queue' = Empty /\ mine' = Empty /\ transfers' = Empty
          /\ ready' = FALSE /\ loading' = FALSE
          /\ calls' = [calls EXCEPT ![s] = Idle]
     ELSE /\ calls' = [calls EXCEPT ![s].kind = "initLists", ![s].target = saved]
          /\ UNCHANGED << listVars, ready, loading >>
  /\ UNCHANGED << task, online, initDue, saved, screen, page, accepting, events >>

\* selectWarehouse: the point changes now, its lists when they come.
selectWarehouse(s, p) ==
  /\ online /\ located /\ ~loading
  /\ p # point
  /\ Start(s, Orphaned, [Idle EXCEPT !.kind = "select", !.target = p])
  /\ saved' = p /\ point' = p
  /\ transfers' = Empty
  /\ loading' = TRUE
  /\ Unmount
  /\ Event
  /\ UNCHANGED << task, online, initDue, located, ready, queue, mine, screen >>

\* refresh by the timer of the queue page: the next only after the last has ended.
poll(s) ==
  /\ online /\ Mounted /\ screen = "queue" /\ point # NoPoint
  /\ \A r \in InFlight({"refresh"}) : ~calls[r].page
  /\ Start(s, calls, [Idle EXCEPT !.kind = "refresh", !.target = point, !.page = TRUE])
  /\ UNCHANGED << task, online, initDue, point, saved, located, ready, loading, listVars, screen,
                  page, accepting, events >>

\* refresh by the button of the queue page.
refresh(s) ==
  /\ online /\ Mounted /\ screen = "queue" /\ point # NoPoint
  /\ Start(s, calls, [Idle EXCEPT !.kind = "refresh", !.target = point])
  /\ Event
  /\ UNCHANGED << task, online, initDue, point, saved, located, ready, loading, listVars, screen,
                  page, accepting >>

\* refreshTransfers by the timer of the transfers page.
refreshTransfers(s) ==
  /\ online /\ Mounted /\ screen = "transfers"
  /\ \A r \in InFlight({"transfers"}) : ~calls[r].page
  /\ Start(s, calls, [Idle EXCEPT !.kind = "transfers", !.page = TRUE])
  /\ UNCHANGED << task, online, initDue, point, saved, located, ready, loading, listVars, screen,
                  page, accepting, events >>

------------------------------------------------------------------------------
(* The server. *)

Answer(s, part, field, value) ==
  /\ online
  /\ part \notin calls[s].got
  /\ calls' = [calls EXCEPT ![s].got = @ \cup {part}, ![s][field] = value]

serverVars == << online, initDue, point, saved, located, ready, loading, listVars, screen, page,
                 accepting, events >>

\* The two lists of loadLists are two requests.
answerQueue(s) ==
  /\ calls[s].kind \in ListCalls
  /\ Answer(s, "q", "q", Available(calls[s].target))
  /\ UNCHANGED << task, serverVars >>

answerMine(s) ==
  /\ calls[s].kind \in ListCalls
  /\ Answer(s, "m", "m", MyWork(calls[s].target))
  /\ UNCHANGED << task, serverVars >>

answerTransfers(s) ==
  /\ \/ calls[s].kind = "transfers"
     \/ calls[s].kind = "reconcile" /\ calls[s].op = "receive"
  /\ Answer(s, "t", "t", Arrived)
  /\ UNCHANGED << task, serverVars >>

answerOrder(s) ==
  /\ calls[s].kind = "order"
  /\ Answer(s, "o", "ans", IF Accessible(calls[s].task) THEN task[calls[s].task] ELSE "error")
  /\ UNCHANGED << task, serverVars >>

\* A take, release, complete or receive of what is so already repeats the answer.
answerCommand(s) ==
  LET c == calls[s]
      done == task[c.task] = From[c.op]
      again == c.op \notin Dialogs /\ task[c.task] = To[c.op] IN
  /\ c.kind \in {"command", "ghost"}
  /\ task' = [task EXCEPT ![c.task] = IF done THEN To[c.op] ELSE @]
  /\ IF c.kind = "ghost" THEN calls' = [calls EXCEPT ![s] = Idle]
     ELSE Answer(s, "o", "ans", IF done \/ again THEN To[c.op] ELSE "error")
  /\ UNCHANGED serverVars

\* What others do: orders are confirmed, taken, given back, brought.
Others(t) ==
  /\ Event
  /\ \/ task[t] = "hidden" /\ \E st \in {"free", "arrived"} : task' = [task EXCEPT ![t] = st]
     \/ task[t] = "free" /\ task' = [task EXCEPT ![t] = "hidden"]
  /\ UNCHANGED << online, initDue, point, saved, located, ready, loading, listVars, screen, page,
                  accepting, calls >>

------------------------------------------------------------------------------
(* Answers are applied. *)

\* The dialog a command was sent from closes after it, refused or not.
DialogAfter(c) == IF c.op = page.dialog THEN "none" ELSE page.dialog

\* What a page that still waits for the call does when its promise settles.
PageAfter(c, failed) ==
  IF ~c.page \/ screen # "order" THEN page
  ELSE IF failed THEN [page EXCEPT !.error = TRUE, !.busy = FALSE, !.loading = FALSE,
                                   !.dialog = DialogAfter(c)]
  ELSE [page EXCEPT !.shown = c.ans, !.busy = FALSE, !.loading = FALSE]

PageSettled(c, failed) ==
  /\ page' = PageAfter(c, failed)
  /\ accepting' = IF c.op = "receive" THEN NoTask ELSE accepting

\* The effect of PickerOrderPage runs again whenever a list becomes another object.
Rerun(pg) == IF screen = "order" THEN [pg EXCEPT !.due = TRUE] ELSE pg

Ended(s) == calls' = [calls EXCEPT ![s] = Idle]

\* loadLists: both answers are in; they replace the lists whatever the point is now.
receiveLists(s) ==
  LET c == calls[s] more == c.op = "receive" IN
  /\ c.kind \in ListCalls /\ {"q", "m"} \subseteq c.got
  /\ queue' = Replaced(queue, c.q, "free") /\ mine' = Replaced(mine, c.m, "mine")
  /\ ready' = (ready \/ c.kind \in {"initLists", "select"})
  /\ loading' = (loading /\ c.kind \notin Spins)
  /\ IF more
     THEN /\ calls' = [calls EXCEPT ![s].kind = "transfers"]
          /\ page' = Rerun(page) /\ UNCHANGED accepting
     ELSE /\ Ended(s)
          /\ page' = Rerun(IF c.kind = "reconcile" /\ c.page
                           THEN [page EXCEPT !.shown = c.ans, !.busy = FALSE,
                                             !.dialog = DialogAfter(c)]
                           ELSE page)
          /\ UNCHANGED accepting
  /\ UNCHANGED << task, online, initDue, point, saved, located, transfers, screen, events >>

receiveTransfers(s) ==
  LET c == calls[s] IN
  /\ c.kind = "transfers" /\ "t" \in c.got
  /\ transfers' = Listed(c.t, "arrived")
  /\ Ended(s)
  /\ accepting' = IF c.op = "receive" THEN NoTask ELSE accepting
  /\ page' = Rerun(IF c.op = "receive" /\ c.page
                   THEN [page EXCEPT !.shown = c.ans, !.busy = FALSE] ELSE page)
  /\ UNCHANGED << task, online, initDue, point, saved, located, ready, loading, queue, mine,
                  screen, events >>

Upsert(t, stage) ==
  /\ queue' = replaceKnown(queue, t, stage)
  /\ mine' = replaceKnown(mine, t, stage)
  /\ transfers' = replaceKnown(transfers, t, stage)

receiveOrder(s) ==
  LET c == calls[s] IN
  /\ c.kind = "order" /\ "o" \in c.got
  /\ IF c.ans = "error" THEN UNCHANGED listVars ELSE Upsert(c.task, c.ans)
  /\ PageSettled(c, c.ans = "error")
  /\ Ended(s)
  /\ UNCHANGED << task, online, initDue, point, saved, located, ready, loading, screen,
                  events >>

\* take, release, complete, escalate, reportShortage, receive: the answer goes
\* into the lists that know the order, then the lists are asked for again.
receiveCommand(s) ==
  LET c == calls[s] IN
  /\ c.kind = "command" /\ "o" \in c.got
  /\ IF c.ans = "error"
     THEN PageSettled(c, TRUE) /\ Ended(s) /\ UNCHANGED listVars
     ELSE /\ Upsert(c.task, c.ans)
          /\ page' = IF Known(c.task) # {} THEN Rerun(page) ELSE page
          /\ UNCHANGED accepting
          /\ calls' = [calls EXCEPT ![s].kind = "reconcile", ![s].got = {}]
  /\ UNCHANGED << task, online, initDue, point, saved, located, ready, loading, screen,
                  events >>

\* A call over a network that was away fails; after a POST only the lists are missing.
fail(s) ==
  LET c == calls[s] IN
  /\ c.cut /\ c.kind \notin {"idle", "ghost"}
  /\ loading' = (loading /\ c.kind \notin Spins)
  /\ PageSettled(c, c.kind \in {"order", "command"})
  /\ calls' = [calls EXCEPT ![s] = IF c.kind = "command" /\ c.got = {}
                                   THEN [c EXCEPT !.kind = "ghost", !.page = FALSE] ELSE Idle]
  /\ UNCHANGED << task, online, initDue, point, saved, located, ready, listVars, screen,
                  events >>

------------------------------------------------------------------------------
(* The pages. *)

pageVars == << task, online, initDue, point, saved, located, ready, loading, listVars >>

open(t) ==
  /\ Mounted /\ screen = "queue"
  /\ queue[t] # "absent" \/ mine[t] # "absent"
  /\ screen' = "order" /\ page' = Opened(t)
  /\ calls' = Orphaned
  /\ Event
  /\ UNCHANGED << pageVars, accepting >>

\* The menu and the "back" of the order page; transfers are reached by address.
goTo(place) ==
  /\ Mounted /\ screen # place
  /\ screen' = place /\ page' = NoPage /\ accepting' = NoTask
  /\ calls' = Orphaned
  /\ Event
  /\ UNCHANGED pageVars

\* The effect of the order page: known orders are shown at once, others asked for.
loadOrder(s) ==
  /\ Mounted /\ screen = "order" /\ page.due
  /\ IF Known(page.task) # {}
     THEN /\ page' = [page EXCEPT !.due = FALSE, !.loading = FALSE, !.shown = FirstKnown(page.task)]
          /\ UNCHANGED calls
     ELSE IF ~online
     THEN /\ page' = [page EXCEPT !.due = FALSE, !.loading = FALSE, !.error = TRUE]
          /\ UNCHANGED calls
     ELSE /\ page' = [page EXCEPT !.due = FALSE]
          /\ Start(s, calls, [Idle EXCEPT !.kind = "order", !.task = page.task, !.page = TRUE])
  /\ UNCHANGED << pageVars, screen, accepting, events >>

Command(op, t, own) == [Idle EXCEPT !.kind = "command", !.op = op, !.task = t,
                                    !.target = point, !.page = own]

\* The buttons of the order page.
run(s, op) ==
  /\ Mounted /\ screen = "order" /\ online
  /\ op \in Offered(page.shown) \ Dialogs /\ ~page.busy /\ page.dialog = "none"
  /\ Start(s, calls, Command(op, page.task, TRUE))
  /\ page' = [page EXCEPT !.busy = TRUE]
  /\ Event
  /\ UNCHANGED << pageVars, screen, accepting >>

\* A shortage and an escalation are written in a dialog over the page.
openDialog(op) ==
  /\ Mounted /\ screen = "order" /\ online
  /\ op \in Offered(page.shown) \cap Dialogs /\ ~page.busy /\ page.dialog = "none"
  /\ page' = [page EXCEPT !.dialog = op]
  /\ Event
  /\ UNCHANGED << pageVars, screen, accepting, calls >>

closeDialog ==
  /\ Mounted /\ page.dialog # "none"
  /\ page' = [page EXCEPT !.dialog = "none"]
  /\ UNCHANGED << pageVars, screen, accepting, calls, events >>

\* The button of the dialog asks neither for the network nor whether the order
\* still offers the command.
submit(s) ==
  /\ Mounted /\ page.dialog # "none" /\ ~page.busy
  /\ IF online
     THEN /\ Start(s, calls, Command(page.dialog, page.task, TRUE))
          /\ page' = [page EXCEPT !.busy = TRUE]
     ELSE page' = [page EXCEPT !.error = TRUE, !.dialog = "none"] /\ UNCHANGED calls
  /\ UNCHANGED << pageVars, screen, accepting, events >>

\* The button of a card of the queue, never disabled while it is online.
takeCard(s, t) ==
  /\ Mounted /\ screen = "queue" /\ online
  /\ "free" \in {queue[t], mine[t]}
  /\ Start(s, calls, Command("take", t, FALSE))
  /\ Event
  /\ UNCHANGED << pageVars, screen, page, accepting >>

accept(s, t) ==
  /\ Mounted /\ screen = "transfers" /\ online
  /\ transfers[t] = "arrived" /\ accepting # t
  /\ Start(s, calls, Command("receive", t, FALSE))
  /\ accepting' = t
  /\ Event
  /\ UNCHANGED << pageVars, screen, page >>

------------------------------------------------------------------------------
(* The network and the tab. *)

\* init and loadOrder depend on `online`, so both effects run again.
goOffline ==
  /\ online
  /\ online' = FALSE /\ initDue' = TRUE
  /\ page' = Rerun(page)
  /\ calls' = [s \in Slots |-> [calls[s] EXCEPT !.cut = calls[s].kind # "idle"]]
  /\ Event
  /\ UNCHANGED << task, point, saved, located, ready, loading, listVars, screen, accepting >>

goOnline ==
  /\ ~online
  /\ online' = TRUE /\ initDue' = TRUE
  /\ page' = Rerun(page)
  /\ UNCHANGED << task, point, saved, located, ready, loading, listVars, screen, accepting, calls,
                  events >>

\* The tab is opened again.  The snapshot is rewritten on every change of a ready
\* screen, so what comes back is what was shown, or nothing.
reload ==
  /\ Event
  /\ initDue' = TRUE /\ loading' = FALSE /\ located' = ready
  /\ IF ready THEN UNCHANGED << point, listVars >>
     ELSE point' = NoPoint /\ queue' = Empty /\ mine' = Empty /\ transfers' = Empty
  /\ Unmount
  /\ calls' = [s \in Slots |-> IF calls[s].kind \in {"command", "ghost"} /\ calls[s].got = {}
                               THEN [calls[s] EXCEPT !.kind = "ghost", !.page = FALSE] ELSE Idle]
  /\ UNCHANGED << task, online, saved, ready, screen >>

\* The provider as it is mounted, before its first effect, on the page of the address.
PickerMount ==
  /\ online = TRUE /\ initDue = TRUE
  /\ point = NoPoint /\ located = FALSE /\ ready = FALSE /\ loading = FALSE
  /\ queue = Empty /\ mine = Empty /\ transfers = Empty
  /\ accepting = NoTask
  /\ calls = [s \in Slots |-> Idle]
  /\ events = 0

PickerInit ==
  /\ task \in [Tasks -> {"hidden", "free", "mine", "arrived"}]
  /\ saved \in Points \cup {NoPoint}
  /\ PickerMount
  /\ \/ screen = "queue" /\ page = NoPage
     \/ screen = "order" /\ page \in {Opened(t) : t \in Tasks}

Served(s) == \/ answerQueue(s) \/ answerMine(s) \/ answerTransfers(s)
             \/ answerOrder(s) \/ answerCommand(s)

Applied(s) == \/ receiveLocations(s) \/ receiveLists(s) \/ receiveTransfers(s)
              \/ receiveOrder(s) \/ receiveCommand(s)

Effects(s) == init(s) \/ loadOrder(s)

PickerNext ==
  \/ \E s \in Slots :
       \/ Effects(s) \/ Served(s) \/ Applied(s) \/ fail(s)
       \/ poll(s) \/ refresh(s) \/ refreshTransfers(s)
       \/ \E p \in Points : selectWarehouse(s, p)
       \/ \E op \in DOMAIN From : run(s, op)
       \/ submit(s)
       \/ \E t \in Tasks : takeCard(s, t) \/ accept(s, t)
  \/ \E t \in Tasks : open(t) \/ Others(t)
  \/ \E place \in {"queue", "transfers"} : goTo(place)
  \/ \E op \in Dialogs : openDialog(op)
  \/ closeDialog
  \/ goOffline \/ goOnline \/ reload

------------------------------------------------------------------------------
(* Properties. *)

\* The spinner of LayoutPicker ends: init and selectWarehouse, whichever of them
\* set the common flag, and whatever was cut off, clear it again.
SpinnerEnds == loading ~> ~loading

ListsAgree == /\ queue = Listed(Available(point), "free")
              /\ mine = Listed(MyWork(point), "mine")

\* A picker who stays on the queue page sees in the end what the server holds for
\* the chosen point: no old answer, of another point or of an earlier moment,
\* stays on the screen (polling of PickerQueuePage every 30 seconds).
ListsCatchUp == <>[](ready /\ screen = "queue") => <>[]ListsAgree
===============================================================================
