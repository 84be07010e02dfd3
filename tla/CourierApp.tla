------------------------------ MODULE CourierApp ------------------------------
(***************************************************************************)
(* The courier's app: CourierProvider with its reducer, the three lists    *)
(* and the page of one delivery.                                           *)
(*                                                                         *)
(* A delivery is kept once, in the dictionary; a list keeps ids.  Every    *)
(* answer overwrites the entries it brings, so an answer to an older       *)
(* question may put an older stage back.  No command is guessed: its POST  *)
(* is waited for, then the lists are asked for again.                      *)
(***************************************************************************)
EXTENDS Naturals, FiniteSets, Sequences, SequencesExt

CONSTANTS
  Deliveries,     \* in the order the server lists them
  Places, Kinds,  \* filters: the deliveries of a work location, of a kind; each holds the whole set
  Transfers,      \* the deliveries that are received by another point
  NoDelivery,
  PageSize,       \* per_page
  Lines,          \* bound: calls in flight at once
  MaxSteps        \* bound: what the courier, the others and the network do

VARIABLES
  stage,            \* the server's stage of each delivery, as this courier may see it
  net,              \* state.online
  entries,          \* state.deliveries
  lists, commands,  \* state.lists, state.commands
  synced,           \* state.lastSyncAt is set: the snapshot follows the state
  place, kind,      \* warehouseId; ?kind= of the page
  route, detail,    \* the page; useCourierDelivery of the delivery page
  dialog,           \* DeliveryActions
  sent,             \* calls in flight
  owed,             \* lists to be asked for again after a command
  steps

courierVars == << stage, net, entries, lists, commands, synced, place, kind, route, detail,
                  dialog, sent, owed, steps >>

All == ToSet(Deliveries)

ASSUME CourierAssumption ==
  /\ IsInjective(Deliveries) /\ NoDelivery \notin All
  /\ All \in Places /\ All \in Kinds /\ Transfers \subseteq All
  /\ PageSize \in Nat \ {0} /\ MaxSteps \in Nat

Keys == {"queue", "mine", "history"}

From == [claim |-> "free", release |-> "mine", start |-> "mine", deliver |-> "shipped"]

To(op, d) == CASE op = "claim" -> "mine" [] op = "release" -> "free" [] op = "start" -> "shipped"
               [] op = "deliver" -> IF d \in Transfers THEN "awaiting" ELSE "delivered"

\* The buttons a delivery comes with (`actions`).
Offered(st) == {op \in DOMAIN From : From[op] = st}

\* GET /deliveries of each page: ready, mine and under way, mine and delivered.
InList(key) == CASE key = "queue" -> {"free", "mine"}
                 [] key = "mine" -> {"mine", "shipped", "awaiting"}
                 [] key = "history" -> {"delivered"}

Selected(key, scope) ==
  SelectSeq(Deliveries, LAMBDA d : d \in scope /\ stage[d] \in InList(key))

Lesser(a, b) == IF a < b THEN a ELSE b

PageOf(list, n) == SubSeq(list, (n - 1) * PageSize + 1, Lesser(n * PageSize, Len(list)))

LastPage(list) == 1 + (IF list = << >> THEN 0 ELSE (Len(list) - 1) \div PageSize)

Unknown == [d \in All |-> "unknown"]

\* What an answer brings of the deliveries D.
Brought(D) == [d \in All |-> IF d \in D THEN stage[d] ELSE "unknown"]

Indexed(brought) == [d \in All |-> IF brought[d] = "unknown" THEN entries[d] ELSE brought[d]]

EmptyList == [ids |-> << >>, phase |-> "idle", page |-> 0, last |-> 0]

Idle == [what |-> "idle", key |-> "none", scope |-> {}, page |-> 0, d |-> NoDelivery, op |-> "none",
         got |-> FALSE, ids |-> << >>, last |-> 0, brought |-> Unknown, ok |-> FALSE,
         own |-> FALSE, again |-> FALSE, cut |-> FALSE]

NoDetail == [id |-> NoDelivery, loading |-> FALSE, error |-> FALSE, ask |-> FALSE]
NoDialog == [op |-> "none", closing |-> FALSE]

Step == steps < MaxSteps /\ steps' = steps + 1

Put(s, call) == sent[s].what = "idle" /\ sent' = [sent EXCEPT ![s] = call]

Disowned == [s \in Lines |-> [sent[s] EXCEPT !.own = FALSE]]

OnDetail == route = "detail"

ASSUME FiltersAssumption == \A f \in Places \cup Kinds : f \subseteq All

------------------------------------------------------------------------------
(* Lists. *)

\* refreshList; append asks for the page after the one shown (loadNextPage).
RefreshList(s, key, scope, page, own, again) ==
  /\ Put(s, [Idle EXCEPT !.what = "list", !.key = key, !.scope = scope, !.page = page,
                         !.own = own, !.again = again])
  /\ lists' = [lists EXCEPT ![key].phase = "loading"]

\* Mutant: the list page asks without its kind.
PageScopeOfPlace == place

\* The filters of the list page: the chosen point and its own kind.
PageScope == place \cap kind

\* The open list page asks for its list by the timer.
poll(s) ==
  /\ net /\ route \in Keys
  /\ \A r \in Lines : ~(sent[r].what = "list" /\ sent[r].own)
  /\ RefreshList(s, route, PageScope, 1, TRUE, FALSE)
  /\ UNCHANGED << stage, net, entries, commands, synced, place, kind, route, detail, dialog, owed,
                  steps >>

refresh(s) ==
  /\ net /\ route \in Keys /\ lists[route].phase # "loading" /\ Step
  /\ RefreshList(s, route, PageScope, 1, FALSE, FALSE)
  /\ UNCHANGED << stage, net, entries, commands, synced, place, kind, route, detail, dialog, owed >>

loadNextPage(s) ==
  /\ net /\ route \in Keys /\ Step
  /\ lists[route].page < lists[route].last
  /\ RefreshList(s, route, PageScope, lists[route].page + 1, FALSE, FALSE)
  /\ UNCHANGED << stage, net, entries, commands, synced, place, kind, route, detail, dialog, owed >>

\* After a command the lists are asked for with the point, without the page's kind.
reconcile(s) ==
  \E o \in owed :
    /\ owed' = owed \ {o}
    /\ RefreshList(s, o.key, o.scope, 1, FALSE, TRUE)
    /\ UNCHANGED << stage, net, entries, commands, synced, place, kind, route, detail, dialog,
                    steps >>

\* The hook of the delivery page starts over whenever the dictionary is another
\* object, and forgets the question it had asked.
HookRuns(now) ==
  detail' = IF OnDetail /\ now[detail.id] = "unknown" THEN [detail EXCEPT !.ask = TRUE] ELSE detail

\* list/received: the first page replaces the ids, a further one adds to them.
receiveList(s) ==
  LET c == sent[s]
      known == lists[c.key].ids
      added == SelectSeq(c.ids, LAMBDA d : d \notin ToSet(known)) IN
  /\ c.what = "list" /\ c.got
  /\ entries' = Indexed(c.brought)
  /\ lists' = [lists EXCEPT ![c.key] =
       [ids |-> IF c.page = 1 THEN c.ids ELSE known \o added,
        phase |-> "success", page |-> c.page, last |-> c.last]]
  /\ synced' = TRUE
  /\ sent' = [r \in Lines |-> IF r = s THEN Idle
                              ELSE IF sent[r].what = "get" THEN [sent[r] EXCEPT !.own = FALSE]
                              ELSE sent[r]]
  /\ HookRuns(entries')
  /\ UNCHANGED << stage, net, commands, place, kind, route, dialog, owed, steps >>

------------------------------------------------------------------------------
(* The page of a delivery and the commands. *)

askDelivery(s) ==
  /\ OnDetail /\ detail.ask
  /\ Put(s, [Idle EXCEPT !.what = "get", !.d = detail.id, !.own = TRUE])
  /\ detail' = [detail EXCEPT !.ask = FALSE, !.loading = TRUE]
  /\ UNCHANGED << stage, net, entries, lists, commands, synced, place, kind, route, dialog, owed,
                  steps >>

receiveDelivery(s) ==
  LET c == sent[s] IN
  /\ c.what = "get" /\ c.got
  /\ entries' = IF c.ok THEN Indexed(c.brought) ELSE entries
  /\ sent' = [r \in Lines |-> IF r = s THEN Idle
                              ELSE IF c.ok /\ sent[r].what = "get" THEN [sent[r] EXCEPT !.own = FALSE]
                              ELSE sent[r]]
  /\ detail' = IF c.own THEN [detail EXCEPT !.loading = FALSE, !.error = @ \/ ~c.ok]
               ELSE IF c.ok /\ OnDetail /\ entries'[detail.id] = "unknown"
               THEN [detail EXCEPT !.ask = TRUE] ELSE detail
  /\ UNCHANGED << stage, net, lists, commands, synced, place, kind, route, dialog, owed, steps >>

Post(s, d, op) ==
  /\ Put(s, [Idle EXCEPT !.what = "post", !.d = d, !.op = op, !.scope = place])
  /\ commands' = [commands EXCEPT ![d] = "pending"]

\* Mutant: a second tap is not held off.
NeverPending(d) == FALSE

Pending(d) == commands[d] = "pending"

\* The button of a card; without a network the command fails at once.
claim(s, d) ==
  /\ route = "queue" /\ d \in ToSet(lists["queue"].ids)
  /\ "claim" \in Offered(entries[d]) /\ ~Pending(d) /\ Step
  /\ IF net THEN Post(s, d, "claim")
     ELSE commands' = [commands EXCEPT ![d] = "error"] /\ UNCHANGED sent
  /\ UNCHANGED << stage, net, entries, lists, synced, place, kind, route, detail, dialog, owed >>

openDialog(op) ==
  /\ OnDetail /\ ~detail.loading /\ entries[detail.id] # "unknown"
  /\ op \in Offered(entries[detail.id]) \ {"claim"} /\ dialog.op = "none"
  /\ dialog' = [dialog EXCEPT !.op = op]
  /\ UNCHANGED << stage, net, entries, lists, commands, synced, place, kind, route, detail, sent,
                  owed, steps >>

closeDialog ==
  /\ dialog.op # "none" /\ ~Pending(detail.id)
  /\ dialog' = [dialog EXCEPT !.op = "none"]
  /\ UNCHANGED << stage, net, entries, lists, commands, synced, place, kind, route, detail, sent,
                  owed, steps >>

confirm(s) ==
  /\ dialog.op # "none" /\ ~Pending(detail.id) /\ net /\ Step
  /\ Post(s, detail.id, dialog.op)
  /\ UNCHANGED << stage, net, entries, lists, synced, place, kind, route, detail, dialog, owed >>

\* confirm() waits for the command and the lists after it, then closes the dialog,
\* whichever it is by then.
dialogCloses ==
  /\ dialog.closing /\ owed = {} /\ \A s \in Lines : ~sent[s].again
  /\ dialog' = NoDialog
  /\ UNCHANGED << stage, net, entries, lists, commands, synced, place, kind, route, detail, sent,
                  owed, steps >>

\* runCommand after its POST: the answer is stored and the lists are owed; after a
\* conflict (409) nothing is repeated and the delivery is asked for as well.
receivePost(s) ==
  LET c == sent[s]
      keys == {"queue", "mine"} \cup (IF c.ok /\ c.brought[c.d] = "delivered" THEN {"history"} ELSE {}) IN
  /\ c.what = "post" /\ c.got
  /\ commands' = [commands EXCEPT ![c.d] = IF c.ok THEN "none" ELSE "error"]
  /\ owed' = owed \cup {[key |-> k, scope |-> c.scope] : k \in keys}
  /\ IF c.ok
     THEN /\ entries' = Indexed(c.brought)
          /\ sent' = [r \in Lines |-> IF r = s THEN Idle
                        ELSE IF sent[r].what = "get" THEN [sent[r] EXCEPT !.own = FALSE] ELSE sent[r]]
          /\ dialog' = [dialog EXCEPT !.closing = OnDetail /\ c.op # "claim"]
          /\ HookRuns(entries')
     ELSE /\ sent' = [sent EXCEPT ![s] = [Idle EXCEPT !.what = "get", !.d = c.d]]
          /\ UNCHANGED << entries, dialog, detail >>
  /\ UNCHANGED << stage, net, lists, synced, place, kind, route, steps >>

------------------------------------------------------------------------------
(* The server and the network. *)

serverUntouched == << net, entries, lists, commands, synced, place, kind, route, detail, dialog,
                      owed, steps >>

answerList(s) ==
  LET c == sent[s] list == Selected(c.key, c.scope) page == PageOf(list, c.page) IN
  /\ net /\ c.what = "list" /\ ~c.got
  /\ sent' = [sent EXCEPT ![s] = [c EXCEPT !.got = TRUE, !.ids = page, !.last = LastPage(list),
                                           !.brought = Brought(ToSet(page))]]
  /\ UNCHANGED << stage, serverUntouched >>

answerDelivery(s) ==
  LET c == sent[s] IN
  /\ net /\ c.what = "get" /\ ~c.got
  /\ sent' = [sent EXCEPT ![s] = [c EXCEPT !.got = TRUE, !.ok = stage[c.d] # "away",
                                           !.brought = Brought({c.d})]]
  /\ UNCHANGED << stage, serverUntouched >>

\* Each command repeats its answer when what it does is done already.
answerPost(s) ==
  LET c == sent[s]
      after == [stage EXCEPT ![c.d] = IF @ = From[c.op] THEN To(c.op, c.d) ELSE @]
      ok == after[c.d] = To(c.op, c.d) IN
  /\ net /\ c.what \in {"post", "ghost"} /\ ~c.got
  /\ stage' = after
  /\ sent' = [sent EXCEPT ![s] =
       IF c.what = "ghost" THEN Idle
       ELSE [c EXCEPT !.got = TRUE, !.ok = ok, !.brought = [Unknown EXCEPT ![c.d] = after[c.d]]]]
  /\ UNCHANGED serverUntouched

\* Others bring deliveries into being, take them, return them, receive them.
Others(d) ==
  /\ Step
  /\ \/ stage[d] = "away" /\ stage' = [stage EXCEPT ![d] = "free"]
     \/ stage[d] \in {"free", "mine", "awaiting"} /\ stage' = [stage EXCEPT ![d] = "away"]
  /\ UNCHANGED << net, entries, lists, commands, synced, place, kind, route, detail, dialog, sent,
                  owed >>

\* A call over a network that was away fails; a POST may have been carried out.
fail(s) ==
  LET c == sent[s] IN
  /\ c.cut /\ c.what \in {"list", "get", "post"}
  /\ lists' = IF c.what = "list" THEN [lists EXCEPT ![c.key].phase = "error"] ELSE lists
  /\ detail' = IF c.what = "get" /\ c.own THEN [detail EXCEPT !.loading = FALSE, !.error = TRUE]
               ELSE detail
  /\ commands' = IF c.what = "post" THEN [commands EXCEPT ![c.d] = "error"] ELSE commands
  /\ sent' = [sent EXCEPT ![s] = IF c.what = "post" /\ ~c.got
                                 THEN [Idle EXCEPT !.what = "ghost", !.d = c.d, !.op = c.op]
                                 ELSE Idle]
  /\ UNCHANGED << stage, net, entries, synced, place, kind, route, dialog, owed, steps >>

\* The timers stop without a network and start anew with it.
StopTimers(cut) ==
  sent' = [s \in Lines |-> [sent[s] EXCEPT !.own = @ /\ sent[s].what = "get",
                                           !.cut = @ \/ (cut /\ sent[s].what # "idle")]]

goOffline ==
  /\ net /\ net' = FALSE /\ Step
  /\ StopTimers(TRUE)
  /\ UNCHANGED << stage, entries, lists, commands, synced, place, kind, route, detail, dialog, owed >>

goOnline ==
  /\ ~net /\ net' = TRUE
  /\ UNCHANGED << stage, entries, lists, commands, synced, place, kind, route, detail, dialog, sent,
                  owed, steps >>

------------------------------------------------------------------------------
(* The courier. *)

\* useCourierDelivery of a page that opens.
Opened(d, known) == [id |-> d, loading |-> known[d] = "unknown", error |-> FALSE,
                     ask |-> known[d] = "unknown"]

\* The menu, a card, the address line or the browser's back and forward.
goTo(place_) ==
  /\ route # place_ /\ Step
  /\ route' = place_ /\ kind' = All
  /\ detail' = NoDetail /\ dialog' = NoDialog
  /\ sent' = Disowned
  /\ UNCHANGED << stage, net, entries, lists, commands, synced, place, owed >>

openDelivery(d) ==
  /\ route \in Keys /\ Step
  /\ route' = "detail" /\ kind' = All
  /\ detail' = Opened(d, entries)
  /\ sent' = Disowned
  /\ UNCHANGED << stage, net, entries, lists, commands, synced, place, dialog, owed >>

setWarehouseId(f) ==
  /\ f # place /\ place' = f /\ Step
  /\ UNCHANGED << stage, net, entries, lists, commands, synced, kind, route, detail, dialog, sent,
                  owed >>

changeKind(f) ==
  /\ route \in Keys /\ f # kind /\ kind' = f /\ Step
  /\ UNCHANGED << stage, net, entries, lists, commands, synced, place, route, detail, dialog, sent,
                  owed >>

Restored(list) == [list EXCEPT !.phase = IF list.page > 0 THEN "success" ELSE "idle"]

\* The tab is opened again.  The snapshot follows every state after the first list;
\* commands, errors and the chosen point are not in it.
reload ==
  /\ Step
  /\ entries' = IF synced THEN entries ELSE Unknown
  /\ lists' = [k \in Keys |-> IF synced THEN Restored(lists[k]) ELSE EmptyList]
  /\ commands' = [d \in All |-> "none"]
  /\ place' = All
  /\ detail' = IF OnDetail THEN Opened(detail.id, entries') ELSE NoDetail
  /\ dialog' = NoDialog /\ owed' = {}
  /\ sent' = [s \in Lines |->
       IF sent[s].what \in {"post", "ghost"} /\ ~sent[s].got
       THEN [Idle EXCEPT !.what = "ghost", !.d = sent[s].d, !.op = sent[s].op] ELSE Idle]
  /\ UNCHANGED << stage, net, synced, kind, route >>

\* The provider as it is mounted, without a snapshot.
CourierMount ==
  /\ net = TRUE
  /\ entries = Unknown /\ lists = [k \in Keys |-> EmptyList]
  /\ commands = [d \in All |-> "none"] /\ synced = FALSE
  /\ place = All /\ kind = All
  /\ route = "queue" /\ detail = NoDetail /\ dialog = NoDialog
  /\ sent = [s \in Lines |-> Idle] /\ owed = {} /\ steps = 0

CourierInit ==
  /\ stage \in [All -> {"away", "free", "mine", "shipped"}]
  /\ CourierMount

Served(s) == answerList(s) \/ answerDelivery(s) \/ answerPost(s)

Applied(s) == receiveList(s) \/ receiveDelivery(s) \/ receivePost(s)

CourierNext ==
  \/ \E s \in Lines :
       \/ Served(s) \/ Applied(s) \/ fail(s)
       \/ poll(s) \/ refresh(s) \/ loadNextPage(s) \/ reconcile(s)
       \/ askDelivery(s) \/ confirm(s)
       \/ \E d \in All : claim(s, d)
  \/ \E op \in DOMAIN From : openDialog(op)
  \/ closeDialog \/ dialogCloses
  \/ \E d \in All : openDelivery(d) \/ Others(d)
  \/ \E k \in Keys : goTo(k)
  \/ \E f \in Places : setWarehouseId(f)
  \/ \E f \in Kinds : changeKind(f)
  \/ goOffline \/ goOnline \/ reload

\* The browser tells of the network again, calls are answered, what settles is
\* applied, effects run and timers fire; nobody has to press a button.
CourierFairness ==
  /\ WF_courierVars(goOnline)
  /\ \A s \in Lines : WF_courierVars(Served(s)) /\ WF_courierVars(Applied(s))
  /\ WF_courierVars(\E s \in Lines : reconcile(s))
  /\ WF_courierVars(\E s \in Lines : poll(s))
  /\ WF_courierVars(\E s \in Lines : askDelivery(s))

CourierSpec == CourierInit /\ [][CourierNext]_courierVars /\ CourierFairness

------------------------------------------------------------------------------
(* Properties. *)

\* A delivery whose buttons are disabled has exactly one POST of this tab under way,
\* and no other has any: a second tap never sends a second command.
PendingIsOnePost ==
  \A d \in All :
    Cardinality({s \in Lines : sent[s].what = "post" /\ sent[s].d = d}) =
      IF commands[d] = "pending" THEN 1 ELSE 0

ListShown(key) == lists[key].ids = PageOf(Selected(key, place \cap kind), 1)

EntriesShown(key) == \A d \in ToSet(lists[key].ids) : entries[d] = stage[d]

\* A courier who stays on a list sees in the end its first page as the server has it,
\* for the point and the kind chosen, each delivery in its stage, whatever answers
\* were late or lost meanwhile (polling of the three list pages).
ListCatchesUp(key) == <>[](route = key) => <>[](ListShown(key) /\ EntriesShown(key))

CourierCatchesUp == \A key \in Keys : ListCatchesUp(key)

\* What useCourier.ts:15 says: a delivery that is in the common state is shown
\* without waiting, any other as soon as it has come; the page of a delivery does
\* not wait for ever.
WaitingEnds == detail.loading ~> ~detail.loading
===============================================================================
