------------------------------ MODULE SellerSync ------------------------------
(***************************************************************************)
(* The offline queue of the seller's app and the server behind it.         *)
(*                                                                         *)
(* The device keeps every sale and a queue of commands in IndexedDB        *)
(* (seller/orders.ts, seller/db.ts).  A drain (seller/sync.ts) claims what *)
(* is queued, posts it to /api/seller/sync and applies the answers; each    *)
(* `await` of it is a point where the seller may edit, and where the tab   *)
(* may be closed.  Requests and answers may be lost, and a request the     *)
(* device gave up may reach the server later.  The server handles each     *)
(* event in a transaction of its own (SellerOrderService).                 *)
(***************************************************************************)
EXTENDS Integers, FiniteSets, FiniteSetsExt

CONSTANTS
  Sales,       \* local orders, by client_order_id
  Contents,    \* what the items of a sale may be
  Empty,       \* no items yet
  Nothing,     \* no sale in the wizard; no answer
  MaxEvents,   \* bound: events ever queued
  MaxFailures  \* bound: times an answer is given up or the tab is closed

VARIABLES
  local,     \* the orders table of the device
  outbox,    \* the outbox table of the device
  wizard,    \* the sale that is open for editing
  drain,     \* the one drain in progress (navigator.locks)
  requests,  \* requests on their way to the server
  answers,   \* the server's results, by event and request
  server,    \* the server's row of each sale
  queued, failures,  \* bounds
  committed  \* history: what the seller has committed, per sale

deviceVars == << local, outbox, wizard >>

vars == << local, outbox, wizard, drain, requests, answers, server,
           queued, failures, committed >>

ASSUME SyncAssumption ==
  /\ IsFiniteSet(Sales) /\ IsFiniteSet(Contents)
  /\ Empty \notin Contents /\ Nothing \notin Sales
  /\ MaxEvents \in Nat /\ MaxFailures \in Nat

Commands == {"cancel", "complete", "escalate"}

Idle == [stage |-> "idle", scope |-> {}, batch |-> {}, order |-> Nothing]

NoOrder == [status |-> "none", acked_revision |-> 0, server_status |-> "none",
            items |-> Empty]

\* Whether the sale has got its server_id is whether a revision was accepted.
server_id(order) == order.acked_revision > 0

Own(s) == {e \in outbox : e.sale = s}

Pending(S) == {e \in outbox : e.sale \in S /\ e.state = "pending"}

First(E) == CHOOSE e \in E : \A f \in E : e.id <= f.id

WithState(E, st) == {[e EXCEPT !.state = st] : e \in E}

\* The actions the server allowed in its last answer (SellerOrderResource).
can(s, action) ==
  local[s].server_status \in IF action = "escalate" THEN {"seller_review"}
                             ELSE {"pending", "seller_review"}

------------------------------------------------------------------------------
(* The seller. *)

\* createOrResumeDraft: one draft of the device is resumed, not doubled.
StartDraft(s) ==
  /\ wizard = Nothing
  /\ local[s] = NoOrder
  /\ \A t \in Sales : local[t].status # "draft"
  /\ local' = [local EXCEPT ![s].status = "draft"]
  /\ wizard' = s
  /\ UNCHANGED << outbox, drain, requests, answers, server, queued, failures, committed >>

\* The order page opens a draft, or a sale the server still lets be edited.
openDraft(s) ==
  /\ wizard # s
  /\ local[s].status = "draft" \/ can(s, "edit")
  /\ wizard' = s
  /\ UNCHANGED << local, outbox, drain, requests, answers, server, queued,
                  failures, committed >>

\* A step of the wizard saves the items; the status stays as it is.
saveDraft(c) ==
  /\ wizard # Nothing
  /\ local[wizard] # NoOrder
  /\ local[wizard].items # c
  /\ local' = [local EXCEPT ![wizard].items = c]
  /\ UNCHANGED << outbox, wizard, drain, requests, answers, server, queued,
                  failures, committed >>

Event(s, action) == [id |-> queued + 1, sale |-> s, action |-> action, state |-> "pending"]

\* The event replaces one of its kind that still waits.
enqueue(s, action) ==
  IF \E e \in Pending({s}) : e.action = action
  THEN UNCHANGED << outbox, queued >>
  ELSE /\ queued < MaxEvents
       /\ outbox' = outbox \cup {Event(s, action)}
       /\ queued' = queued + 1

\* The last step of the wizard queues the sale as it is now.
commitOrder(s) ==
  /\ wizard = s
  /\ local[s].items # Empty
  /\ enqueue(s, "upsert")
  /\ local' = [local EXCEPT ![s].status = "queued"]
  /\ wizard' = Nothing
  /\ committed' = [committed EXCEPT ![s] = [last |-> local[s].items,
                                            ever |-> @.ever \cup {local[s].items}]]
  /\ UNCHANGED << drain, requests, answers, server, failures >>

enqueueCommand(s, action) ==
  /\ can(s, action)
  /\ ~\E e \in Pending({s}) : e.action = action
  /\ enqueue(s, action)
  /\ local' = [local EXCEPT ![s].status = "queued"]
  /\ UNCHANGED << wizard, drain, requests, answers, server, failures, committed >>

\* Only a draft of which nothing is queued; the wizard is not told.
deleteDraft(s) ==
  /\ local[s].status = "draft"
  /\ Own(s) = {}
  /\ local' = [local EXCEPT ![s] = NoOrder]
  /\ UNCHANGED << outbox, wizard, drain, requests, answers, server, queued, failures, committed >>

------------------------------------------------------------------------------
(* The drain. *)

\* Mutant: what a closed tab left claimed stays claimed.
beginDrainForgetful(S) ==
  /\ drain = Idle
  /\ drain' = [Idle EXCEPT !.stage = "look", !.scope = S]
  /\ UNCHANGED << deviceVars, requests, answers, server, queued, failures, committed >>

\* What a closed tab left claimed becomes sendable again.
beginDrain(S) ==
  /\ drain = Idle
  /\ \E e \in outbox : e.sale \in S
  /\ LET abandoned == {e \in outbox : e.sale \in S /\ e.state = "inflight"} IN
     outbox' = (outbox \ abandoned) \cup WithState(abandoned, "pending")
  /\ drain' = [Idle EXCEPT !.stage = "look", !.scope = S]
  /\ UNCHANGED << local, wizard, requests, answers, server, queued, failures, committed >>

\* Per sale the upsert, or else the oldest command.
selected(S) ==
  {LET own == Pending({s})
       upserts == {e \in own : e.action = "upsert"}
   IN First(IF upserts # {} THEN upserts ELSE own) : s \in {e.sale : e \in Pending(S)}}

sendable(S) ==
  {e \in selected(S) : \/ e.action = "upsert"
                       \/ server_id(local[e.sale]) /\ local[e.sale].status # "rejected"}

\* The revision is worked out from the last answer, not when queueing.
payload(e) ==
  [event |-> e.id, sale |-> e.sale, action |-> e.action, items |-> local[e.sale].items,
   revision |-> local[e.sale].acked_revision + IF e.action = "upsert" THEN 1 ELSE 0]

\* The queue and the orders are read, and the payloads made from them.
look ==
  /\ drain.stage = "look"
  /\ LET events == sendable(drain.scope) IN
     drain' = IF events = {} THEN Idle
              ELSE [drain EXCEPT !.stage = "claim", !.batch = {payload(e) : e \in events}]
  /\ UNCHANGED << deviceVars, requests, answers, server, queued, failures, committed >>

Claimed == {e \in outbox : \E p \in drain.batch : p.event = e.id}

\* The events are marked inflight and the payloads posted.
claim ==
  /\ drain.stage = "claim"
  /\ outbox' = (outbox \ Claimed) \cup WithState(Claimed, "inflight")
  /\ requests' = requests \cup {[no |-> Cardinality(requests) + 1, batch |-> drain.batch]}
  /\ drain' = [drain EXCEPT !.stage = "wait"]
  /\ UNCHANGED << local, wizard, answers, server, queued, failures, committed >>

\* The number of the request the drain waits for is the last one.
Answered(p) == \E a \in answers : a.event = p.event /\ a.request = Cardinality(requests)

\* Mutant: the queue gives up with the request.
giveUpDropping ==
  /\ drain.stage = "wait"
  /\ failures < MaxFailures
  /\ failures' = failures + 1
  /\ outbox' = outbox \ Claimed
  /\ drain' = Idle
  /\ UNCHANGED << local, wizard, requests, answers, server, queued, committed >>

\* No answer, or an error: the events wait for the next drain.
giveUp ==
  /\ drain.stage = "wait"
  /\ failures < MaxFailures
  /\ failures' = failures + 1
  /\ outbox' = (outbox \ Claimed) \cup WithState(Claimed, "pending")
  /\ drain' = Idle
  /\ UNCHANGED << local, wizard, requests, answers, server, queued, committed >>

\* The answer arrives, with a result for every event of the request.
receive ==
  /\ drain.stage = "wait"
  /\ \A p \in drain.batch : Answered(p)
  /\ drain' = [drain EXCEPT !.stage = "apply"]
  /\ UNCHANGED << deviceVars, requests, answers, server, queued, failures, committed >>

\* applyResult reads the sale of a result ...
readOrder(p) ==
  /\ drain.stage = "apply"
  /\ p \in drain.batch
  /\ drain' = [drain EXCEPT !.stage = "put", !.order = [payload |-> p, row |-> local[p.sale]]]
  /\ UNCHANGED << deviceVars, requests, answers, server, queued, failures, committed >>

Result(p) == CHOOSE a \in answers : a.event = p.event /\ a.request = Cardinality(requests)

\* Mutant: the device counts the versions itself.
putOrderCounting ==
  /\ drain.stage = "put"
  /\ LET p == drain.order.payload
         row == drain.order.row
         a == Result(p)
     IN local' = [local EXCEPT ![p.sale] =
          IF a.result = "rejected" THEN [row EXCEPT !.status = "rejected"]
          ELSE [row EXCEPT !.status = "synced", !.acked_revision = @ + 1,
                           !.server_status = a.status]]
  /\ drain' = [drain EXCEPT !.stage = "delete"]
  /\ UNCHANGED << outbox, wizard, requests, answers, server, queued, failures, committed >>

\* ... writes what it read back, with the answer ...
putOrder ==
  /\ drain.stage = "put"
  /\ LET p == drain.order.payload
         row == drain.order.row
         a == Result(p)
     IN local' = [local EXCEPT ![p.sale] =
          IF a.result = "rejected" THEN [row EXCEPT !.status = "rejected"]
          ELSE [row EXCEPT !.status = "synced", !.acked_revision = a.revision,
                           !.server_status = a.status]]
  /\ drain' = [drain EXCEPT !.stage = "delete"]
  /\ UNCHANGED << outbox, wizard, requests, answers, server, queued, failures, committed >>

\* ... and takes the event from the queue; after the last one it looks again.
deleteEvent ==
  /\ drain.stage = "delete"
  /\ LET p == drain.order.payload
         rest == drain.batch \ {p}
     IN /\ outbox' = {e \in outbox : e.id # p.event}
        /\ drain' = [drain EXCEPT !.batch = rest, !.order = Nothing,
                                  !.stage = IF rest = {} THEN "look" ELSE "apply"]
  /\ UNCHANGED << local, wizard, requests, answers, server, queued, failures, committed >>

\* The tab is closed: the tables stay, the wizard and the drain are gone.
crash ==
  /\ failures < MaxFailures
  /\ failures' = failures + 1
  /\ wizard' = Nothing
  /\ drain' = Idle
  /\ UNCHANGED << local, outbox, requests, answers, server, queued, committed >>

------------------------------------------------------------------------------
(* The server.  Whether the stock allows a sale to be completed is for the *)
(* ledger to say; here either answer is possible.                          *)

Open(s) == server[s].status \in {"pending", "seller_review"}

\* Mutant: a new version reopens a closed sale.
upsertAnyStatus(p) ==
  LET row == server[p.sale] IN
  IF p.items # Empty /\ p.revision = row.revision /\ row.items = p.items
  THEN << "duplicate", row >>
  ELSE IF p.items # Empty /\ p.revision = row.revision + 1
  THEN << "accepted", [revision |-> p.revision, items |-> p.items, status |-> "pending"] >>
  ELSE << "rejected", row >>

\* A version is accepted once, in order, while the sale is open.
upsert(p) ==
  LET row == server[p.sale] IN
  IF p.items # Empty /\ p.revision = row.revision /\ row.items = p.items
  THEN << "duplicate", row >>
  ELSE IF p.items # Empty /\ p.revision = row.revision + 1 /\ (row.revision > 0 => Open(p.sale))
  THEN << "accepted", [revision |-> p.revision, items |-> p.items, status |-> "pending"] >>
  ELSE << "rejected", row >>

\* Mutant: a command is carried out whatever version it was given for.
commandAnyRevision(p, fits) ==
  LET row == server[p.sale]
      moved(st) == [row EXCEPT !.status = st]
  IN
  CASE p.action = "cancel" /\ (Open(p.sale) \/ row.status = "cancelled") ->
         << "cancelled", moved("cancelled") >>
    [] p.action = "complete" /\ Open(p.sale) ->
         LET st == IF fits THEN "completed" ELSE "seller_review" IN << st, moved(st) >>
    [] p.action = "escalate" /\ row.status = "seller_review" ->
         LET st == IF fits THEN "completed" ELSE "manager_review" IN << st, moved(st) >>
    [] OTHER -> << "rejected", row >>

\* cancel, complete and escalate; fits: the stock allows the sale.
command(p, fits) ==
  LET row == server[p.sale]
      moved(st) == [row EXCEPT !.status = st]
  IN
  IF p.revision # row.revision THEN << "rejected", row >>
  ELSE
  CASE p.action = "cancel" /\ (Open(p.sale) \/ row.status = "cancelled") ->
         << "cancelled", moved("cancelled") >>
    [] p.action # "cancel" /\ row.status \in {"completed", "manager_review"} ->
         << row.status, row >>
    [] p.action = "complete" /\ Open(p.sale) ->
         LET st == IF fits THEN "completed" ELSE "seller_review" IN << st, moved(st) >>
    [] p.action = "escalate" /\ row.status = "seller_review" ->
         LET st == IF fits THEN "completed" ELSE "manager_review" IN << st, moved(st) >>
    [] OTHER -> << "rejected", row >>

\* The events of a request are handled one by one; each is answered once.
processEvent(r, p, fits) ==
  LET outcome == IF p.action = "upsert" THEN upsert(p) ELSE command(p, fits) IN
  /\ r \in requests
  /\ p \in r.batch
  /\ ~\E a \in answers : a.event = p.event /\ a.request = r.no
  /\ server' = [server EXCEPT ![p.sale] = outcome[2]]
  /\ answers' = answers \cup {[event |-> p.event, request |-> r.no, result |-> outcome[1],
                               revision |-> outcome[2].revision,
                               status |-> outcome[2].status]}
  /\ UNCHANGED << deviceVars, drain, requests, queued, failures, committed >>

------------------------------------------------------------------------------
Init ==
  /\ local = [s \in Sales |-> NoOrder]
  /\ outbox = {}
  /\ wizard = Nothing
  /\ drain = Idle
  /\ requests = {}
  /\ answers = {}
  /\ server = [s \in Sales |-> [revision |-> 0, items |-> Empty, status |-> "none"]]
  /\ queued = 0
  /\ failures = 0
  /\ committed = [s \in Sales |-> [last |-> Empty, ever |-> {}]]

SellerStep ==
  \/ \E s \in Sales : StartDraft(s) \/ openDraft(s) \/ commitOrder(s) \/ deleteDraft(s)
  \/ \E c \in Contents \cup {Empty} : saveDraft(c)
  \/ \E s \in Sales, action \in Commands : enqueueCommand(s, action)

\* The device drains one sale or all of them.
BeginDrain == \E S \in {{s} : s \in Sales} \cup {Sales} : beginDrain(S)

DrainStep == \/ look \/ claim \/ receive \/ putOrder \/ deleteEvent
             \/ \E p \in drain.batch : readOrder(p)

ServerStep == \E r \in requests : \E p \in r.batch, fits \in BOOLEAN : processEvent(r, p, fits)

Next == SellerStep \/ BeginDrain \/ DrainStep \/ giveUp \/ ServerStep \/ crash

Spec == Init /\ [][Next]_vars

------------------------------------------------------------------------------
(* What the queue promises. *)

\* Types.
TypeOK ==
  /\ \A s \in Sales :
       /\ local[s].status \in {"none", "draft", "queued", "synced", "rejected"}
       /\ local[s].items \in Contents \cup {Empty}
       /\ local[s].acked_revision \in Nat
       /\ server[s].revision \in Nat
       /\ server[s].items \in Contents \cup {Empty}
  /\ wizard \in Sales \cup {Nothing}
  /\ \A e \in outbox : e.id \in 1 .. queued /\ e.state \in {"pending", "inflight"}
  /\ drain.stage \in {"idle", "look", "claim", "wait", "apply", "put", "delete"}

\* The app takes an event from the queue only after the server has answered it.
NoEventLost ==
  \A id \in 1 .. queued : (\E e \in outbox : e.id = id) \/ \E a \in answers : a.event = id

\* What the device believes accepted is accepted: it is never ahead of the
\* server, however answers are lost, repeated or late.
AckIsTheServers ==
  \A s \in Sales : /\ local[s].acked_revision <= server[s].revision
                   /\ local[s].server_status # "none" => local[s].acked_revision > 0

\* A sale is closed (completed, escalated, cancelled) only in a version whose
\* acceptance the device has seen: a late command never closes newer contents.
ClosedAsSeen ==
  [][\A s \in Sales :
       server'[s].status # server[s].status
         /\ server'[s].status \in {"completed", "manager_review", "cancelled"}
       => local[s].acked_revision = server[s].revision]_vars

\* What is closed stays as it was closed.
ClosedIsFinal ==
  [][\A s \in Sales :
       server[s].status \in {"completed", "manager_review", "cancelled"}
         => server'[s] = server[s]]_vars

\* No upsert is refused for its version while the sale is open: the version is
\* worked out from the last answer so that edits made offline stay acceptable.
RevisionNeverRefuses ==
  [][\A p \in drain.batch :
       drain.stage = "wait" /\ p.action = "upsert" /\ p.items # Empty /\ Open(p.sale)
         => ~\E a \in answers' \ answers : /\ a.event = p.event
                                          /\ a.request = Cardinality(requests)
                                          /\ a.result = "rejected"]_vars

\* The server gets what the seller has committed in the last step of the
\* wizard, never a draft in the making.
OnlyCommittedArrives ==
  \A s \in Sales : server[s].items \in committed[s].ever \cup {Empty}

\* A sale shown as synced, with nothing queued and not being edited, is on the
\* server as the seller last committed it.
NoCommitLost ==
  \A s \in Sales :
    local[s].status = "synced" /\ Own(s) = {} /\ wizard # s
      => server[s].items = committed[s].last

------------------------------------------------------------------------------
(* Progress: the seller has the queue sent again and again while something *)
(* is in it, a drain goes on, and the server handles what it gets.  Answers *)
(* are lost at most MaxFailures times.                                      *)

Fairness ==
  /\ SF_vars(beginDrain(Sales))
  /\ WF_vars(DrainStep)
  /\ WF_vars(ServerStep)

FairSpec == Spec /\ Fairness

\* Every upsert that was queued leaves the queue, tab closings notwithstanding.
UpsertsDrain ==
  \A s \in Sales :
    (\E e \in outbox : e.sale = s /\ e.action = "upsert")
      ~> ~\E e \in outbox : e.sale = s /\ e.action = "upsert"
==============================================================================
