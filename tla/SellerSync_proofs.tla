--------------------------- MODULE SellerSync_proofs ---------------------------
(***************************************************************************)
(* Proofs about the offline queue of the seller and its server, for any    *)
(* sales and contents, any number of events and of failures: nothing       *)
(* queued is lost, the device is never ahead of the server, and a sale is  *)
(* closed once, in the version the device has seen.  The inductive         *)
(* invariant is QueueInv.                                                  *)
(***************************************************************************)
EXTENDS SellerSync, FiniteSetTheorems, WellFoundedInduction, TLAPS

\* What an event may ask for.
Actions == Commands \cup {"upsert"}

\* The statuses of a sale on the server, "none" before its first version.
SaleStatuses == {"none", "pending", "seller_review", "completed", "manager_review", "cancelled"}

\* What the server answers.
Results == SaleStatuses \cup {"accepted", "duplicate", "rejected"}

\* The rows of the orders table of the device.
OrderRows == [status : {"none", "draft", "queued", "synced", "rejected"},
              acked_revision : Nat, server_status : SaleStatuses, items : Contents \cup {Empty}]

\* The rows of the server.
ServerRows == [revision : Nat, items : Contents \cup {Empty}, status : SaleStatuses]

\* What is posted of an event.
Payloads == [event : 1 .. queued, sale : Sales, action : Actions,
             items : Contents \cup {Empty}, revision : Nat]

\* The awaits of a drain.
Stages == {"idle", "look", "claim", "wait", "apply", "put", "delete"}

\* The types of everything, and the numbers of requests and events.
QueueTypes ==
  /\ queued \in Nat
  /\ local \in [Sales -> OrderRows]
  /\ outbox \subseteq [id : 1 .. queued, sale : Sales, action : Actions,
                       state : {"pending", "inflight"}]
  /\ wizard \in Sales \cup {Nothing}
  /\ drain \in [stage : Stages, scope : SUBSET Sales, batch : SUBSET Payloads,
                order : {Nothing} \cup [payload : Payloads, row : OrderRows]]
  /\ IsFiniteSet(requests)
  /\ requests \subseteq [no : 1 .. Cardinality(requests), batch : SUBSET Payloads]
  /\ answers \subseteq [event : 1 .. queued, request : 1 .. Cardinality(requests),
                        result : Results, revision : Nat, status : SaleStatuses]
  /\ server \in [Sales -> ServerRows]

\* What was ever posted to the server.
Sent == UNION {r.batch : r \in requests}

\* That, and what the drain is about to post.
Posted == drain.batch \cup Sent

\* An id names one event, of one sale, on the device and on the way.
IdsAgree ==
  /\ \A e, f \in outbox : e.id = f.id => e.sale = f.sale
  /\ \A e \in outbox, p \in Posted : e.id = p.event => e.sale = p.sale
  /\ \A p, q \in Posted : p.event = q.event => p.sale = q.sale

\* Of a draft nothing is queued, on the way or accepted.
DraftsAreLocal ==
  \A s \in Sales : local[s].status \in {"none", "draft"} =>
    /\ local[s].acked_revision = 0 /\ local[s].server_status = "none"
    /\ \A e \in outbox : e.sale # s
    /\ \A p \in Posted : p.sale # s

\* A sale is on the server from its first version on, with items.
ServerStarts ==
  \A s \in Sales : /\ server[s].revision = 0 <=> server[s].status = "none"
                   /\ server[s].revision = 0 => server[s].items = Empty

\* The server answers what it was sent, once per request, with a version that it
\* has reached by then.
AnswersAreTrue ==
  \A a \in answers :
    /\ \E p \in Sent : p.event = a.event
    /\ \A p \in Posted : p.event = a.event => a.revision <= server[p.sale].revision
    /\ a.result # "rejected" => a.revision > 0
    /\ \A b \in answers : b.event = a.event /\ b.request = a.request => b = a

\* A command carries a version that the device has seen accepted.
CommandsSeen == \A p \in Posted : p.action # "upsert" =>
                  p.revision <= local[p.sale].acked_revision

\* The drain has posted, and has not done with the answer.
Posting == drain.stage \in {"wait", "apply", "put", "delete"}

\* The drain posts one event per sale; an answer it gets is no older than what
\* the device knows; and the row it writes back is, but for what the seller edits,
\* the row that is there.
DrainAgrees ==
  /\ \A p, q \in drain.batch : p.sale = q.sale => p = q
  /\ Posting => \A p \in drain.batch, a \in answers :
       a.event = p.event /\ a.request = Cardinality(requests) =>
         local[p.sale].acked_revision <= a.revision
  /\ drain.stage \in {"apply", "put", "delete"} => \A p \in drain.batch : Answered(p)
  /\ drain.stage \in {"put", "delete"} =>
       /\ drain.order \in [payload : Payloads, row : OrderRows]
       /\ drain.order.payload \in drain.batch
  /\ drain.stage = "put" =>
       /\ drain.order.row.acked_revision = local[drain.order.payload.sale].acked_revision
       /\ drain.order.row.server_status = local[drain.order.payload.sale].server_status

\* The inductive invariant.
QueueInv ==
  /\ QueueTypes /\ IdsAgree /\ DraftsAreLocal /\ ServerStarts /\ AnswersAreTrue
  /\ CommandsSeen /\ DrainAgrees /\ NoEventLost /\ AckIsTheServers


------------------------------------------------------------------------------

\* What a step of the seller may do: nothing that the drain and the server know
\* of a sale changes, and what is queued is of a sale that is no draft.
SellerEffect ==
  /\ local' \in [Sales -> OrderRows]
  /\ \A s \in Sales : /\ local'[s].acked_revision = local[s].acked_revision
                      /\ local'[s].server_status = local[s].server_status
                      /\ local'[s].status \in {"none", "draft"} =>
                           local[s].status \in {"none", "draft"}
  /\ queued' \in Nat /\ queued' >= queued
  /\ outbox \subseteq outbox'
  /\ outbox' \subseteq [id : 1 .. queued', sale : Sales, action : Actions,
                        state : {"pending", "inflight"}]
  /\ \A e \in outbox' \ outbox : /\ e.id = queued' /\ queued' > queued
                                 /\ local'[e.sale].status \notin {"none", "draft"}
  /\ \A e, f \in outbox' \ outbox : e.sale = f.sale
  /\ \A i \in 1 .. queued' : i \in 1 .. queued \/ \E e \in outbox' : e.id = i
  /\ wizard' \in Sales \cup {Nothing}
  /\ UNCHANGED << drain, requests, answers, server >>

\* Such a step keeps the invariant.
LEMMA EffectKeeps == ASSUME QueueInv, SellerEffect PROVE QueueInv'
<1>1. Posted' = Posted /\ Sent' = Sent
  BY DEF Posted, Sent, SellerEffect
<1>2. QueueTypes'
  <2>1. queued \in Nat /\ 1 .. queued \subseteq 1 .. queued'
    BY DEF SellerEffect, QueueInv, QueueTypes
  <2>2. Payloads \subseteq Payloads'
    BY <2>1 DEF Payloads
  <2>3. drain' \in [stage : Stages, scope : SUBSET Sales, batch : SUBSET Payloads',
                    order : {Nothing} \cup [payload : Payloads', row : OrderRows]]
    BY <2>2 DEF SellerEffect, QueueInv, QueueTypes
  <2>4. requests' \subseteq [no : 1 .. Cardinality(requests'), batch : SUBSET Payloads']
    BY <2>2 DEF SellerEffect, QueueInv, QueueTypes
  <2>5. answers' \subseteq [event : 1 .. queued', request : 1 .. Cardinality(requests'),
                            result : Results, revision : Nat, status : SaleStatuses]
    BY <2>1 DEF SellerEffect, QueueInv, QueueTypes
  <2> QED
    BY <2>3, <2>4, <2>5 DEF SellerEffect, QueueInv, QueueTypes
<1>3. \A p \in Posted : p \in Payloads
  BY DEF Posted, Sent, QueueInv, QueueTypes
<1>4. \A e \in outbox, f \in outbox' \ outbox : e.id # f.id
  BY DEF SellerEffect, QueueInv, QueueTypes
<1>5. \A p \in Posted, f \in outbox' \ outbox : p.event # f.id
  BY <1>3 DEF SellerEffect, QueueInv, QueueTypes, Payloads
<1>6. IdsAgree'
  BY <1>1, <1>4, <1>5 DEF IdsAgree, SellerEffect, QueueInv
<1>7. DraftsAreLocal'
  BY <1>1 DEF DraftsAreLocal, SellerEffect, QueueInv
<1>8. ServerStarts' /\ AnswersAreTrue'
  BY <1>1 DEF ServerStarts, AnswersAreTrue, SellerEffect, QueueInv
<1>9. CommandsSeen'
  BY <1>1, <1>3 DEF CommandsSeen, SellerEffect, QueueInv, Payloads
<1>10. DrainAgrees'
  <2>1. \A p \in drain.batch : p.sale \in Sales
    BY <1>3 DEF Posted, Payloads
  <2>2. Payloads \subseteq Payloads'
    BY DEF Payloads, SellerEffect, QueueInv, QueueTypes
  <2>3. drain.stage \in {"put", "delete"} =>
          /\ drain.order \in [payload : Payloads', row : OrderRows]
          /\ drain.order.payload.sale \in Sales
    BY <2>2 DEF QueueInv, DrainAgrees, Payloads
  <2> QED
    BY <2>1, <2>3 DEF DrainAgrees, Posting, Answered, SellerEffect, QueueInv
<1>11. NoEventLost'
  BY DEF NoEventLost, SellerEffect, QueueInv
<1>12. AckIsTheServers'
  BY DEF AckIsTheServers, SellerEffect, QueueInv
<1> QED
  BY <1>2, <1>6, <1>7, <1>8, <1>9, <1>10, <1>11, <1>12 DEF QueueInv

\* A step that queues nothing.
LEMMA EditEffect ==
  ASSUME QueueInv, NEW s \in Sales, NEW row \in OrderRows,
         local' = [local EXCEPT ![s] = row],
         row.acked_revision = local[s].acked_revision,
         row.server_status = local[s].server_status,
         row.status \in {"none", "draft"} => local[s].status \in {"none", "draft"},
         wizard' \in Sales \cup {Nothing},
         UNCHANGED << outbox, drain, requests, answers, server, queued >>
  PROVE  SellerEffect
  BY DEF SellerEffect, QueueInv, QueueTypes

\* A step that queues an event of sale s.
LEMMA EnqueueEffect ==
  ASSUME QueueInv, NEW s \in Sales, NEW action \in Actions, enqueue(s, action),
         local' = [local EXCEPT ![s].status = "queued"],
         wizard' \in Sales \cup {Nothing},
         UNCHANGED << drain, requests, answers, server >>
  PROVE  SellerEffect
<1>1. /\ queued \in Nat /\ local \in [Sales -> OrderRows]
      /\ outbox \subseteq [id : 1 .. queued, sale : Sales, action : Actions,
                           state : {"pending", "inflight"}]
  BY DEF QueueInv, QueueTypes
<1>2. /\ local' \in [Sales -> OrderRows]
      /\ \A t \in Sales : /\ local'[t].acked_revision = local[t].acked_revision
                          /\ local'[t].server_status = local[t].server_status
                          /\ local'[t].status \in {"none", "draft"} =>
                               local[t].status \in {"none", "draft"}
      /\ local'[s].status = "queued"
  BY <1>1 DEF OrderRows
<1>3. CASE UNCHANGED << outbox, queued >>
  BY <1>1, <1>2, <1>3 DEF SellerEffect
<1>4. CASE outbox' = outbox \cup {Event(s, action)} /\ queued' = queued + 1
  <2>1. Event(s, action) \in [id : 1 .. queued', sale : Sales, action : Actions,
                              state : {"pending", "inflight"}]
        /\ Event(s, action).id = queued' /\ Event(s, action).sale = s
    BY <1>1, <1>4 DEF Event
  <2>2. \A i \in 1 .. queued' : i \in 1 .. queued \/ i = queued'
    BY <1>1, <1>4
  <2>3. outbox' \subseteq [id : 1 .. queued', sale : Sales, action : Actions,
                           state : {"pending", "inflight"}]
    BY <1>1, <1>4, <2>1
  <2>4. \A e \in outbox' \ outbox : e = Event(s, action)
    BY <1>4
  <2>5. queued' \in Nat /\ queued' > queued /\ queued' >= queued
    BY <1>1, <1>4
  <2>6. \A i \in 1 .. queued' : i \in 1 .. queued \/ \E e \in outbox' : e.id = i
    BY <1>4, <2>1, <2>2
  <2> HIDE DEF Event
  <2> QED
    BY <1>2, <1>4, <2>1, <2>3, <2>4, <2>5, <2>6 DEF SellerEffect
<1> QED
  BY <1>3, <1>4 DEF enqueue

\* What the seller does.
LEMMA SellerKeeps == ASSUME QueueInv, SellerStep PROVE QueueInv'
<1>1. local \in [Sales -> OrderRows] /\ wizard \in Sales \cup {Nothing} /\ NoOrder \in OrderRows
  BY DEF QueueInv, QueueTypes, OrderRows, NoOrder, SaleStatuses
<1>2. ASSUME NEW s \in Sales, StartDraft(s) PROVE SellerEffect
  <2> DEFINE row == [NoOrder EXCEPT !.status = "draft"]
  <2>1. local' = [local EXCEPT ![s] = row] /\ local[s] = NoOrder
    BY <1>1, <1>2 DEF StartDraft
  <2>2. row \in OrderRows
    BY DEF OrderRows, NoOrder, SaleStatuses
  <2>3. /\ row.acked_revision = local[s].acked_revision
        /\ row.server_status = local[s].server_status
        /\ local[s].status \in {"none", "draft"}
    BY <2>1 DEF NoOrder
  <2> HIDE DEF row
  <2>4. /\ wizard' \in Sales \cup {Nothing}
        /\ UNCHANGED << outbox, drain, requests, answers, server, queued >>
    BY <1>2 DEF StartDraft
  <2> QED
    BY <2>1, <2>2, <2>3, <2>4, EditEffect
<1>3. ASSUME NEW s \in Sales, openDraft(s) PROVE SellerEffect
  BY <1>1, <1>3 DEF openDraft, SellerEffect, QueueInv, QueueTypes
<1>4. ASSUME NEW c \in Contents \cup {Empty}, saveDraft(c) PROVE SellerEffect
  <2>1. wizard \in Sales
    BY <1>1, <1>4 DEF saveDraft
  <2> DEFINE row == [local[wizard] EXCEPT !.items = c]
  <2>2. local' = [local EXCEPT ![wizard] = row]
    BY <1>1, <1>4 DEF saveDraft
  <2>3. /\ row \in OrderRows /\ row.acked_revision = local[wizard].acked_revision
        /\ row.server_status = local[wizard].server_status
        /\ row.status = local[wizard].status
    BY <1>1, <2>1 DEF OrderRows
  <2> HIDE DEF row
  <2> QED
    BY <1>1, <1>4, <2>1, <2>2, <2>3, EditEffect DEF saveDraft
<1>5. ASSUME NEW s \in Sales, commitOrder(s) PROVE SellerEffect
  BY <1>5, EnqueueEffect DEF commitOrder, Actions
<1>6. ASSUME NEW s \in Sales, NEW action \in Commands, enqueueCommand(s, action)
      PROVE  SellerEffect
  BY <1>1, <1>6, EnqueueEffect DEF enqueueCommand, Actions
<1>7. ASSUME NEW s \in Sales, deleteDraft(s) PROVE SellerEffect
  <2>1. local[s].status = "draft" /\ local' = [local EXCEPT ![s] = NoOrder]
    BY <1>7 DEF deleteDraft
  <2>2. local[s].acked_revision = 0 /\ local[s].server_status = "none"
    BY <2>1 DEF QueueInv, DraftsAreLocal
  <2> QED
    BY <1>1, <1>7, <2>1, <2>2, EditEffect DEF deleteDraft, NoOrder
<1> QED
  BY <1>2, <1>3, <1>4, <1>5, <1>6, <1>7, EffectKeeps DEF SellerStep

------------------------------------------------------------------------------

\* Events change their state alone.
SameEvents ==
  /\ outbox' \subseteq [id : 1 .. queued, sale : Sales, action : Actions,
                        state : {"pending", "inflight"}]
  /\ \A e \in outbox' : \E f \in outbox : f.id = e.id /\ f.sale = e.sale
  /\ \A f \in outbox : \E e \in outbox' : e.id = f.id

\* Marking some events keeps them.
LEMMA MarkEvents ==
  ASSUME QueueInv, NEW A, A \subseteq outbox, NEW st \in {"pending", "inflight"},
         outbox' = (outbox \ A) \cup WithState(A, st)
  PROVE  SameEvents
<1>1. outbox \subseteq [id : 1 .. queued, sale : Sales, action : Actions,
                        state : {"pending", "inflight"}]
  BY DEF QueueInv, QueueTypes
<1>2. \A e \in A : /\ [e EXCEPT !.state = st] \in [id : 1 .. queued, sale : Sales,
                                                   action : Actions,
                                                   state : {"pending", "inflight"}]
                   /\ [e EXCEPT !.state = st].id = e.id
                   /\ [e EXCEPT !.state = st].sale = e.sale
  BY <1>1
<1>3. \A e \in outbox' : e \in outbox \/ \E f \in A : e = [f EXCEPT !.state = st]
  BY DEF WithState
<1>4. \A f \in outbox : f \in outbox' \/ [f EXCEPT !.state = st] \in outbox'
  BY DEF WithState
<1>5. \A e \in outbox' : \E f \in outbox : f.id = e.id /\ f.sale = e.sale
  BY <1>2, <1>3
<1>6. \A f \in outbox : \E e \in outbox' : e.id = f.id
  <2> TAKE f \in outbox
  <2>1. CASE f \in A
    BY <1>2, <2>1 DEF WithState
  <2>2. CASE f \notin A
    BY <2>2
  <2> QED
    BY <2>1, <2>2
<1>7. outbox' \subseteq [id : 1 .. queued, sale : Sales, action : Actions,
                         state : {"pending", "inflight"}]
  BY <1>1, <1>2, <1>3
<1> QED
  BY <1>5, <1>6, <1>7 DEF SameEvents

\* The drain ends or begins, and nobody waits for an answer.
LEMMA ResetKeeps ==
  ASSUME QueueInv, SameEvents, wizard' \in Sales \cup {Nothing},
         NEW stage \in {"idle", "look"}, NEW S \in SUBSET Sales,
         drain' = [stage |-> stage, scope |-> S, batch |-> {}, order |-> Nothing],
         UNCHANGED << local, requests, answers, server, queued >>
  PROVE  QueueInv'
<1>1. Posted' \subseteq Posted /\ Sent' = Sent
  BY DEF Posted, Sent
<1>2. QueueTypes'
  BY DEF QueueInv, QueueTypes, SameEvents, Stages, Payloads
<1>3. IdsAgree'
  BY <1>1 DEF IdsAgree, SameEvents, QueueInv
<1>4. DraftsAreLocal'
  BY <1>1 DEF DraftsAreLocal, SameEvents, QueueInv
<1>5. ServerStarts' /\ AnswersAreTrue' /\ CommandsSeen' /\ AckIsTheServers'
  BY <1>1 DEF ServerStarts, AnswersAreTrue, CommandsSeen, AckIsTheServers, QueueInv
<1>6. DrainAgrees'
  BY DEF DrainAgrees, Posting
<1>7. NoEventLost'
  BY DEF NoEventLost, SameEvents, QueueInv
<1> QED
  BY <1>2, <1>3, <1>4, <1>5, <1>6, <1>7 DEF QueueInv

\* A drain begins, gives up, or goes with its tab.
LEMMA BreakKeeps == ASSUME QueueInv, BeginDrain \/ giveUp \/ crash PROVE QueueInv'
<1>1. ASSUME NEW S \in SUBSET Sales, beginDrain(S) PROVE QueueInv'
  <2> DEFINE left == {e \in outbox : e.sale \in S /\ e.state = "inflight"}
  <2>1. outbox' = (outbox \ left) \cup WithState(left, "pending") /\ left \subseteq outbox
    BY <1>1 DEF beginDrain
  <2>2. SameEvents
    <3> HIDE DEF left
    <3> QED
      BY <2>1, MarkEvents
  <2>3. drain' = [stage |-> "look", scope |-> S, batch |-> {}, order |-> Nothing]
    BY <1>1 DEF beginDrain, Idle
  <2>4. UNCHANGED << local, wizard, requests, answers, server, queued >>
    BY <1>1 DEF beginDrain
  <2> QED
    BY <2>2, <2>3, <2>4, ResetKeeps DEF QueueInv, QueueTypes
<1>2. CASE giveUp
  <2>1. outbox' = (outbox \ Claimed) \cup WithState(Claimed, "pending") /\ Claimed \subseteq outbox
    BY <1>2 DEF giveUp, Claimed
  <2>2. SameEvents
    BY <2>1, MarkEvents
  <2>3. drain' = [stage |-> "idle", scope |-> {}, batch |-> {}, order |-> Nothing]
    BY <1>2 DEF giveUp, Idle
  <2>4. UNCHANGED << local, wizard, requests, answers, server, queued >>
    BY <1>2 DEF giveUp
  <2> QED
    BY <2>2, <2>3, <2>4, ResetKeeps DEF QueueInv, QueueTypes
<1>3. CASE crash
  <2>1. SameEvents
    BY <1>3 DEF crash, SameEvents, QueueInv, QueueTypes
  <2>2. drain' = [stage |-> "idle", scope |-> {}, batch |-> {}, order |-> Nothing]
    BY <1>3 DEF crash, Idle
  <2>3. UNCHANGED << local, requests, answers, server, queued >> /\ wizard' = Nothing
    BY <1>3 DEF crash
  <2> QED
    BY <2>1, <2>2, <2>3, ResetKeeps
<1> QED
  BY <1>1, <1>2, <1>3 DEF BeginDrain

\* What is selected of a queue is one waiting event per sale.
LEMMA SelectedOnce ==
  ASSUME QueueInv, NEW S \in SUBSET Sales
  PROVE  /\ sendable(S) \subseteq outbox
         /\ \A e, f \in sendable(S) : e.sale = f.sale => e = f
<1> DEFINE own(s) == Pending({s})
           up(s) == {e \in own(s) : e.action = "upsert"}
           from(s) == IF up(s) # {} THEN up(s) ELSE own(s)
           sales == {e.sale : e \in Pending(S)}
<1>1. selected(S) = {First(from(s)) : s \in sales}
  BY DEF selected
<1>2. ASSUME NEW s \in sales PROVE First(from(s)) \in outbox /\ First(from(s)).sale = s
  <2>1. from(s) # {} /\ from(s) \subseteq outbox /\ \A e \in from(s) : e.sale = s
    BY DEF Pending
  <2>2. \A e \in from(s) : e.id \in Nat
    <3>1. \A e \in outbox : e.id \in Nat
      BY DEF QueueInv, QueueTypes
    <3> QED
      BY <2>1, <3>1
  <2>3. PICK e \in from(s) : \A f \in from(s) : e.id <= f.id
    <3> DEFINE ids == {e.id : e \in from(s)}
    <3>1. ids \subseteq Nat /\ ids # {}
      BY <2>1, <2>2
    <3>2. PICK n \in ids : \A k \in ids : n <= k
      <4> DEFINE R == OpToRel(<, Nat)
      <4>1. IsWellFoundedOn(R, Nat)
        BY NatLessThanWellFounded
      <4> HIDE DEF ids, R
      <4>2. PICK n \in ids : \A k \in ids : ~ (<< k, n >> \in R)
        BY <3>1, <4>1, WFMin
      <4>3. \A k \in ids : ~(k < n)
        BY <3>1, <4>2 DEF OpToRel, R
      <4> QED
        BY <3>1, <4>3
    <3> QED
      BY <3>2
  <2> HIDE DEF from
  <2>4. First(from(s)) \in from(s)
    BY <2>3 DEF First
  <2> QED
    BY <2>1, <2>4
<1> HIDE DEF from, sales
<1>3. sendable(S) \subseteq selected(S)
  BY DEF sendable
<1> QED
  BY <1>1, <1>2, <1>3

\* The queue is looked through and the payloads are made.
LEMMA LookKeeps == ASSUME QueueInv, look PROVE QueueInv'
<1> DEFINE events == sendable(drain.scope)
           new == {payload(e) : e \in events}
<1>1. /\ UNCHANGED << local, outbox, wizard, requests, answers, server, queued >>
      /\ drain' = IF events = {} THEN Idle
                  ELSE [drain EXCEPT !.stage = "claim", !.batch = new]
  BY DEF look, deviceVars
<1>2. /\ drain \in [stage : Stages, scope : SUBSET Sales, batch : SUBSET Payloads,
                    order : {Nothing} \cup [payload : Payloads, row : OrderRows]]
      /\ local \in [Sales -> OrderRows] /\ queued \in Nat
      /\ outbox \subseteq [id : 1 .. queued, sale : Sales, action : Actions,
                           state : {"pending", "inflight"}]
  BY DEF QueueInv, QueueTypes
<1>3. events \subseteq outbox /\ \A e, f \in events : e.sale = f.sale => e = f
  <2>1. drain.scope \in SUBSET Sales
    BY <1>2
  <2> QED
    BY <2>1, SelectedOnce
<1>4. CASE events = {}
  <2>1. drain' = [stage |-> "idle", scope |-> {}, batch |-> {}, order |-> Nothing]
    BY <1>1, <1>4 DEF Idle
  <2>2. SameEvents
    BY <1>1, <1>2 DEF SameEvents
  <2>3. wizard' \in Sales \cup {Nothing}
    BY <1>1 DEF QueueInv, QueueTypes
  <2>4. UNCHANGED << local, requests, answers, server, queued >>
    BY <1>1
  <2> HIDE DEF events, new
  <2> QED
    BY <2>1, <2>2, <2>3, <2>4, ResetKeeps
<1>5. CASE events # {}
  <2>1. \A e \in events :
          /\ payload(e) \in Payloads /\ payload(e).event = e.id /\ payload(e).sale = e.sale
          /\ payload(e).action # "upsert" =>
               payload(e).revision = local[e.sale].acked_revision
    BY <1>2, <1>3 DEF payload, Payloads, OrderRows
  <2>2. \A p \in new : \E e \in events : p = payload(e)
    OBVIOUS
  <2>3. new \subseteq Payloads
    BY <2>1
  <2> HIDE DEF events, new
  <2>4. /\ drain'.stage = "claim" /\ drain'.batch = new /\ drain'.order = drain.order
        /\ drain' \in [stage : Stages, scope : SUBSET Sales, batch : SUBSET Payloads,
                       order : {Nothing} \cup [payload : Payloads, row : OrderRows]]
    BY <1>1, <1>2, <1>5, <2>3 DEF Stages
  <2>5. Sent' = Sent /\ Posted' = new \cup Sent /\ Sent \subseteq Posted
    BY <1>1, <2>4 DEF Posted, Sent
  <2>6. QueueTypes'
    BY <1>1, <2>4 DEF QueueInv, QueueTypes, Payloads
  <2>7. \A p \in new : \E e \in outbox : /\ p.event = e.id /\ p.sale = e.sale
                                         /\ p.action # "upsert" =>
                                              p.revision = local[e.sale].acked_revision
    BY <1>3, <2>1, <2>2
  <2>8. IdsAgree'
    BY <1>1, <2>5, <2>7 DEF IdsAgree, QueueInv
  <2>9. DraftsAreLocal'
    BY <1>1, <2>5, <2>7 DEF DraftsAreLocal, QueueInv
  <2>10. AnswersAreTrue'
    <3>1. ASSUME NEW a \in answers, NEW p \in new, p.event = a.event
          PROVE  a.revision <= server[p.sale].revision
      <4>1. PICK q \in Sent : q.event = a.event
        BY DEF QueueInv, AnswersAreTrue
      <4>2. q.sale = p.sale
        BY <2>5, <2>7, <3>1, <4>1 DEF QueueInv, IdsAgree
      <4> QED
        BY <2>5, <4>1, <4>2 DEF QueueInv, AnswersAreTrue
    <3> QED
      BY <1>1, <2>5, <3>1 DEF QueueInv, AnswersAreTrue
  <2>11. CommandsSeen'
    <3>1. \A p \in new : p.action # "upsert" => p.revision <= local[p.sale].acked_revision
      BY <1>2, <2>7 DEF OrderRows
    <3> QED
      BY <1>1, <2>5, <3>1 DEF CommandsSeen, QueueInv
  <2>12. DrainAgrees'
    <3>1. \A p, q \in new : p.sale = q.sale => p = q
      BY <1>3, <2>1, <2>2
    <3> QED
      BY <2>4, <3>1 DEF DrainAgrees, Posting
  <2>13. ServerStarts' /\ NoEventLost' /\ AckIsTheServers'
    BY <1>1 DEF ServerStarts, NoEventLost, AckIsTheServers, QueueInv
  <2> QED
    BY <2>6, <2>8, <2>9, <2>10, <2>11, <2>12, <2>13 DEF QueueInv
<1> HIDE DEF events, new
<1> QED
  BY <1>4, <1>5

\* The payloads are posted under a number of their own.
LEMMA ClaimKeeps == ASSUME QueueInv, claim PROVE QueueInv'
<1> DEFINE n == Cardinality(requests)
           r == [no |-> n + 1, batch |-> drain.batch]
<1>1. /\ UNCHANGED << local, wizard, answers, server, queued >>
      /\ requests' = requests \cup {r} /\ drain' = [drain EXCEPT !.stage = "wait"]
      /\ outbox' = (outbox \ Claimed) \cup WithState(Claimed, "inflight")
  BY DEF claim
<1>2. /\ drain \in [stage : Stages, scope : SUBSET Sales, batch : SUBSET Payloads,
                    order : {Nothing} \cup [payload : Payloads, row : OrderRows]]
      /\ IsFiniteSet(requests) /\ requests \subseteq [no : 1 .. n, batch : SUBSET Payloads]
      /\ answers \subseteq [event : 1 .. queued, request : 1 .. n,
                            result : Results, revision : Nat, status : SaleStatuses]
  BY DEF QueueInv, QueueTypes
<1>3. n \in Nat
  BY <1>2, FS_CardinalityType
<1>4. SameEvents
  BY <1>1, MarkEvents DEF Claimed
<1>5. Cardinality(requests') = n + 1 /\ IsFiniteSet(requests')
  <2>1. r \notin requests
    BY <1>2, <1>3
  <2> HIDE DEF r
  <2> QED
    BY <1>1, <1>2, <2>1, FS_AddElement
<1>6. r \in [no : 1 .. n + 1, batch : SUBSET Payloads] /\ r.batch = drain.batch
  BY <1>2, <1>3
<1>7. /\ drain'.stage = "wait" /\ drain'.batch = drain.batch
      /\ drain' \in [stage : Stages, scope : SUBSET Sales, batch : SUBSET Payloads,
                     order : {Nothing} \cup [payload : Payloads, row : OrderRows]]
  BY <1>1, <1>2 DEF Stages
<1> HIDE DEF r, n
<1>8. Posted' = Posted /\ Sent' = Sent \cup drain.batch
  BY <1>1, <1>6, <1>7 DEF Posted, Sent
<1>9. QueueTypes'
  <2>1. 1 .. n \subseteq 1 .. n + 1
    BY <1>3
  <2>2. requests' \subseteq [no : 1 .. n + 1, batch : SUBSET Payloads]
    BY <1>1, <1>2, <1>6, <2>1
  <2>3. answers' \subseteq [event : 1 .. queued, request : 1 .. n + 1,
                            result : Results, revision : Nat, status : SaleStatuses]
    BY <1>1, <1>2, <2>1
  <2> QED
    BY <1>1, <1>4, <1>5, <1>7, <2>2, <2>3 DEF QueueInv, QueueTypes, SameEvents, Payloads
<1>10. IdsAgree'
  BY <1>4, <1>8 DEF IdsAgree, SameEvents, QueueInv
<1>11. DraftsAreLocal'
  BY <1>1, <1>4, <1>8 DEF DraftsAreLocal, SameEvents, QueueInv
<1>12. AnswersAreTrue'
  BY <1>1, <1>8 DEF AnswersAreTrue, QueueInv
<1>13. ServerStarts' /\ CommandsSeen' /\ AckIsTheServers'
  BY <1>1, <1>8 DEF ServerStarts, CommandsSeen, AckIsTheServers, QueueInv
<1>14. DrainAgrees'
  <2>1. \A a \in answers : a.request # n + 1
    BY <1>2, <1>3
  <2> QED
    BY <1>1, <1>5, <1>7, <2>1 DEF DrainAgrees, Posting, QueueInv
<1>15. NoEventLost'
  BY <1>1, <1>4 DEF NoEventLost, SameEvents, QueueInv
<1> QED
  BY <1>9, <1>10, <1>11, <1>12, <1>13, <1>14, <1>15 DEF QueueInv

\* The drain goes on, with the sales and the queue as they are.
LEMMA GoOnKeeps ==
  ASSUME QueueInv, UNCHANGED << deviceVars, requests, answers, server, queued >>,
         drain'.batch = drain.batch,
         drain' \in [stage : Stages, scope : SUBSET Sales, batch : SUBSET Payloads,
                     order : {Nothing} \cup [payload : Payloads, row : OrderRows]],
         DrainAgrees'
  PROVE  QueueInv'
<1>1. UNCHANGED << local, outbox, wizard, requests, answers, server, queued >>
  BY DEF deviceVars
<1>2. Posted' = Posted /\ Sent' = Sent
  BY <1>1 DEF Posted, Sent
<1>3. QueueTypes'
  BY <1>1 DEF QueueInv, QueueTypes, Payloads
<1>4. IdsAgree' /\ DraftsAreLocal'
  BY <1>1, <1>2 DEF IdsAgree, DraftsAreLocal, QueueInv
<1>5. ServerStarts' /\ AnswersAreTrue' /\ CommandsSeen'
  BY <1>1, <1>2 DEF ServerStarts, AnswersAreTrue, CommandsSeen, QueueInv
<1>6. NoEventLost' /\ AckIsTheServers'
  BY <1>1 DEF NoEventLost, AckIsTheServers, QueueInv
<1> QED
  BY <1>3, <1>4, <1>5, <1>6 DEF QueueInv

\* The answer comes, and the row of a sale is read.
LEMMA ReadKeeps ==
  ASSUME QueueInv, receive \/ \E p \in drain.batch : readOrder(p) PROVE QueueInv'
<1>1. /\ drain \in [stage : Stages, scope : SUBSET Sales, batch : SUBSET Payloads,
                    order : {Nothing} \cup [payload : Payloads, row : OrderRows]]
      /\ local \in [Sales -> OrderRows]
  BY DEF QueueInv, QueueTypes
<1>2. CASE receive
  <2>1. /\ UNCHANGED << deviceVars, requests, answers, server, queued >>
        /\ drain.stage = "wait" /\ \A p \in drain.batch : Answered(p)
        /\ drain' = [drain EXCEPT !.stage = "apply"]
    BY <1>2 DEF receive
  <2>2. /\ drain'.stage = "apply" /\ drain'.batch = drain.batch
        /\ drain' \in [stage : Stages, scope : SUBSET Sales, batch : SUBSET Payloads,
                       order : {Nothing} \cup [payload : Payloads, row : OrderRows]]
    BY <1>1, <2>1 DEF Stages
  <2>3. DrainAgrees'
    BY <2>1, <2>2 DEF QueueInv, DrainAgrees, Posting, Answered, deviceVars
  <2> QED
    BY <2>1, <2>2, <2>3, GoOnKeeps
<1>3. ASSUME NEW p \in drain.batch, readOrder(p) PROVE QueueInv'
  <2> DEFINE o == [payload |-> p, row |-> local[p.sale]]
  <2>1. /\ UNCHANGED << deviceVars, requests, answers, server, queued >>
        /\ drain.stage = "apply"
        /\ drain' = [drain EXCEPT !.stage = "put", !.order = o]
    BY <1>3 DEF readOrder
  <2>2. p \in Payloads /\ p.sale \in Sales
    BY <1>1 DEF Payloads
  <2>3. /\ o \in [payload : Payloads, row : OrderRows]
        /\ o.payload = p /\ o.row = local[p.sale]
    BY <1>1, <2>2
  <2> HIDE DEF o
  <2>4. /\ drain'.stage = "put" /\ drain'.batch = drain.batch /\ drain'.order = o
        /\ drain' \in [stage : Stages, scope : SUBSET Sales, batch : SUBSET Payloads,
                       order : {Nothing} \cup [payload : Payloads, row : OrderRows]]
    BY <1>1, <2>1, <2>3 DEF Stages
  <2>5. Payloads' = Payloads
    BY <2>1 DEF Payloads
  <2>6. DrainAgrees'
    BY <2>1, <2>3, <2>4, <2>5 DEF QueueInv, DrainAgrees, Posting, Answered, deviceVars
  <2> QED
    BY <2>1, <2>4, <2>6, GoOnKeeps
<1> QED
  BY <1>2, <1>3

\* What the answer says is written to the row that was read.
LEMMA PutKeeps == ASSUME QueueInv, putOrder PROVE QueueInv'
<1> DEFINE p == drain.order.payload
           row == drain.order.row
           a == Result(p)
           n == Cardinality(requests)
           new == IF a.result = "rejected" THEN [row EXCEPT !.status = "rejected"]
                  ELSE [row EXCEPT !.status = "synced", !.acked_revision = a.revision,
                                   !.server_status = a.status]
<1>1. /\ drain.stage = "put" /\ local' = [local EXCEPT ![p.sale] = new]
      /\ drain' = [drain EXCEPT !.stage = "delete"]
      /\ UNCHANGED << outbox, wizard, requests, answers, server, queued >>
  BY DEF putOrder
<1>2. /\ drain \in [stage : Stages, scope : SUBSET Sales, batch : SUBSET Payloads,
                    order : {Nothing} \cup [payload : Payloads, row : OrderRows]]
      /\ local \in [Sales -> OrderRows]
      /\ server \in [Sales -> ServerRows]
      /\ answers \subseteq [event : 1 .. queued, request : 1 .. n,
                            result : Results, revision : Nat, status : SaleStatuses]
  BY DEF QueueInv, QueueTypes
<1>3. /\ p \in drain.batch /\ Answered(p) /\ row \in OrderRows /\ p \in Payloads
      /\ row.acked_revision = local[p.sale].acked_revision
      /\ row.server_status = local[p.sale].server_status
  BY <1>1 DEF QueueInv, DrainAgrees
<1>4. p.sale \in Sales /\ p \in Posted
  BY <1>3 DEF Payloads, Posted
<1>5. a \in answers /\ a.event = p.event /\ a.request = n
  BY <1>3 DEF Answered, Result
<1>6. a.revision \in Nat /\ a.status \in SaleStatuses
  BY <1>2, <1>5
<1>7. /\ local[p.sale].acked_revision <= a.revision
      /\ a.revision <= server[p.sale].revision
      /\ a.result # "rejected" => a.revision > 0
  BY <1>1, <1>3, <1>4, <1>5 DEF QueueInv, DrainAgrees, Posting, AnswersAreTrue
<1>8. /\ new \in OrderRows /\ new.status \in {"synced", "rejected"}
      /\ local[p.sale].acked_revision <= new.acked_revision
      /\ new.acked_revision <= a.revision
      /\ new.server_status # "none" => new.acked_revision > 0
  <2>1. local[p.sale].acked_revision \in Nat
        /\ (local[p.sale].server_status # "none" => local[p.sale].acked_revision > 0)
    BY <1>2, <1>4 DEF OrderRows, QueueInv, AckIsTheServers
  <2> HIDE DEF a, row, p
  <2>2. CASE a.result = "rejected"
    <3>1. /\ new = [row EXCEPT !.status = "rejected"]
      BY <2>2
    <3> HIDE DEF new
    <3>2. /\ new \in OrderRows /\ new.status = "rejected"
          /\ new.acked_revision = row.acked_revision /\ new.server_status = row.server_status
      BY <1>3, <3>1 DEF OrderRows
    <3> QED
      BY <1>3, <1>6, <1>7, <2>1, <3>2
  <2>3. CASE a.result # "rejected"
    <3>1. new = [row EXCEPT !.status = "synced", !.acked_revision = a.revision,
                            !.server_status = a.status]
      BY <2>3
    <3> HIDE DEF new
    <3>2. /\ new \in OrderRows /\ new.status = "synced"
          /\ new.acked_revision = a.revision
      BY <1>3, <1>6, <3>1 DEF OrderRows
    <3> QED
      BY <1>6, <1>7, <2>3, <3>2
  <2> QED
    BY <2>2, <2>3
<1> HIDE DEF a, row, p, new, n
<1>9. /\ local' \in [Sales -> OrderRows] /\ local'[p.sale] = new
      /\ \A s \in Sales \ {p.sale} : local'[s] = local[s]
  BY <1>1, <1>2, <1>4, <1>8
<1>10. /\ drain'.stage = "delete" /\ drain'.batch = drain.batch /\ drain'.order = drain.order
       /\ drain' \in [stage : Stages, scope : SUBSET Sales, batch : SUBSET Payloads,
                      order : {Nothing} \cup [payload : Payloads, row : OrderRows]]
  BY <1>1, <1>2 DEF Stages
<1>11. Posted' = Posted /\ Sent' = Sent /\ Payloads' = Payloads
  BY <1>1, <1>10 DEF Posted, Sent, Payloads
<1>12. QueueTypes'
  BY <1>1, <1>9, <1>10, <1>11 DEF QueueInv, QueueTypes
<1>13. IdsAgree' /\ ServerStarts' /\ AnswersAreTrue' /\ NoEventLost'
  BY <1>1, <1>11 DEF IdsAgree, ServerStarts, AnswersAreTrue, NoEventLost, QueueInv
<1>14. DraftsAreLocal'
  BY <1>1, <1>8, <1>9, <1>11 DEF DraftsAreLocal, QueueInv
<1>15. \A s \in Sales : /\ local'[s].acked_revision \in Nat /\ local[s].acked_revision \in Nat
                        /\ local[s].acked_revision <= local'[s].acked_revision
  BY <1>2, <1>8, <1>9 DEF OrderRows
<1>16. CommandsSeen'
  <2>1. \A q \in Posted : q.sale \in Sales /\ q.revision \in Nat
    BY DEF Posted, Sent, QueueInv, QueueTypes, Payloads
  <2> QED
    BY <1>11, <1>15, <2>1 DEF CommandsSeen, QueueInv
<1>17. DrainAgrees'
  <2>1. ASSUME NEW q \in drain.batch, NEW b \in answers, b.event = q.event, b.request = n
        PROVE  local'[q.sale].acked_revision <= b.revision
    <3>1. q.sale \in Sales /\ local[q.sale].acked_revision <= b.revision
      BY <1>1, <1>2, <2>1 DEF QueueInv, DrainAgrees, Posting, Payloads, n
    <3>2. CASE q.sale # p.sale
      BY <1>9, <3>1, <3>2
    <3>3. CASE q.sale = p.sale
      <4>1. q = p
        BY <1>3, <3>3 DEF QueueInv, DrainAgrees
      <4>2. b = a
        BY <1>5, <2>1, <4>1 DEF QueueInv, AnswersAreTrue
      <4> QED
        BY <1>8, <1>9, <3>3, <4>2
    <3> QED
      BY <3>2, <3>3
  <2> QED
    BY <1>1, <1>10, <1>11, <2>1 DEF QueueInv, DrainAgrees, Posting, Answered, n
<1>18. AckIsTheServers'
  <2>1. new.acked_revision <= server[p.sale].revision
    BY <1>2, <1>4, <1>6, <1>7, <1>8 DEF OrderRows, ServerRows
  <2> QED
    BY <1>1, <1>8, <1>9, <2>1 DEF AckIsTheServers, QueueInv
<1> QED
  BY <1>12, <1>13, <1>14, <1>16, <1>17, <1>18 DEF QueueInv

\* An event that was answered leaves the queue.
LEMMA DeleteKeeps == ASSUME QueueInv, deleteEvent PROVE QueueInv'
<1> DEFINE p == drain.order.payload
           rest == drain.batch \ {p}
           next == IF rest = {} THEN "look" ELSE "apply"
<1>1. /\ drain.stage = "delete" /\ outbox' = {e \in outbox : e.id # p.event}
      /\ drain' = [drain EXCEPT !.batch = rest, !.order = Nothing, !.stage = next]
      /\ UNCHANGED << local, wizard, requests, answers, server, queued >>
  BY DEF deleteEvent
<1>2. /\ drain \in [stage : Stages, scope : SUBSET Sales, batch : SUBSET Payloads,
                    order : {Nothing} \cup [payload : Payloads, row : OrderRows]]
      /\ outbox \subseteq [id : 1 .. queued, sale : Sales, action : Actions,
                           state : {"pending", "inflight"}]
  BY DEF QueueInv, QueueTypes
<1>3. p \in drain.batch /\ Answered(p)
  BY <1>1 DEF QueueInv, DrainAgrees
<1>4. next \in {"look", "apply"} /\ rest \subseteq drain.batch
  OBVIOUS
<1> HIDE DEF p, rest, next
<1>5. /\ drain'.stage \in {"look", "apply"} /\ drain'.batch = rest
      /\ drain' \in [stage : Stages, scope : SUBSET Sales, batch : SUBSET Payloads,
                     order : {Nothing} \cup [payload : Payloads, row : OrderRows]]
  BY <1>1, <1>2, <1>4 DEF Stages
<1>6. Posted' \subseteq Posted /\ Sent' = Sent /\ Payloads' = Payloads
  BY <1>1, <1>4, <1>5 DEF Posted, Sent, Payloads
<1>7. QueueTypes'
  BY <1>1, <1>2, <1>5, <1>6 DEF QueueInv, QueueTypes
<1>8. IdsAgree' /\ DraftsAreLocal'
  BY <1>1, <1>6 DEF IdsAgree, DraftsAreLocal, QueueInv
<1>9. ServerStarts' /\ AnswersAreTrue' /\ CommandsSeen' /\ AckIsTheServers'
  BY <1>1, <1>6 DEF ServerStarts, AnswersAreTrue, CommandsSeen, AckIsTheServers, QueueInv
<1>10. DrainAgrees'
  BY <1>1, <1>4, <1>5 DEF DrainAgrees, Posting, Answered, QueueInv
<1>11. NoEventLost'
  <2>1. \E a \in answers : a.event = p.event
    BY <1>3 DEF Answered
  <2> QED
    BY <1>1, <2>1 DEF NoEventLost, QueueInv
<1> QED
  BY <1>7, <1>8, <1>9, <1>10, <1>11 DEF QueueInv

------------------------------------------------------------------------------

\* What the server may make of event p: a version follows the last one, and what is
\* closed stays so; only what has been accepted is closed, in its own version.
Verdict(p, result, old, row) ==
  /\ row \in ServerRows /\ result \in Results
  /\ old.revision <= row.revision
  /\ row.revision = 0 <=> row.status = "none"
  /\ row.revision = 0 => row.items = Empty
  /\ result # "rejected" => row.revision > 0
  /\ old.status \in {"completed", "manager_review", "cancelled"} => row = old
  /\ row.status # old.status /\ row.status \in {"completed", "manager_review", "cancelled"} =>
       p.action # "upsert" /\ p.revision = old.revision

\* Both handlers of the server give such verdicts.
LEMMA ServerVerdict ==
  ASSUME QueueInv, NEW p \in Payloads, NEW fits \in BOOLEAN
  PROVE  LET outcome == IF p.action = "upsert" THEN upsert(p) ELSE command(p, fits)
         IN  Verdict(p, outcome[1], server[p.sale], outcome[2])
<1> DEFINE row == server[p.sale]
<1>1. /\ p.sale \in Sales /\ p.revision \in Nat /\ p.items \in Contents \cup {Empty}
      /\ p.action \in Actions
  BY DEF Payloads
<1>2. /\ row \in ServerRows /\ row.revision \in Nat /\ row.status \in SaleStatuses
      /\ row.revision = 0 <=> row.status = "none"
      /\ row.revision = 0 => row.items = Empty
  BY <1>1 DEF QueueInv, QueueTypes, ServerStarts, ServerRows
<1>3. Verdict(p, "rejected", row, row)
  BY <1>2 DEF Verdict, Results
<1>4. CASE p.action = "upsert"
  <2> DEFINE new == [revision |-> p.revision, items |-> p.items, status |-> "pending"]
             duplicate == p.items # Empty /\ p.revision = row.revision /\ row.items = p.items
             next == /\ p.items # Empty /\ p.revision = row.revision + 1
                     /\ row.revision > 0 => Open(p.sale)
  <2>1. upsert(p) = IF duplicate THEN << "duplicate", row >>
                    ELSE IF next THEN << "accepted", new >> ELSE << "rejected", row >>
    BY DEF upsert
  <2>2. duplicate => Verdict(p, "duplicate", row, row)
    BY <1>2 DEF Verdict, Results
  <2>3. next => Verdict(p, "accepted", row, new)
    <3> SUFFICES ASSUME next PROVE Verdict(p, "accepted", row, new)
      OBVIOUS
    <3>1. new \in ServerRows /\ new.revision = row.revision + 1 /\ new.status = "pending"
      BY <1>1 DEF ServerRows, SaleStatuses
    <3>2. row.status \notin {"completed", "manager_review", "cancelled"}
      BY <1>2 DEF Open
    <3> HIDE DEF new, next
    <3> QED
      BY <1>2, <3>1, <3>2 DEF Verdict, Results
  <2> HIDE DEF duplicate, next, new, row
  <2> QED
    BY <1>3, <1>4, <2>1, <2>2, <2>3 DEF row
<1>5. CASE p.action # "upsert"
  <2> DEFINE moved(st) == [row EXCEPT !.status = st]
  <2>1. ASSUME p.revision = row.revision, row.revision > 0,
               NEW st \in SaleStatuses \ {"none"},
               row.status \in {"completed", "manager_review", "cancelled"} => st = row.status
        PROVE  Verdict(p, st, row, moved(st))
    <3>1. /\ moved(st) \in ServerRows /\ moved(st).revision = row.revision
          /\ moved(st).status = st
          /\ st = row.status => moved(st) = row
      BY <1>2, <2>1 DEF ServerRows
    <3> HIDE DEF moved
    <3> QED
      BY <1>2, <1>5, <2>1, <3>1 DEF Verdict, Results, SaleStatuses
  <2>2. CASE p.revision # row.revision
    <3>1. command(p, fits) = << "rejected", row >>
      BY <2>2 DEF command
    <3> QED
      BY <1>3, <1>5, <3>1
  <2>3. CASE p.revision = row.revision
    <3>1. CASE p.action = "cancel" /\ (Open(p.sale) \/ row.status = "cancelled")
      <4>1. command(p, fits) = << "cancelled", moved("cancelled") >>
        BY <2>3, <3>1 DEF command
      <4>2. row.revision > 0
        BY <1>2, <3>1 DEF Open
      <4>3. Verdict(p, "cancelled", row, moved("cancelled"))
        BY <2>1, <2>3, <3>1, <4>2 DEF SaleStatuses, Open
      <4> QED
        BY <1>5, <4>1, <4>3
    <3>2. CASE p.action # "cancel" /\ row.status \in {"completed", "manager_review"}
      <4>1. command(p, fits) = << row.status, row >>
        BY <2>3, <3>2 DEF command, Open
      <4>2. Verdict(p, row.status, row, row)
        BY <1>2, <3>2 DEF Verdict, Results
      <4> QED
        BY <1>5, <4>1, <4>2
    <3>3. CASE p.action = "complete" /\ Open(p.sale)
      <4> DEFINE st == IF fits THEN "completed" ELSE "seller_review"
      <4>1. command(p, fits) = << st, moved(st) >>
        BY <2>3, <3>3 DEF command, Open
      <4>2. row.revision > 0 /\ row.status \notin {"completed", "manager_review", "cancelled"}
        BY <1>2, <3>3 DEF Open
      <4>3. st \in SaleStatuses \ {"none"}
        BY DEF SaleStatuses
      <4> HIDE DEF st
      <4>4. Verdict(p, st, row, moved(st))
        BY <2>1, <2>3, <4>2, <4>3
      <4> QED
        BY <1>5, <4>1, <4>4
    <3>4. CASE p.action = "escalate" /\ row.status = "seller_review"
      <4> DEFINE st == IF fits THEN "completed" ELSE "manager_review"
      <4>1. command(p, fits) = << st, moved(st) >>
        BY <2>3, <3>4 DEF command, Open
      <4>2. row.revision > 0 /\ row.status \notin {"completed", "manager_review", "cancelled"}
        BY <1>2, <3>4
      <4>3. st \in SaleStatuses \ {"none"}
        BY DEF SaleStatuses
      <4> HIDE DEF st
      <4>4. Verdict(p, st, row, moved(st))
        BY <2>1, <2>3, <4>2, <4>3
      <4> QED
        BY <1>5, <4>1, <4>4
    <3>5. CASE /\ ~(p.action = "cancel" /\ (Open(p.sale) \/ row.status = "cancelled"))
               /\ ~(p.action # "cancel" /\ row.status \in {"completed", "manager_review"})
               /\ ~(p.action = "complete" /\ Open(p.sale))
               /\ ~(p.action = "escalate" /\ row.status = "seller_review")
      <4>1. command(p, fits) = << "rejected", row >>
        BY <2>3, <3>5 DEF command
      <4> QED
        BY <1>3, <1>5, <4>1
    <3> QED
      BY <3>1, <3>2, <3>3, <3>4, <3>5
  <2> QED
    BY <2>2, <2>3
<1> QED
  BY <1>4, <1>5

\* What handling one event of a request changes.
LEMMA ServerEffect ==
  ASSUME QueueInv, NEW r \in requests, NEW p \in r.batch, NEW fits \in BOOLEAN,
         processEvent(r, p, fits)
  PROVE  \E row \in ServerRows, result \in Results :
           /\ Verdict(p, result, server[p.sale], row)
           /\ server' = [server EXCEPT ![p.sale] = row]
           /\ answers' = answers \cup {[event |-> p.event, request |-> r.no,
                                        result |-> result, revision |-> row.revision,
                                        status |-> row.status]}
<1> DEFINE outcome == IF p.action = "upsert" THEN upsert(p) ELSE command(p, fits)
<1>1. p \in Payloads
  BY DEF QueueInv, QueueTypes
<1>2. Verdict(p, outcome[1], server[p.sale], outcome[2])
  BY <1>1, ServerVerdict
<1>3. /\ server' = [server EXCEPT ![p.sale] = outcome[2]]
      /\ answers' = answers \cup {[event |-> p.event, request |-> r.no,
                                   result |-> outcome[1], revision |-> outcome[2].revision,
                                   status |-> outcome[2].status]}
  BY DEF processEvent
<1> HIDE DEF outcome
<1>4. outcome[2] \in ServerRows /\ outcome[1] \in Results
  BY <1>2 DEF Verdict
<1> QED
  BY <1>2, <1>3, <1>4

\* The server handles an event.
LEMMA ServerKeeps == ASSUME QueueInv, ServerStep PROVE QueueInv'
<1> PICK r \in requests : \E q \in r.batch, fits \in BOOLEAN : processEvent(r, q, fits)
  BY DEF ServerStep
<1> PICK p \in r.batch, fits \in BOOLEAN : processEvent(r, p, fits)
  OBVIOUS
<1>1. /\ UNCHANGED << local, outbox, wizard, drain, requests, queued >>
      /\ ~\E b \in answers : b.event = p.event /\ b.request = r.no
  BY DEF processEvent, deviceVars
<1>2. PICK row \in ServerRows, result \in Results :
        /\ Verdict(p, result, server[p.sale], row)
        /\ server' = [server EXCEPT ![p.sale] = row]
        /\ answers' = answers \cup {[event |-> p.event, request |-> r.no,
                                     result |-> result, revision |-> row.revision,
                                     status |-> row.status]}
  BY ServerEffect
<1> DEFINE a == [event |-> p.event, request |-> r.no, result |-> result,
                 revision |-> row.revision, status |-> row.status]
           n == Cardinality(requests)
<1>3. /\ server \in [Sales -> ServerRows] /\ local \in [Sales -> OrderRows]
      /\ r.no \in 1 .. n /\ p \in Payloads /\ p \in Sent /\ p \in Posted
      /\ answers \subseteq [event : 1 .. queued, request : 1 .. n,
                            result : Results, revision : Nat, status : SaleStatuses]
  BY DEF QueueInv, QueueTypes, Sent, Posted
<1>4. p.event \in 1 .. queued /\ p.sale \in Sales
  BY <1>3 DEF Payloads
<1>5. row.revision \in Nat /\ row.status \in SaleStatuses
  BY DEF ServerRows
<1>6. /\ a.event = p.event /\ a.request = r.no /\ a.result = result
      /\ a.revision = row.revision
      /\ a \in [event : 1 .. queued, request : 1 .. n,
                result : Results, revision : Nat, status : SaleStatuses]
  BY <1>3, <1>4, <1>5
<1>7. answers' = answers \cup {a}
  BY <1>2
<1> HIDE DEF a, n
<1>8. /\ server' \in [Sales -> ServerRows] /\ server'[p.sale] = row
      /\ \A s \in Sales \ {p.sale} : server'[s] = server[s]
  BY <1>2, <1>3, <1>4
<1>9. \A s \in Sales : /\ server[s].revision \in Nat /\ server'[s].revision \in Nat
                       /\ server[s].revision <= server'[s].revision
  BY <1>2, <1>3, <1>8 DEF Verdict, ServerRows
<1>10. Posted' = Posted /\ Sent' = Sent /\ Payloads' = Payloads
  BY <1>1 DEF Posted, Sent, Payloads
<1>11. \A q \in Posted : q.sale \in Sales
  BY DEF Posted, Sent, QueueInv, QueueTypes, Payloads
<1>12. QueueTypes'
  BY <1>1, <1>6, <1>7, <1>8, <1>10 DEF QueueInv, QueueTypes, n
<1>13. IdsAgree' /\ DraftsAreLocal' /\ CommandsSeen'
  BY <1>1, <1>10 DEF IdsAgree, DraftsAreLocal, CommandsSeen, QueueInv
<1>14. ServerStarts'
  BY <1>2, <1>8 DEF ServerStarts, QueueInv, Verdict
<1>15. \A q \in Posted : q.event = p.event => q.sale = p.sale
  BY <1>3 DEF QueueInv, IdsAgree
<1>16. AnswersAreTrue'
  <2>1. ASSUME NEW b \in answers, NEW q \in Posted, q.event = b.event
        PROVE  b.revision <= server'[q.sale].revision
    <3>1. b.revision <= server[q.sale].revision /\ b.revision \in Nat
      BY <1>3, <2>1 DEF QueueInv, AnswersAreTrue
    <3> QED
      BY <1>9, <1>11, <3>1
  <2>2. ASSUME NEW q \in Posted, q.event = a.event
        PROVE  a.revision <= server'[q.sale].revision
    BY <1>5, <1>6, <1>8, <1>15, <2>2
  <2>3. \E q \in Sent : q.event = a.event
    BY <1>3, <1>6
  <2>4. a.result # "rejected" => a.revision > 0
    BY <1>2, <1>6 DEF Verdict
  <2>5. \A b, c \in answers' : b.event = c.event /\ b.request = c.request => b = c
    BY <1>1, <1>6, <1>7 DEF QueueInv, AnswersAreTrue
  <2>6. \A b \in answers' : \E q \in Sent : q.event = b.event
    BY <1>7, <2>3 DEF QueueInv, AnswersAreTrue
  <2>7. \A b \in answers', q \in Posted : q.event = b.event =>
          b.revision <= server'[q.sale].revision
    BY <1>7, <2>1, <2>2
  <2>8. \A b \in answers' : b.result # "rejected" => b.revision > 0
    BY <1>7, <2>4 DEF QueueInv, AnswersAreTrue
  <2> QED
    BY <1>10, <2>5, <2>6, <2>7, <2>8 DEF AnswersAreTrue
<1>17. DrainAgrees'
  <2>1. ASSUME NEW q \in drain.batch, q.event = a.event
        PROVE  local[q.sale].acked_revision <= a.revision
    <3>1. q.sale = p.sale
      BY <1>6, <1>15, <2>1 DEF Posted
    <3>2. /\ local[p.sale].acked_revision <= server[p.sale].revision
          /\ local[p.sale].acked_revision \in Nat /\ server[p.sale].revision \in Nat
      BY <1>3, <1>4 DEF QueueInv, AckIsTheServers, OrderRows, ServerRows
    <3>3. server[p.sale].revision <= row.revision
      BY <1>2 DEF Verdict
    <3> QED
      BY <1>5, <1>6, <3>1, <3>2, <3>3
  <2>2. Posting => \A q \in drain.batch, b \in answers' :
          b.event = q.event /\ b.request = n => local[q.sale].acked_revision <= b.revision
    BY <1>7, <2>1 DEF QueueInv, DrainAgrees, n
  <2>3. \A q \in drain.batch : Answered(q) => Answered(q)'
    BY <1>1, <1>7 DEF Answered
  <2> QED
    BY <1>1, <1>10, <2>2, <2>3 DEF DrainAgrees, QueueInv, Posting, n
<1>18. NoEventLost'
  BY <1>1, <1>7 DEF NoEventLost, QueueInv
<1>19. AckIsTheServers'
  <2>1. \A s \in Sales : /\ local[s].acked_revision \in Nat
                         /\ local[s].acked_revision <= server[s].revision
    BY <1>3 DEF QueueInv, AckIsTheServers, OrderRows
  <2> QED
    BY <1>1, <1>9, <2>1 DEF AckIsTheServers, QueueInv
<1> QED
  BY <1>12, <1>13, <1>14, <1>16, <1>17, <1>18, <1>19 DEF QueueInv

\* An empty device and an empty server.
LEMMA QueueInit == Init => QueueInv
<1> SUFFICES ASSUME Init PROVE QueueInv
  OBVIOUS
<1>1. IsFiniteSet(requests) /\ Cardinality(requests) = 0
  BY FS_EmptySet DEF Init
<1>2. QueueTypes
  BY <1>1 DEF Init, QueueTypes, OrderRows, ServerRows, NoOrder, Idle, Stages, SaleStatuses
<1>3. Posted = {}
  BY DEF Init, Posted, Sent, Idle
<1>4. IdsAgree /\ DraftsAreLocal /\ CommandsSeen
  BY <1>3 DEF Init, IdsAgree, DraftsAreLocal, CommandsSeen, NoOrder
<1>5. ServerStarts /\ AnswersAreTrue /\ DrainAgrees
  BY DEF Init, ServerStarts, AnswersAreTrue, DrainAgrees, Posting, Idle
<1>6. NoEventLost /\ AckIsTheServers
  BY DEF Init, NoEventLost, AckIsTheServers, NoOrder
<1> QED
  BY <1>2, <1>4, <1>5, <1>6 DEF QueueInv

\* Every step keeps the invariant.
LEMMA QueueInductive == QueueInv /\ [Next]_vars => QueueInv'
<1>1. ASSUME QueueInv, UNCHANGED vars PROVE QueueInv'
  <2>1. SellerEffect
    BY <1>1 DEF SellerEffect, QueueInv, QueueTypes, vars, deviceVars
  <2> QED
    BY <1>1, <2>1, EffectKeeps
<1>2. ASSUME QueueInv, Next PROVE QueueInv'
  BY <1>2, SellerKeeps, BreakKeeps, LookKeeps, ClaimKeeps, ReadKeeps, PutKeeps, DeleteKeeps,
     ServerKeeps DEF Next, DrainStep
<1> QED
  BY <1>1, <1>2

\* The invariant holds in every state.
LEMMA QueueAlways == Spec => []QueueInv
  BY QueueInit, QueueInductive, PTL DEF Spec

\* The tables of the device, the drain and the rows of the server keep their types.
THEOREM QueueTypesKept == Spec => []TypeOK
<1>1. QueueInv => TypeOK
  BY DEF QueueInv, QueueTypes, TypeOK, OrderRows, ServerRows, Stages
<1> QED
  BY <1>1, QueueAlways, PTL

\* However requests and answers are lost or late and tabs are closed: what was
\* queued is in the queue until the server has answered it.
THEOREM NothingQueuedIsLost == Spec => []NoEventLost
<1>1. QueueInv => NoEventLost
  BY DEF QueueInv
<1> QED
  BY <1>1, QueueAlways, PTL

\* The device never believes a version accepted that the server has not accepted.
THEOREM AcksAreTrue == Spec => []AckIsTheServers
<1>1. QueueInv => AckIsTheServers
  BY DEF QueueInv
<1> QED
  BY <1>1, QueueAlways, PTL

\* What a step of the server makes of one sale, and that no other step touches it.
LEMMA OneVerdict ==
  ASSUME QueueInv, [Next]_vars, NEW s \in Sales, server'[s] # server[s]
  PROVE  \E p \in Posted, result \in Results :
           p.sale = s /\ Verdict(p, result, server[s], server'[s])
<1>1. ServerStep
  BY DEF Next, SellerStep, BeginDrain, DrainStep, StartDraft, openDraft, saveDraft, commitOrder,
         enqueueCommand, deleteDraft, beginDrain, look, claim, receive, readOrder, putOrder,
         deleteEvent, giveUp, crash, vars
<1>2. PICK r \in requests : \E q \in r.batch, fits \in BOOLEAN : processEvent(r, q, fits)
  BY <1>1 DEF ServerStep
<1>3. PICK p \in r.batch, fits \in BOOLEAN : processEvent(r, p, fits)
  BY <1>2
<1>4. PICK row \in ServerRows, result \in Results :
        /\ Verdict(p, result, server[p.sale], row)
        /\ server' = [server EXCEPT ![p.sale] = row]
  BY <1>3, ServerEffect
<1>5. server \in [Sales -> ServerRows] /\ p \in Posted
  BY DEF QueueInv, QueueTypes, Posted, Sent
<1>6. p.sale = s /\ server'[s] = row
  BY <1>4, <1>5
<1> QED
  BY SMTT(30), <1>4, <1>5, <1>6

\* A late command never closes contents that the device has not seen accepted.
THEOREM ClosedInTheVersionSeen == Spec => ClosedAsSeen
<1>1. QueueInv /\ [Next]_vars =>
        [\A s \in Sales :
           server'[s].status # server[s].status
             /\ server'[s].status \in {"completed", "manager_review", "cancelled"}
           => local[s].acked_revision = server[s].revision]_vars
  <2> SUFFICES ASSUME QueueInv, [Next]_vars, NEW s \in Sales,
                      server'[s].status # server[s].status,
                      server'[s].status \in {"completed", "manager_review", "cancelled"}
               PROVE  local[s].acked_revision = server[s].revision
    OBVIOUS
  <2>1. PICK p \in Posted, result \in Results :
          p.sale = s /\ Verdict(p, result, server[s], server'[s])
    BY OneVerdict
  <2>2. p.action # "upsert" /\ p.revision = server[s].revision
    BY <2>1 DEF Verdict
  <2>3. p.revision <= local[s].acked_revision
    BY <2>1, <2>2 DEF QueueInv, CommandsSeen
  <2>4. /\ local[s].acked_revision <= server[s].revision
        /\ local[s].acked_revision \in Nat /\ server[s].revision \in Nat
    BY DEF QueueInv, QueueTypes, AckIsTheServers, OrderRows, ServerRows
  <2> QED
    BY <2>2, <2>3, <2>4
<1> QED
  BY <1>1, QueueAlways, PTL DEF Spec, ClosedAsSeen

\* What is completed, handed to the manager or cancelled stays as it was closed.
THEOREM ClosedForGood == Spec => ClosedIsFinal
<1>1. QueueInv /\ [Next]_vars =>
        [\A s \in Sales :
           server[s].status \in {"completed", "manager_review", "cancelled"}
             => server'[s] = server[s]]_vars
  <2> SUFFICES ASSUME QueueInv, [Next]_vars, NEW s \in Sales,
                      server[s].status \in {"completed", "manager_review", "cancelled"},
                      server'[s] # server[s]
               PROVE  FALSE
    OBVIOUS
  <2> QED
    BY OneVerdict DEF Verdict
<1> QED
  BY <1>1, QueueAlways, PTL DEF Spec, ClosedIsFinal
===============================================================================
