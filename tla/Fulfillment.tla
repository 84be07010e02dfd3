----------------------------- MODULE Fulfillment -----------------------------
(***************************************************************************)
(* The life of a web order, from checkout to the customer's door.          *)
(*                                                                         *)
(* A main order is what the customer placed.  Its parts are order rows of  *)
(* their own, one per warehouse that holds some of the goods; a part at    *)
(* another warehouse than the delivery hub is a transfer and travels to    *)
(* the hub first.  Pickers pack parts (OrderFulfillmentService), couriers  *)
(* move transfers and deliver main orders (DeliveryWorkflowService),       *)
(* managers confirm, edit, cancel and return orders, administrators write  *)
(* statuses directly (OrderManagementService), customers cancel.           *)
(*                                                                         *)
(* Every handler that touches a part locks the main order first and then   *)
(* the part, and the courier's handlers lock the one row they change, so a *)
(* handler is one action; its stock effects are the actions of the ledger. *)
(***************************************************************************)
EXTENDS InventoryLedger

CONSTANTS
  Mains,         \* main orders
  Allocations,   \* Allocations[m]: the sets of parts m may be split into
  Transfers,     \* parts whose warehouse is not their delivery hub
  CourierMethod, \* main orders delivered by TeaSeat couriers
  PickupMethod,  \* main orders the customer collects; the rest go by post
  Pickers, Couriers,
  Admin,         \* a member of staff whose role passes every ownership check
  Nobody,
  AdminMoves     \* the <<kind, old status, new status>> an administrator asks for

VARIABLES
  status, picker_id, courier_id,
  shipped_at,               \* order rows whose shipped_at is set
  parts,                    \* parts[m]: rows of m that are not soft-deleted
  main_stock_committed_at,  \* the stamp of the main rows
  issue                     \* fulfillment_issues opened by pickers

orderVars == << status, picker_id, courier_id, shipped_at, parts,
                main_stock_committed_at, issue >>

vars == << ledgerVars, orderVars >>

Orders == Mains \cup Executions

Statuses == {"none", "pending", "confirmed", "processing", "ready_for_delivery",
             "shipped", "awaiting_receipt", "packed", "delivered", "cancelled",
             "manager_review"}

\* What the forms and the interface of the administrators offer as a new status,
\* apart from those that are refused in every state.
AdminTargets == {"pending", "confirmed", "shipped", "delivered"}

\* What administrators are there for: taking an order out of review, and the
\* hand-over of orders that no courier of the shop delivers.
ServiceMoves == {<< "main", "pending", "confirmed" >>,
                 << "main", "manager_review", "confirmed" >>,
                 << "main", "ready_for_delivery", "shipped" >>,
                 << "main", "ready_for_delivery", "delivered" >>,
                 << "main", "shipped", "delivered" >>}

IssueStatuses == {"none", "waiting", "in_review", "closed"}

ASSUME FulfillmentAssumption ==
  /\ Mains \cap Executions = {}
  /\ Allocations \in [Mains -> SUBSET SUBSET Executions]
  /\ \A m \in Mains : /\ Allocations[m] \subseteq Batches
                      /\ {} \notin Allocations[m]
  /\ \A m1, m2 \in Mains : \A A \in Allocations[m1], B \in Allocations[m2] :
       A \cap B # {} => m1 = m2 /\ A = B
  /\ Transfers \subseteq Executions
  /\ CourierMethod \subseteq Mains /\ PickupMethod \subseteq Mains
  /\ CourierMethod \cap PickupMethod = {}
  /\ Nobody \notin Pickers \cup Couriers \cup {Admin}
  /\ AdminMoves \subseteq {"main", "part"} \X Statuses \X AdminTargets

------------------------------------------------------------------------------
(* Reading an order. *)

ActiveParts(m) == {p \in parts[m] : status[p] # "cancelled"}

AllPacked(m) == \A p \in ActiveParts(m) : status[p] = "packed"

\* Order::hasStartedPhysicalFulfillment
hasStartedPhysicalFulfillment(m) ==
  \E p \in parts[m] :
    \/ stock_committed_at[p]
    \/ status[p] \in {"processing", "ready_for_delivery", "shipped",
                      "awaiting_receipt", "packed", "delivered"}

\* Mutant: the parts are not asked.
canBeCancelledStarted(m) == status[m] \in {"pending", "confirmed", "processing"}

canBeCancelled(m) ==
  /\ status[m] \in {"pending", "confirmed", "processing"}
  /\ ~hasStartedPhysicalFulfillment(m)

canBeCancelledByManager(m) ==
  \/ canBeCancelled(m)
  \/ status[m] = "manager_review" /\ ~hasStartedPhysicalFulfillment(m)

\* Mutant: the main order is joined before its parts have arrived.
PickingJobEarly(o) ==
  \/ \E m \in Mains : o \in parts[m] /\ status[m] = "confirmed"
  \/ o \in Mains /\ Cardinality(ActiveParts(o)) >= 2

\* assertPickingJob: a part of a confirmed order, or a main order whose parts,
\* at least two, have all arrived.
PickingJob(o) ==
  \/ \E m \in Mains : o \in parts[m] /\ status[m] = "confirmed"
  \/ o \in Mains /\ Cardinality(ActiveParts(o)) >= 2 /\ AllPacked(o)

\* The rows that exist and are not deleted.
Live(o) == \/ o \in Mains /\ status[o] # "none"
           \/ \E m \in Mains : o \in parts[m]

OwnedProcessing(k, o) == Live(o) /\ status[o] = "processing" /\ picker_id[o] = k

\* baseDeliveryQuery: what a courier can be given.
Delivery(o) == \/ o \in CourierMethod /\ Live(o)
               \/ o \in Transfers /\ Live(o)

CourierOwner(c, o) == courier_id[o] = c \/ c = Admin

committed_at(o) ==
  IF o \in Mains THEN main_stock_committed_at[o] ELSE stock_committed_at[o]

OpenIssues(m) ==
  {l \in parts[m] \X Inventories : issue[l[1]][l[2]] \in {"waiting", "in_review"}}

Rows(S, value, f) == [o \in Orders |-> IF o \in S THEN value ELSE f[o]]

------------------------------------------------------------------------------
(* Checkout, confirmation, editing, cancellation. *)

\* CheckoutService::checkout: the order, its parts and their reserve at once.
Place(m, A) ==
  /\ status[m] = "none"
  /\ reserveOnlineStockForOrders(A)
  /\ status' = Rows({m} \cup A, "pending", status)
  /\ parts' = [parts EXCEPT ![m] = A]
  /\ UNCHANGED << picker_id, courier_id, shipped_at, main_stock_committed_at, issue >>

\* Mutant: a confirmation reaches parts that are on their way already.
SyncedStatusAll(m, st) ==
  [o \in Orders |->
     IF \/ o = m
        \/ o \in parts[m] /\ status[o] \notin {"cancelled", "packed", "delivered"}
     THEN st ELSE status[o]]

\* What updateOrderStatus writes to the rows when main order m becomes st.
SyncedStatus(m, st) ==
  [o \in Orders |->
     IF o = m THEN st
     ELSE IF /\ o \in parts[m]
             /\ status[o] \notin {"cancelled", "packed", "delivered"}
             /\ st = "confirmed" => status[o] \in {"pending", "manager_review"}
          THEN st ELSE status[o]]

\* The manager's command: only a pending order without an open issue.
ManagerConfirm(m) ==
  /\ status[m] = "pending"
  /\ OpenIssues(m) = {}
  /\ status' = SyncedStatus(m, "confirmed")
  /\ UNCHANGED << ledgerVars, picker_id, courier_id, shipped_at, parts,
                  main_stock_committed_at, issue >>

\* Mutant: the transfers are cancelled without giving their goods back.
CancelOrderLocalOnly(m) ==
  LET open == {p \in parts[m] : status[p] # "cancelled"} IN
  /\ releaseOnlineStockForOrder(open \ Transfers)
  /\ status' = Rows({m} \cup open, "cancelled", status)
  /\ UNCHANGED << picker_id, courier_id, shipped_at, parts,
                  main_stock_committed_at, issue >>

\* cancelLockedOrder: the parts still open are released and cancelled with m.
CancelOrder(m) ==
  LET open == {p \in parts[m] : status[p] # "cancelled"} IN
  /\ releaseOnlineStockForOrder(open)
  /\ status' = Rows({m} \cup open, "cancelled", status)
  /\ UNCHANGED << picker_id, courier_id, shipped_at, parts,
                  main_stock_committed_at, issue >>

CustomerCancel(m) == canBeCancelled(m) /\ CancelOrder(m)

ManagerCancel(m) == canBeCancelledByManager(m) /\ CancelOrder(m)

\* Mutant: only the main order is looked at.
EditableMainOnly(m) ==
  /\ status[m] \in {"pending", "confirmed", "manager_review"}
  /\ ~committed_at(m) /\ picker_id[m] = Nobody /\ courier_id[m] = Nobody

\* ManagerOrderItemService::assertEditable.
Editable(m) ==
  /\ status[m] \in {"pending", "confirmed", "manager_review"}
  /\ \A o \in {m} \cup parts[m] :
       /\ ~committed_at(o) /\ picker_id[o] = Nobody /\ courier_id[o] = Nobody
       /\ status[o] \notin {"processing", "ready_for_delivery", "shipped",
                            "awaiting_receipt", "packed", "delivered", "cancelled"}

\* The manager changes the contents: the parts are deleted, their reserve is
\* released, and new parts in the state of the main order take their place.
ManagerEdit(m, A) ==
  /\ Editable(m)
  /\ \A p \in A : status[p] = "none"
  /\ replaceOnlineStock(parts[m], A)
  /\ status' = Rows(A, status[m], status)
  /\ parts' = [parts EXCEPT ![m] = A]
  /\ UNCHANGED << picker_id, courier_id, shipped_at, main_stock_committed_at, issue >>

------------------------------------------------------------------------------
(* Picking. *)

Take(k, o) ==
  /\ PickingJob(o)
  /\ status[o] = "confirmed"
  /\ status' = [status EXCEPT ![o] = "processing"]
  /\ picker_id' = [picker_id EXCEPT ![o] = k]
  /\ UNCHANGED << ledgerVars, courier_id, shipped_at, parts,
                  main_stock_committed_at, issue >>

ReleasePicking(k, o) ==
  /\ PickingJob(o)
  /\ OwnedProcessing(k, o)
  /\ status' = [status EXCEPT ![o] = "confirmed"]
  /\ picker_id' = [picker_id EXCEPT ![o] = Nobody]
  /\ UNCHANGED << ledgerVars, courier_id, shipped_at, parts,
                  main_stock_committed_at, issue >>

\* Mutants: the main order is never made ready; its stamp is never set.
SyncMainNeverReady(m, newStatus, newCommitted) ==
  LET active == {p \in parts[m] : newStatus[p] # "cancelled"}
      arrived == active # {} /\ \A p \in active : newStatus[p] = "packed"
  IN
  /\ main_stock_committed_at' = [main_stock_committed_at EXCEPT ![m] =
       @ \/ (arrived /\ \A p \in active : newCommitted[p])]
  /\ status' = newStatus

SyncMainUnstamped(m, newStatus, newCommitted) ==
  /\ status' = newStatus
  /\ UNCHANGED main_stock_committed_at

\* syncMainOrderAfterArrival, given the statuses and stamps just written: once
\* every part is packed the main order is committed, and ready if it has one.
SyncMain(m, newStatus, newCommitted) ==
  LET active == {p \in parts[m] : newStatus[p] # "cancelled"}
      arrived == active # {} /\ \A p \in active : newStatus[p] = "packed"
      alone == Cardinality(active) = 1 /\ newStatus[m] = "confirmed"
  IN
  /\ main_stock_committed_at' = [main_stock_committed_at EXCEPT ![m] =
       @ \/ (arrived /\ \A p \in active : newCommitted[p])]
  /\ status' = IF arrived /\ alone
               THEN [newStatus EXCEPT ![m] = "ready_for_delivery"]
               ELSE newStatus

\* Packing a part takes its goods off the shelf.
CompletePart(k, m, p) ==
  /\ p \in parts[m]
  /\ PickingJob(p)
  /\ OwnedProcessing(k, p)
  /\ commitOnlineStockForOrder(p)
  /\ SyncMain(m, [status EXCEPT ![p] = IF p \in Transfers THEN "ready_for_delivery"
                                       ELSE "packed"],
              stock_committed_at')
  /\ UNCHANGED << picker_id, courier_id, shipped_at, parts, issue >>

\* Packing a main order joins parts that were taken off the shelf before.
CompleteMain(k, m) ==
  /\ m \in Mains
  /\ PickingJob(m)
  /\ OwnedProcessing(k, m)
  /\ status' = [status EXCEPT ![m] = "ready_for_delivery"]
  /\ UNCHANGED << ledgerVars, picker_id, courier_id, shipped_at, parts,
                  main_stock_committed_at, issue >>

\* Mutant: the picker stays on the row.
ToReviewKeepsPicker(o) ==
  /\ status' = [q \in Orders |->
       IF \/ q = o
          \/ q \in Mains /\ o \in parts[q] /\ status[q] \notin {"cancelled", "delivered"}
       THEN "manager_review" ELSE status[q]]
  /\ UNCHANGED picker_id

\* Row o goes to the manager; markMainOrderForReview takes its main order along
\* unless that is finished.
ToReview(o) ==
  /\ status' = [q \in Orders |->
       IF \/ q = o
          \/ q \in Mains /\ o \in parts[q] /\ status[q] \notin {"cancelled", "delivered"}
       THEN "manager_review" ELSE status[q]]
  /\ picker_id' = [picker_id EXCEPT ![o] = Nobody]

Escalate(k, o) ==
  /\ OwnedProcessing(k, o)
  /\ ToReview(o)
  /\ UNCHANGED << ledgerVars, courier_id, shipped_at, parts,
                  main_stock_committed_at, issue >>

ReportShortage(k, p, i) ==
  /\ p \in Executions
  /\ OwnedProcessing(k, p)
  /\ i \in Items(Demand[p])
  /\ issue[p][i] \in {"none", "waiting"}
  /\ issue' = [issue EXCEPT ![p][i] = "waiting"]
  /\ ToReview(p)
  /\ UNCHANGED << ledgerVars, courier_id, shipped_at, parts, main_stock_committed_at >>

\* A picker of the hub confirms that a transfer has arrived.
ReceiveTransfer(m, p) ==
  /\ p \in parts[m] \cap Transfers
  /\ status[p] = "awaiting_receipt"
  /\ SyncMain(m, [status EXCEPT ![p] = "packed"], stock_committed_at)
  /\ UNCHANGED << ledgerVars, picker_id, courier_id, shipped_at, parts, issue >>

------------------------------------------------------------------------------
(* Delivery, by a courier or an administrator acting as one. *)

Claim(c, o) ==
  /\ Delivery(o)
  /\ status[o] = "ready_for_delivery"
  /\ courier_id[o] = Nobody
  /\ courier_id' = [courier_id EXCEPT ![o] = c]
  /\ UNCHANGED << ledgerVars, status, picker_id, shipped_at, parts,
                  main_stock_committed_at, issue >>

ReleaseDelivery(c, o) ==
  /\ Delivery(o)
  /\ status[o] = "ready_for_delivery"
  /\ courier_id[o] # Nobody
  /\ CourierOwner(c, o)
  /\ courier_id' = [courier_id EXCEPT ![o] = Nobody]
  /\ UNCHANGED << ledgerVars, status, picker_id, shipped_at, parts,
                  main_stock_committed_at, issue >>

Start(c, o) ==
  /\ Delivery(o)
  /\ status[o] = "ready_for_delivery"
  /\ CourierOwner(c, o)
  /\ committed_at(o)
  /\ status' = [status EXCEPT ![o] = "shipped"]
  /\ shipped_at' = shipped_at \cup {o}
  /\ UNCHANGED << ledgerVars, picker_id, courier_id, parts,
                  main_stock_committed_at, issue >>

Deliver(c, o) ==
  /\ Delivery(o)
  /\ status[o] = "shipped"
  /\ CourierOwner(c, o)
  /\ status' = [status EXCEPT ![o] =
                  IF o \in Transfers THEN "awaiting_receipt" ELSE "delivered"]
  /\ UNCHANGED << ledgerVars, picker_id, courier_id, shipped_at, parts,
                  main_stock_committed_at, issue >>

\* A manager gives a ready delivery to a courier, whoever had it.
AssignCourier(c, o) ==
  /\ Delivery(o)
  /\ status[o] = "ready_for_delivery"
  /\ courier_id[o] # c
  /\ courier_id' = [courier_id EXCEPT ![o] = c]
  /\ UNCHANGED << ledgerVars, status, picker_id, shipped_at, parts,
                  main_stock_committed_at, issue >>

------------------------------------------------------------------------------
(* Return of a package to the shelf (returnPackedOrderToStock). *)

\* Mutant: nobody asks where the main order is.
SafeAtSourceAlone(m, p) ==
  /\ status[p] = IF p \in Transfers THEN "ready_for_delivery" ELSE "packed"
  /\ p \notin shipped_at

\* The package is still where it was packed.
SafeAtSource(m, p) ==
  /\ status[p] = IF p \in Transfers THEN "ready_for_delivery" ELSE "packed"
  /\ status[m] \in {"confirmed", "ready_for_delivery"}
  /\ p \notin shipped_at

ReturnPart(m, p) ==
  /\ SafeAtSource(m, p)
  /\ restoreCommittedOnlineStockForOrder(p)
  /\ status' = Rows({m, p}, "confirmed", status)
  /\ picker_id' = Rows({m, p}, Nobody, picker_id)
  /\ courier_id' = Rows({m, p}, Nobody, courier_id)
  /\ shipped_at' = shipped_at \ {m, p}
  /\ main_stock_committed_at' = [main_stock_committed_at EXCEPT ![m] = FALSE]
  /\ UNCHANGED << parts, issue >>

\* The request names a part.
ReturnByPart(m, p) == p \in parts[m] /\ ReturnPart(m, p)

\* The request names the main order, which must have a single active part.
ReturnByMain(m) == \E p \in ActiveParts(m) :
  ActiveParts(m) = {p} /\ ReturnPart(m, p)

------------------------------------------------------------------------------
(* Statuses written by an administrator (updateOrderStatus). *)

\* Mutant: goods need not be packed to be handed over.
StatusMoveUnpacked(o, st) ==
  /\ st # status[o]
  /\ st \notin {"processing", "ready_for_delivery", "cancelled"}
  /\ status[o] \notin {"processing", "awaiting_receipt", "packed", "delivered"}
  /\ status[o] = "ready_for_delivery" => o \notin Transfers \cup CourierMethod

\* What the code refuses whoever asks, for a move of row o to status st.
StatusMoveAllowed(o, st) ==
  /\ st # status[o]
  /\ st \notin {"processing", "ready_for_delivery", "cancelled"}
  /\ status[o] \notin {"processing", "awaiting_receipt", "packed", "delivered"}
  /\ status[o] = "ready_for_delivery" =>
       /\ o \notin Transfers \cup CourierMethod
       /\ st \in IF o \in PickupMethod THEN {"delivered"} ELSE {"shipped", "delivered"}
  /\ st \in {"shipped", "delivered"} =>
       /\ \/ status[o] = "ready_for_delivery"
          \/ status[o] = "shipped" /\ st = "delivered"
       /\ committed_at(o)

Kind(o) == IF o \in Mains THEN "main" ELSE "part"

AdminUpdate(o, st) ==
  /\ Live(o)
  /\ << Kind(o), status[o], st >> \in AdminMoves
  /\ StatusMoveAllowed(o, st)
  /\ status' = IF o \in Mains THEN SyncedStatus(o, st)
               ELSE [status EXCEPT ![o] = st]
  /\ shipped_at' = IF st = "shipped"
                   THEN shipped_at \cup {q \in Orders : status'[q] # status[q]}
                   ELSE shipped_at
  /\ UNCHANGED << ledgerVars, picker_id, courier_id, parts,
                  main_stock_committed_at, issue >>

------------------------------------------------------------------------------
(* The case a shortage opens (FulfillmentIssueService); who holds it is left  *)
(* to the module of the cases.  A case of a deleted part stays a case.        *)

MoveIssue(p, i, from, to) ==
  /\ issue[p][i] = from
  /\ issue' = [issue EXCEPT ![p][i] = to]
  /\ UNCHANGED << ledgerVars, status, picker_id, courier_id, shipped_at, parts,
                  main_stock_committed_at >>

TakeIssue(p, i) == MoveIssue(p, i, "waiting", "in_review")

ReleaseIssue(p, i) == MoveIssue(p, i, "in_review", "waiting")

CloseIssue(p, i) == MoveIssue(p, i, "in_review", "closed")

------------------------------------------------------------------------------
Init ==
  /\ LedgerInit
  /\ status = [o \in Orders |-> "none"]
  /\ picker_id = [o \in Orders |-> Nobody]
  /\ courier_id = [o \in Orders |-> Nobody]
  /\ shipped_at = {}
  /\ parts = [m \in Mains |-> {}]
  /\ main_stock_committed_at = [m \in Mains |-> FALSE]
  /\ issue = [p \in Executions |-> [i \in Inventories |-> "none"]]

OrderStep(m) ==
  \/ \E A \in Allocations[m] : Place(m, A) \/ ManagerEdit(m, A)
  \/ ManagerConfirm(m) \/ CustomerCancel(m) \/ ManagerCancel(m)
  \/ ReturnByMain(m)
  \/ \E p \in Executions : ReceiveTransfer(m, p) \/ ReturnByPart(m, p)

PickerStep(k) ==
  \/ \E o \in Orders : Take(k, o) \/ ReleasePicking(k, o) \/ Escalate(k, o)
  \/ \E m \in Mains : CompleteMain(k, m) \/ \E p \in Executions : CompletePart(k, m, p)
  \/ \E p \in Executions, i \in Inventories : ReportShortage(k, p, i)

CourierStep(c) ==
  \E o \in Orders : Claim(c, o) \/ ReleaseDelivery(c, o) \/ Start(c, o) \/ Deliver(c, o)

IssueStep(p, i) == TakeIssue(p, i) \/ ReleaseIssue(p, i) \/ CloseIssue(p, i)

AdjustStock == Adjust /\ UNCHANGED orderVars

Next ==
  \/ \E m \in Mains : OrderStep(m)
  \/ \E k \in Pickers : PickerStep(k)
  \/ \E c \in Couriers \cup {Admin} : CourierStep(c)
  \/ \E c \in Couriers, o \in Orders : AssignCourier(c, o)
  \/ \E o \in Orders, st \in Statuses : AdminUpdate(o, st)
  \/ \E p \in Executions, i \in Inventories : IssueStep(p, i)
  \/ AdjustStock

Spec == Init /\ [][Next]_vars

------------------------------------------------------------------------------
(* What an order promises. *)

\* Types.
TypeOK ==
  /\ LedgerTypeOK
  /\ status \in [Orders -> Statuses]
  /\ picker_id \in [Orders -> Pickers \cup {Nobody}]
  /\ courier_id \in [Orders -> Couriers \cup {Admin, Nobody}]
  /\ shipped_at \subseteq Orders
  /\ parts \in [Mains -> SUBSET Executions]
  /\ main_stock_committed_at \in [Mains -> BOOLEAN]
  /\ issue \in [Executions -> [Inventories -> IssueStatuses]]

AwayFromShelf == {"ready_for_delivery", "shipped", "awaiting_receipt", "packed", "delivered"}

\* A part is away from the shelf in the books exactly while its status says it
\* was packed: packing, return, review and cancellation never part the two.
PackedIffCommitted ==
  \A m \in Mains : \A p \in parts[m] :
    stock_committed_at[p] <=> status[p] \in AwayFromShelf

\* A main order is handed on only whole: while it is joined, ready, travelling
\* or delivered, every active part lies packed at the hub and off the books.
HandedOnWhole ==
  \A m \in Mains :
    status[m] \in {"processing", "ready_for_delivery", "shipped", "delivered"} =>
      /\ ActiveParts(m) # {} /\ AllPacked(m)
      /\ main_stock_committed_at[m]
      /\ \A p \in ActiveParts(m) : stock_committed_at[p]

\* A cancelled order keeps no goods: nothing reserved, nothing off the shelf.
CancelledKeepsNothing ==
  \A m \in Mains : status[m] = "cancelled" =>
    \A p \in parts[m] : /\ status[p] = "cancelled"
                        /\ ~Holds(p) /\ ~stock_committed_at[p]

\* A deleted part keeps no goods and nobody works on it.
DeletedKeepsNothing ==
  \A p \in Executions \ UNION {parts[m] : m \in Mains} :
    ~Holds(p) /\ ~stock_committed_at[p]
    /\ picker_id[p] = Nobody /\ courier_id[p] = Nobody

\* What is void, cancelled or deleted, keeps nothing and nobody.
VoidKeepsNothing == CancelledKeepsNothing /\ DeletedKeepsNothing

\* An order in work has a picker; one that waits for work has neither a picker
\* nor a courier left over from before.
NoStaleOwner ==
  \A o \in Orders :
    /\ status[o] = "processing" => picker_id[o] # Nobody
    /\ status[o] \in {"pending", "confirmed", "manager_review"} =>
         picker_id[o] = Nobody /\ courier_id[o] = Nobody

\* The only part of a confirmed order is never left packed at the hub with the
\* main order not ready: no picker could join it and no courier could take it.
SinglePartNeverStranded ==
  \A m \in Mains : status[m] = "confirmed" /\ Cardinality(ActiveParts(m)) = 1 =>
    ~AllPacked(m)

\* Goods on their way go on: a row that travels reaches the hub or the customer
\* with the courier who has it; nobody recalls it or hands it to another.
TravelIsOneWay ==
  [][\A o \in Orders : status[o] \in {"shipped", "awaiting_receipt"} =>
       /\ courier_id'[o] = courier_id[o]
       /\ status'[o] \in {status[o], "awaiting_receipt", "packed", "delivered"}
       /\ status'[o] = "delivered" => o \in Mains]_vars

\* A stage that belongs to a workflow is left only through that workflow:
\* picking to the next stage, back or to review, an arrival by its receipt, a
\* package by its return to the shelf; what is delivered stays delivered.
StagesBelongToWorkflows ==
  [][\A o \in Orders : status'[o] # status[o] =>
       /\ status[o] = "processing" =>
            status'[o] \in {"confirmed", "ready_for_delivery", "packed", "manager_review"}
       /\ status[o] = "awaiting_receipt" => status'[o] = "packed"
       /\ status[o] = "packed" => status'[o] = "confirmed"
       /\ status[o] # "delivered"]_vars

\* Once the parts of a composite order have been joined, returning goods to the
\* shelf no longer happens on its own: the ready order is not taken apart.
JoinedOrderStaysJoined ==
  [][\A m \in Mains :
       status[m] = "ready_for_delivery" /\ Cardinality(ActiveParts(m)) >= 2 =>
         \A p \in ActiveParts(m) : status'[p] = "packed"]_vars

\* Only the main order is ever delivered; a part ends at the hub.
OnlyMainOrdersDelivered == \A p \in Executions : status[p] # "delivered"

\* Each step of the fulfilment is a step of the stock ledger or leaves it alone.
StockFollowsLedger == LedgerSpec

\* The order as its customer sees it.
Stage(m) ==
  CASE status[m] \in {"none", "cancelled", "delivered"} -> status[m]
    [] status[m] = "shipped" -> "out"
    [] OTHER -> IF main_stock_committed_at[m] THEN "packed"
                ELSE IF \E p \in parts[m] : stock_committed_at[p] THEN "packing"
                ELSE "open"

Promise == INSTANCE CustomerOrder WITH stage <- [m \in Mains |-> Stage(m)]

\* The fulfilment keeps the shop's promise to the customer.
KeepsPromise == Promise!Spec

------------------------------------------------------------------------------
(* Progress: the staff do not put an order off for ever when they can go on *)
(* with it again and again.  Somebody confirms it when it waits or is under *)
(* review, picks, packs, starts and delivers what there is to do of it, and *)
(* receives what arrives for it.  Which of its rows they do first is open;  *)
(* nobody is required to cancel, edit, release or return.                   *)

Confirm(m) == ManagerConfirm(m) \/ AdminUpdate(m, "confirmed")

Complete(k, o) == CompleteMain(k, o) \/ \E m \in Mains : CompletePart(k, m, o)

MainAndParts(m) == {m} \cup UNION Allocations[m]

Fairness ==
  \A m \in Mains :
    /\ SF_vars(Confirm(m))
    /\ SF_vars(\E k \in Pickers, o \in MainAndParts(m) : Take(k, o))
    /\ SF_vars(\E k \in Pickers, o \in MainAndParts(m) : Complete(k, o))
    /\ SF_vars(\E c \in Couriers \cup {Admin}, o \in MainAndParts(m) : Start(c, o))
    /\ WF_vars(\E c \in Couriers \cup {Admin}, o \in MainAndParts(m) : Deliver(c, o))
    /\ WF_vars(\E p \in Executions : ReceiveTransfer(m, p))

FairSpec == Spec /\ Fairness

\* Every order that was placed is delivered or cancelled in the end, however
\* often it is declined, escalated, returned or edited on the way.
EveryOrderSettles ==
  \A m \in Mains : status[m] = "pending" ~> status[m] \in {"delivered", "cancelled"}
==============================================================================
