-------------------------- MODULE Fulfillment_proofs --------------------------
(***************************************************************************)
(* Proofs about the fulfilment, for any orders, warehouses and staff.      *)
(* First what holds for any moves of the administrators: types, stamps,    *)
(* and that no order is joined, handed over or delivered before every part *)
(* of it lies packed at the hub; the inductive invariant is WholeInv.      *)
(* Then what holds while administrators keep to the moves they are there   *)
(* for (ServiceOnly); one who writes other statuses breaks these           *)
(* properties.  The inductive invariant is ServiceInv, and under it the    *)
(* fulfilment implements the stock ledger and the customer's promise.      *)
(***************************************************************************)
EXTENDS Fulfillment, InventoryLedger_proofs

\* The parts of an order come from one allocation, once it is placed.
AllocatedAt(m) == /\ parts[m] = {} \/ parts[m] \in Allocations[m]
                  /\ status[m] = "none" => parts[m] = {}
                  /\ \A p \in parts[m] : status[p] # "none"

\* An order that is placed has a part.
PlacedAt(m) == status[m] # "none" => \E p \in Executions : p \in parts[m]

\* A part is reserved, and what is packed or further has left the shelf.
PackedAt(m) == \A p \in parts[m] : /\ stock_reserved_at[p]
                                   /\ status[p] \in AwayFromShelf => stock_committed_at[p]

\* With a part that is cancelled, every reserve of the order has been given back.
CancelledAt(m) == (\E p \in parts[m] : status[p] = "cancelled") =>
                    \A p \in parts[m] : stock_released_at[p]

\* An order whose parts are all packed is stamped.
StampedAt(m) == ActiveParts(m) # {} /\ AllPacked(m) => main_stock_committed_at[m]

\* An order in a status of the hand-over has parts, and all of them are packed.
WholeAt(m) ==
  status[m] \in {"processing", "ready_for_delivery", "shipped", "delivered"} =>
    ActiveParts(m) # {} /\ AllPacked(m)

\* What is kept of every order whatever administrators do.
OrderOK(m) == /\ AllocatedAt(m) /\ PlacedAt(m) /\ PackedAt(m)
              /\ CancelledAt(m) /\ StampedAt(m) /\ WholeAt(m)

\* The inductive invariant.
WholeInv == TypeOK /\ StampsAgree /\ \A m \in Mains : OrderOK(m)

\* The invariant says what is to be shown.
LEMMA WholeIsHandedOn == WholeInv => HandedOnWhole
<1> SUFFICES ASSUME WholeInv, NEW m \in Mains,
                    status[m] \in {"processing", "ready_for_delivery", "shipped", "delivered"}
             PROVE  /\ ActiveParts(m) # {} /\ AllPacked(m)
                    /\ main_stock_committed_at[m]
                    /\ \A p \in ActiveParts(m) : stock_committed_at[p]
  BY DEF HandedOnWhole
<1>1. OrderOK(m)
  BY DEF WholeInv
<1>2. ActiveParts(m) # {} /\ AllPacked(m)
  BY <1>1 DEF OrderOK, WholeAt
<1>3. main_stock_committed_at[m]
  BY <1>1, <1>2 DEF OrderOK, StampedAt
<1>4. \A p \in ActiveParts(m) : stock_committed_at[p]
  BY <1>1, <1>2 DEF OrderOK, PackedAt, AllPacked, ActiveParts, AwayFromShelf
<1> QED
  BY <1>2, <1>3, <1>4

\* The assumptions on one allocation.
LEMMA Allocated ==
  ASSUME NEW m \in Mains, NEW A \in Allocations[m]
  PROVE  /\ A \subseteq Executions /\ A # {} /\ A \cap Mains = {} /\ A \in Batches
         /\ \A n \in Mains \ {m} : \A B \in Allocations[n] : A \cap B = {}
<1>1. Allocations[m] \in SUBSET SUBSET Executions
  BY FulfillmentAssumption
<1>2. A \subseteq Executions
  BY <1>1
<1>3. Allocations[m] \subseteq Batches /\ {} \notin Allocations[m] /\ Mains \cap Executions = {}
  BY FulfillmentAssumption
<1>4. \A n \in Mains \ {m} : \A B \in Allocations[n] : A \cap B = {}
  BY FulfillmentAssumption
<1> QED
  BY <1>2, <1>3, <1>4

\* A row is the part of one order.
LEMMA OneMain ==
  ASSUME WholeInv, NEW m \in Mains
  PROVE  /\ parts[m] \subseteq Executions /\ parts[m] \cap Mains = {}
         /\ \A n \in Mains \ {m} : parts[m] \cap parts[n] = {}
<1>1. \A n \in Mains : parts[n] = {} \/ parts[n] \in Allocations[n]
  BY DEF WholeInv, OrderOK, AllocatedAt
<1> QED
  BY <1>1, Allocated

\* A stamp marks a set of rows and no other.
LEMMA StampIs ==
  ASSUME NEW f \in [Documents -> BOOLEAN], NEW S, NEW o \in Documents
  PROVE  /\ o \in S => Stamp(f, S)[o]
         /\ o \notin S => Stamp(f, S)[o] = f[o]
<1>1. Stamp(f, S)[o] = (f[o] \/ o \in S) /\ f[o] \in BOOLEAN
  BY DEF Stamp
<1>2. CASE o \in S
  BY <1>1, <1>2
<1>3. CASE o \notin S
  <2>1. CASE f[o] = TRUE
    BY <1>1, <1>3, <2>1
  <2>2. CASE f[o] = FALSE
    BY <1>1, <1>3, <2>2
  <2> QED
    BY <1>1, <2>1, <2>2
<1> QED
  BY <1>2, <1>3

\* The stamps after a reserve.
LEMMA ReserveStamps ==
  ASSUME LedgerTypeOK, NEW A, A \subseteq Executions, reserveOnlineStockForOrders(A)
  PROVE  /\ \A p \in A : stock_reserved_at'[p]
         /\ \A p \in Documents \ A : stock_reserved_at'[p] = stock_reserved_at[p]
         /\ stock_released_at' = stock_released_at
         /\ stock_committed_at' = stock_committed_at
<1> DEFINE new == {o \in A : ~stock_reserved_at[o]}
<1>1. stock_reserved_at' = Stamp(stock_reserved_at, new)
  BY DEF reserveOnlineStockForOrders
<1>2. \A o \in Documents : /\ o \in new => stock_reserved_at'[o]
                           /\ o \notin new => stock_reserved_at'[o] = stock_reserved_at[o]
  BY <1>1, StampIs DEF LedgerTypeOK
<1>3. stock_released_at' = stock_released_at /\ stock_committed_at' = stock_committed_at
  BY DEF reserveOnlineStockForOrders
<1>4. ASSUME NEW p \in A PROVE stock_reserved_at'[p]
  <2>1. CASE stock_reserved_at[p]
    BY <1>2, <2>1 DEF Documents
  <2>2. CASE ~stock_reserved_at[p]
    BY <1>2, <2>2 DEF Documents
  <2> QED
    BY <2>1, <2>2
<1>5. \A p \in Documents \ A : stock_reserved_at'[p] = stock_reserved_at[p]
  BY <1>2 DEF Documents
<1> QED
  BY <1>3, <1>4, <1>5

\* The stamps after a release.
LEMMA ReleaseStamps ==
  ASSUME LedgerTypeOK, NEW S, S \subseteq Executions, releaseOnlineStockForOrder(S)
  PROVE  /\ \A p \in S : stock_reserved_at[p] => stock_released_at'[p]
         /\ \A p \in S : ~stock_released_at[p] => ~stock_committed_at[p]
         /\ \A p \in S : stock_released_at'[p] => stock_reserved_at[p] \/ stock_released_at[p]
         /\ \A p \in Documents \ S : stock_released_at'[p] = stock_released_at[p]
         /\ \A p \in Documents : stock_released_at[p] => stock_released_at'[p]
         /\ stock_reserved_at' = stock_reserved_at
         /\ stock_committed_at' = stock_committed_at
<1> DEFINE held == {o \in S : stock_reserved_at[o] /\ ~stock_released_at[o]}
<1>1. /\ stock_released_at' = Stamp(stock_released_at, held)
      /\ \A p \in S : ~stock_released_at[p] => ~stock_committed_at[p]
  BY DEF releaseOnlineStockForOrder
<1>2. \A o \in Documents : /\ o \in held => stock_released_at'[o]
                           /\ o \notin held => stock_released_at'[o] = stock_released_at[o]
  BY <1>1, StampIs DEF LedgerTypeOK
<1>3. stock_reserved_at' = stock_reserved_at /\ stock_committed_at' = stock_committed_at
  BY DEF releaseOnlineStockForOrder
<1>4. ASSUME NEW p \in Documents PROVE stock_released_at[p] => stock_released_at'[p]
  BY <1>2 DEF Documents
<1>5. ASSUME NEW p \in S, stock_reserved_at[p] PROVE stock_released_at'[p]
  <2>1. CASE stock_released_at[p]
    BY <1>4, <2>1 DEF Documents
  <2>2. CASE ~stock_released_at[p]
    BY <1>2, <1>5, <2>2 DEF Documents
  <2> QED
    BY <2>1, <2>2
<1>6. \A p \in Documents \ S : stock_released_at'[p] = stock_released_at[p]
  BY <1>2 DEF Documents
<1>7. ASSUME NEW p \in S, ~stock_reserved_at[p], ~stock_released_at[p]
      PROVE  ~stock_released_at'[p]
  BY <1>2, <1>7 DEF Documents
<1> QED
  BY <1>1, <1>3, <1>4, <1>5, <1>6, <1>7

\* The stamps after the reserve moved to other parts.
LEMMA ReplaceStamps ==
  ASSUME LedgerTypeOK, NEW S, S \subseteq Executions, NEW A, A \subseteq Executions,
         replaceOnlineStock(S, A)
  PROVE  /\ \A p \in A : stock_reserved_at'[p]
         /\ \A p \in Documents \ A : stock_reserved_at'[p] = stock_reserved_at[p]
         /\ \A p \in S : stock_reserved_at[p] => stock_released_at'[p]
         /\ \A p \in Documents \ S : stock_released_at'[p] = stock_released_at[p]
         /\ \A p \in Documents : stock_released_at[p] => stock_released_at'[p]
         /\ stock_committed_at' = stock_committed_at
<1> DEFINE held == {o \in S : stock_reserved_at[o] /\ ~stock_released_at[o]}
           new == {o \in A : ~stock_reserved_at[o]}
<1>1. /\ stock_reserved_at' = Stamp(stock_reserved_at, new)
      /\ stock_released_at' = Stamp(stock_released_at, held)
      /\ stock_committed_at' = stock_committed_at
  BY DEF replaceOnlineStock
<1>2. \A o \in Documents : /\ o \in new => stock_reserved_at'[o]
                           /\ o \notin new => stock_reserved_at'[o] = stock_reserved_at[o]
  BY <1>1, StampIs DEF LedgerTypeOK
<1>3. \A o \in Documents : /\ o \in held => stock_released_at'[o]
                           /\ o \notin held => stock_released_at'[o] = stock_released_at[o]
  BY <1>1, StampIs DEF LedgerTypeOK
<1>4. ASSUME NEW p \in A PROVE stock_reserved_at'[p]
  <2>1. CASE stock_reserved_at[p]
    BY <1>2, <2>1 DEF Documents
  <2>2. CASE ~stock_reserved_at[p]
    BY <1>2, <2>2 DEF Documents
  <2> QED
    BY <2>1, <2>2
<1>5. ASSUME NEW p \in Documents PROVE stock_released_at[p] => stock_released_at'[p]
  BY <1>3 DEF Documents
<1>6. ASSUME NEW p \in S, stock_reserved_at[p] PROVE stock_released_at'[p]
  <2>1. CASE stock_released_at[p]
    BY <1>5, <2>1 DEF Documents
  <2>2. CASE ~stock_released_at[p]
    BY <1>3, <1>6, <2>2 DEF Documents
  <2> QED
    BY <2>1, <2>2
<1>7. /\ \A p \in Documents \ A : stock_reserved_at'[p] = stock_reserved_at[p]
      /\ \A p \in Documents \ S : stock_released_at'[p] = stock_released_at[p]
  BY <1>2, <1>3 DEF Documents
<1> QED
  BY <1>1, <1>4, <1>5, <1>6, <1>7

\* The stamps after a package left the shelf.
LEMMA CommitStamps ==
  ASSUME LedgerTypeOK, NEW o \in Executions, commitOnlineStockForOrder(o)
  PROVE  /\ stock_committed_at'[o]
         /\ \A p \in Documents \ {o} : stock_committed_at'[p] = stock_committed_at[p]
         /\ stock_reserved_at' = stock_reserved_at
         /\ stock_released_at' = stock_released_at
<1>1. CASE stock_committed_at[o]
  BY <1>1 DEF commitOnlineStockForOrder, ledgerVars
<1>2. CASE ~stock_committed_at[o]
  <2>1. /\ stock_committed_at' = Stamp(stock_committed_at, {o})
        /\ stock_reserved_at' = stock_reserved_at
        /\ stock_released_at' = stock_released_at
    BY <1>2 DEF commitOnlineStockForOrder
  <2> DEFINE one == {o}
  <2>2. stock_committed_at' = Stamp(stock_committed_at, one)
    BY <2>1
  <2> HIDE DEF one
  <2>3. \A p \in Documents : /\ p \in one => stock_committed_at'[p]
                             /\ p \notin one => stock_committed_at'[p] = stock_committed_at[p]
    BY <2>2, StampIs DEF LedgerTypeOK
  <2> QED
    BY <2>1, <2>3 DEF Documents, one
<1> QED
  BY <1>1, <1>2

\* The stamps after a package came back.
LEMMA RestoreStamps ==
  ASSUME LedgerTypeOK, NEW o \in Executions, restoreCommittedOnlineStockForOrder(o)
  PROVE  /\ ~stock_committed_at'[o]
         /\ \A p \in Documents \ {o} : stock_committed_at'[p] = stock_committed_at[p]
         /\ stock_reserved_at' = stock_reserved_at
         /\ stock_released_at' = stock_released_at
<1>1. CASE ~stock_committed_at[o]
  BY <1>1 DEF restoreCommittedOnlineStockForOrder, ledgerVars
<1>2. CASE stock_committed_at[o]
  BY <1>2 DEF restoreCommittedOnlineStockForOrder, LedgerTypeOK, Documents
<1> QED
  BY <1>1, <1>2

------------------------------------------------------------------------------
(* What each operation does to the rows of the order it is about.           *)

\* Nothing of main order n changes that this module speaks of.
SameAt(n) ==
  /\ parts'[n] = parts[n] /\ status'[n] = status[n]
  /\ main_stock_committed_at'[n] = main_stock_committed_at[n]
  /\ \A p \in parts[n] : /\ status'[p] = status[p]
                         /\ stock_reserved_at'[p] = stock_reserved_at[p]
                         /\ stock_released_at'[p] = stock_released_at[p]
                         /\ stock_committed_at'[p] = stock_committed_at[p]

\* A step of main order m that keeps its parts: the rows of other orders, and
\* the rows that no order has as a part, stay as they are.
WithinOrder(m) ==
  /\ parts' = parts
  /\ \A n \in Mains \ {m} : SameAt(n)
  /\ \A p \in Executions \ parts[m] : /\ status'[p] = status[p]
                                      /\ stock_reserved_at'[p] = stock_reserved_at[p]
                                      /\ stock_released_at'[p] = stock_released_at[p]

\* A step that gives main order m the parts A.
NewParts(m, A) ==
  /\ parts'[m] = A /\ status'[m] \in {"pending", "confirmed", "manager_review"}
  /\ \A n \in Mains \ {m} : SameAt(n)
  /\ \A p \in A : status'[p] = status'[m] /\ stock_reserved_at'[p]
  /\ \A p \in Executions \ A : /\ status'[p] = status[p]
                               /\ stock_reserved_at'[p] = stock_reserved_at[p]
  /\ \A p \in Documents \ parts[m] : stock_released_at'[p] = stock_released_at[p]
  /\ stock_committed_at' = stock_committed_at
  /\ main_stock_committed_at' = main_stock_committed_at

\* Row o becomes st and the stock is left alone.
ChangesStatus(o, st) ==
  /\ \A q \in Orders : status'[q] = IF q = o THEN st ELSE status[q]
  /\ UNCHANGED << stock_reserved_at, stock_released_at, stock_committed_at, parts,
                  main_stock_committed_at >>

\* A checkout gives an order its parts.
LEMMA PlaceEffect ==
  ASSUME WholeInv, NEW m \in Mains, NEW A \in Allocations[m], Place(m, A)
  PROVE  NewParts(m, A)
<1>1. A \subseteq Executions /\ A # {} /\ A \cap Mains = {} /\ m \notin A
  BY Allocated
<1>2. /\ \A o \in Orders : status'[o] = IF o \in {m} \cup A THEN "pending" ELSE status[o]
      /\ \A n \in Mains : parts'[n] = IF n = m THEN A ELSE parts[n]
      /\ main_stock_committed_at' = main_stock_committed_at
  BY DEF Place, Rows, WholeInv, TypeOK
<1>3. /\ \A p \in A : stock_reserved_at'[p]
      /\ \A p \in Documents \ A : stock_reserved_at'[p] = stock_reserved_at[p]
      /\ stock_released_at' = stock_released_at /\ stock_committed_at' = stock_committed_at
  BY <1>1, ReserveStamps DEF Place, WholeInv, TypeOK
<1>4. ASSUME NEW n \in Mains \ {m} PROVE SameAt(n)
  <2>1. parts[n] \cap A = {} /\ parts[n] \subseteq Executions
    BY Allocated, OneMain DEF WholeInv, OrderOK, AllocatedAt
  <2>2. parts'[n] = parts[n] /\ main_stock_committed_at'[n] = main_stock_committed_at[n]
    BY <1>2
  <2>3. status'[n] = status[n]
    BY <1>1, <1>2 DEF Orders
  <2>4. ASSUME NEW p \in parts[n]
        PROVE  status'[p] = status[p] /\ stock_reserved_at'[p] = stock_reserved_at[p]
    <3>1. p \in Executions \ A /\ p # m
      BY <2>1, FulfillmentAssumption
    <3> QED
      BY <1>2, <1>3, <3>1 DEF Orders, Documents
  <2> QED
    BY <1>3, <2>2, <2>3, <2>4 DEF SameAt
<1>5. parts'[m] = A /\ status'[m] = "pending" /\ \A p \in A : status'[p] = "pending"
  BY <1>1, <1>2 DEF Orders
<1>6. ASSUME NEW p \in Executions \ A
      PROVE  status'[p] = status[p] /\ stock_reserved_at'[p] = stock_reserved_at[p]
  <2>1. p # m
    BY FulfillmentAssumption
  <2> QED
    BY <1>2, <1>3, <2>1 DEF Orders, Documents
<1> QED
  BY <1>2, <1>3, <1>4, <1>5, <1>6 DEF NewParts

\* An edit gives an order other parts; the old ones give their reserve back.
LEMMA EditEffect ==
  ASSUME WholeInv, NEW m \in Mains, NEW A \in Allocations[m], ManagerEdit(m, A)
  PROVE  /\ NewParts(m, A) /\ status'[m] = status[m]
         /\ \A p \in parts[m] : stock_released_at'[p]
<1>1. A \subseteq Executions /\ A # {} /\ A \cap Mains = {} /\ m \notin A
  BY Allocated
<1>2. /\ \A o \in Orders : status'[o] = IF o \in A THEN status[m] ELSE status[o]
      /\ \A n \in Mains : parts'[n] = IF n = m THEN A ELSE parts[n]
      /\ main_stock_committed_at' = main_stock_committed_at
      /\ status[m] \in {"pending", "confirmed", "manager_review"}
  BY DEF ManagerEdit, Editable, Rows, WholeInv, TypeOK
<1>3. parts[m] \subseteq Executions
  BY OneMain
<1>4. /\ \A p \in A : stock_reserved_at'[p]
      /\ \A p \in Documents \ A : stock_reserved_at'[p] = stock_reserved_at[p]
      /\ \A p \in parts[m] : stock_reserved_at[p] => stock_released_at'[p]
      /\ \A p \in Documents \ parts[m] : stock_released_at'[p] = stock_released_at[p]
      /\ stock_committed_at' = stock_committed_at
  <2> DEFINE old == parts[m]
  <2>1. LedgerTypeOK /\ old \subseteq Executions /\ replaceOnlineStock(old, A)
    BY <1>3 DEF ManagerEdit, WholeInv, TypeOK
  <2> HIDE DEF old
  <2>2. /\ \A p \in A : stock_reserved_at'[p]
        /\ \A p \in Documents \ A : stock_reserved_at'[p] = stock_reserved_at[p]
        /\ \A p \in old : stock_reserved_at[p] => stock_released_at'[p]
        /\ \A p \in Documents \ old : stock_released_at'[p] = stock_released_at[p]
        /\ stock_committed_at' = stock_committed_at
    BY <1>1, <2>1, ReplaceStamps
  <2> QED
    BY <2>2 DEF old
<1>5. ASSUME NEW n \in Mains \ {m} PROVE SameAt(n)
  <2>1. parts[n] \cap A = {} /\ parts[n] \subseteq Executions /\ parts[n] \cap parts[m] = {}
    BY Allocated, OneMain DEF WholeInv, OrderOK, AllocatedAt
  <2>2. parts'[n] = parts[n] /\ main_stock_committed_at'[n] = main_stock_committed_at[n]
    BY <1>2
  <2>3. status'[n] = status[n]
    BY <1>1, <1>2 DEF Orders
  <2>4. \A p \in parts[n] : status'[p] = status[p]
    BY <1>2, <2>1 DEF Orders
  <2> QED
    BY <1>4, <2>1, <2>2, <2>3, <2>4 DEF SameAt, Documents
<1>6. parts'[m] = A /\ status'[m] = status[m] /\ \A p \in A : status'[p] = status[m]
  BY <1>1, <1>2 DEF Orders
<1>7. \A p \in Executions \ A :
        status'[p] = status[p] /\ stock_reserved_at'[p] = stock_reserved_at[p]
  BY <1>2, <1>4 DEF Orders, Documents
<1>8. \A p \in parts[m] : stock_released_at'[p]
  BY <1>4 DEF WholeInv, OrderOK, PackedAt
<1> QED
  BY <1>2, <1>4, <1>5, <1>6, <1>7, <1>8 DEF NewParts

\* A status written to row o is a step of each order whose row it is.
LEMMA ChangeEffect ==
  ASSUME WholeInv, NEW o \in Orders, NEW st, ChangesStatus(o, st), NEW m \in Mains,
         o = m \/ o \in parts[m]
  PROVE  WithinOrder(m)
<1>1. parts[m] \subseteq Executions /\ parts[m] \cap Mains = {}
  BY OneMain
<1>2. ASSUME NEW n \in Mains \ {m} PROVE SameAt(n)
  <2>1. parts[n] \subseteq Executions /\ n # o /\ o \notin parts[n]
    BY <1>1, OneMain
  <2> QED
    BY <2>1 DEF SameAt, ChangesStatus, Orders
<1>3. \A p \in Executions \ parts[m] : status'[p] = status[p]
  BY FulfillmentAssumption DEF ChangesStatus, Orders
<1> QED
  BY <1>2, <1>3 DEF WithinOrder, ChangesStatus

\* An assignment to one element of the statuses changes one row.
LEMMA OneRow ==
  ASSUME WholeInv, NEW o \in Orders, NEW st, status' = [status EXCEPT ![o] = st],
         UNCHANGED << ledgerVars, parts, main_stock_committed_at >>
  PROVE  ChangesStatus(o, st)
  BY DEF ChangesStatus, WholeInv, TypeOK, ledgerVars

\* A status written to a main order reaches those of its parts that follow it.
LEMMA SyncedEffect ==
  ASSUME WholeInv, NEW m \in Mains, NEW st, status' = SyncedStatus(m, st),
         UNCHANGED << stock_reserved_at, stock_released_at, stock_committed_at, parts,
                      main_stock_committed_at >>
  PROVE  /\ WithinOrder(m) /\ status'[m] = st
         /\ \A p \in parts[m] :
              status'[p] = IF /\ status[p] \notin {"cancelled", "packed", "delivered"}
                              /\ st = "confirmed" => status[p] \in {"pending", "manager_review"}
                           THEN st ELSE status[p]
<1>1. parts[m] \subseteq Executions /\ m \notin parts[m]
  BY OneMain
<1>2. ASSUME NEW n \in Mains \ {m} PROVE SameAt(n)
  <2>1. parts[n] \subseteq Executions /\ parts[n] \cap parts[m] = {} /\ m \notin parts[n]
    BY OneMain
  <2>2. status'[n] = status[n] /\ \A p \in parts[n] : status'[p] = status[p]
    BY <1>1, <2>1, OneMain DEF SyncedStatus, Orders
  <2> QED
    BY <2>2 DEF SameAt
<1>3. \A p \in Executions \ parts[m] : status'[p] = status[p]
  BY FulfillmentAssumption DEF SyncedStatus, Orders
<1> QED
  BY <1>1, <1>2, <1>3 DEF SyncedStatus, Orders, WithinOrder

\* A cancellation cancels every part and gives every reserve back.
LEMMA CancelEffect ==
  ASSUME WholeInv, NEW m \in Mains, CancelOrder(m)
  PROVE  /\ WithinOrder(m) /\ status'[m] = "cancelled"
         /\ \A p \in parts[m] : status'[p] = "cancelled" /\ stock_released_at'[p]
         /\ UNCHANGED << stock_reserved_at, stock_committed_at, main_stock_committed_at >>
<1> DEFINE open == {p \in parts[m] : status[p] # "cancelled"}
<1>1. parts[m] \subseteq Executions /\ m \notin parts[m]
  BY OneMain
<1>2. OrderOK(m)
  BY DEF WholeInv
<1>3. /\ status' = Rows({m} \cup open, "cancelled", status)
      /\ releaseOnlineStockForOrder(open)
      /\ UNCHANGED << parts, main_stock_committed_at >>
  BY DEF CancelOrder
<1>4. status'[m] = "cancelled" /\ \A p \in parts[m] : status'[p] = "cancelled"
  BY <1>1, <1>3 DEF Rows, Orders
<1>5. /\ \A p \in open : stock_reserved_at[p] => stock_released_at'[p]
      /\ \A p \in Documents \ open : stock_released_at'[p] = stock_released_at[p]
      /\ \A p \in Documents : stock_released_at[p] => stock_released_at'[p]
      /\ stock_reserved_at' = stock_reserved_at
      /\ stock_committed_at' = stock_committed_at
  <2>1. open \subseteq Executions
    BY <1>1
  <2> QED
    BY <1>3, <2>1, ReleaseStamps DEF WholeInv, TypeOK
<1>6. ASSUME NEW n \in Mains \ {m} PROVE SameAt(n)
  <2>1. parts[n] \subseteq Executions /\ parts[n] \cap parts[m] = {} /\ m \notin parts[n]
    BY OneMain
  <2>2. status'[n] = status[n] /\ \A p \in parts[n] : status'[p] = status[p]
    BY <1>1, <1>3, <2>1, OneMain DEF Rows, Orders
  <2> QED
    BY <1>3, <1>5, <2>1, <2>2 DEF SameAt, Documents
<1>7. \A p \in parts[m] : stock_released_at'[p]
  <2>1. ASSUME NEW p \in parts[m], status[p] = "cancelled" PROVE stock_released_at'[p]
    BY <1>1, <1>2, <1>5, <2>1 DEF OrderOK, CancelledAt, Documents
  <2>2. ASSUME NEW p \in parts[m], status[p] # "cancelled" PROVE stock_released_at'[p]
    BY <1>2, <1>5, <2>2 DEF OrderOK, PackedAt
  <2> QED
    BY <2>1, <2>2
<1>8. \A p \in Executions \ parts[m] :
        status'[p] = status[p] /\ stock_released_at'[p] = stock_released_at[p]
  BY <1>3, <1>5, FulfillmentAssumption DEF Rows, Orders, Documents
<1> QED
  BY <1>3, <1>4, <1>5, <1>6, <1>7, <1>8 DEF WithinOrder

\* A main order that is joined goes to the manager alone.
LEMMA MainReviewEffect ==
  ASSUME WholeInv, NEW m \in Mains, ToReview(m),
         UNCHANGED << stock_reserved_at, stock_released_at, stock_committed_at, parts,
                      main_stock_committed_at >>
  PROVE  ChangesStatus(m, "manager_review")
<1>1. \A q \in Mains : m \notin parts[q]
  BY OneMain
<1> QED
  BY <1>1 DEF ToReview, ChangesStatus

\* A part goes to the manager and takes its main order along.
LEMMA PartReviewEffect ==
  ASSUME WholeInv, NEW m \in Mains, NEW p \in parts[m], ToReview(p),
         UNCHANGED << stock_reserved_at, stock_released_at, stock_committed_at, parts,
                      main_stock_committed_at >>
  PROVE  /\ WithinOrder(m)
         /\ status'[m] = IF status[m] \in {"cancelled", "delivered"} THEN status[m]
                         ELSE "manager_review"
         /\ \A q \in parts[m] : status'[q] = IF q = p THEN "manager_review" ELSE status[q]
<1>1. parts[m] \subseteq Executions /\ parts[m] \cap Mains = {}
  BY OneMain
<1>2. \A q \in Orders : status'[q] =
        IF \/ q = p
           \/ q \in Mains /\ p \in parts[q] /\ status[q] \notin {"cancelled", "delivered"}
        THEN "manager_review" ELSE status[q]
  BY DEF ToReview
<1>3. ASSUME NEW n \in Mains \ {m} PROVE SameAt(n)
  <2>1. parts[n] \subseteq Executions \ Mains /\ p \notin parts[n] /\ n # p
    BY <1>1, OneMain
  <2>2. status'[n] = status[n] /\ \A q \in parts[n] : status'[q] = status[q]
    BY <1>2, <2>1 DEF Orders
  <2> QED
    BY <2>2 DEF SameAt
<1>4. \A q \in Executions \ parts[m] : status'[q] = status[q]
  BY <1>2, FulfillmentAssumption DEF Orders
<1>5. WithinOrder(m)
  BY <1>3, <1>4 DEF WithinOrder
<1>6. \A q \in parts[m] : status'[q] = IF q = p THEN "manager_review" ELSE status[q]
  BY <1>1, <1>2 DEF Orders
<1>7. status'[m] = IF status[m] \in {"cancelled", "delivered"} THEN status[m]
                   ELSE "manager_review"
  BY <1>1, <1>2 DEF Orders
<1> QED
  BY <1>5, <1>6, <1>7

\* The last part of main order m lies packed at the hub.
Arrived(m) == ActiveParts(m) # {} /\ AllPacked(m)

\* A part is packed or arrives; the main order is committed with its last part,
\* and ready if it has no other.
LEMMA SyncMainEffect ==
  ASSUME WholeInv, NEW m \in Mains, NEW p \in parts[m], NEW st,
         SyncMain(m, [status EXCEPT ![p] = st], stock_committed_at'),
         \A q \in parts[m] : status[q] = "packed" \/ (q = p /\ st = "packed")
                               => stock_committed_at'[q],
         \A q \in Documents \ {p} : stock_committed_at'[q] = stock_committed_at[q],
         UNCHANGED << stock_reserved_at, stock_released_at, parts >>
  PROVE  /\ WithinOrder(m)
         /\ \A q \in parts[m] : status'[q] = IF q = p THEN st ELSE status[q]
         /\ status'[m] = IF /\ Arrived(m)' /\ Cardinality(ActiveParts(m))' = 1
                            /\ status[m] = "confirmed"
                         THEN "ready_for_delivery" ELSE status[m]
         /\ Arrived(m)' => main_stock_committed_at'[m]
         /\ main_stock_committed_at'[m] => main_stock_committed_at[m] \/ Arrived(m)'
<1> DEFINE new == [status EXCEPT ![p] = st]
           active == {q \in parts[m] : new[q] # "cancelled"}
           arrived == active # {} /\ \A q \in active : new[q] = "packed"
           alone == Cardinality(active) = 1 /\ new[m] = "confirmed"
           all == \A q \in active : stock_committed_at'[q]
<1>1. parts[m] \subseteq Executions /\ m \notin parts[m]
  BY OneMain
<1>2. status \in [Orders -> Statuses] /\ main_stock_committed_at \in [Mains -> BOOLEAN]
  BY DEF WholeInv, TypeOK
<1>3. /\ new \in [Orders -> Statuses \cup {st}]
      /\ \A q \in Orders : new[q] = IF q = p THEN st ELSE status[q]
  BY <1>1, <1>2
<1>4. /\ main_stock_committed_at' = [main_stock_committed_at EXCEPT ![m] = @ \/ (arrived /\ all)]
      /\ status' = IF arrived /\ alone THEN [new EXCEPT ![m] = "ready_for_delivery"] ELSE new
  BY DEF SyncMain
<1>5. /\ \A q \in Executions : status'[q] = new[q]
      /\ \A n \in Mains \ {m} : status'[n] = new[n]
      /\ status'[m] = IF arrived /\ alone THEN "ready_for_delivery" ELSE new[m]
  <2> HIDE DEF arrived, alone, new
  <2>1. CASE arrived /\ alone
    BY <1>3, <1>4, <2>1, FulfillmentAssumption DEF Orders
  <2>2. CASE ~(arrived /\ alone)
    BY <1>4, <2>2
  <2> QED
    BY <2>1, <2>2
<1>6. \A q \in parts[m] : status'[q] = IF q = p THEN st ELSE status[q]
  BY <1>1, <1>3, <1>5 DEF Orders
<1>7. ASSUME NEW n \in Mains \ {m} PROVE SameAt(n)
  <2>1. parts[n] \subseteq Executions \ {p} /\ p # n
    BY <1>1, OneMain
  <2>2. status'[n] = status[n] /\ \A q \in parts[n] : status'[q] = status[q]
    BY <1>3, <1>5, <2>1 DEF Orders
  <2>3. main_stock_committed_at'[n] = main_stock_committed_at[n]
    BY <1>2, <1>4
  <2> QED
    BY <2>1, <2>2, <2>3 DEF SameAt, Documents
<1>8. WithinOrder(m)
  <2>1. \A q \in Executions \ parts[m] : status'[q] = status[q]
    BY <1>3, <1>5 DEF Orders
  <2> QED
    BY <1>7, <2>1 DEF WithinOrder
<1>9. ActiveParts(m)' = active /\ (Arrived(m)' <=> arrived)
  BY <1>1, <1>5 DEF ActiveParts, AllPacked, Arrived
<1>10. new[m] = status[m]
  BY <1>1, <1>3 DEF Orders
<1>11. arrived => all
  BY <1>1, <1>3 DEF Orders
<1>12. (Arrived(m)' => main_stock_committed_at'[m])
       /\ (main_stock_committed_at'[m] => main_stock_committed_at[m] \/ Arrived(m)')
  <2> HIDE DEF arrived, active, all, new
  <2>1. main_stock_committed_at'[m] = (main_stock_committed_at[m] \/ (arrived /\ all))
    BY <1>2, <1>4
  <2> QED
    BY <1>9, <1>11, <2>1
<1>13. status'[m] = IF /\ Arrived(m)' /\ Cardinality(ActiveParts(m))' = 1
                       /\ status[m] = "confirmed"
                    THEN "ready_for_delivery" ELSE status[m]
  <2> HIDE DEF arrived, active, new
  <2> QED
    BY <1>5, <1>9, <1>10
<1> QED
  BY <1>6, <1>8, <1>12, <1>13

\* A package goes back to the shelf; its part and its main order are open again.
LEMMA ReturnEffect ==
  ASSUME WholeInv, NEW m \in Mains, NEW p \in parts[m], ReturnPart(m, p)
  PROVE  /\ WithinOrder(m) /\ status'[m] = "confirmed" /\ ~main_stock_committed_at'[m]
         /\ \A q \in parts[m] : status'[q] = IF q = p THEN "confirmed" ELSE status[q]
         /\ \A q \in Documents \ {p} : stock_committed_at'[q] = stock_committed_at[q]
         /\ ~stock_committed_at'[p]
         /\ UNCHANGED << stock_reserved_at, stock_released_at >>
<1>1. parts[m] \subseteq Executions /\ m \notin parts[m]
  BY OneMain
<1>2. restoreCommittedOnlineStockForOrder(p)
  BY DEF ReturnPart
<1>3. /\ \A q \in Documents \ {p} : stock_committed_at'[q] = stock_committed_at[q]
      /\ stock_reserved_at' = stock_reserved_at
      /\ stock_released_at' = stock_released_at
      /\ ~stock_committed_at'[p]
  BY <1>1, <1>2, RestoreStamps DEF WholeInv, TypeOK
<1>4. /\ \A q \in Orders : status'[q] = IF q \in {m, p} THEN "confirmed" ELSE status[q]
      /\ \A n \in Mains : main_stock_committed_at'[n] =
                            IF n = m THEN FALSE ELSE main_stock_committed_at[n]
      /\ parts' = parts
  BY DEF ReturnPart, Rows, WholeInv, TypeOK
<1>5. ASSUME NEW n \in Mains \ {m} PROVE SameAt(n)
  <2>1. parts[n] \subseteq Executions \ {p} /\ m \notin parts[n] /\ p # n
    BY <1>1, OneMain
  <2>2. status'[n] = status[n] /\ \A q \in parts[n] : status'[q] = status[q]
    BY <1>4, <2>1 DEF Orders
  <2> QED
    BY <1>3, <1>4, <2>1, <2>2 DEF SameAt, Documents
<1>6. status'[m] = "confirmed"
      /\ \A q \in parts[m] : status'[q] = IF q = p THEN "confirmed" ELSE status[q]
  BY <1>1, <1>4 DEF Orders
<1>7. \A q \in Executions \ parts[m] : status'[q] = status[q]
  BY <1>4, FulfillmentAssumption DEF Orders
<1> QED
  BY <1>3, <1>4, <1>5, <1>6, <1>7 DEF WithinOrder

------------------------------------------------------------------------------
(* Each operation keeps every order whole.                                  *)

\* What nobody touched is as whole as it was.
LEMMA SameOrder ==
  ASSUME NEW n \in Mains, OrderOK(n), SameAt(n)
  PROVE  OrderOK(n)'
<1>1. ActiveParts(n)' = ActiveParts(n) /\ AllPacked(n)' = AllPacked(n)
  BY DEF ActiveParts, AllPacked, SameAt
<1>2. AllocatedAt(n)' /\ PlacedAt(n)' /\ PackedAt(n)' /\ CancelledAt(n)'
  BY DEF SameAt, OrderOK, AllocatedAt, PlacedAt, PackedAt, CancelledAt
<1>3. StampedAt(n)' /\ WholeAt(n)'
  BY <1>1 DEF SameAt, OrderOK, StampedAt, WholeAt
<1> QED
  BY <1>2, <1>3 DEF OrderOK

\* A step of one order keeps the others.
LEMMA OtherOrders ==
  ASSUME WholeInv, NEW m \in Mains, \A n \in Mains \ {m} : SameAt(n), OrderOK(m)'
  PROVE  \A n \in Mains : OrderOK(n)'
  BY SameOrder DEF WholeInv

\* An order with new parts: none of them is packed.
LEMMA WholeNewParts ==
  ASSUME WholeInv, NEW m \in Mains, NEW A \in Allocations[m], NewParts(m, A)
  PROVE  \A n \in Mains : OrderOK(n)'
<1>1. A \subseteq Executions /\ A # {}
  BY Allocated
<1>2. AllocatedAt(m)' /\ PlacedAt(m)' /\ PackedAt(m)' /\ CancelledAt(m)'
  BY <1>1 DEF NewParts, AllocatedAt, PlacedAt, PackedAt, CancelledAt,
         AwayFromShelf
<1>3. StampedAt(m)' /\ WholeAt(m)'
  BY <1>1 DEF NewParts, StampedAt, WholeAt, ActiveParts, AllPacked
<1> QED
  BY <1>2, <1>3, OtherOrders DEF OrderOK, NewParts

\* A status written to a main order: a hand-over only with all parts packed.
LEMMA MainChanges ==
  ASSUME WholeInv, NEW m \in Mains, NEW st, ChangesStatus(m, st), st # "none",
         status[m] # "none",
         st \in {"processing", "ready_for_delivery", "shipped", "delivered"} =>
           ActiveParts(m) # {} /\ AllPacked(m)
  PROVE  \A n \in Mains : OrderOK(n)'
<1>1. parts[m] \subseteq Executions /\ m \notin parts[m]
  BY OneMain
<1>2. ActiveParts(m)' = ActiveParts(m) /\ AllPacked(m)' = AllPacked(m)
  BY <1>1 DEF ActiveParts, AllPacked, ChangesStatus, Orders
<1>3. OrderOK(m)
  BY DEF WholeInv
<1>4. \A p \in parts[m] : status'[p] = status[p]
  BY <1>1 DEF ChangesStatus, Orders
<1>5. status'[m] = st
  BY DEF ChangesStatus, Orders
<1>6. AllocatedAt(m)' /\ PlacedAt(m)' /\ PackedAt(m)' /\ CancelledAt(m)'
  BY <1>3, <1>4, <1>5 DEF ChangesStatus, OrderOK, AllocatedAt, PlacedAt, PackedAt, CancelledAt
<1>7. StampedAt(m)' /\ WholeAt(m)'
  BY <1>2, <1>3, <1>5 DEF ChangesStatus, OrderOK, StampedAt, WholeAt
<1>8. WithinOrder(m)
  BY ChangeEffect DEF Orders
<1> QED
  BY <1>6, <1>7, <1>8, OtherOrders DEF OrderOK, WithinOrder

\* A part changes its status to one that is not packed: the order was not whole
\* before, and is not after.
LEMMA PartChanges ==
  ASSUME WholeInv, NEW m \in Mains, NEW p \in parts[m], NEW st, ChangesStatus(p, st),
         st \notin {"packed", "cancelled", "none"}, status[p] # "packed",
         st \in AwayFromShelf => stock_committed_at[p]
  PROVE  \A n \in Mains : OrderOK(n)'
<1>1. parts[m] \subseteq Executions /\ m \notin parts[m]
  BY OneMain
<1>2. OrderOK(m)
  BY DEF WholeInv
<1>3. /\ \A q \in parts[m] : status'[q] = IF q = p THEN st ELSE status[q]
      /\ status'[m] = status[m]
  BY <1>1 DEF ChangesStatus, Orders
<1>4. ~AllPacked(m)'
  BY <1>3 DEF ActiveParts, AllPacked, ChangesStatus
<1>5. ~(ActiveParts(m) # {} /\ AllPacked(m))
  <2>1. CASE status[p] = "cancelled"
    <3>1. stock_released_at[p] /\ \A q \in parts[m] : stock_released_at[q]
      BY <1>2, <2>1 DEF OrderOK, CancelledAt
    <3>2. \A q \in parts[m] : status[q] # "packed"
      BY <1>1, <1>2, <3>1 DEF OrderOK, PackedAt, AwayFromShelf, WholeInv, StampsAgree, Documents
    <3> QED
      BY <3>2 DEF ActiveParts, AllPacked
  <2>2. CASE status[p] # "cancelled"
    BY <2>2 DEF ActiveParts, AllPacked
  <2> QED
    BY <2>1, <2>2
<1>6. AllocatedAt(m)' /\ PlacedAt(m)' /\ PackedAt(m)' /\ CancelledAt(m)'
  BY <1>2, <1>3 DEF ChangesStatus, OrderOK, AllocatedAt, PlacedAt, PackedAt, CancelledAt
<1>7. StampedAt(m)' /\ WholeAt(m)'
  BY <1>2, <1>3, <1>4, <1>5 DEF ChangesStatus, OrderOK, StampedAt, WholeAt
<1>8. p \in Orders
  BY <1>1 DEF Orders
<1>9. WithinOrder(m)
  BY <1>8, ChangeEffect
<1> QED
  BY <1>6, <1>7, <1>9, OtherOrders DEF OrderOK, WithinOrder

\* A status an administrator or a manager writes to a main order: a hand-over
\* finds all parts packed and leaves them so, anything else packs no part.
LEMMA WholeSynced ==
  ASSUME WholeInv, NEW m \in Mains, NEW st \in AdminTargets, status' = SyncedStatus(m, st),
         status[m] # "none",
         UNCHANGED << stock_reserved_at, stock_released_at, stock_committed_at, parts,
                      main_stock_committed_at >>,
         st \in {"shipped", "delivered"} => status[m] \in {"ready_for_delivery", "shipped"}
  PROVE  \A n \in Mains : OrderOK(n)'
<1>1. OrderOK(m)
  BY DEF WholeInv
<1>2. /\ WithinOrder(m) /\ status'[m] = st
      /\ \A p \in parts[m] :
           status'[p] = IF /\ status[p] \notin {"cancelled", "packed", "delivered"}
                           /\ st = "confirmed" => status[p] \in {"pending", "manager_review"}
                        THEN st ELSE status[p]
  BY SyncedEffect
<1>3. CASE st \in {"shipped", "delivered"}
  <2>1. ActiveParts(m) # {} /\ AllPacked(m)
    BY <1>1, <1>3 DEF OrderOK, WholeAt
  <2>2. \A p \in parts[m] : status'[p] = status[p]
    BY <1>2, <2>1 DEF ActiveParts, AllPacked
  <2>3. ActiveParts(m)' = ActiveParts(m) /\ AllPacked(m)' = AllPacked(m)
    BY <2>2 DEF ActiveParts, AllPacked
  <2>4. AllocatedAt(m)' /\ PlacedAt(m)' /\ PackedAt(m)' /\ CancelledAt(m)'
    BY <1>1, <1>2, <1>3, <2>2 DEF OrderOK, AllocatedAt, PlacedAt, PackedAt, CancelledAt
  <2>5. StampedAt(m)' /\ WholeAt(m)'
    BY <1>1, <2>1, <2>3 DEF OrderOK, StampedAt, WholeAt
  <2> QED
    BY <1>2, <2>4, <2>5, OtherOrders DEF OrderOK, WithinOrder
<1>4. CASE st \in {"pending", "confirmed"}
  <2>1. AllocatedAt(m)' /\ PlacedAt(m)' /\ PackedAt(m)' /\ CancelledAt(m)'
    BY <1>1, <1>2, <1>4 DEF OrderOK, AllocatedAt, PlacedAt, PackedAt, CancelledAt,
         AwayFromShelf
  <2>2. WholeAt(m)'
    BY <1>2, <1>4 DEF WholeAt
  <2>3. ActiveParts(m)' # {} /\ AllPacked(m)' => ActiveParts(m) # {} /\ AllPacked(m)
    <3>1. \A p \in parts[m] : /\ status'[p] = "packed" => status[p] = "packed"
                              /\ status'[p] = "cancelled" => status[p] = "cancelled"
      BY <1>2, <1>4
    <3> QED
      BY <3>1 DEF ActiveParts, AllPacked
  <2>4. StampedAt(m)'
    BY <1>1, <2>3 DEF OrderOK, StampedAt
  <2> QED
    BY <1>2, <2>1, <2>2, <2>4, OtherOrders DEF OrderOK, WithinOrder
<1> QED
  BY <1>3, <1>4 DEF AdminTargets

\* A cancelled order has given every reserve back.
LEMMA WholeCancel ==
  ASSUME WholeInv, NEW m \in Mains, CancelOrder(m), status[m] # "none"
  PROVE  \A n \in Mains : OrderOK(n)'
<1>1. OrderOK(m)
  BY DEF WholeInv
<1>2. /\ WithinOrder(m) /\ status'[m] = "cancelled"
      /\ \A p \in parts[m] : status'[p] = "cancelled" /\ stock_released_at'[p]
      /\ UNCHANGED << stock_reserved_at, stock_committed_at, main_stock_committed_at >>
  BY CancelEffect
<1>3. AllocatedAt(m)' /\ PlacedAt(m)' /\ PackedAt(m)' /\ CancelledAt(m)'
  BY <1>1, <1>2 DEF WithinOrder, OrderOK, AllocatedAt, PlacedAt, PackedAt, CancelledAt,
         AwayFromShelf
<1>4. StampedAt(m)' /\ WholeAt(m)'
  BY <1>2 DEF WithinOrder, StampedAt, WholeAt, ActiveParts
<1> QED
  BY <1>2, <1>3, <1>4, OtherOrders DEF OrderOK, WithinOrder

\* A row in work goes to the manager: a main order, or a part with its main order.
LEMMA WholeReview ==
  ASSUME WholeInv, NEW o \in Orders, status[o] = "processing", Live(o), ToReview(o),
         UNCHANGED << stock_reserved_at, stock_released_at, stock_committed_at, parts,
                      main_stock_committed_at >>
  PROVE  \A n \in Mains : OrderOK(n)'
<1>1. CASE o \in Mains
  <2>1. ChangesStatus(o, "manager_review")
    BY <1>1, MainReviewEffect
  <2> QED
    BY <1>1, <2>1, MainChanges
<1>2. ASSUME NEW n \in Mains, o \in parts[n] PROVE \A k \in Mains : OrderOK(k)'
  <2>1. /\ WithinOrder(n)
        /\ status'[n] = IF status[n] \in {"cancelled", "delivered"} THEN status[n]
                        ELSE "manager_review"
        /\ \A q \in parts[n] : status'[q] = IF q = o THEN "manager_review" ELSE status[q]
    BY <1>2, PartReviewEffect
  <2>2. OrderOK(n)
    BY DEF WholeInv
  <2>3. ~AllPacked(n)
    BY <1>2 DEF AllPacked, ActiveParts
  <2>4. status[n] \notin {"processing", "ready_for_delivery", "shipped", "delivered"}
    BY <2>2, <2>3 DEF OrderOK, WholeAt
  <2>5. ~AllPacked(n)'
    BY <1>2, <2>1 DEF AllPacked, ActiveParts, WithinOrder
  <2>6. AllocatedAt(n)' /\ PlacedAt(n)' /\ PackedAt(n)' /\ CancelledAt(n)'
    BY <1>2, <2>1, <2>2 DEF WithinOrder, OrderOK, AllocatedAt, PlacedAt, PackedAt,
                            CancelledAt,
         AwayFromShelf
  <2>7. StampedAt(n)' /\ WholeAt(n)'
    BY <2>1, <2>4, <2>5 DEF StampedAt, WholeAt
  <2> QED
    BY <2>1, <2>6, <2>7, OtherOrders DEF OrderOK, WithinOrder
<1> QED
  BY <1>1, <1>2 DEF Live

\* A part is packed or arrives, and the main order with it if it was the last.
LEMMA WholeSyncMain ==
  ASSUME WholeInv, NEW m \in Mains, NEW p \in parts[m], NEW st,
         SyncMain(m, [status EXCEPT ![p] = st], stock_committed_at'),
         st \in {"ready_for_delivery", "packed"}, status[p] \notin {"packed", "cancelled"},
         stock_committed_at'[p],
         \A q \in Documents \ {p} : stock_committed_at'[q] = stock_committed_at[q],
         UNCHANGED << stock_reserved_at, stock_released_at, parts >>
  PROVE  /\ \A n \in Mains : OrderOK(n)'
         /\ WithinOrder(m)
         /\ \A q \in parts[m] : status'[q] = IF q = p THEN st ELSE status[q]
         /\ status'[m] = IF /\ Arrived(m)' /\ Cardinality(ActiveParts(m))' = 1
                            /\ status[m] = "confirmed"
                         THEN "ready_for_delivery" ELSE status[m]
         /\ main_stock_committed_at'[m] => main_stock_committed_at[m] \/ Arrived(m)'
<1>1. parts[m] \subseteq Executions /\ m \notin parts[m]
  BY OneMain
<1>2. OrderOK(m)
  BY DEF WholeInv
<1>3. \A q \in parts[m] : status[q] \in AwayFromShelf \/ q = p => stock_committed_at'[q]
  BY <1>1, <1>2 DEF OrderOK, PackedAt, Documents
<1>4. /\ WithinOrder(m)
      /\ \A q \in parts[m] : status'[q] = IF q = p THEN st ELSE status[q]
      /\ status'[m] = IF /\ Arrived(m)' /\ Cardinality(ActiveParts(m))' = 1
                         /\ status[m] = "confirmed"
                      THEN "ready_for_delivery" ELSE status[m]
      /\ Arrived(m)' => main_stock_committed_at'[m]
      /\ main_stock_committed_at'[m] => main_stock_committed_at[m] \/ Arrived(m)'
  BY <1>3, SyncMainEffect DEF AwayFromShelf
<1>5. ~(ActiveParts(m) # {} /\ AllPacked(m))
  BY DEF ActiveParts, AllPacked
<1>6. status[m] \notin {"processing", "ready_for_delivery", "shipped", "delivered"}
  BY <1>2, <1>5 DEF OrderOK, WholeAt
<1>7. AllocatedAt(m)' /\ PlacedAt(m)'
  BY <1>2, <1>4 DEF OrderOK, AllocatedAt, PlacedAt
<1>8. PackedAt(m)' /\ CancelledAt(m)'
  BY <1>2, <1>3, <1>4 DEF OrderOK, PackedAt, CancelledAt
<1>9. StampedAt(m)'
  BY <1>4 DEF StampedAt, Arrived
<1>10. WholeAt(m)'
  BY <1>4, <1>6 DEF WholeAt, Arrived
<1> QED
  BY <1>4, <1>7, <1>8, <1>9, <1>10, OtherOrders DEF OrderOK, WithinOrder

\* A package goes back to the shelf.
LEMMA WholeReturn ==
  ASSUME WholeInv, NEW m \in Mains, NEW p \in parts[m], ReturnPart(m, p)
  PROVE  \A n \in Mains : OrderOK(n)'
<1>1. OrderOK(m) /\ parts[m] \subseteq Executions
  BY OneMain DEF WholeInv
<1>2. /\ WithinOrder(m) /\ status'[m] = "confirmed"
      /\ \A q \in parts[m] : status'[q] = IF q = p THEN "confirmed" ELSE status[q]
      /\ \A q \in Documents \ {p} : stock_committed_at'[q] = stock_committed_at[q]
      /\ UNCHANGED << stock_reserved_at, stock_released_at >>
  BY ReturnEffect
<1>3. ~AllPacked(m)'
  BY <1>2 DEF AllPacked, ActiveParts, WithinOrder
<1>4. AllocatedAt(m)' /\ PlacedAt(m)' /\ PackedAt(m)' /\ CancelledAt(m)'
  BY <1>1, <1>2 DEF WithinOrder, OrderOK, AllocatedAt, PlacedAt, PackedAt, CancelledAt,
                    AwayFromShelf, Documents
<1>5. StampedAt(m)' /\ WholeAt(m)'
  BY <1>2, <1>3 DEF StampedAt, WholeAt
<1> QED
  BY <1>2, <1>4, <1>5, OtherOrders DEF OrderOK, WithinOrder

\* A step of the ledger keeps its types and stamps.
LEMMA LedgerKeeps ==
  ASSUME LedgerTypeOK, StampsAgree, [LedgerNext]_ledgerVars
  PROVE  LedgerTypeOK' /\ StampsAgree'
  BY TypesStep, StampsStep

\* A release for some parts of an order, which the ledger alone does not offer,
\* keeps them too.
LEMMA CancelKeepsStamps ==
  ASSUME LedgerTypeOK, StampsAgree, NEW S, S \subseteq Executions,
         releaseOnlineStockForOrder(S)
  PROVE  LedgerTypeOK' /\ StampsAgree'
<1>1. /\ \A p \in Documents : stock_released_at[p] => stock_released_at'[p]
      /\ \A p \in Documents \ S : stock_released_at'[p] = stock_released_at[p]
      /\ \A p \in S : ~stock_released_at[p] => ~stock_committed_at[p]
      /\ \A p \in S : stock_released_at'[p] => stock_reserved_at[p] \/ stock_released_at[p]
      /\ stock_reserved_at' = stock_reserved_at
      /\ stock_committed_at' = stock_committed_at
  BY ReleaseStamps
<1>2. seller_revision' = seller_revision
  BY DEF releaseOnlineStockForOrder
<1>3. ASSUME NEW o \in Documents
      PROVE  /\ stock_committed_at'[o] => stock_reserved_at'[o] /\ ~stock_released_at'[o]
             /\ stock_released_at'[o] => stock_reserved_at'[o]
  <2>1. CASE o \in S
    BY <1>1, <2>1 DEF StampsAgree
  <2>2. CASE o \notin S
    BY <1>1, <2>2 DEF StampsAgree
  <2> QED
    BY <2>1, <2>2
<1>4. StampsAgree'
  BY <1>1, <1>2, <1>3 DEF StampsAgree
<1> QED
  BY <1>4, ReleaseKeepsTypes

\* The types of the rows of orders and cases.
OrderTypes ==
  /\ status \in [Orders -> Statuses]
  /\ picker_id \in [Orders -> Pickers \cup {Nobody}]
  /\ courier_id \in [Orders -> Couriers \cup {Admin, Nobody}]
  /\ shipped_at \subseteq Orders
  /\ parts \in [Mains -> SUBSET Executions]
  /\ main_stock_committed_at \in [Mains -> BOOLEAN]
  /\ issue \in [Executions -> [Inventories -> IssueStatuses]]

\* The types after a part was packed.
LEMMA SyncMainTypes ==
  ASSUME OrderTypes, NEW m \in Mains, NEW p \in parts[m], NEW st \in Statuses, NEW committed,
         SyncMain(m, [status EXCEPT ![p] = st], committed)
  PROVE  /\ status' \in [Orders -> Statuses]
         /\ main_stock_committed_at' \in [Mains -> BOOLEAN]
<1> DEFINE new == [status EXCEPT ![p] = st]
           active == {q \in parts[m] : new[q] # "cancelled"}
           arrived == active # {} /\ \A q \in active : new[q] = "packed"
           alone == Cardinality(active) = 1 /\ new[m] = "confirmed"
           all == \A q \in active : committed[q]
<1>1. new \in [Orders -> Statuses]
  BY DEF OrderTypes
<1>2. /\ main_stock_committed_at' = [main_stock_committed_at EXCEPT ![m] = @ \/ (arrived /\ all)]
      /\ status' = IF arrived /\ alone THEN [new EXCEPT ![m] = "ready_for_delivery"] ELSE new
  BY DEF SyncMain
<1> HIDE DEF new, active, arrived, alone, all
<1>3. status' \in [Orders -> Statuses]
  BY <1>1, <1>2 DEF Statuses
<1>4. main_stock_committed_at' \in [Mains -> BOOLEAN]
  BY <1>2 DEF OrderTypes
<1> QED
  BY <1>3, <1>4

\* Every step keeps the types of the rows.
LEMMA OrderTypesStep == OrderTypes /\ WholeInv /\ Next => OrderTypes'
<1> SUFFICES ASSUME OrderTypes, WholeInv, Next PROVE OrderTypes'
  OBVIOUS
<1> USE DEF OrderTypes
<1>1. ASSUME NEW m \in Mains, NEW A \in Allocations[m], Place(m, A) \/ ManagerEdit(m, A)
      PROVE  OrderTypes'
  <2>1. A \subseteq Executions
    BY Allocated
  <2>2. parts' = [parts EXCEPT ![m] = A]
    BY <1>1 DEF Place, ManagerEdit
  <2>3. parts' \in [Mains -> SUBSET Executions]
    BY <2>1, <2>2
  <2>4. status[m] \in Statuses
    BY DEF Orders
  <2>5. status' \in [Orders -> Statuses]
    BY <1>1, <2>4 DEF Place, ManagerEdit, Rows, Statuses
  <2> QED
    BY <1>1, <2>3, <2>5 DEF Place, ManagerEdit
<1>2. ASSUME NEW m \in Mains, ManagerConfirm(m) \/ CustomerCancel(m) \/ ManagerCancel(m)
      PROVE  OrderTypes'
  BY <1>2 DEF ManagerConfirm, SyncedStatus, CustomerCancel, ManagerCancel, CancelOrder,
              Rows, Statuses
<1>3. ASSUME NEW m \in Mains, NEW p \in parts[m], ReturnPart(m, p)
      PROVE  OrderTypes'
  BY <1>3 DEF ReturnPart, Rows, Statuses
<1>4. ASSUME NEW m \in Mains, NEW p \in Executions, ReceiveTransfer(m, p)
      PROVE  OrderTypes'
  BY <1>4, SyncMainTypes DEF ReceiveTransfer, Statuses
<1>5. ASSUME NEW k \in Pickers, NEW o \in Orders,
             Take(k, o) \/ ReleasePicking(k, o) \/ Escalate(k, o)
      PROVE  OrderTypes'
  BY <1>5 DEF Take, ReleasePicking, Escalate, ToReview, Statuses
<1>6. ASSUME NEW k \in Pickers, NEW m \in Mains, CompleteMain(k, m) PROVE OrderTypes'
  BY <1>6 DEF CompleteMain, Statuses
<1>7. ASSUME NEW k \in Pickers, NEW m \in Mains, NEW p \in Executions, CompletePart(k, m, p)
      PROVE  OrderTypes'
  BY <1>7, SyncMainTypes DEF CompletePart, Statuses
<1>8. ASSUME NEW k \in Pickers, NEW p \in Executions, NEW i \in Inventories,
             ReportShortage(k, p, i)
      PROVE  OrderTypes'
  BY <1>8 DEF ReportShortage, ToReview, Statuses, IssueStatuses, Orders
<1>9. ASSUME NEW c \in Couriers \cup {Admin}, NEW o \in Orders,
             \/ Claim(c, o) \/ ReleaseDelivery(c, o) \/ Start(c, o) \/ Deliver(c, o)
             \/ AssignCourier(c, o)
      PROVE  OrderTypes'
  BY <1>9 DEF Claim, ReleaseDelivery, Start, Deliver, AssignCourier, Statuses
<1>10. ASSUME NEW o \in Orders, NEW st \in Statuses, AdminUpdate(o, st) PROVE OrderTypes'
  BY <1>10 DEF AdminUpdate, SyncedStatus
<1>11. ASSUME NEW p \in Executions, NEW i \in Inventories, IssueStep(p, i) PROVE OrderTypes'
  BY <1>11 DEF IssueStep, TakeIssue, ReleaseIssue, CloseIssue, MoveIssue, IssueStatuses
<1>12. CASE AdjustStock
  BY <1>12 DEF AdjustStock, orderVars
<1> QED
  BY <1>1, <1>2, <1>3, <1>4, <1>5, <1>6, <1>7, <1>8, <1>9, <1>10, <1>11, <1>12
     DEF Next, OrderStep, PickerStep, CourierStep, ReturnByPart, ReturnByMain, ActiveParts

\* A step that touches no row and no stamp keeps every order.
LEMMA UnchangedOrders ==
  ASSUME WholeInv,
         UNCHANGED << stock_reserved_at, stock_released_at, stock_committed_at,
                      status, parts, main_stock_committed_at >>
  PROVE  \A n \in Mains : OrderOK(n)'
<1>1. \A n \in Mains : SameAt(n)
  BY DEF SameAt
<1> QED
  BY <1>1, SameOrder DEF WholeInv

\* Every step keeps every order whole.
LEMMA WholeStep == WholeInv /\ Next => \A n \in Mains : OrderOK(n)'
<1> SUFFICES ASSUME WholeInv, Next PROVE \A n \in Mains : OrderOK(n)'
  OBVIOUS
<1> DEFINE Goal == \A n \in Mains : OrderOK(n)'
<1>1. ASSUME NEW m \in Mains, NEW A \in Allocations[m], Place(m, A) PROVE Goal
  BY <1>1, PlaceEffect, WholeNewParts
<1>2. ASSUME NEW m \in Mains, NEW A \in Allocations[m], ManagerEdit(m, A) PROVE Goal
  BY <1>2, EditEffect, WholeNewParts
<1>3. ASSUME NEW m \in Mains, ManagerConfirm(m) PROVE Goal
  BY <1>3, WholeSynced DEF ManagerConfirm, ledgerVars, AdminTargets
<1>4. ASSUME NEW m \in Mains, CustomerCancel(m) \/ ManagerCancel(m) PROVE Goal
  BY <1>4, WholeCancel DEF CustomerCancel, ManagerCancel, canBeCancelled, canBeCancelledByManager
<1>5. ASSUME NEW m \in Mains, NEW p \in parts[m], ReturnPart(m, p) PROVE Goal
  BY <1>5, WholeReturn
<1>6. ASSUME NEW m \in Mains, NEW p \in Executions, ReceiveTransfer(m, p) PROVE Goal
  <2>1. p \in parts[m] /\ status[p] = "awaiting_receipt"
    BY <1>6 DEF ReceiveTransfer
  <2>2. SyncMain(m, [status EXCEPT ![p] = "packed"], stock_committed_at')
        /\ UNCHANGED << stock_reserved_at, stock_released_at, stock_committed_at, parts >>
    BY <1>6 DEF ReceiveTransfer, ledgerVars
  <2>3. stock_committed_at[p]
    BY <2>1 DEF WholeInv, OrderOK, PackedAt, AwayFromShelf
  <2> QED
    BY <2>1, <2>2, <2>3, WholeSyncMain
<1>7. ASSUME NEW k \in Pickers, NEW o \in Orders, Take(k, o) PROVE Goal
  <2>1. ChangesStatus(o, "processing") /\ status[o] = "confirmed" /\ PickingJob(o)
    BY <1>7, OneRow DEF Take
  <2>2. CASE \E m \in Mains : o \in parts[m]
    BY <2>1, <2>2, PartChanges DEF AwayFromShelf
  <2>3. CASE o \in Mains /\ Cardinality(ActiveParts(o)) >= 2 /\ AllPacked(o)
    <3>1. ActiveParts(o) # {}
      BY <2>3, FS_EmptySet
    <3> QED
      BY <2>1, <2>3, <3>1, MainChanges
  <2> QED
    BY <2>1, <2>2, <2>3 DEF PickingJob
<1>8. ASSUME NEW k \in Pickers, NEW o \in Orders, ReleasePicking(k, o) PROVE Goal
  <2>1. ChangesStatus(o, "confirmed") /\ status[o] = "processing" /\ PickingJob(o)
    BY <1>8, OneRow DEF ReleasePicking, OwnedProcessing
  <2>2. CASE \E m \in Mains : o \in parts[m]
    BY <2>1, <2>2, PartChanges DEF AwayFromShelf
  <2>3. CASE o \in Mains
    BY <2>1, <2>3, MainChanges
  <2> QED
    BY <2>1, <2>2, <2>3 DEF PickingJob
<1>9. ASSUME NEW o \in Orders, NEW k \in Pickers, Escalate(k, o) PROVE Goal
  BY <1>9, WholeReview DEF Escalate, OwnedProcessing, ledgerVars
<1>10. ASSUME NEW k \in Pickers, NEW p \in Executions, NEW i \in Inventories,
              ReportShortage(k, p, i)
       PROVE  Goal
  BY <1>10, WholeReview DEF ReportShortage, OwnedProcessing, ledgerVars, Orders
<1>11. ASSUME NEW k \in Pickers, NEW m \in Mains, CompleteMain(k, m) PROVE Goal
  <2>1. ChangesStatus(m, "ready_for_delivery") /\ status[m] = "processing"
    BY <1>11, OneRow DEF CompleteMain, OwnedProcessing, Orders
  <2>2. ActiveParts(m) # {} /\ AllPacked(m)
    BY <2>1 DEF WholeInv, OrderOK, WholeAt
  <2> QED
    BY <2>1, <2>2, MainChanges
<1>12. ASSUME NEW k \in Pickers, NEW m \in Mains, NEW p \in Executions, CompletePart(k, m, p)
       PROVE  Goal
  <2> DEFINE st == IF p \in Transfers THEN "ready_for_delivery" ELSE "packed"
  <2>1. p \in parts[m] /\ status[p] = "processing" /\ commitOnlineStockForOrder(p)
        /\ SyncMain(m, [status EXCEPT ![p] = st], stock_committed_at') /\ parts' = parts
    BY <1>12 DEF CompletePart, OwnedProcessing
  <2>2. st \in {"ready_for_delivery", "packed"}
    OBVIOUS
  <2>3. /\ stock_committed_at'[p]
        /\ \A q \in Documents \ {p} : stock_committed_at'[q] = stock_committed_at[q]
        /\ UNCHANGED << stock_reserved_at, stock_released_at >>
    BY <2>1, CommitStamps DEF WholeInv, TypeOK
  <2> HIDE DEF st
  <2> QED
    BY <2>1, <2>2, <2>3, WholeSyncMain
<1>13. ASSUME NEW c \in Couriers \cup {Admin}, NEW o \in Orders,
              Claim(c, o) \/ ReleaseDelivery(c, o) \/ AssignCourier(c, o)
       PROVE  Goal
  BY <1>13, UnchangedOrders DEF Claim, ReleaseDelivery, AssignCourier, ledgerVars
<1>14. ASSUME NEW c \in Couriers \cup {Admin}, NEW o \in Orders, Start(c, o) PROVE Goal
  <2>1. ChangesStatus(o, "shipped") /\ status[o] = "ready_for_delivery" /\ Delivery(o)
    BY <1>14, OneRow DEF Start
  <2>2. CASE o \in Mains
    <3>1. ActiveParts(o) # {} /\ AllPacked(o)
      BY <2>1, <2>2 DEF WholeInv, OrderOK, WholeAt
    <3> QED
      BY <2>1, <2>2, <3>1, MainChanges
  <2>3. ASSUME NEW m \in Mains, o \in parts[m] PROVE Goal
    <3>1. stock_committed_at[o]
      BY <2>1, <2>3 DEF WholeInv, OrderOK, PackedAt, AwayFromShelf
    <3> QED
      BY <2>1, <2>3, <3>1, PartChanges
  <2> QED
    BY <2>1, <2>2, <2>3, FulfillmentAssumption DEF Delivery, Live
<1>15. ASSUME NEW c \in Couriers \cup {Admin}, NEW o \in Orders, Deliver(c, o) PROVE Goal
  <2> DEFINE st == IF o \in Transfers THEN "awaiting_receipt" ELSE "delivered"
  <2>1. ChangesStatus(o, st) /\ status[o] = "shipped" /\ Delivery(o)
    BY <1>15, OneRow DEF Deliver
  <2>2. st \in {"awaiting_receipt", "delivered"}
    OBVIOUS
  <2> HIDE DEF st
  <2>3. CASE o \in Mains
    <3>1. ActiveParts(o) # {} /\ AllPacked(o)
      BY <2>1, <2>3 DEF WholeInv, OrderOK, WholeAt
    <3> QED
      BY <2>1, <2>2, <2>3, <3>1, MainChanges
  <2>4. ASSUME NEW m \in Mains, o \in parts[m] PROVE Goal
    <3>1. stock_committed_at[o]
      BY <2>1, <2>4 DEF WholeInv, OrderOK, PackedAt, AwayFromShelf
    <3> QED
      BY <2>1, <2>2, <2>4, <3>1, PartChanges
  <2> QED
    BY <2>1, <2>3, <2>4, FulfillmentAssumption DEF Delivery, Live
<1>16. ASSUME NEW o \in Orders, NEW st \in Statuses, AdminUpdate(o, st) PROVE Goal
  <2>1. /\ Live(o) /\ StatusMoveAllowed(o, st) /\ << Kind(o), status[o], st >> \in AdminMoves
        /\ status' = IF o \in Mains THEN SyncedStatus(o, st) ELSE [status EXCEPT ![o] = st]
        /\ UNCHANGED << ledgerVars, parts, main_stock_committed_at >>
    BY <1>16 DEF AdminUpdate
  <2>2. st \in AdminTargets
    BY <2>1, FulfillmentAssumption
  <2>3. CASE o \in Mains
    <3>1. status[o] # "none"
      BY <2>1, <2>3, OneMain DEF Live
    <3> QED
      BY <2>1, <2>2, <2>3, <3>1, WholeSynced DEF StatusMoveAllowed, ledgerVars
  <2>4. CASE o \notin Mains
    <3>1. PICK m \in Mains : o \in parts[m]
      BY <2>1, <2>4 DEF Live
    <3>2. ChangesStatus(o, st)
      BY <2>1, <2>4, OneRow
    <3>3. status[o] # "packed" /\ (st \in {"shipped", "delivered"} => stock_committed_at[o])
      BY <2>1, <2>4 DEF StatusMoveAllowed, committed_at
    <3> QED
      BY <2>2, <3>1, <3>2, <3>3, PartChanges DEF AdminTargets, AwayFromShelf
  <2> QED
    BY <2>3, <2>4
<1>17. ASSUME NEW p \in Executions, NEW i \in Inventories, IssueStep(p, i) PROVE Goal
  BY <1>17, UnchangedOrders
     DEF IssueStep, TakeIssue, ReleaseIssue, CloseIssue, MoveIssue, ledgerVars
<1>18. CASE AdjustStock
  BY <1>18, UnchangedOrders DEF AdjustStock, orderVars, Adjust, adjustQuantity
<1> QED
  BY <1>1, <1>2, <1>3, <1>4, <1>5, <1>6, <1>7, <1>8, <1>9, <1>10, <1>11, <1>12, <1>13,
     <1>14, <1>15, <1>16, <1>17, <1>18
     DEF Next, OrderStep, PickerStep, CourierStep, ReturnByPart, ReturnByMain, ActiveParts

\* Every step keeps the types and the stamps of the ledger.
LEMMA WholeLedgerStep == WholeInv /\ Next => LedgerTypeOK' /\ StampsAgree'
<1> SUFFICES ASSUME WholeInv, Next PROVE LedgerTypeOK' /\ StampsAgree'
  OBVIOUS
<1> DEFINE Goal == LedgerTypeOK' /\ StampsAgree'
<1>0. LedgerTypeOK /\ StampsAgree
  BY DEF WholeInv, TypeOK
<1>1. ASSUME NEW m \in Mains, NEW A \in Allocations[m], Place(m, A) PROVE Goal
  <2>1. A \in Batches
    BY Allocated
  <2>2. LedgerNext
    BY <1>1, <2>1 DEF Place, LedgerNext, ReserveOnline
  <2> QED
    BY <1>0, <2>2, LedgerKeeps
<1>2. ASSUME NEW m \in Mains, NEW A \in Allocations[m], ManagerEdit(m, A) PROVE Goal
  <2>1. replaceOnlineStock(parts[m], A) /\ \A p \in A : status[p] = "none"
    BY <1>2 DEF ManagerEdit
  <2>2. OrderOK(m) /\ status[m] # "none"
    BY <1>2 DEF WholeInv, ManagerEdit, Editable
  <2>3. parts[m] \in Allocations[m]
    BY <2>2 DEF OrderOK, AllocatedAt, PlacedAt
  <2>4. LedgerNext
    <3>1. A \in Batches /\ parts[m] \in Batches /\ parts[m] \cap A = {}
      BY <2>1, <2>2, <2>3, Allocated DEF OrderOK, AllocatedAt
    <3> QED
      BY <2>1, <3>1 DEF LedgerNext, ReplaceOnline
  <2> QED
    BY <1>0, <2>4, LedgerKeeps
<1>3. ASSUME NEW m \in Mains, CustomerCancel(m) \/ ManagerCancel(m) PROVE Goal
  <2> DEFINE open == {p \in parts[m] : status[p] # "cancelled"}
  <2>1. releaseOnlineStockForOrder(open)
    BY <1>3 DEF CustomerCancel, ManagerCancel, CancelOrder
  <2>2. open \subseteq Executions
    BY OneMain
  <2> QED
    BY <1>0, <2>1, <2>2, CancelKeepsStamps
<1>4. ASSUME NEW m \in Mains, NEW p \in parts[m], ReturnPart(m, p) PROVE Goal
  <2>1. p \in Executions
    BY OneMain
  <2>2. LedgerNext
    BY <1>4, <2>1 DEF ReturnPart, LedgerNext, RestoreOnline
  <2> QED
    BY <1>0, <2>2, LedgerKeeps
<1>5. ASSUME NEW k \in Pickers, NEW m \in Mains, NEW p \in Executions, CompletePart(k, m, p)
      PROVE  Goal
  <2>1. LedgerNext
    BY <1>5 DEF CompletePart, LedgerNext, CommitOnline
  <2> QED
    BY <1>0, <2>1, LedgerKeeps
<1>6. CASE AdjustStock
  <2>1. LedgerNext
    BY <1>6 DEF AdjustStock, LedgerNext
  <2> QED
    BY <1>0, <2>1, LedgerKeeps
<1>7. CASE UNCHANGED ledgerVars
  BY <1>0, <1>7, LedgerKeeps
<1> QED
  BY <1>1, <1>2, <1>3, <1>4, <1>5, <1>6, <1>7
     DEF Next, OrderStep, PickerStep, CourierStep, IssueStep, ReturnByPart, ReturnByMain,
         ActiveParts, ManagerConfirm, ReceiveTransfer, Take, ReleasePicking, Escalate,
         CompleteMain, ReportShortage, Claim, ReleaseDelivery, Start, Deliver,
         AssignCourier, AdminUpdate, TakeIssue, ReleaseIssue, CloseIssue, MoveIssue

\* The empty shop satisfies the invariant.
LEMMA WholeInit == Init => WholeInv
<1> SUFFICES ASSUME Init PROVE WholeInv
  OBVIOUS
<1>1. LedgerTypeOK /\ StampsAgree
  BY InitTypes DEF Init, LedgerInit, StampsAgree, Documents
<1>2. OrderTypes
  BY DEF Init, OrderTypes, Statuses, IssueStatuses
<1>3. \A m \in Mains : OrderOK(m)
  BY DEF Init, OrderOK, AllocatedAt, PlacedAt, PackedAt, CancelledAt, StampedAt, WholeAt,
         ActiveParts, Orders
<1> QED
  BY <1>1, <1>2, <1>3 DEF WholeInv, TypeOK, OrderTypes

\* Every step keeps the invariant.
LEMMA WholeInductive == WholeInv /\ [Next]_vars => WholeInv'
<1>1. ASSUME WholeInv, Next PROVE WholeInv'
  <2>1. OrderTypes'
    BY <1>1, OrderTypesStep DEF WholeInv, TypeOK, OrderTypes
  <2>2. LedgerTypeOK' /\ StampsAgree' /\ \A m \in Mains : OrderOK(m)'
    BY <1>1, WholeStep, WholeLedgerStep
  <2> QED
    BY <2>1, <2>2 DEF WholeInv, TypeOK, OrderTypes
<1>2. ASSUME WholeInv, UNCHANGED vars PROVE WholeInv'
  <2>1. LedgerTypeOK' /\ StampsAgree'
    BY <1>2, LedgerKeeps DEF WholeInv, TypeOK, vars
  <2>2. \A m \in Mains : OrderOK(m)'
    BY <1>2, UnchangedOrders DEF vars, ledgerVars, orderVars
  <2>3. OrderTypes'
    BY <1>2 DEF WholeInv, TypeOK, OrderTypes, vars, orderVars
  <2> QED
    BY <2>1, <2>2, <2>3 DEF WholeInv, TypeOK, OrderTypes
<1> QED
  BY <1>1, <1>2

\* The invariant holds in every state.
LEMMA WholeAlways == Spec => []WholeInv
  BY WholeInit, WholeInductive, PTL DEF Spec

\* Rows, stamps and balances keep their types, and no row is released and
\* committed at once, whatever administrators write.
THEOREM FulfilmentTypesAndStamps == Spec => [](TypeOK /\ StampsAgree)
<1>1. WholeInv => TypeOK /\ StampsAgree
  BY DEF WholeInv
<1> QED
  BY <1>1, WholeAlways, PTL

\* Whatever administrators write: an order is joined, handed over or delivered only
\* with every part packed, taken from the shelf and stamped.
THEOREM OrdersHandedOnWhole == Spec => []HandedOnWhole
  BY WholeAlways, WholeIsHandedOn, PTL

-------------------------------------------------------------------------------

\* Administrators move orders only as the service needs.
ServiceOnly == AdminMoves \subseteq ServiceMoves

\* Statuses of a row nobody works on yet.
Waiting == {"pending", "confirmed", "manager_review"}

\* A part that left the shelf has a status that says so.
OnShelfAt(m) == \A p \in parts[m] : stock_committed_at[p] => status[p] \in AwayFromShelf

\* An order is cancelled with all of its parts.
CancelledTogether(m) ==
  \A p \in parts[m] : status[p] = "cancelled" <=> status[m] = "cancelled"

\* While an order waits to be confirmed, so do its parts.
PendingTogether(m) ==
  status[m] = "pending" => \A p \in parts[m] : status[p] = "pending"

\* Only an order of several parts is joined at the hub.
JoinedAt(m) == status[m] = "processing" => Cardinality(ActiveParts(m)) >= 2

\* An order of one part is in review with it, and ready as soon as it is packed.
SingleAt(m) == Cardinality(ActiveParts(m)) = 1 =>
  /\ status[m] = "manager_review" => \A p \in ActiveParts(m) : status[p] = "manager_review"
  /\ status[m] = "confirmed" => ~AllPacked(m)

\* An order that is stamped has arrived.
MainStampAt(m) == main_stock_committed_at[m] => Arrived(m)

\* What the service keeps of an order.
ServedAt(m) == /\ OnShelfAt(m) /\ CancelledTogether(m) /\ PendingTogether(m)
               /\ JoinedAt(m) /\ SingleAt(m) /\ MainStampAt(m)
               /\ status[m] \notin {"awaiting_receipt", "packed"}

\* A row nobody placed is not reserved; one that no order has as a part any more
\* waits for nobody and has given its reserve back.
LooseAt(p) ==
  /\ status[p] = "none" => ~stock_reserved_at[p]
  /\ status[p] # "none" /\ (\A m \in Mains : p \notin parts[m]) =>
       status[p] \in Waiting /\ stock_released_at[p]

\* No row of the allocations of an order exists before the order.
FreshAt(m) ==
  status[m] = "none" => \A A \in Allocations[m] : \A p \in A : status[p] = "none"

\* A row in picking has its picker; one that waits has nobody.
OwnedAt(o) ==
  /\ status[o] = "processing" => picker_id[o] # Nobody /\ courier_id[o] = Nobody
  /\ status[o] \in Waiting \cup {"none"} => picker_id[o] = Nobody /\ courier_id[o] = Nobody

\* The inductive invariant.
ServiceInv == /\ ServiceOnly /\ WholeInv
              /\ \A m \in Mains : ServedAt(m) /\ FreshAt(m)
              /\ \A p \in Executions : LooseAt(p)
              /\ \A o \in Orders : OwnedAt(o)

------------------------------------------------------------------------------

\* The moves of a row, main order or part, under the service.
Moves(o) ==
  /\ \/ status'[o] = status[o]
     \/ status[o] = "none" /\ status'[o] \in Waiting
     \/ status[o] = "pending" /\ status'[o] \in {"confirmed", "manager_review", "cancelled"}
     \/ status[o] = "confirmed" /\ status'[o] \in {"processing", "ready_for_delivery",
                                                   "manager_review", "cancelled"}
     \/ status[o] = "manager_review" /\ status'[o] \in {"confirmed", "cancelled"}
     \/ status[o] = "processing" /\ status'[o] \in {"confirmed", "ready_for_delivery", "packed",
                                                    "manager_review"}
     \/ status[o] = "ready_for_delivery" /\ status'[o] \in {"confirmed", "shipped"}
     \/ status[o] \in {"ready_for_delivery", "shipped"} /\ status'[o] = "delivered" /\ o \in Mains
     \/ status[o] = "shipped" /\ status'[o] = "awaiting_receipt"
     \/ status[o] = "awaiting_receipt" /\ status'[o] = "packed"
     \/ status[o] = "packed" /\ status'[o] = "confirmed"
  /\ status[o] \in {"shipped", "awaiting_receipt"} => courier_id'[o] = courier_id[o]

\* A step keeps a row owned and makes one of the moves.
RowStep(o) == OwnedAt(o)' /\ Moves(o)

\* The moves of an order as its customer sees it.
StageStep(m) ==
  \/ Stage(m)' = Stage(m)
  \/ Stage(m) = "none" /\ Stage(m)' = "open"
  \/ Stage(m) \in {"open", "packing"} /\ Stage(m)' \in {"packing", "packed"}
  \/ Stage(m) \in {"packing", "packed"} /\ Stage(m)' \in {"open", "packing"}
  \/ Stage(m) = "packed" /\ Stage(m)' = "out"
  \/ Stage(m) \in {"packed", "out"} /\ Stage(m)' = "delivered"
  \/ Stage(m) = "open" /\ Stage(m)' = "cancelled"

\* A step moves one order for its customer.
StagesStep ==
  \/ \A n \in Mains : Stage(n)' = Stage(n)
  \/ \E m \in Mains : StageStep(m) /\ \A n \in Mains \ {m} : Stage(n)' = Stage(n)

\* A step keeps the service and makes moves of it.
Serves == /\ \A n \in Mains : ServedAt(n)' /\ FreshAt(n)'
          /\ \A p \in Executions : LooseAt(p)'
          /\ \A o \in Orders : RowStep(o)
          /\ StagesStep

\* The stage of an order by its status.
LEMMA StageNow ==
  ASSUME NEW m \in Mains
  PROVE  /\ status[m] \in {"none", "cancelled", "delivered"} => Stage(m) = status[m]
         /\ status[m] = "shipped" => Stage(m) = "out"
         /\ status[m] \notin {"none", "cancelled", "delivered", "shipped"} =>
              Stage(m) = IF main_stock_committed_at[m] THEN "packed"
                         ELSE IF \E p \in parts[m] : stock_committed_at[p] THEN "packing"
                         ELSE "open"
  BY DEF Stage

\* The same after the step.
LEMMA StageThen ==
  ASSUME NEW m \in Mains
  PROVE  /\ status'[m] \in {"none", "cancelled", "delivered"} => Stage(m)' = status'[m]
         /\ status'[m] = "shipped" => Stage(m)' = "out"
         /\ status'[m] \notin {"none", "cancelled", "delivered", "shipped"} =>
              Stage(m)' = IF main_stock_committed_at'[m] THEN "packed"
                          ELSE IF \E p \in parts'[m] : stock_committed_at'[p] THEN "packing"
                          ELSE "open"
  BY DEF Stage

\* An order nobody touched is served as before.
LEMMA SameServed ==
  ASSUME NEW n \in Mains, ServedAt(n), SameAt(n)
  PROVE  ServedAt(n)' /\ Stage(n)' = Stage(n)
<1>1. ActiveParts(n)' = ActiveParts(n) /\ AllPacked(n)' = AllPacked(n)
  BY DEF ActiveParts, AllPacked, SameAt
<1>2. OnShelfAt(n)' /\ CancelledTogether(n)' /\ PendingTogether(n)'
  BY DEF SameAt, ServedAt, OnShelfAt, CancelledTogether, PendingTogether
<1>3. JoinedAt(n)' /\ SingleAt(n)' /\ MainStampAt(n)'
  <2>1. \A p \in ActiveParts(n) : status'[p] = status[p]
    BY DEF SameAt, ActiveParts
  <2> QED
    BY <1>1, <2>1 DEF SameAt, ServedAt, JoinedAt, SingleAt, MainStampAt, Arrived
<1>4. Stage(n)' = Stage(n)
  BY DEF Stage, SameAt
<1> QED
  BY <1>2, <1>3, <1>4 DEF ServedAt, SameAt

\* A row nobody touched is owned as before.
LEMMA RowKept ==
  ASSUME NEW o \in Orders, OwnedAt(o), status'[o] = status[o], picker_id'[o] = picker_id[o],
         courier_id'[o] = courier_id[o]
  PROVE  RowStep(o)
  BY DEF RowStep, OwnedAt, Moves

\* The only part of an order.
LEMMA OneActive ==
  ASSUME WholeInv, NEW m \in Mains
  PROVE  /\ IsFiniteSet(ActiveParts(m))
         /\ Cardinality(ActiveParts(m)) = 1 =>
              \A p \in ActiveParts(m) : ActiveParts(m) = {p}
<1>1. IsFiniteSet(ActiveParts(m))
  <2>1. ActiveParts(m) \subseteq Executions /\ IsFiniteSet(Executions)
    BY OneMain, LedgerAssumption DEF ActiveParts
  <2> QED
    BY <2>1, FS_Subset
<1>2. Cardinality(ActiveParts(m)) = 1 => \E p : ActiveParts(m) = {p}
  BY <1>1, FS_Singleton
<1> QED
  BY <1>1, <1>2

\* A step of one order serves all if it serves this one.
LEMMA WithinStep ==
  ASSUME ServiceInv, NEW m \in Mains, WithinOrder(m), status'[m] # "none",
         \A p \in parts[m] : status'[p] # "none",
         ServedAt(m)', StageStep(m), \A o \in {m} \cup parts[m] : RowStep(o),
         \A o \in Orders \ ({m} \cup parts[m]) :
           picker_id'[o] = picker_id[o] /\ courier_id'[o] = courier_id[o]
  PROVE  Serves
<1>1. \A n \in Mains \ {m} : ServedAt(n)' /\ Stage(n)' = Stage(n)
  BY SameServed DEF WithinOrder, ServiceInv
<1>2. ASSUME NEW n \in Mains, status'[n] = "none", NEW A \in Allocations[n], NEW p \in A
      PROVE  status'[p] = "none"
  <2>1. status[n] = "none" /\ status[p] = "none"
    BY <1>2 DEF ServiceInv, FreshAt, WithinOrder, SameAt
  <2>2. p \in Executions \ parts[m]
    BY <2>1, Allocated DEF ServiceInv, WholeInv, OrderOK, AllocatedAt
  <2> QED
    BY <2>1, <2>2 DEF WithinOrder
<1>3. ASSUME NEW p \in Executions PROVE LooseAt(p)'
  <2>1. CASE p \in parts[m]
    BY <2>1 DEF LooseAt, WithinOrder
  <2>2. CASE p \notin parts[m]
    BY <2>2 DEF LooseAt, WithinOrder, ServiceInv
  <2> QED
    BY <2>1, <2>2
<1>4. ASSUME NEW o \in Orders PROVE RowStep(o)
  <2>1. CASE o \in {m} \cup parts[m]
    BY <2>1
  <2>2. CASE o \notin {m} \cup parts[m]
    <3>1. status'[o] = status[o]
      BY <2>2 DEF WithinOrder, SameAt, Orders
    <3> QED
      BY <2>2, <3>1, RowKept DEF ServiceInv
  <2> QED
    BY <2>1, <2>2
<1>5. StagesStep
  BY <1>1 DEF StagesStep
<1> QED
  BY <1>1, <1>2, <1>3, <1>4, <1>5 DEF Serves, FreshAt

\* A step that gives an order its parts serves all.
LEMMA NewPartsStep ==
  ASSUME ServiceInv, NEW m \in Mains, NEW A \in Allocations[m], NewParts(m, A),
         ~main_stock_committed_at[m], \A p \in A : status[p] = "none",
         \A p \in parts[m] : status[p] \in Waiting /\ stock_released_at'[p],
         status'[m] = status[m] \/ (status[m] = "none" /\ status'[m] = "pending"),
         StageStep(m), UNCHANGED << picker_id, courier_id >>
  PROVE  Serves
<1>1. A \subseteq Executions /\ A # {} /\ m \notin A
  BY Allocated
<1>2. \A n \in Mains \ {m} : ServedAt(n)' /\ Stage(n)' = Stage(n)
  BY SameServed DEF NewParts, ServiceInv
<1>3. ServedAt(m)'
  <2>1. \A p \in A : ~stock_committed_at'[p]
    BY <1>1 DEF NewParts, ServiceInv, LooseAt, WholeInv, StampsAgree, Documents
  <2>2. OnShelfAt(m)' /\ CancelledTogether(m)' /\ PendingTogether(m)'
    BY <2>1 DEF NewParts, OnShelfAt, CancelledTogether, PendingTogether
  <2>3. JoinedAt(m)' /\ SingleAt(m)' /\ MainStampAt(m)'
    BY <1>1 DEF NewParts, JoinedAt, SingleAt, MainStampAt, ActiveParts, AllPacked
  <2> QED
    BY <2>2, <2>3 DEF ServedAt, NewParts
<1>4. ASSUME NEW n \in Mains, status'[n] = "none", NEW B \in Allocations[n], NEW p \in B
      PROVE  status'[p] = "none"
  <2>1. n # m
    BY <1>4 DEF NewParts
  <2>2. p \in Executions \ A
    BY <2>1, Allocated
  <2> QED
    BY <1>4, <2>1, <2>2 DEF ServiceInv, FreshAt, NewParts, SameAt
<1>5. ASSUME NEW p \in Executions PROVE LooseAt(p)'
  <2>1. CASE p \in A
    BY <2>1 DEF LooseAt, NewParts, Waiting
  <2>2. CASE p \notin A /\ p \in parts[m]
    BY <2>2 DEF LooseAt, NewParts, ServiceInv
  <2>3. CASE p \notin A /\ p \notin parts[m]
    <3>1. /\ status'[p] = status[p] /\ stock_reserved_at'[p] = stock_reserved_at[p]
          /\ stock_released_at'[p] = stock_released_at[p] /\ LooseAt(p)
      BY <2>3 DEF NewParts, ServiceInv, Documents
    <3>2. (\A n \in Mains : p \notin parts'[n]) => \A n \in Mains : p \notin parts[n]
      BY <2>3 DEF NewParts, SameAt
    <3> QED
      BY <3>1, <3>2 DEF LooseAt
  <2> QED
    BY <2>1, <2>2, <2>3
<1>6. ASSUME NEW o \in Orders PROVE RowStep(o)
  <2>1. CASE o \in A
    BY <1>6, <2>1 DEF NewParts, RowStep, OwnedAt, Moves, ServiceInv, Waiting
  <2>2. CASE o = m
    BY <1>6, <2>2 DEF NewParts, RowStep, OwnedAt, Moves, ServiceInv, Waiting
  <2>3. CASE o \notin {m} \cup A
    <3>1. status'[o] = status[o]
      BY <2>3 DEF NewParts, SameAt, Orders
    <3> QED
      BY <2>3, <3>1, RowKept DEF ServiceInv
  <2> QED
    BY <2>1, <2>2, <2>3
<1>7. StagesStep
  BY <1>2 DEF StagesStep
<1> QED
  BY <1>2, <1>3, <1>4, <1>5, <1>6, <1>7 DEF Serves, FreshAt

\* So does a step that writes no status and no stamp.
LEMMA QuietStep ==
  ASSUME ServiceInv,
         UNCHANGED << stock_reserved_at, stock_released_at, stock_committed_at,
                      status, parts, main_stock_committed_at >>,
         \A o \in Orders : RowStep(o)
  PROVE  Serves
<1>1. \A n \in Mains : SameAt(n) /\ ServedAt(n)
  BY DEF SameAt, ServiceInv
<1>2. \A n \in Mains : ServedAt(n)' /\ Stage(n)' = Stage(n)
  BY <1>1, SameServed
<1>3. (\A n \in Mains : FreshAt(n)') /\ \A p \in Executions : LooseAt(p)'
  BY DEF ServiceInv, FreshAt, LooseAt
<1> QED
  BY <1>2, <1>3 DEF Serves, StagesStep

\* A checkout.
LEMMA ServePlace ==
  ASSUME ServiceInv, NEW m \in Mains, NEW A \in Allocations[m], Place(m, A)
  PROVE  Serves
<1>1. status[m] = "none" /\ UNCHANGED << picker_id, courier_id >>
  BY DEF Place
<1>2. NewParts(m, A) /\ status'[m] = "pending"
  <2>1. NewParts(m, A)
    BY PlaceEffect DEF ServiceInv
  <2>2. status'[m] = "pending"
    BY DEF Place, Rows, Orders
  <2> QED
    BY <2>1, <2>2
<1>3. parts[m] = {}
  BY <1>1 DEF ServiceInv, WholeInv, OrderOK, AllocatedAt
<1>4. ~main_stock_committed_at[m]
  BY <1>3 DEF ServiceInv, ServedAt, MainStampAt, Arrived, ActiveParts
<1>5. \A p \in A : status[p] = "none"
  BY <1>1 DEF ServiceInv, FreshAt
<1>6. A \subseteq Executions
  BY Allocated
<1>7. \A p \in A : ~stock_committed_at'[p]
  BY <1>2, <1>5, <1>6 DEF NewParts, ServiceInv, LooseAt, WholeInv, StampsAgree, Documents
<1>8. Stage(m) = "none" /\ Stage(m)' = "open"
  BY <1>1, <1>2, <1>4, <1>7, StageNow, StageThen DEF NewParts
<1> QED
  BY <1>1, <1>2, <1>3, <1>4, <1>5, <1>8, NewPartsStep DEF StageStep

\* An edit by a manager.
LEMMA ServeEdit ==
  ASSUME ServiceInv, NEW m \in Mains, NEW A \in Allocations[m], ManagerEdit(m, A)
  PROVE  Serves
<1>1. /\ Editable(m) /\ \A p \in A : status[p] = "none"
      /\ UNCHANGED << picker_id, courier_id >>
  BY DEF ManagerEdit
<1>2. /\ NewParts(m, A) /\ status'[m] = status[m]
      /\ \A p \in parts[m] : stock_released_at'[p]
  BY EditEffect DEF ServiceInv
<1>3. ~main_stock_committed_at[m] /\ status[m] \in Waiting
  BY <1>1 DEF Editable, committed_at, Waiting
<1>4. \A p \in parts[m] : status[p] \in Waiting /\ ~stock_committed_at[p]
  <2> TAKE p \in parts[m]
  <2>1. p \in Executions /\ p \notin Mains /\ status[p] # "none"
    BY OneMain DEF ServiceInv, WholeInv, OrderOK, AllocatedAt
  <2>2. status[p] \in Statuses
    BY <2>1 DEF ServiceInv, WholeInv, TypeOK, Orders
  <2>3. /\ ~committed_at(p)
        /\ status[p] \notin {"processing", "ready_for_delivery", "shipped",
                             "awaiting_receipt", "packed", "delivered", "cancelled"}
    BY <1>1 DEF Editable
  <2> QED
    BY <2>1, <2>2, <2>3 DEF committed_at, Statuses, Waiting
<1>5. A \subseteq Executions
  BY Allocated
<1>6. \A p \in A : ~stock_committed_at'[p]
  BY <1>1, <1>2, <1>5 DEF NewParts, ServiceInv, LooseAt, WholeInv, StampsAgree, Documents
<1>7. Stage(m) = "open" /\ Stage(m)' = "open"
  BY <1>2, <1>3, <1>4, <1>6, StageNow, StageThen DEF NewParts, Waiting
<1> QED
  BY <1>1, <1>2, <1>3, <1>4, <1>7, NewPartsStep DEF StageStep

\* Main order m is confirmed, with the parts that were waiting.
LEMMA ServeConfirm ==
  ASSUME ServiceInv, NEW m \in Mains, status[m] \in {"pending", "manager_review"},
         status' = SyncedStatus(m, "confirmed"),
         UNCHANGED << ledgerVars, picker_id, courier_id, parts, main_stock_committed_at >>
  PROVE  Serves
<1>1. UNCHANGED << stock_reserved_at, stock_released_at, stock_committed_at, parts,
                   main_stock_committed_at, picker_id, courier_id >>
  BY DEF ledgerVars
<1>2. /\ WithinOrder(m) /\ status'[m] = "confirmed"
      /\ \A p \in parts[m] :
           status'[p] = IF status[p] \in {"pending", "manager_review"}
                        THEN "confirmed" ELSE status[p]
  BY <1>1, SyncedEffect DEF ServiceInv
<1>3. ServedAt(m) /\ OrderOK(m) /\ parts[m] \subseteq Executions /\ m \notin parts[m]
  BY OneMain DEF ServiceInv, WholeInv
<1>4. \A p \in parts[m] : status[p] # "cancelled" /\ status'[p] # "cancelled"
                          /\ status[p] # "none" /\ status'[p] # "none"
  BY <1>2, <1>3 DEF ServedAt, CancelledTogether, OrderOK, AllocatedAt
<1>5. ActiveParts(m)' = ActiveParts(m) /\ ActiveParts(m) = parts[m]
  BY <1>1, <1>4 DEF ActiveParts
<1>6. Arrived(m) => Arrived(m)'
  BY <1>2, <1>5 DEF Arrived, AllPacked
<1>7. OnShelfAt(m)' /\ CancelledTogether(m)' /\ PendingTogether(m)' /\ JoinedAt(m)'
  BY <1>1, <1>2, <1>3, <1>4 DEF ServedAt, OnShelfAt, CancelledTogether, PendingTogether,
                                JoinedAt, AwayFromShelf
<1>8. MainStampAt(m)'
  BY <1>1, <1>3, <1>6 DEF ServedAt, MainStampAt
<1>9. SingleAt(m)'
  <2> SUFFICES ASSUME Cardinality(ActiveParts(m)) = 1 PROVE ~AllPacked(m)'
    BY <1>2, <1>5 DEF SingleAt
  <2>1. \A p \in ActiveParts(m) : status[p] \in {"pending", "manager_review"}
    BY <1>3, <1>5 DEF ServedAt, SingleAt, PendingTogether
  <2>2. ActiveParts(m) # {}
    BY FS_EmptySet
  <2> QED
    BY <1>2, <1>5, <2>1, <2>2 DEF AllPacked
<1>10. ServedAt(m)'
  BY <1>2, <1>7, <1>8, <1>9 DEF ServedAt
<1>11. StageStep(m)
  BY <1>1, <1>2, StageNow, StageThen DEF StageStep
<1>12. ASSUME NEW o \in {m} \cup parts[m] PROVE RowStep(o)
  <2>1. OwnedAt(o) /\ o \in Orders
    BY <1>3 DEF ServiceInv, Orders
  <2>2. \/ status'[o] = status[o]
        \/ status[o] \in {"pending", "manager_review"} /\ status'[o] = "confirmed"
    BY <1>2
  <2> QED
    BY <1>1, <2>1, <2>2 DEF RowStep, OwnedAt, Moves, Waiting
<1> QED
  BY <1>1, <1>2, <1>4, <1>10, <1>11, <1>12, WithinStep

\* Main order m changes its status alone, or with parts that stay as they are.
LEMMA ServeMain ==
  ASSUME ServiceInv, NEW m \in Mains, WithinOrder(m),
         UNCHANGED << stock_committed_at, main_stock_committed_at >>,
         \A p \in parts[m] : status'[p] = status[p],
         status[m] \in {"confirmed", "processing", "ready_for_delivery", "shipped"},
         status'[m] \in {"confirmed", "processing", "manager_review", "ready_for_delivery",
                         "shipped", "delivered"},
         status'[m] \in {"confirmed", "processing", "manager_review"} =>
           Cardinality(ActiveParts(m)) >= 2,
         StageStep(m), RowStep(m),
         \A o \in Orders \ {m} : picker_id'[o] = picker_id[o] /\ courier_id'[o] = courier_id[o]
  PROVE  Serves
<1>1. ServedAt(m) /\ OrderOK(m) /\ parts[m] \subseteq Executions /\ m \notin parts[m]
  BY OneMain DEF ServiceInv, WholeInv
<1>2. parts'[m] = parts[m]
  BY DEF WithinOrder
<1>3. ActiveParts(m)' = ActiveParts(m) /\ AllPacked(m)' = AllPacked(m)
  BY <1>2 DEF ActiveParts, AllPacked
<1>4. OnShelfAt(m)' /\ CancelledTogether(m)' /\ PendingTogether(m)'
  BY <1>1, <1>2 DEF ServedAt, OnShelfAt, CancelledTogether, PendingTogether
<1>5. JoinedAt(m)' /\ MainStampAt(m)'
  BY <1>1, <1>3 DEF ServedAt, JoinedAt, MainStampAt, Arrived
<1>6. SingleAt(m)'
  BY <1>3 DEF SingleAt
<1>7. ServedAt(m)'
  BY <1>4, <1>5, <1>6 DEF ServedAt
<1>8. ASSUME NEW o \in {m} \cup parts[m] PROVE RowStep(o)
  BY <1>1, RowKept DEF ServiceInv, Orders
<1>9. \A p \in parts[m] : status'[p] # "none"
  BY <1>1 DEF OrderOK, AllocatedAt
<1> QED
  BY <1>7, <1>8, <1>9, WithinStep

\* A part of main order m changes its status, the main order does not.
LEMMA ServePart ==
  ASSUME ServiceInv, NEW m \in Mains, NEW p \in parts[m], NEW st, ChangesStatus(p, st),
         status[p] \notin {"pending", "packed", "cancelled", "manager_review"},
         st \notin {"none", "pending", "packed", "cancelled"},
         status[p] \in AwayFromShelf => st \in AwayFromShelf, RowStep(p),
         \A o \in Orders \ {p} : picker_id'[o] = picker_id[o] /\ courier_id'[o] = courier_id[o]
  PROVE  Serves
<1>1. ServedAt(m) /\ OrderOK(m) /\ parts[m] \subseteq Executions /\ m \notin parts[m]
  BY OneMain DEF ServiceInv, WholeInv
<1>2. /\ WithinOrder(m) /\ parts'[m] = parts[m] /\ status'[m] = status[m]
      /\ \A q \in parts[m] : status'[q] = IF q = p THEN st ELSE status[q]
      /\ UNCHANGED << stock_committed_at, main_stock_committed_at >>
  BY <1>1, ChangeEffect DEF ChangesStatus, Orders, ServiceInv
<1>3. ActiveParts(m)' = ActiveParts(m) /\ p \in ActiveParts(m)
  BY <1>2 DEF ActiveParts
<1>4. ~AllPacked(m)' /\ ~AllPacked(m)
  BY <1>2, <1>3 DEF AllPacked
<1>5. OnShelfAt(m)' /\ CancelledTogether(m)' /\ PendingTogether(m)'
  BY <1>1, <1>2 DEF ServedAt, OnShelfAt, CancelledTogether, PendingTogether
<1>6. JoinedAt(m)' /\ MainStampAt(m)'
  BY <1>1, <1>2, <1>3, <1>4 DEF ServedAt, JoinedAt, MainStampAt, Arrived
<1>7. SingleAt(m)'
  BY <1>1, <1>2, <1>3, <1>4 DEF ServedAt, SingleAt
<1>8. ServedAt(m)'
  BY <1>1, <1>2, <1>5, <1>6, <1>7 DEF ServedAt
<1>9. StageStep(m)
  BY <1>2 DEF StageStep, Stage
<1>10. ASSUME NEW o \in {m} \cup parts[m] PROVE RowStep(o)
  BY <1>1, <1>2, RowKept DEF ServiceInv, Orders
<1>11. status[m] # "none" /\ \A q \in parts[m] : status'[q] # "none"
  BY <1>1, <1>2 DEF OrderOK, AllocatedAt
<1> QED
  BY <1>2, <1>8, <1>9, <1>10, <1>11, WithinStep

\* An order is cancelled while all of its goods lie on the shelves.
LEMMA ServeCancel ==
  ASSUME ServiceInv, NEW m \in Mains, CancelOrder(m), canBeCancelledByManager(m)
  PROVE  Serves
<1>1. /\ status[m] \in {"pending", "confirmed", "processing", "manager_review"}
      /\ ~hasStartedPhysicalFulfillment(m)
  BY DEF canBeCancelledByManager, canBeCancelled
<1>2. /\ WithinOrder(m) /\ status'[m] = "cancelled"
      /\ \A p \in parts[m] : status'[p] = "cancelled"
      /\ UNCHANGED << stock_committed_at, main_stock_committed_at, picker_id, courier_id >>
  BY CancelEffect DEF ServiceInv, CancelOrder
<1>3. ServedAt(m) /\ OrderOK(m) /\ parts[m] \subseteq Executions /\ m \notin parts[m]
  BY OneMain DEF ServiceInv, WholeInv
<1>4. \A p \in parts[m] : /\ ~stock_committed_at[p]
                          /\ status[p] \notin {"processing", "ready_for_delivery", "shipped",
                                               "awaiting_receipt", "packed", "delivered"}
  BY <1>1 DEF hasStartedPhysicalFulfillment
<1>5. ~main_stock_committed_at[m]
  BY <1>3, <1>4 DEF ServedAt, MainStampAt, Arrived, AllPacked, ActiveParts
<1>6. parts'[m] = parts[m]
  BY <1>2 DEF WithinOrder
<1>7. OnShelfAt(m)' /\ CancelledTogether(m)' /\ PendingTogether(m)'
  BY <1>2, <1>4, <1>6 DEF OnShelfAt, CancelledTogether, PendingTogether
<1>8. JoinedAt(m)' /\ SingleAt(m)' /\ MainStampAt(m)'
  BY <1>2, <1>5 DEF JoinedAt, SingleAt, MainStampAt
<1>9. ServedAt(m)'
  BY <1>2, <1>7, <1>8 DEF ServedAt
<1>10. Stage(m) = "open" /\ Stage(m)' = "cancelled"
  BY <1>1, <1>2, <1>4, <1>5, StageNow, StageThen
<1>11. RowStep(m)
  <2>1. status[m] \in {"pending", "confirmed", "manager_review"}
    <3>1. CASE status[m] = "processing"
      <4>1. Arrived(m)
        BY <1>3, <3>1 DEF OrderOK, WholeAt, Arrived
      <4> QED
        BY <1>4, <4>1 DEF Arrived, AllPacked, ActiveParts
    <3> QED
      BY <1>1, <3>1
  <2> QED
    BY <1>2, <2>1 DEF RowStep, OwnedAt, Moves, Waiting
<1>12. ASSUME NEW p \in parts[m] PROVE RowStep(p)
  <2>1. status[p] \in Statuses /\ status[p] # "none"
    BY <1>3 DEF ServiceInv, WholeInv, TypeOK, Orders, OrderOK, AllocatedAt
  <2>2. status[p] \in {"pending", "confirmed", "manager_review", "cancelled"}
    BY <1>4, <2>1 DEF Statuses
  <2> QED
    BY <1>2, <2>2 DEF RowStep, OwnedAt, Moves, Waiting
<1> QED
  BY <1>2, <1>9, <1>10, <1>11, <1>12, WithinStep DEF StageStep

\* A part goes to the manager with its main order.
LEMMA ServePartReview ==
  ASSUME ServiceInv, NEW m \in Mains, NEW p \in parts[m], status[p] = "processing",
         ToReview(p), UNCHANGED << ledgerVars, courier_id, parts, main_stock_committed_at >>
  PROVE  Serves
<1>1. UNCHANGED << stock_reserved_at, stock_released_at, stock_committed_at, courier_id,
                   parts, main_stock_committed_at >>
  BY DEF ledgerVars
<1>2. /\ WithinOrder(m)
      /\ status'[m] = IF status[m] \in {"cancelled", "delivered"} THEN status[m]
                      ELSE "manager_review"
      /\ \A q \in parts[m] : status'[q] = IF q = p THEN "manager_review" ELSE status[q]
  BY <1>1, PartReviewEffect DEF ServiceInv
<1>3. ServedAt(m) /\ OrderOK(m) /\ parts[m] \subseteq Executions /\ m \notin parts[m]
  BY OneMain DEF ServiceInv, WholeInv
<1>4. p \in ActiveParts(m) /\ ~AllPacked(m)
  BY DEF ActiveParts, AllPacked
<1>5. status[m] \in {"pending", "confirmed", "manager_review"}
  <2>1. status[m] \in Statuses /\ status[m] # "none"
    BY <1>3 DEF ServiceInv, WholeInv, TypeOK, Orders, OrderOK, AllocatedAt
  <2>2. status[m] \notin {"processing", "ready_for_delivery", "shipped", "delivered",
                          "awaiting_receipt", "packed"}
    BY <1>3, <1>4 DEF OrderOK, WholeAt, ServedAt
  <2>3. status[m] # "cancelled"
    BY <1>3 DEF ServedAt, CancelledTogether
  <2> QED
    BY <2>1, <2>2, <2>3 DEF Statuses
<1>6. status'[m] = "manager_review" /\ parts'[m] = parts[m]
  BY <1>1, <1>2, <1>5
<1>7. ActiveParts(m)' = ActiveParts(m)
  BY <1>2, <1>6 DEF ActiveParts
<1>8. OnShelfAt(m)' /\ CancelledTogether(m)' /\ PendingTogether(m)'
  BY <1>1, <1>2, <1>3, <1>5, <1>6 DEF ServedAt, OnShelfAt, CancelledTogether, PendingTogether,
                                      AwayFromShelf
<1>9. JoinedAt(m)' /\ MainStampAt(m)'
  BY <1>1, <1>3, <1>4, <1>6 DEF ServedAt, JoinedAt, MainStampAt, Arrived
<1>10. SingleAt(m)'
  <2> SUFFICES ASSUME Cardinality(ActiveParts(m)) = 1
               PROVE  \A q \in ActiveParts(m) : status'[q] = "manager_review"
    BY <1>6, <1>7 DEF SingleAt
  <2>1. ActiveParts(m) = {p}
    BY <1>4, OneActive DEF ServiceInv
  <2> QED
    BY <1>2, <2>1
<1>11. ServedAt(m)'
  BY <1>6, <1>8, <1>9, <1>10 DEF ServedAt
<1>12. StageStep(m)
  BY <1>1, <1>5, <1>6, StageNow, StageThen DEF StageStep
<1>13. /\ picker_id' = [picker_id EXCEPT ![p] = Nobody] /\ p \in Orders /\ m \in Orders
       /\ picker_id \in [Orders -> Pickers \cup {Nobody}]
  BY <1>3 DEF ToReview, Orders, ServiceInv, WholeInv, TypeOK
<1>14. ASSUME NEW o \in {m} \cup parts[m] PROVE RowStep(o)
  <2>1. o \in Orders /\ OwnedAt(o) /\ OwnedAt(p)
    BY <1>3, <1>13 DEF Orders, ServiceInv
  <2>2. CASE o = p
    BY <1>1, <1>2, <1>13, <2>1, <2>2 DEF RowStep, OwnedAt, Moves, Waiting
  <2>3. CASE o = m
    BY <1>1, <1>3, <1>5, <1>6, <1>13, <2>1, <2>3 DEF RowStep, OwnedAt, Moves, Waiting
  <2>4. CASE o # p /\ o # m
    BY <1>1, <1>2, <1>13, <2>1, <2>4, RowKept
  <2> QED
    BY <2>2, <2>3, <2>4
<1>15. \A q \in parts[m] : status'[q] # "none"
  BY <1>2, <1>3 DEF OrderOK, AllocatedAt
<1>16. \A o \in Orders \ ({m} \cup parts[m]) :
         picker_id'[o] = picker_id[o] /\ courier_id'[o] = courier_id[o]
  BY <1>1, <1>13
<1> QED
  BY <1>2, <1>6, <1>11, <1>12, <1>14, <1>15, <1>16, WithinStep

\* A part is packed or arrives, and may make its main order ready.
LEMMA ServeSyncMain ==
  ASSUME ServiceInv, NEW m \in Mains, NEW p \in parts[m], NEW st,
         SyncMain(m, [status EXCEPT ![p] = st], stock_committed_at'),
         \/ status[p] = "processing" /\ st \in {"ready_for_delivery", "packed"}
         \/ status[p] = "awaiting_receipt" /\ st = "packed",
         stock_committed_at'[p],
         \A q \in Documents \ {p} : stock_committed_at'[q] = stock_committed_at[q],
         UNCHANGED << stock_reserved_at, stock_released_at, parts, picker_id, courier_id >>
  PROVE  Serves
<1>1. /\ WithinOrder(m)
      /\ \A q \in parts[m] : status'[q] = IF q = p THEN st ELSE status[q]
      /\ status'[m] = IF /\ Arrived(m)' /\ Cardinality(ActiveParts(m))' = 1
                         /\ status[m] = "confirmed"
                      THEN "ready_for_delivery" ELSE status[m]
      /\ main_stock_committed_at'[m] => main_stock_committed_at[m] \/ Arrived(m)'
  BY WholeSyncMain DEF ServiceInv
<1>2. ServedAt(m) /\ OrderOK(m) /\ parts[m] \subseteq Executions /\ m \notin parts[m]
  BY OneMain DEF ServiceInv, WholeInv
<1>3. p \in ActiveParts(m) /\ ~AllPacked(m)
  BY DEF ActiveParts, AllPacked
<1>4. status[m] \in {"confirmed", "manager_review"}
  <2>1. status[m] \in Statuses /\ status[m] # "none"
    BY <1>2 DEF ServiceInv, WholeInv, TypeOK, Orders, OrderOK, AllocatedAt
  <2>2. status[m] \notin {"processing", "ready_for_delivery", "shipped", "delivered",
                          "awaiting_receipt", "packed"}
    BY <1>2, <1>3 DEF OrderOK, WholeAt, ServedAt
  <2>3. status[m] \notin {"cancelled", "pending"}
    BY <1>2 DEF ServedAt, CancelledTogether, PendingTogether
  <2> QED
    BY <2>1, <2>2, <2>3 DEF Statuses
<1>5. status'[m] \in {"confirmed", "manager_review", "ready_for_delivery"}
      /\ parts'[m] = parts[m]
      /\ (status'[m] = status[m] \/ (status[m] = "confirmed" /\ status'[m] = "ready_for_delivery"))
  BY <1>1, <1>4
<1>6. ActiveParts(m)' = ActiveParts(m)
  BY <1>1, <1>5 DEF ActiveParts
<1>7. OnShelfAt(m)' /\ CancelledTogether(m)' /\ PendingTogether(m)'
  <2>1. OnShelfAt(m)'
    BY <1>1, <1>2, <1>5 DEF ServedAt, OnShelfAt, AwayFromShelf, Documents
  <2>2. CancelledTogether(m)' /\ PendingTogether(m)'
    BY <1>1, <1>2, <1>4, <1>5 DEF ServedAt, CancelledTogether, PendingTogether
  <2> QED
    BY <2>1, <2>2
<1>8. JoinedAt(m)' /\ MainStampAt(m)'
  BY <1>1, <1>2, <1>3, <1>5 DEF ServedAt, JoinedAt, MainStampAt, Arrived
<1>9. SingleAt(m)'
  <2> SUFFICES ASSUME Cardinality(ActiveParts(m)) = 1
               PROVE  status'[m] # "manager_review"
                      /\ (status'[m] = "confirmed" => ~AllPacked(m)')
    BY <1>6 DEF SingleAt
  <2>1. status[m] # "manager_review"
    BY <1>2, <1>3 DEF ServedAt, SingleAt
  <2>2. status'[m] = "confirmed" => ~AllPacked(m)'
    BY <1>1, <1>3, <1>6 DEF Arrived
  <2> QED
    BY <1>5, <2>1, <2>2
<1>10. ServedAt(m)'
  BY <1>5, <1>7, <1>8, <1>9 DEF ServedAt
<1>11. StageStep(m)
  <2>1. ~main_stock_committed_at[m]
    BY <1>2, <1>3 DEF ServedAt, MainStampAt, Arrived
  <2>2. Stage(m) \in {"open", "packing"}
    BY <1>4, <2>1, StageNow
  <2>3. Stage(m)' \in {"packing", "packed"}
    BY <1>5, StageThen
  <2> QED
    BY <2>2, <2>3 DEF StageStep
<1>12. ASSUME NEW o \in {m} \cup parts[m] PROVE RowStep(o)
  <2>1. o \in Orders /\ OwnedAt(o)
    BY <1>2 DEF Orders, ServiceInv
  <2>2. CASE o = p
    BY <1>1, <2>1, <2>2 DEF RowStep, OwnedAt, Moves, Waiting
  <2>3. CASE o = m
    BY <1>5, <2>1, <2>3 DEF RowStep, OwnedAt, Moves, Waiting
  <2>4. CASE o # p /\ o # m
    BY <1>1, <2>1, <2>4, RowKept
  <2> QED
    BY <2>2, <2>3, <2>4
<1>13. status'[m] # "none" /\ \A q \in parts[m] : status'[q] # "none"
  BY <1>1, <1>2, <1>5 DEF OrderOK, AllocatedAt
<1> QED
  BY <1>1, <1>10, <1>11, <1>12, <1>13, WithinStep

\* A package goes back to the shelf.
LEMMA ServeReturn ==
  ASSUME ServiceInv, NEW m \in Mains, NEW p \in parts[m], ReturnPart(m, p)
  PROVE  Serves
<1>1. /\ WithinOrder(m) /\ status'[m] = "confirmed" /\ ~main_stock_committed_at'[m]
      /\ \A q \in parts[m] : status'[q] = IF q = p THEN "confirmed" ELSE status[q]
      /\ \A q \in Documents \ {p} : stock_committed_at'[q] = stock_committed_at[q]
      /\ ~stock_committed_at'[p]
  BY ReturnEffect DEF ServiceInv
<1>2. /\ status[p] \in {"ready_for_delivery", "packed"}
      /\ status[m] \in {"confirmed", "ready_for_delivery"}
  BY DEF ReturnPart, SafeAtSource
<1>3. ServedAt(m) /\ OrderOK(m) /\ parts[m] \subseteq Executions /\ m \notin parts[m]
  BY OneMain DEF ServiceInv, WholeInv
<1>4. parts'[m] = parts[m]
  BY <1>1 DEF WithinOrder
<1>5. p \in ActiveParts(m)' /\ ~AllPacked(m)'
  BY <1>1, <1>4 DEF ActiveParts, AllPacked
<1>6. OnShelfAt(m)'
  BY <1>1, <1>3, <1>4 DEF ServedAt, OnShelfAt, Documents
<1>7. CancelledTogether(m)' /\ PendingTogether(m)'
  BY <1>1, <1>2, <1>3, <1>4 DEF ServedAt, CancelledTogether, PendingTogether
<1>8. JoinedAt(m)' /\ SingleAt(m)' /\ MainStampAt(m)'
  BY <1>1, <1>5 DEF JoinedAt, SingleAt, MainStampAt
<1>9. ServedAt(m)'
  BY <1>1, <1>6, <1>7, <1>8 DEF ServedAt
<1>10. StageStep(m)
  <2>1. stock_committed_at[p]
    BY <1>2, <1>3 DEF OrderOK, PackedAt, AwayFromShelf
  <2>2. Stage(m) \in {"packing", "packed"}
    BY <1>2, <2>1, StageNow
  <2>3. Stage(m)' \in {"open", "packing"}
    BY <1>1, StageThen
  <2> QED
    BY <2>2, <2>3 DEF StageStep
<1>11. \A o \in Orders : /\ picker_id'[o] = IF o \in {m, p} THEN Nobody ELSE picker_id[o]
                         /\ courier_id'[o] = IF o \in {m, p} THEN Nobody ELSE courier_id[o]
  BY DEF ReturnPart, Rows
<1>12. ASSUME NEW o \in {m} \cup parts[m] PROVE RowStep(o)
  <2>1. o \in Orders /\ OwnedAt(o)
    BY <1>3 DEF Orders, ServiceInv
  <2>2. CASE o \in {m, p}
    BY <1>1, <1>2, <1>11, <2>1, <2>2 DEF RowStep, OwnedAt, Moves, Waiting
  <2>3. CASE o \notin {m, p}
    BY <1>1, <1>11, <2>1, <2>3, RowKept
  <2> QED
    BY <2>2, <2>3
<1>13. \A q \in parts[m] : status'[q] # "none"
  BY <1>1, <1>3 DEF OrderOK, AllocatedAt
<1>14. \A o \in Orders \ ({m} \cup parts[m]) :
         picker_id'[o] = picker_id[o] /\ courier_id'[o] = courier_id[o]
  BY <1>11
<1> QED
  BY <1>1, <1>9, <1>10, <1>12, <1>13, <1>14, WithinStep

\* What a status written to a main order leaves alone.
LEMMA MainRow ==
  ASSUME ServiceInv, NEW m \in Mains, NEW st, ChangesStatus(m, st)
  PROVE  /\ WithinOrder(m) /\ status'[m] = st /\ parts'[m] = parts[m]
         /\ \A p \in parts[m] : status'[p] = status[p]
         /\ UNCHANGED << stock_committed_at, main_stock_committed_at >>
<1>1. WithinOrder(m)
  BY ChangeEffect DEF ServiceInv, Orders
<1>2. parts[m] \subseteq Executions /\ m \notin parts[m]
  BY OneMain DEF ServiceInv
<1> QED
  BY <1>1, <1>2 DEF ChangesStatus, Orders

\* Main order m is in work, or is handed over: every part lies packed at the hub
\* and it is stamped.
LEMMA WholeStage ==
  ASSUME ServiceInv, NEW m \in Mains,
         status[m] \in {"processing", "ready_for_delivery", "shipped", "delivered"}
  PROVE  Arrived(m) /\ main_stock_committed_at[m]
  BY DEF ServiceInv, WholeInv, OrderOK, WholeAt, StampedAt, Arrived

\* A row is taken to be picked or given back.
LEMMA ServePicking ==
  ASSUME ServiceInv, NEW k \in Pickers, NEW o \in Orders,
         Take(k, o) \/ ReleasePicking(k, o)
  PROVE  Serves
<1> DEFINE st == IF status[o] = "confirmed" THEN "processing" ELSE "confirmed"
           who == IF status[o] = "confirmed" THEN k ELSE Nobody
<1>1. /\ PickingJob(o) /\ status[o] \in {"confirmed", "processing"}
      /\ ChangesStatus(o, st) /\ picker_id' = [picker_id EXCEPT ![o] = who]
      /\ courier_id' = courier_id
  <2>1. /\ PickingJob(o) /\ status[o] \in {"confirmed", "processing"}
        /\ status' = [status EXCEPT ![o] = st] /\ picker_id' = [picker_id EXCEPT ![o] = who]
        /\ UNCHANGED << ledgerVars, courier_id, parts, main_stock_committed_at >>
    BY DEF Take, ReleasePicking, OwnedProcessing
  <2> HIDE DEF st
  <2> QED
    BY <2>1, OneRow DEF ServiceInv
<1>2. RowStep(o) /\ \A q \in Orders \ {o} :
                      picker_id'[q] = picker_id[q] /\ courier_id'[q] = courier_id[q]
  <2>1. picker_id \in [Orders -> Pickers \cup {Nobody}] /\ OwnedAt(o) /\ k # Nobody
    BY FulfillmentAssumption DEF ServiceInv, WholeInv, TypeOK
  <2>2. status'[o] = st
    BY <1>1 DEF ChangesStatus
  <2> QED
    BY <1>1, <2>1, <2>2 DEF RowStep, OwnedAt, Moves, Waiting
<1>3. ASSUME NEW m \in Mains, o \in parts[m] PROVE Serves
  <2>1. st \in {"confirmed", "processing"} /\ status[o] \notin AwayFromShelf
    BY <1>1 DEF AwayFromShelf
  <2> HIDE DEF st
  <2> QED
    BY <1>1, <1>2, <1>3, <2>1, ServePart
<1>4. CASE o \in Mains /\ Cardinality(ActiveParts(o)) >= 2
  <2>1. st \in {"confirmed", "processing"}
    BY <1>1
  <2> HIDE DEF st
  <2>2. /\ WithinOrder(o) /\ status'[o] = st /\ parts'[o] = parts[o]
        /\ \A p \in parts[o] : status'[p] = status[p]
        /\ UNCHANGED << stock_committed_at, main_stock_committed_at >>
    BY <1>1, <1>4, MainRow
  <2>3. StageStep(o)
    BY <1>1, <1>4, <2>1, <2>2, StageNow, StageThen DEF StageStep
  <2> QED
    BY <1>1, <1>2, <1>4, <2>1, <2>2, <2>3, ServeMain
<1> QED
  BY <1>1, <1>3, <1>4 DEF PickingJob

\* A picker sends a row to the manager.
LEMMA ServeEscalate ==
  ASSUME ServiceInv, NEW k \in Pickers, NEW o \in Orders, Escalate(k, o)
  PROVE  Serves
<1>1. /\ Live(o) /\ status[o] = "processing" /\ ToReview(o)
      /\ UNCHANGED << ledgerVars, courier_id, parts, main_stock_committed_at >>
  BY DEF Escalate, OwnedProcessing
<1>2. ASSUME NEW m \in Mains, o \in parts[m] PROVE Serves
  BY <1>1, <1>2, ServePartReview
<1>3. CASE o \in Mains
  <2>1. ChangesStatus(o, "manager_review")
    BY <1>1, <1>3, MainReviewEffect DEF ServiceInv, ledgerVars
  <2>2. /\ WithinOrder(o) /\ status'[o] = "manager_review" /\ parts'[o] = parts[o]
        /\ \A p \in parts[o] : status'[p] = status[p]
        /\ UNCHANGED << stock_committed_at, main_stock_committed_at >>
    BY <1>3, <2>1, MainRow
  <2>3. StageStep(o)
    BY <1>1, <1>3, <2>2, StageNow, StageThen DEF StageStep
  <2>4. /\ picker_id \in [Orders -> Pickers \cup {Nobody}] /\ OwnedAt(o)
        /\ picker_id' = [picker_id EXCEPT ![o] = Nobody] /\ courier_id' = courier_id
    BY <1>1 DEF ServiceInv, WholeInv, TypeOK, ToReview
  <2>5. RowStep(o) /\ \A q \in Orders \ {o} :
                        picker_id'[q] = picker_id[q] /\ courier_id'[q] = courier_id[q]
    BY <1>1, <2>2, <2>4 DEF RowStep, OwnedAt, Moves, Waiting
  <2>6. Cardinality(ActiveParts(o)) >= 2
    BY <1>1, <1>3 DEF ServiceInv, ServedAt, JoinedAt
  <2> QED
    BY <1>1, <1>3, <2>2, <2>3, <2>5, <2>6, ServeMain
<1> QED
  BY <1>1, <1>2, <1>3 DEF Live

\* A main order is joined, handed over or delivered.
LEMMA ServeHandOver ==
  ASSUME ServiceInv, NEW m \in Mains, NEW st, ChangesStatus(m, st),
         \/ status[m] = "processing" /\ st = "ready_for_delivery"
         \/ status[m] = "ready_for_delivery" /\ st \in {"shipped", "delivered"}
         \/ status[m] = "shipped" /\ st = "delivered",
         UNCHANGED << picker_id, courier_id >>
  PROVE  Serves
<1>1. /\ WithinOrder(m) /\ status'[m] = st /\ parts'[m] = parts[m]
      /\ \A p \in parts[m] : status'[p] = status[p]
      /\ UNCHANGED << stock_committed_at, main_stock_committed_at >>
  BY MainRow
<1>2. main_stock_committed_at[m]
  BY WholeStage
<1>3. StageStep(m)
  BY <1>1, <1>2, StageNow, StageThen DEF StageStep
<1>4. OwnedAt(m)
  BY DEF ServiceInv, Orders
<1>5. RowStep(m)
  BY <1>1, <1>4 DEF RowStep, OwnedAt, Moves, Waiting
<1> QED
  BY <1>1, <1>3, <1>5, ServeMain

\* A delivery starts or ends.
LEMMA ServeDelivery ==
  ASSUME ServiceInv, NEW c \in Couriers \cup {Admin}, NEW o \in Orders,
         Start(c, o) \/ Deliver(c, o)
  PROVE  Serves
<1> DEFINE st == IF status[o] = "ready_for_delivery" THEN "shipped"
                 ELSE IF o \in Transfers THEN "awaiting_receipt" ELSE "delivered"
<1>1. /\ Delivery(o) /\ status[o] \in {"ready_for_delivery", "shipped"}
      /\ ChangesStatus(o, st) /\ UNCHANGED << picker_id, courier_id >>
  <2>1. /\ Delivery(o) /\ status[o] \in {"ready_for_delivery", "shipped"}
        /\ status' = [status EXCEPT ![o] = st]
        /\ UNCHANGED << ledgerVars, picker_id, courier_id, parts, main_stock_committed_at >>
    BY DEF Start, Deliver
  <2> HIDE DEF st
  <2> QED
    BY <2>1, OneRow DEF ServiceInv
<1>2. CASE o \in Mains
  <2>1. o \notin Transfers
    BY <1>2, FulfillmentAssumption
  <2>2. \/ status[o] = "ready_for_delivery" /\ st \in {"shipped", "delivered"}
        \/ status[o] = "shipped" /\ st = "delivered"
    BY <1>1, <2>1
  <2> HIDE DEF st
  <2> QED
    BY <1>1, <1>2, <2>2, ServeHandOver
<1>3. ASSUME NEW m \in Mains, o \in parts[m] PROVE Serves
  <2>1. o \in Transfers
    BY <1>1, <1>3, OneMain, FulfillmentAssumption DEF Delivery, ServiceInv
  <2>2. \/ status[o] = "ready_for_delivery" /\ st = "shipped"
        \/ status[o] = "shipped" /\ st = "awaiting_receipt"
    BY <1>1, <2>1
  <2> HIDE DEF st
  <2>3. RowStep(o)
    <3>1. status'[o] = st /\ OwnedAt(o)
      BY <1>1 DEF ChangesStatus, ServiceInv
    <3> QED
      BY <1>1, <2>2, <3>1 DEF RowStep, OwnedAt, Moves, Waiting
  <2>4. st \in {"shipped", "awaiting_receipt"} /\ st \in AwayFromShelf
    BY <2>2 DEF AwayFromShelf
  <2> QED
    BY <1>1, <1>3, <2>2, <2>3, <2>4, ServePart
<1> QED
  BY <1>1, <1>2, <1>3 DEF Delivery, Live

\* The moves administrators are there for.
LEMMA ServeAdmin ==
  ASSUME ServiceInv, NEW o \in Orders, NEW st \in Statuses, AdminUpdate(o, st)
  PROVE  Serves
<1>1. << Kind(o), status[o], st >> \in ServiceMoves
  BY DEF AdminUpdate, ServiceInv, ServiceOnly
<1>2. o \in Mains
  BY <1>1 DEF ServiceMoves, Kind
<1>3. \/ status[o] \in {"pending", "manager_review"} /\ st = "confirmed"
      \/ status[o] = "ready_for_delivery" /\ st \in {"shipped", "delivered"}
      \/ status[o] = "shipped" /\ st = "delivered"
  BY <1>1 DEF ServiceMoves
<1>4. /\ status' = SyncedStatus(o, st)
      /\ UNCHANGED << ledgerVars, picker_id, courier_id, parts, main_stock_committed_at >>
  BY <1>2 DEF AdminUpdate
<1>5. CASE st = "confirmed"
  BY <1>2, <1>3, <1>4, <1>5, ServeConfirm
<1>6. CASE st \in {"shipped", "delivered"}
  <2>1. Arrived(o) /\ parts[o] \subseteq Executions
    BY <1>2, <1>3, <1>6, WholeStage, OneMain DEF ServiceInv
  <2>2. \A p \in parts[o] : status[p] \in {"packed", "cancelled"}
    BY <2>1 DEF Arrived, AllPacked, ActiveParts
  <2>3. ChangesStatus(o, st)
    BY <1>2, <1>4, <1>6, <2>2 DEF SyncedStatus, ChangesStatus, ledgerVars
  <2> QED
    BY <1>2, <1>3, <1>4, <1>6, <2>3, ServeHandOver
<1> QED
  BY <1>3, <1>5, <1>6

\* A step that at most gives a ready order to a courier or takes it back.
LEMMA ServeQuiet ==
  ASSUME ServiceInv, UNCHANGED << stock_reserved_at, stock_released_at, stock_committed_at >>,
         UNCHANGED << status, picker_id, parts, main_stock_committed_at >>,
         \A o \in Orders : courier_id'[o] = courier_id[o] \/ status[o] = "ready_for_delivery"
  PROVE  Serves
<1>1. ASSUME NEW o \in Orders PROVE RowStep(o)
  <2>1. OwnedAt(o)
    BY DEF ServiceInv
  <2> QED
    BY <2>1 DEF RowStep, OwnedAt, Moves, Waiting
<1> QED
  BY <1>1, QuietStep

\* Every step of the fulfilment keeps the service.
LEMMA ServiceStep == ServiceInv /\ Next => Serves
<1> SUFFICES ASSUME ServiceInv, Next PROVE Serves
  OBVIOUS
<1>1. ASSUME NEW m \in Mains, NEW A \in Allocations[m], Place(m, A) \/ ManagerEdit(m, A)
      PROVE  Serves
  BY <1>1, ServePlace, ServeEdit
<1>2. ASSUME NEW m \in Mains, ManagerConfirm(m) PROVE Serves
  BY <1>2, ServeConfirm DEF ManagerConfirm
<1>3. ASSUME NEW m \in Mains, CustomerCancel(m) \/ ManagerCancel(m) PROVE Serves
  BY <1>3, ServeCancel DEF CustomerCancel, ManagerCancel, canBeCancelledByManager
<1>4. ASSUME NEW m \in Mains, NEW p \in parts[m], ReturnPart(m, p) PROVE Serves
  BY <1>4, ServeReturn
<1>5. ASSUME NEW m \in Mains, NEW p \in Executions, ReceiveTransfer(m, p) PROVE Serves
  <2>1. /\ p \in parts[m] /\ status[p] = "awaiting_receipt"
        /\ SyncMain(m, [status EXCEPT ![p] = "packed"], stock_committed_at')
        /\ UNCHANGED << stock_reserved_at, stock_released_at, stock_committed_at, parts,
                        picker_id, courier_id >>
    BY <1>5 DEF ReceiveTransfer, ledgerVars
  <2>2. stock_committed_at[p]
    BY <2>1 DEF ServiceInv, WholeInv, OrderOK, PackedAt, AwayFromShelf
  <2> QED
    BY <2>1, <2>2, ServeSyncMain
<1>6. ASSUME NEW k \in Pickers, NEW o \in Orders,
             Take(k, o) \/ ReleasePicking(k, o) \/ Escalate(k, o)
      PROVE  Serves
  BY <1>6, ServePicking, ServeEscalate
<1>7. ASSUME NEW k \in Pickers, NEW m \in Mains, CompleteMain(k, m) PROVE Serves
  <2>1. /\ status[m] = "processing" /\ status' = [status EXCEPT ![m] = "ready_for_delivery"]
        /\ UNCHANGED << ledgerVars, picker_id, courier_id, parts, main_stock_committed_at >>
    BY <1>7 DEF CompleteMain, OwnedProcessing
  <2>2. ChangesStatus(m, "ready_for_delivery")
    BY <2>1, OneRow DEF ServiceInv, Orders
  <2> QED
    BY <2>1, <2>2, ServeHandOver
<1>8. ASSUME NEW k \in Pickers, NEW m \in Mains, NEW p \in Executions, CompletePart(k, m, p)
      PROVE  Serves
  <2> DEFINE st == IF p \in Transfers THEN "ready_for_delivery" ELSE "packed"
  <2>1. /\ p \in parts[m] /\ status[p] = "processing" /\ commitOnlineStockForOrder(p)
        /\ SyncMain(m, [status EXCEPT ![p] = st], stock_committed_at')
        /\ UNCHANGED << parts, picker_id, courier_id >>
    BY <1>8 DEF CompletePart, OwnedProcessing
  <2>2. st \in {"ready_for_delivery", "packed"}
    OBVIOUS
  <2>3. /\ stock_committed_at'[p]
        /\ \A q \in Documents \ {p} : stock_committed_at'[q] = stock_committed_at[q]
        /\ UNCHANGED << stock_reserved_at, stock_released_at >>
    BY <2>1, CommitStamps DEF ServiceInv, WholeInv, TypeOK
  <2> HIDE DEF st
  <2> QED
    BY <2>1, <2>2, <2>3, ServeSyncMain
<1>9. ASSUME NEW k \in Pickers, NEW p \in Executions, NEW i \in Inventories,
             ReportShortage(k, p, i)
      PROVE  Serves
  <2>1. /\ Live(p) /\ status[p] = "processing" /\ ToReview(p)
        /\ UNCHANGED << ledgerVars, courier_id, parts, main_stock_committed_at >>
    BY <1>9 DEF ReportShortage, OwnedProcessing
  <2>2. \E m \in Mains : p \in parts[m]
    BY <2>1, FulfillmentAssumption DEF Live
  <2> QED
    BY <2>1, <2>2, ServePartReview
<1>10. ASSUME NEW c \in Couriers \cup {Admin}, NEW o \in Orders,
              Claim(c, o) \/ ReleaseDelivery(c, o) \/ AssignCourier(c, o)
       PROVE  Serves
  <2>1. /\ UNCHANGED << ledgerVars, status, picker_id, parts, main_stock_committed_at >>
        /\ status[o] = "ready_for_delivery"
        /\ \E v : courier_id' = [courier_id EXCEPT ![o] = v]
    BY <1>10 DEF Claim, ReleaseDelivery, AssignCourier
  <2>2. \A q \in Orders : courier_id'[q] = courier_id[q] \/ status[q] = "ready_for_delivery"
    BY <2>1 DEF ServiceInv, WholeInv, TypeOK
  <2> QED
    BY <2>1, <2>2, ServeQuiet DEF ledgerVars
<1>11. ASSUME NEW c \in Couriers \cup {Admin}, NEW o \in Orders, Start(c, o) \/ Deliver(c, o)
       PROVE  Serves
  BY <1>11, ServeDelivery
<1>12. ASSUME NEW o \in Orders, NEW st \in Statuses, AdminUpdate(o, st) PROVE Serves
  BY <1>12, ServeAdmin
<1>13. ASSUME NEW p \in Executions, NEW i \in Inventories, IssueStep(p, i) PROVE Serves
  BY <1>13, ServeQuiet DEF IssueStep, TakeIssue, ReleaseIssue, CloseIssue, MoveIssue, ledgerVars
<1>14. CASE AdjustStock
  BY <1>14, ServeQuiet DEF AdjustStock, orderVars, Adjust, adjustQuantity
<1> QED
  BY <1>1, <1>2, <1>3, <1>4, <1>5, <1>6, <1>7, <1>8, <1>9, <1>10, <1>11, <1>12, <1>13, <1>14
     DEF Next, OrderStep, PickerStep, CourierStep, ReturnByPart, ReturnByMain, ActiveParts

------------------------------------------------------------------------------

\* The empty shop satisfies the invariant.
LEMMA ServiceInit == ServiceOnly /\ Init => ServiceInv
<1> SUFFICES ASSUME ServiceOnly, Init PROVE ServiceInv
  OBVIOUS
<1>1. WholeInv
  BY WholeInit
<1>2. \A m \in Mains : ServedAt(m) /\ FreshAt(m)
  <2> TAKE m \in Mains
  <2>1. parts[m] = {} /\ status[m] = "none" /\ ~main_stock_committed_at[m]
    BY DEF Init, Orders
  <2>2. \A A \in Allocations[m] : \A p \in A : status[p] = "none"
    BY Allocated DEF Init, Orders
  <2> QED
    BY <2>1, <2>2 DEF ServedAt, OnShelfAt, CancelledTogether, PendingTogether, JoinedAt,
                      SingleAt, MainStampAt, FreshAt
<1>3. \A p \in Executions : LooseAt(p)
  BY DEF Init, LedgerInit, LooseAt, Orders, Documents
<1>4. \A o \in Orders : OwnedAt(o)
  BY DEF Init, OwnedAt
<1> QED
  BY <1>1, <1>2, <1>3, <1>4 DEF ServiceInv

\* Every step keeps the invariant and serves.
LEMMA ServiceNext == ServiceInv /\ [Next]_vars => ServiceInv' /\ Serves
<1>1. ServiceInv /\ [Next]_vars => Serves
  <2>1. ASSUME ServiceInv, UNCHANGED vars PROVE Serves
    BY <2>1, ServeQuiet DEF vars, ledgerVars, orderVars
  <2> QED
    BY <2>1, ServiceStep
<1>2. ServiceInv /\ [Next]_vars => WholeInv'
  BY WholeInductive DEF ServiceInv
<1>3. ServiceInv => ServiceOnly'
  BY DEF ServiceInv, ServiceOnly
<1> QED
  BY <1>1, <1>2, <1>3 DEF ServiceInv, Serves, RowStep

\* The invariant holds in every state.
LEMMA ServiceAlways == ServiceOnly /\ Spec => []ServiceInv
<1>1. ServiceInv /\ [Next]_vars => ServiceInv'
  BY ServiceNext
<1> QED
  BY <1>1, ServiceInit, PTL DEF Spec

\* While administrators keep to what they are there for, packing, return, review
\* and cancellation never part a part's status from its stamp.
THEOREM PackedAsBooked == ServiceOnly /\ Spec => []PackedIffCommitted
<1>1. ServiceInv => PackedIffCommitted
  BY DEF ServiceInv, WholeInv, OrderOK, PackedAt, ServedAt, OnShelfAt, PackedIffCommitted
<1> QED
  BY <1>1, ServiceAlways, PTL

\* What is cancelled or deleted keeps neither goods nor staff.
THEOREM VoidIsEmpty == ServiceOnly /\ Spec => []VoidKeepsNothing
<1>1. ServiceInv => CancelledKeepsNothing
  <2> SUFFICES ASSUME ServiceInv, NEW m \in Mains, status[m] = "cancelled", NEW p \in parts[m]
               PROVE  status[p] = "cancelled" /\ ~Holds(p) /\ ~stock_committed_at[p]
    BY DEF CancelledKeepsNothing
  <2>1. status[p] = "cancelled"
    BY DEF ServiceInv, ServedAt, CancelledTogether
  <2>2. stock_released_at[p] /\ p \in Documents
    BY <2>1, OneMain DEF ServiceInv, WholeInv, OrderOK, CancelledAt, Documents
  <2> QED
    BY <2>1, <2>2 DEF ServiceInv, WholeInv, StampsAgree, Holds
<1>2. ServiceInv => DeletedKeepsNothing
  <2> SUFFICES ASSUME ServiceInv, NEW p \in Executions, \A m \in Mains : p \notin parts[m]
               PROVE  /\ ~Holds(p) /\ ~stock_committed_at[p]
                      /\ picker_id[p] = Nobody /\ courier_id[p] = Nobody
    BY DEF DeletedKeepsNothing
  <2>1. LooseAt(p) /\ OwnedAt(p) /\ p \in Documents
    BY DEF ServiceInv, Orders, Documents
  <2>2. status[p] \in Waiting \cup {"none"}
    BY <2>1 DEF LooseAt
  <2>3. stock_released_at[p] \/ ~stock_reserved_at[p]
    BY <2>1 DEF LooseAt
  <2> QED
    BY <2>1, <2>2, <2>3 DEF ServiceInv, WholeInv, StampsAgree, Holds, OwnedAt
<1> QED
  BY <1>1, <1>2, ServiceAlways, PTL DEF VoidKeepsNothing

\* An order in work has its picker; one that waits has nobody left over.
THEOREM OwnersAreCurrent == ServiceOnly /\ Spec => []NoStaleOwner
<1>1. ServiceInv => NoStaleOwner
  BY DEF ServiceInv, OwnedAt, NoStaleOwner, Waiting
<1> QED
  BY <1>1, ServiceAlways, PTL

\* The only part of a confirmed order is never left packed with the order not ready.
THEOREM SinglePartsMoveOn == ServiceOnly /\ Spec => []SinglePartNeverStranded
<1>1. ServiceInv => SinglePartNeverStranded
  BY DEF ServiceInv, ServedAt, SingleAt, SinglePartNeverStranded
<1> QED
  BY <1>1, ServiceAlways, PTL

\* Goods on their way are neither recalled nor handed to another courier.
THEOREM TravelsOneWay == ServiceOnly /\ Spec => TravelIsOneWay
<1>1. ServiceInv /\ [Next]_vars =>
        [\A o \in Orders : status[o] \in {"shipped", "awaiting_receipt"} =>
           /\ courier_id'[o] = courier_id[o]
           /\ status'[o] \in {status[o], "awaiting_receipt", "packed", "delivered"}
           /\ status'[o] = "delivered" => o \in Mains]_vars
  <2> SUFFICES ASSUME ServiceInv, [Next]_vars, NEW o \in Orders,
                      status[o] \in {"shipped", "awaiting_receipt"}
               PROVE  /\ courier_id'[o] = courier_id[o]
                      /\ status'[o] \in {status[o], "awaiting_receipt", "packed", "delivered"}
                      /\ status'[o] = "delivered" => o \in Mains
    OBVIOUS
  <2>1. Moves(o)
    BY ServiceNext DEF Serves, RowStep
  <2> QED
    BY <2>1 DEF Moves
<1> QED
  BY <1>1, ServiceAlways, PTL DEF Spec, TravelIsOneWay

\* A stage that belongs to a workflow is left only through that workflow.
THEOREM StagesKept == ServiceOnly /\ Spec => StagesBelongToWorkflows
<1>1. ServiceInv /\ [Next]_vars =>
        [\A o \in Orders : status'[o] # status[o] =>
           /\ status[o] = "processing" =>
                status'[o] \in {"confirmed", "ready_for_delivery", "packed", "manager_review"}
           /\ status[o] = "awaiting_receipt" => status'[o] = "packed"
           /\ status[o] = "packed" => status'[o] = "confirmed"
           /\ status[o] # "delivered"]_vars
  <2> SUFFICES ASSUME ServiceInv, [Next]_vars, NEW o \in Orders, status'[o] # status[o]
               PROVE  /\ status[o] = "processing" =>
                           status'[o] \in {"confirmed", "ready_for_delivery", "packed",
                                           "manager_review"}
                      /\ status[o] = "awaiting_receipt" => status'[o] = "packed"
                      /\ status[o] = "packed" => status'[o] = "confirmed"
                      /\ status[o] # "delivered"
    OBVIOUS
  <2>1. Moves(o)
    BY ServiceNext DEF Serves, RowStep
  <2> QED
    BY <2>1 DEF Moves
<1> QED
  BY <1>1, ServiceAlways, PTL DEF Spec, StagesBelongToWorkflows

\* Every step of the fulfilment is a step of the stock ledger, or leaves it alone.
LEMMA LedgerStep == ServiceInv /\ [Next]_vars => [LedgerNext]_ledgerVars
<1> SUFFICES ASSUME ServiceInv, [Next]_vars PROVE LedgerNext \/ UNCHANGED ledgerVars
  OBVIOUS
<1> DEFINE Goal == LedgerNext \/ UNCHANGED ledgerVars
<1>1. ASSUME NEW m \in Mains, NEW A \in Allocations[m], Place(m, A) PROVE Goal
  BY <1>1, Allocated DEF Place, LedgerNext, ReserveOnline
<1>2. ASSUME NEW m \in Mains, NEW A \in Allocations[m], ManagerEdit(m, A) PROVE Goal
  <2>1. replaceOnlineStock(parts[m], A) /\ \A p \in A : status[p] = "none"
    BY <1>2 DEF ManagerEdit
  <2>2. OrderOK(m) /\ status[m] # "none"
    BY <1>2 DEF ServiceInv, WholeInv, ManagerEdit, Editable
  <2>3. parts[m] \in Allocations[m]
    BY <2>2 DEF OrderOK, AllocatedAt, PlacedAt
  <2>4. A \in Batches /\ parts[m] \in Batches /\ parts[m] \cap A = {}
    BY <2>1, <2>2, <2>3, Allocated DEF OrderOK, AllocatedAt
  <2> QED
    BY <2>1, <2>4 DEF LedgerNext, ReplaceOnline
<1>3. ASSUME NEW m \in Mains, CustomerCancel(m) \/ ManagerCancel(m) PROVE Goal
  <2> DEFINE open == {p \in parts[m] : status[p] # "cancelled"}
  <2>1. releaseOnlineStockForOrder(open)
        /\ status[m] \in {"pending", "confirmed", "processing", "manager_review"}
    BY <1>3 DEF CustomerCancel, ManagerCancel, CancelOrder, canBeCancelled,
                canBeCancelledByManager
  <2>2. open = parts[m]
    BY <2>1 DEF ServiceInv, ServedAt, CancelledTogether
  <2>3. parts[m] \in Allocations[m]
    BY <2>1 DEF ServiceInv, WholeInv, OrderOK, AllocatedAt, PlacedAt
  <2>4. open \in Batches
    BY <2>2, <2>3, Allocated
  <2> QED
    BY <2>1, <2>4 DEF LedgerNext, ReleaseOnline
<1>4. ASSUME NEW m \in Mains, NEW p \in parts[m], ReturnPart(m, p) PROVE Goal
  BY <1>4, OneMain DEF ServiceInv, ReturnPart, LedgerNext, RestoreOnline
<1>5. ASSUME NEW k \in Pickers, NEW m \in Mains, NEW p \in Executions, CompletePart(k, m, p)
      PROVE  Goal
  BY <1>5 DEF CompletePart, LedgerNext, CommitOnline
<1>6. CASE AdjustStock
  BY <1>6 DEF AdjustStock, LedgerNext
<1>7. CASE UNCHANGED vars
  BY <1>7 DEF vars
<1> QED
  BY <1>1, <1>2, <1>3, <1>4, <1>5, <1>6, <1>7
     DEF Next, OrderStep, PickerStep, CourierStep, IssueStep, ReturnByPart, ReturnByMain,
         ActiveParts, ManagerConfirm, ReceiveTransfer, Take, ReleasePicking, Escalate,
         CompleteMain, ReportShortage, Claim, ReleaseDelivery, Start, Deliver,
         AssignCourier, AdminUpdate, TakeIssue, ReleaseIssue, CloseIssue, MoveIssue

\* The fulfilment implements the stock ledger.
THEOREM LedgerIsFollowed == ServiceOnly /\ Spec => StockFollowsLedger
<1>1. Init => LedgerInit
  BY DEF Init
<1> QED
  BY <1>1, LedgerStep, ServiceAlways, PTL DEF Spec, StockFollowsLedger, LedgerSpec

\* What is proved of the ledger holds of the fulfilment too: whatever pickers,
\* couriers, the desk and the service do, the books agree with documents and
\* journal, a package is taken from the shelf once, keys never clash, a released
\* reserve stays released, and only counter sales and corrections oversell.
THEOREM BooksSurviveService ==
  ServiceOnly /\ Spec =>
    [](BooksAgree /\ ShippedOnce /\ KeysNeverClash) /\ ReleaseIsFinal /\ OversoldOnlyByHand
  BY LedgerIsFollowed, BooksAlwaysAgree, TakenFromTheShelfOnce, KeysStayApart,
     ReleasedForGood, OnlyHandsOversell, PTL DEF StockFollowsLedger

\* What a step does to the customer's order is a step of the promise.
LEMMA PromiseStep ==
  ASSUME StagesStep
  PROVE  [Promise!Next]_([m \in Mains |-> Stage(m)])
<1> DEFINE stage == [n \in Mains |-> Stage(n)]
<1>1. CASE \A n \in Mains : Stage(n)' = Stage(n)
  BY <1>1
<1>2. ASSUME NEW m \in Mains, StageStep(m), \A n \in Mains \ {m} : Stage(n)' = Stage(n)
      PROVE  Promise!Next \/ stage' = stage
  <2>1. stage' = [stage EXCEPT ![m] = Stage(m)'] /\ stage[m] = Stage(m)
    BY <1>2
  <2>2. CASE Stage(m)' = Stage(m)
    BY <2>1, <2>2
  <2>3. CASE Stage(m)' # Stage(m)
    <3>1. \/ stage[m] \in {"none"} /\ Stage(m)' \in {"open"}
          \/ stage[m] \in {"open", "packing"} /\ Stage(m)' \in {"packing", "packed"}
          \/ stage[m] \in {"packing", "packed"} /\ Stage(m)' \in {"open", "packing"}
          \/ stage[m] \in {"packed"} /\ Stage(m)' \in {"out"}
          \/ stage[m] \in {"packed", "out"} /\ Stage(m)' \in {"delivered"}
          \/ stage[m] \in {"open"} /\ Stage(m)' \in {"cancelled"}
      BY <1>2, <2>1, <2>3 DEF StageStep
    <3> HIDE DEF stage
    <3>2. \/ Promise!Place(m) \/ Promise!Pack(m) \/ Promise!Unpack(m) \/ Promise!HandOver(m)
          \/ Promise!Deliver(m) \/ Promise!Cancel(m)
      BY <2>1, <3>1 DEF Promise!Place, Promise!Pack, Promise!Unpack, Promise!HandOver,
                        Promise!Deliver, Promise!Cancel, Promise!Move, stage
    <3> QED
      BY <3>2 DEF Promise!Next
  <2> QED
    BY <2>2, <2>3
<1> QED
  BY <1>1, <1>2 DEF StagesStep

\* Whoever works on an order, the shop keeps its promise to the customer.
THEOREM PromiseIsKept == ServiceOnly /\ Spec => KeepsPromise
<1>1. Init => Promise!Init
  BY DEF Init, Promise!Init, Stage, Orders
<1>2. ServiceInv /\ [Next]_vars => [Promise!Next]_([m \in Mains |-> Stage(m)])
  BY ServiceNext, PromiseStep DEF Serves
<1> QED
  BY <1>1, <1>2, ServiceAlways, PTL DEF Spec, KeepsPromise, Promise!Spec
===============================================================================
