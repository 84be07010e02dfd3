--------------------------- MODULE InventoryLedger ---------------------------
(***************************************************************************)
(* The stock ledger of TeaSeat: WarehouseService and the rows it writes.   *)
(*                                                                         *)
(* One inventory row is the balance of one product at one warehouse:       *)
(* `quantity` is the physical stock, `reserved_online` what web orders      *)
(* hold, `reserved_seller` what counter sales hold.  A document is an       *)
(* order row that moves stock: an execution (the part of a web order that  *)
(* one warehouse fulfils) or a sale (an order of the seller's app).  The   *)
(* three time stamps of a document are modelled by whether they are set.   *)
(*                                                                         *)
(* Every operation is one action: the code runs it in one transaction that *)
(* locks the document and then each inventory row it touches, and a thrown *)
(* DomainException rolls the whole transaction back, which is the action   *)
(* not being enabled.                                                      *)
(***************************************************************************)
EXTENDS Integers, FiniteSets, Functions, FiniteSetsExt

CONSTANTS
  Inventories,      \* inventory rows
  Executions,       \* executions of web orders (order rows with a warehouse)
  Sales,            \* seller orders
  Batches,          \* sets of executions reserved or released in one call
  Demand,           \* Demand[o][i]: what execution o takes from row i
  InitialQuantity,  \* opening balances
  SaleContents,     \* the item lists a seller may send, as functions of rows
  MaxReturns,       \* bound: packages returned to stock, per execution
  MaxRevision,      \* bound: revisions of a sale
  MaxAdjustments,   \* bound: manual corrections, per row
  AdjustTo          \* the balances a manual correction may set

VARIABLES
  quantity, reserved_online, reserved_seller,  \* columns of `inventories`
  stock_reserved_at, stock_released_at, stock_committed_at,
  sale_items,                                  \* item rows of the sales
  seller_revision,
  movements                                    \* rows of inventory_movements

ledgerVars == << quantity, reserved_online, reserved_seller,
                 stock_reserved_at, stock_released_at, stock_committed_at,
                 sale_items, seller_revision, movements >>

balances == << quantity, reserved_online, reserved_seller >>

Documents == Executions \cup Sales

NoItems == [i \in Inventories |-> 0]

(***************************************************************************)
(* createPartialOrders makes one execution per warehouse, so the           *)
(* executions of one call never share an inventory row.                    *)
(***************************************************************************)
DisjointBatches ==
  \A S \in Batches : \A o1, o2 \in S : \A i \in Inventories :
    Demand[o1][i] > 0 /\ Demand[o2][i] > 0 => o1 = o2

ASSUME LedgerAssumption ==
  /\ IsFiniteSet(Inventories) /\ IsFiniteSet(Executions) /\ IsFiniteSet(Sales)
  /\ Executions \cap Sales = {}
  /\ "none" \notin Documents  \* the document of a journal row that has none
  /\ Batches \subseteq SUBSET Executions
  /\ Demand \in [Executions -> [Inventories -> Nat]]
  /\ InitialQuantity \in [Inventories -> Nat]
  /\ SaleContents \subseteq [Inventories -> Nat]
  /\ AdjustTo \subseteq Nat
  /\ MaxReturns \in Nat /\ MaxRevision \in Nat /\ MaxAdjustments \in Nat
  /\ DisjointBatches

------------------------------------------------------------------------------
(* Reading a row. *)

Positive(n) == IF n > 0 THEN n ELSE 0

\* Mutant: the sale is deducted in full, whatever the books have.
LesserUnclipped(m, n) == n

Lesser(m, n) == IF m < n THEN m ELSE n

\* Mutant: what sellers hold is forgotten.
availableToWebOnly(i) == Positive(quantity[i] - reserved_online[i])

availableQuantity(i) ==
  Positive(quantity[i] - reserved_online[i] - reserved_seller[i])

shortageQuantity(i) ==
  Positive(reserved_online[i] + reserved_seller[i] - quantity[i])

Items(q) == {i \in Inventories : q[i] > 0}

\* The order lines of a set of executions, as pairs of execution and row.
Lines(S) == {l \in S \X Inventories : Demand[l[1]][l[2]] > 0}

\* What the executions of S take from row i; at most one of them does.
Takers(S, i) == {o \in S : Demand[o][i] > 0}

Taken(S, i) ==
  IF Takers(S, i) = {} THEN 0
  ELSE Demand[CHOOSE o \in Takers(S, i) : TRUE][i]

------------------------------------------------------------------------------
(* The journal.  A row's idempotency_key is unique in the database: a      *)
(* second insert with the same key fails, and with it the transaction.     *)

\* Mutant: the deltas of the two reserves end up in each other's column.
MovementSwapped(op, doc, i, n, physical, online, seller) ==
  [key |-> << op, doc, i, n >>,
   physical |-> physical, online |-> seller, seller |-> online]

Movement(op, doc, i, n, physical, online, seller) ==
  [key |-> << op, doc, i, n >>,
   physical |-> physical, online |-> online, seller |-> seller]

Keys == {m.key : m \in movements}

recordMovement(new) ==
  /\ \A m \in new : m.key \notin Keys
  /\ movements' = movements \cup new

\* Mutant: the key of a packing does not tell its repetitions apart.
returnCycleConstant(o, i) == 0

\* How many online_return rows document o has for row i.
returnCycle(o, i) ==
  Cardinality({m \in movements : m.key[1] = "online_return"
                                 /\ m.key[2] = o /\ m.key[3] = i})

Adjustments(i) ==
  Cardinality({m \in movements : m.key[1] = "adjustment" /\ m.key[3] = i})

Stamp(f, S) == [o \in DOMAIN f |-> f[o] \/ o \in S]

------------------------------------------------------------------------------
(* Web orders. *)

\* Reserves the executions of S that hold no reserve yet, or none of them.
reserveOnlineStockForOrders(S) ==
  LET new == {o \in S : ~stock_reserved_at[o]} IN
  /\ \A i \in Inventories : Taken(new, i) > 0 => availableQuantity(i) >= Taken(new, i)
  /\ reserved_online' = [i \in Inventories |-> reserved_online[i] + Taken(new, i)]
  /\ recordMovement({Movement("online_reserve", l[1], l[2], 0,
                              0, Demand[l[1]][l[2]], 0) : l \in Lines(new)})
  /\ stock_reserved_at' = Stamp(stock_reserved_at, new)
  /\ UNCHANGED << quantity, reserved_seller, stock_released_at,
                  stock_committed_at, sale_items, seller_revision >>

\* releaseOnlineStockForOrder for each execution of S, in one transaction.
releaseOnlineStockForOrder(S) ==
  LET held == {o \in S : stock_reserved_at[o] /\ ~stock_released_at[o]} IN
  /\ \A o \in S : ~stock_released_at[o] => ~stock_committed_at[o]
  /\ \A i \in Inventories : reserved_online[i] >= Taken(held, i)
  /\ reserved_online' = [i \in Inventories |-> reserved_online[i] - Taken(held, i)]
  /\ recordMovement({Movement("online_release", l[1], l[2], 0,
                              0, -Demand[l[1]][l[2]], 0) : l \in Lines(held)})
  /\ stock_released_at' = Stamp(stock_released_at, held)
  /\ UNCHANGED << quantity, reserved_seller, stock_reserved_at,
                  stock_committed_at, sale_items, seller_revision >>

\* Mutants: a released execution is packed; stock is not looked at.
CanCommitReleased(o) ==
  /\ stock_reserved_at[o]
  /\ \A i \in Items(Demand[o]) : /\ reserved_online[i] >= Demand[o][i]
                                 /\ quantity[i] >= Demand[o][i]

\* Why commitLockedOnlineOrder refuses an execution that is not committed yet.
CanCommit(o) ==
  /\ ~stock_released_at[o]
  /\ stock_reserved_at[o]
  /\ \A i \in Items(Demand[o]) : /\ reserved_online[i] >= Demand[o][i]
                                 /\ quantity[i] >= Demand[o][i]

\* The sale of a package leaves the shelf; a repeated call changes nothing.
commitOnlineStockForOrder(o) ==
  IF stock_committed_at[o] THEN UNCHANGED ledgerVars
  ELSE /\ CanCommit(o)
       /\ quantity' = [i \in Inventories |-> quantity[i] - Demand[o][i]]
       /\ reserved_online' = [i \in Inventories |-> reserved_online[i] - Demand[o][i]]
       /\ recordMovement({Movement("online_sale", o, i, returnCycle(o, i),
                                   -Demand[o][i], -Demand[o][i], 0) :
                            i \in Items(Demand[o])})
       /\ stock_committed_at' = Stamp(stock_committed_at, {o})
       /\ UNCHANGED << reserved_seller, stock_reserved_at, stock_released_at,
                       sale_items, seller_revision >>

\* Mutant: the unpacking of what is not packed is not ignored.
restoreAgain(o) ==
  /\ \A i \in Items(Demand[o]) : returnCycle(o, i) < MaxReturns
  /\ quantity' = [i \in Inventories |-> quantity[i] + Demand[o][i]]
  /\ reserved_online' = [i \in Inventories |-> reserved_online[i] + Demand[o][i]]
  /\ recordMovement({Movement("online_return", o, i, returnCycle(o, i) + 1,
                              Demand[o][i], Demand[o][i], 0) : i \in Items(Demand[o])})
  /\ stock_committed_at' = [stock_committed_at EXCEPT ![o] = FALSE]
  /\ UNCHANGED << reserved_seller, stock_reserved_at, stock_released_at,
                  sale_items, seller_revision >>

\* A package is unpacked: the goods are back on the shelf and reserved again.
restoreCommittedOnlineStockForOrder(o) ==
  IF ~stock_committed_at[o] THEN UNCHANGED ledgerVars
  ELSE /\ \A i \in Items(Demand[o]) : returnCycle(o, i) < MaxReturns
       /\ quantity' = [i \in Inventories |-> quantity[i] + Demand[o][i]]
       /\ reserved_online' = [i \in Inventories |-> reserved_online[i] + Demand[o][i]]
       /\ recordMovement({Movement("online_return", o, i, returnCycle(o, i) + 1,
                                   Demand[o][i], Demand[o][i], 0) :
                            i \in Items(Demand[o])})
       /\ stock_committed_at' = [stock_committed_at EXCEPT ![o] = FALSE]
       /\ UNCHANGED << reserved_seller, stock_reserved_at, stock_released_at,
                       sale_items, seller_revision >>

\* A manager changed the contents of an order: the reserves of its old parts S
\* go back, and the parts of the new allocation A are reserved from what is
\* then available, in one transaction.
replaceOnlineStock(S, A) ==
  LET held == {o \in S : stock_reserved_at[o] /\ ~stock_released_at[o]}
      new == {o \in A : ~stock_reserved_at[o]}
      left == [i \in Inventories |-> reserved_online[i] - Taken(held, i)]
  IN
  /\ \A o \in S : ~stock_released_at[o] => ~stock_committed_at[o]
  /\ \A i \in Inventories :
       /\ left[i] >= 0
       /\ Taken(new, i) > 0 =>
            Positive(quantity[i] - left[i] - reserved_seller[i]) >= Taken(new, i)
  /\ reserved_online' = [i \in Inventories |-> left[i] + Taken(new, i)]
  /\ recordMovement({Movement("online_release", l[1], l[2], 0,
                              0, -Demand[l[1]][l[2]], 0) : l \in Lines(held)}
                    \cup {Movement("online_reserve", l[1], l[2], 0,
                                   0, Demand[l[1]][l[2]], 0) : l \in Lines(new)})
  /\ stock_reserved_at' = Stamp(stock_reserved_at, new)
  /\ stock_released_at' = Stamp(stock_released_at, held)
  /\ UNCHANGED << quantity, reserved_seller, stock_committed_at,
                  sale_items, seller_revision >>

------------------------------------------------------------------------------
(* Seller sales.  The goods may already have left the shop, so a reserve   *)
(* may exceed the stock; only completing the sale looks for conflicts.     *)

\* Mutant: a cancelled sale can still be edited.
SaleOpenReleased(s) == ~stock_committed_at[s]

\* SellerOrderService edits and cancels a sale only while it is open.
SaleOpen(s) == ~stock_released_at[s] /\ ~stock_committed_at[s]

\* A new revision of the sale replaces its items and moves the difference.
syncSellerReservation(s, new) ==
  LET delta == [i \in Inventories |-> new[i] - sale_items[s][i]] IN
  /\ seller_revision[s] < MaxRevision
  /\ \A i \in Inventories : reserved_seller[i] + delta[i] >= 0
  /\ reserved_seller' = [i \in Inventories |-> reserved_seller[i] + delta[i]]
  /\ recordMovement({Movement("seller_sync", s, i, seller_revision[s] + 1,
                              0, 0, delta[i]) :
                       i \in {j \in Inventories : delta[j] # 0}})
  /\ stock_reserved_at' = Stamp(stock_reserved_at, {s})
  /\ sale_items' = [sale_items EXCEPT ![s] = new]
  /\ seller_revision' = [seller_revision EXCEPT ![s] = @ + 1]
  /\ UNCHANGED << quantity, reserved_online, stock_released_at, stock_committed_at >>

releaseSellerStockForOrder(s) ==
  IF stock_released_at[s] THEN UNCHANGED ledgerVars
  ELSE /\ ~stock_committed_at[s]
       /\ \A i \in Inventories : reserved_seller[i] >= sale_items[s][i]
       /\ reserved_seller' =
            [i \in Inventories |-> reserved_seller[i] - sale_items[s][i]]
       /\ recordMovement({Movement("seller_cancel", s, i, 0, 0, 0, -sale_items[s][i]) :
                            i \in Items(sale_items[s])})
       /\ stock_released_at' = Stamp(stock_released_at, {s})
       /\ UNCHANGED << quantity, reserved_online, stock_reserved_at,
                       stock_committed_at, sale_items, seller_revision >>

onlineShortage(i, physical) == Positive(reserved_online[i] - physical)

\* What stands against completing sale s, as pairs of row and reason.
Conflicts(s) ==
  {c \in Items(sale_items[s]) \X {"online_reservation_conflict",
                                  "physical_stock_discrepancy"} :
     LET i == c[1]
         q == sale_items[s][i]
     IN IF c[2] = "physical_stock_discrepancy" THEN q > quantity[i]
        ELSE onlineShortage(i, Positive(quantity[i] - q))
               > onlineShortage(i, quantity[i])}

\* The goods sold leave the shelf, as far as the books know of them.
completeSellerStockForOrder(s, allowConflicts) ==
  LET sold == [i \in Inventories |-> Lesser(quantity[i], sale_items[s][i])] IN
  /\ ~stock_committed_at[s]
  /\ ~stock_released_at[s]
  /\ stock_reserved_at[s]
  /\ \A i \in Inventories : reserved_seller[i] >= sale_items[s][i]
  /\ Conflicts(s) = {} \/ allowConflicts
  /\ quantity' = [i \in Inventories |-> quantity[i] - sold[i]]
  /\ reserved_seller' = [i \in Inventories |-> reserved_seller[i] - sale_items[s][i]]
  /\ recordMovement({Movement("seller_sale", s, i, 0, -sold[i], 0, -sale_items[s][i]) :
                       i \in Items(sale_items[s])})
  /\ stock_committed_at' = Stamp(stock_committed_at, {s})
  /\ UNCHANGED << reserved_online, stock_reserved_at, stock_released_at,
                  sale_items, seller_revision >>

\* A member of staff corrects the physical balance of a row.
adjustQuantity(i, n) ==
  /\ Adjustments(i) < MaxAdjustments
  /\ quantity[i] # n
  /\ quantity' = [quantity EXCEPT ![i] = n]
  /\ recordMovement({Movement("adjustment", "none", i, Adjustments(i) + 1,
                              n - quantity[i], 0, 0)})
  /\ UNCHANGED << reserved_online, reserved_seller, stock_reserved_at,
                  stock_released_at, stock_committed_at, sale_items,
                  seller_revision >>

------------------------------------------------------------------------------
LedgerInit ==
  /\ quantity = InitialQuantity
  /\ reserved_online = [i \in Inventories |-> 0]
  /\ reserved_seller = [i \in Inventories |-> 0]
  /\ stock_reserved_at = [o \in Documents |-> FALSE]
  /\ stock_released_at = [o \in Documents |-> FALSE]
  /\ stock_committed_at = [o \in Documents |-> FALSE]
  /\ sale_items = [s \in Sales |-> NoItems]
  /\ seller_revision = [s \in Sales |-> 0]
  /\ movements = {Movement("opening_balance", "none", i, 0, InitialQuantity[i], 0, 0) :
                    i \in Inventories}

ReserveOnline == \E S \in Batches : reserveOnlineStockForOrders(S)

ReleaseOnline == \E S \in Batches : releaseOnlineStockForOrder(S)

ReplaceOnline == \E S, A \in Batches :
                   S \cap A = {} /\ replaceOnlineStock(S, A)

CommitOnline == \E o \in Executions : commitOnlineStockForOrder(o)

RestoreOnline == \E o \in Executions : restoreCommittedOnlineStockForOrder(o)

SyncSale == \E s \in Sales, new \in SaleContents :
              SaleOpen(s) /\ syncSellerReservation(s, new)

\* A sale is a row of the database from its first revision on.
ReleaseSale == \E s \in Sales :
                 seller_revision[s] > 0 /\ releaseSellerStockForOrder(s)

CompleteSale == \E s \in Sales, allow \in BOOLEAN :
                  completeSellerStockForOrder(s, allow)

Adjust == \E i \in Inventories, n \in AdjustTo : adjustQuantity(i, n)

LedgerNext ==
  \/ ReserveOnline \/ ReleaseOnline \/ ReplaceOnline \/ CommitOnline \/ RestoreOnline
  \/ SyncSale \/ ReleaseSale \/ CompleteSale
  \/ Adjust

LedgerSpec == LedgerInit /\ [][LedgerNext]_ledgerVars

------------------------------------------------------------------------------
(* What the ledger promises. *)

\* Types: balances never go below zero (the CHECK constraints of inventories).
LedgerTypeOK ==
  /\ quantity \in [Inventories -> Nat]
  /\ reserved_online \in [Inventories -> Nat]
  /\ reserved_seller \in [Inventories -> Nat]
  /\ stock_reserved_at \in [Documents -> BOOLEAN]
  /\ stock_released_at \in [Documents -> BOOLEAN]
  /\ stock_committed_at \in [Documents -> BOOLEAN]
  /\ sale_items \in [Sales -> [Inventories -> Nat]]
  /\ seller_revision \in [Sales -> Nat]
  /\ IsFiniteSet(movements)

Holds(o) ==
  stock_reserved_at[o] /\ ~stock_released_at[o] /\ ~stock_committed_at[o]

\* A document's stamps never contradict each other: what was released was not
\* shipped, only a reserve can be released or shipped, and every sale the server
\* knows holds, or held, its reserve.
StampsAgree ==
  /\ \A o \in Documents :
       /\ stock_committed_at[o] => stock_reserved_at[o] /\ ~stock_released_at[o]
       /\ stock_released_at[o] => stock_reserved_at[o]
  /\ \A s \in Sales : seller_revision[s] > 0 => stock_reserved_at[s]

\* Each reserve column is exactly what the open documents hold: no reserve is
\* lost, counted twice, or left behind by a cancelled or shipped order.
ReservesMatchDocuments ==
  \A i \in Inventories :
    /\ reserved_online[i] =
         MapThenSumSet(LAMBDA o : Demand[o][i], {o \in Executions : Holds(o)})
    /\ reserved_seller[i] =
         MapThenSumSet(LAMBDA s : sale_items[s][i], {s \in Sales : Holds(s)})

\* Every balance is the sum of its journal: no change goes unrecorded.
JournalExplainsBalances ==
  \A i \in Inventories :
    LET rows == {m \in movements : m.key[3] = i} IN
    /\ quantity[i] = MapThenSumSet(LAMBDA m : m.physical, rows)
    /\ reserved_online[i] = MapThenSumSet(LAMBDA m : m.online, rows)
    /\ reserved_seller[i] = MapThenSumSet(LAMBDA m : m.seller, rows)

\* The books agree with the documents and with the journal.
BooksAgree == ReservesMatchDocuments /\ JournalExplainsBalances

\* However often it is packed and unpacked, an execution has taken its demand
\* from the shelf once while it is committed, and not at all otherwise.
ShippedOnce ==
  \A o \in Executions, i \in Inventories :
    LET rows == {m \in movements : m.key[2] = o /\ m.key[3] = i} IN
    MapThenSumSet(LAMBDA m : m.physical, rows)
      = IF stock_committed_at[o] THEN -Demand[o][i] ELSE 0

\* The unique key of the journal never stands in the way of a packing, nor of
\* unpacking a package, that the order's own state allows.
KeysNeverClash ==
  \A o \in Executions : \A i \in Items(Demand[o]) :
    /\ Holds(o) => << "online_sale", o, i, returnCycle(o, i) >> \notin Keys
    /\ stock_committed_at[o] =>
         << "online_return", o, i, returnCycle(o, i) + 1 >> \notin Keys

\* Only a counter sale or a manual correction downwards can leave more goods
\* promised than there are; a web order never does, nor a return or a packing.
OversoldOnlyByHand ==
  [][\A i \in Inventories :
       shortageQuantity(i)' > shortageQuantity(i) =>
         \/ reserved_seller[i]' > reserved_seller[i]
         \/ quantity[i]' < quantity[i] /\ reserved_online[i]' = reserved_online[i]
                                       /\ reserved_seller[i]' = reserved_seller[i]]_ledgerVars

\* A released reserve stays released: it cannot be held or shipped again.
ReleaseIsFinal ==
  [][\A o \in Documents : stock_released_at[o] =>
       /\ stock_released_at[o]'
       /\ stock_committed_at[o]' = stock_committed_at[o]]_ledgerVars
==============================================================================
