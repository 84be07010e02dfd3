------------------------ MODULE InventoryLedger_proofs ------------------------
(***************************************************************************)
(* Proofs about the stock ledger, for any warehouses, orders and sales:    *)
(* the balances never leave the naturals, the stamps of a document never   *)
(* contradict each other, a released reserve stays released, only counter  *)
(* sales and manual corrections oversell a row, and no key of the journal  *)
(* is refused; then, about its sums, that the reserves are what the open   *)
(* documents hold, that every balance is the sum of its journal, and that  *)
(* an execution is shipped once.                                           *)
(***************************************************************************)
EXTENDS InventoryLedger, FiniteSetTheorems, TLAPS

(***************************************************************************)
(* Lemmas about the helpers.                                               *)
(***************************************************************************)

\* The image of a finite set under a function is finite: every journal entry
\* of an operation is the image of the rows or order lines it is about.
LEMMA FiniteImage ==
  ASSUME NEW S, IsFiniteSet(S), NEW f
  PROVE  IsFiniteSet({f[x] : x \in S})
<1> DEFINE T == {f[x] : x \in S}
           g == [x \in S |-> f[x]]
<1>1. g \in Surjection(S, T)
  BY DEF Surjection
<1> QED
  BY <1>1, FS_Surjection

\* The order lines of some executions are finitely many.
LEMMA FiniteLines ==
  ASSUME NEW S, S \subseteq Executions
  PROVE  IsFiniteSet(Lines(S))
<1>1. IsFiniteSet(S) /\ IsFiniteSet(Inventories)
  BY FS_Subset, LedgerAssumption
<1>2. IsFiniteSet(S \X Inventories)
  BY <1>1, FS_Product
<1> QED
  BY <1>2, FS_Subset DEF Lines

\* What a set of executions takes from a row is a natural number.
LEMMA TakenNat ==
  ASSUME NEW S, S \subseteq Executions, NEW i \in Inventories
  PROVE  Taken(S, i) \in Nat
<1>1. CASE Takers(S, i) = {}
  BY <1>1 DEF Taken
<1>2. CASE Takers(S, i) # {}
  <2> DEFINE o == CHOOSE p \in Takers(S, i) : TRUE
  <2>1. o \in Executions
    BY <1>2 DEF Takers
  <2>2. Taken(S, i) = Demand[o][i]
    BY <1>2 DEF Taken
  <2> QED
    BY <2>1, <2>2, LedgerAssumption
<1> QED
  BY <1>1, <1>2

\* Recording finitely many rows keeps the journal finite.
LEMMA RecordFinite ==
  ASSUME NEW new, IsFiniteSet(new), IsFiniteSet(movements), recordMovement(new)
  PROVE  IsFiniteSet(movements')
  BY FS_Union DEF recordMovement

(***************************************************************************)
(* Every operation keeps the types.                                        *)
(***************************************************************************)

\* A reserve adds to the column of web orders only.
LEMMA ReserveKeepsTypes ==
  ASSUME LedgerTypeOK, NEW S, S \subseteq Executions, reserveOnlineStockForOrders(S)
  PROVE  LedgerTypeOK'
<1> DEFINE new == {o \in S : ~stock_reserved_at[o]}
<1>1. new \subseteq Executions
  OBVIOUS
<1>2. \A i \in Inventories : Taken(new, i) \in Nat
  BY <1>1, TakenNat
<1>3. reserved_online' \in [Inventories -> Nat]
  BY <1>2 DEF LedgerTypeOK, reserveOnlineStockForOrders
<1>4. stock_reserved_at' \in [Documents -> BOOLEAN]
  BY DEF LedgerTypeOK, reserveOnlineStockForOrders, Stamp
<1>5. IsFiniteSet(movements')
  <2> DEFINE rows == {Movement("online_reserve", l[1], l[2], 0,
                               0, Demand[l[1]][l[2]], 0) : l \in Lines(new)}
             f == [l \in Lines(new) |-> Movement("online_reserve", l[1], l[2], 0,
                                                 0, Demand[l[1]][l[2]], 0)]
  <2>1. IsFiniteSet({f[l] : l \in Lines(new)})
    BY <1>1, FiniteLines, FiniteImage
  <2>2. rows = {f[l] : l \in Lines(new)}
    OBVIOUS
  <2>3. recordMovement(rows)
    BY DEF reserveOnlineStockForOrders
  <2> QED
    BY <2>1, <2>2, <2>3, RecordFinite DEF LedgerTypeOK
<1> QED
  BY <1>3, <1>4, <1>5 DEF LedgerTypeOK, reserveOnlineStockForOrders

\* A release takes from it no more than the row has.
LEMMA ReleaseKeepsTypes ==
  ASSUME LedgerTypeOK, NEW S, S \subseteq Executions, releaseOnlineStockForOrder(S)
  PROVE  LedgerTypeOK'
<1> DEFINE held == {o \in S : stock_reserved_at[o] /\ ~stock_released_at[o]}
<1>1. held \subseteq Executions
  OBVIOUS
<1>2. \A i \in Inventories : Taken(held, i) \in Nat
  BY <1>1, TakenNat
<1>3. reserved_online' \in [Inventories -> Nat]
  <2>1. \A i \in Inventories : reserved_online[i] >= Taken(held, i)
    BY DEF releaseOnlineStockForOrder
  <2>2. reserved_online' = [i \in Inventories |-> reserved_online[i] - Taken(held, i)]
    BY DEF releaseOnlineStockForOrder
  <2> HIDE DEF held
  <2> QED
    BY <1>2, <2>1, <2>2 DEF LedgerTypeOK
<1>4. stock_released_at' \in [Documents -> BOOLEAN]
  BY DEF LedgerTypeOK, releaseOnlineStockForOrder, Stamp
<1>5. IsFiniteSet(movements')
  <2> DEFINE rows == {Movement("online_release", l[1], l[2], 0,
                               0, -Demand[l[1]][l[2]], 0) : l \in Lines(held)}
             f == [l \in Lines(held) |-> Movement("online_release", l[1], l[2], 0,
                                                  0, -Demand[l[1]][l[2]], 0)]
  <2>1. IsFiniteSet({f[l] : l \in Lines(held)})
    BY <1>1, FiniteLines, FiniteImage
  <2>2. rows = {f[l] : l \in Lines(held)}
    OBVIOUS
  <2>3. recordMovement(rows)
    BY DEF releaseOnlineStockForOrder
  <2> QED
    BY <2>1, <2>2, <2>3, RecordFinite DEF LedgerTypeOK
<1> QED
  BY <1>3, <1>4, <1>5 DEF LedgerTypeOK, releaseOnlineStockForOrder

\* An edit takes the old parts' reserve and adds the new ones'.
LEMMA ReplaceKeepsTypes ==
  ASSUME LedgerTypeOK, NEW S, S \subseteq Executions, NEW A, A \subseteq Executions,
         replaceOnlineStock(S, A)
  PROVE  LedgerTypeOK'
<1> DEFINE held == {o \in S : stock_reserved_at[o] /\ ~stock_released_at[o]}
           new == {o \in A : ~stock_reserved_at[o]}
<1>1. held \subseteq Executions /\ new \subseteq Executions
  OBVIOUS
<1>2. \A i \in Inventories : Taken(held, i) \in Nat /\ Taken(new, i) \in Nat
  BY <1>1, TakenNat
<1>3. reserved_online' \in [Inventories -> Nat]
  <2>1. \A i \in Inventories : reserved_online[i] - Taken(held, i) >= 0
    BY DEF replaceOnlineStock
  <2>2. reserved_online' = [i \in Inventories |->
                             (reserved_online[i] - Taken(held, i)) + Taken(new, i)]
    BY DEF replaceOnlineStock
  <2> HIDE DEF held, new
  <2>3. ASSUME NEW i \in Inventories
        PROVE  (reserved_online[i] - Taken(held, i)) + Taken(new, i) \in Nat
    BY <1>2, <2>1 DEF LedgerTypeOK
  <2> QED
    BY <2>2, <2>3
<1>4. /\ stock_released_at' \in [Documents -> BOOLEAN]
      /\ stock_reserved_at' \in [Documents -> BOOLEAN]
  BY DEF LedgerTypeOK, replaceOnlineStock, Stamp
<1>5. IsFiniteSet(movements')
  <2> DEFINE f == [l \in Lines(held) |-> Movement("online_release", l[1], l[2], 0,
                                                  0, -Demand[l[1]][l[2]], 0)]
             g == [l \in Lines(new) |-> Movement("online_reserve", l[1], l[2], 0,
                                                 0, Demand[l[1]][l[2]], 0)]
             back == {f[l] : l \in Lines(held)}
             taken == {g[l] : l \in Lines(new)}
  <2>1. IsFiniteSet(back) /\ IsFiniteSet(taken)
    BY <1>1, FiniteLines, FiniteImage
  <2>2. recordMovement(back \cup taken)
    <3>1. back = {Movement("online_release", l[1], l[2], 0,
                           0, -Demand[l[1]][l[2]], 0) : l \in Lines(held)}
      OBVIOUS
    <3>2. taken = {Movement("online_reserve", l[1], l[2], 0,
                            0, Demand[l[1]][l[2]], 0) : l \in Lines(new)}
      OBVIOUS
    <3> QED
      BY <3>1, <3>2 DEF replaceOnlineStock
  <2>3. IsFiniteSet(back \cup taken)
    BY <2>1, FS_Union
  <2> QED
    BY <2>2, <2>3, RecordFinite DEF LedgerTypeOK
<1> QED
  BY <1>3, <1>4, <1>5 DEF LedgerTypeOK, replaceOnlineStock

\* The rows that an order takes something from are finitely many.
LEMMA ItemsFinite == \A q : IsFiniteSet(Items(q))
  BY FS_Subset, LedgerAssumption DEF Items

\* A packing takes from the shelf and from the reserve what both have.
LEMMA CommitKeepsTypes ==
  ASSUME LedgerTypeOK, NEW o \in Executions, commitOnlineStockForOrder(o)
  PROVE  LedgerTypeOK'
<1>1. CASE stock_committed_at[o]
  BY <1>1 DEF commitOnlineStockForOrder, LedgerTypeOK, ledgerVars
<1>2. CASE ~stock_committed_at[o]
  <2>1. ASSUME NEW i \in Inventories
        PROVE  /\ quantity[i] - Demand[o][i] \in Nat
               /\ reserved_online[i] - Demand[o][i] \in Nat
    <3>1. CASE Demand[o][i] > 0
      <4>1. reserved_online[i] >= Demand[o][i] /\ quantity[i] >= Demand[o][i]
        BY <1>2, <3>1 DEF commitOnlineStockForOrder, CanCommit, Items
      <4> QED
        BY <4>1, LedgerAssumption DEF LedgerTypeOK
    <3>2. CASE ~(Demand[o][i] > 0)
      BY <3>2, LedgerAssumption DEF LedgerTypeOK
    <3> QED
      BY <3>1, <3>2
  <2>2. /\ quantity' \in [Inventories -> Nat]
        /\ reserved_online' \in [Inventories -> Nat]
    BY <1>2, <2>1 DEF commitOnlineStockForOrder
  <2>3. stock_committed_at' \in [Documents -> BOOLEAN]
    BY <1>2 DEF commitOnlineStockForOrder, LedgerTypeOK, Stamp
  <2>4. IsFiniteSet(movements')
    <3> DEFINE f == [i \in Items(Demand[o]) |->
                       Movement("online_sale", o, i, returnCycle(o, i),
                                -Demand[o][i], -Demand[o][i], 0)]
    <3>1. IsFiniteSet({f[i] : i \in Items(Demand[o])})
      BY ItemsFinite, FiniteImage
    <3>2. recordMovement({f[i] : i \in Items(Demand[o])})
      BY <1>2 DEF commitOnlineStockForOrder
    <3> QED
      BY <3>1, <3>2, RecordFinite DEF LedgerTypeOK
  <2> QED
    BY <1>2, <2>2, <2>3, <2>4 DEF LedgerTypeOK, commitOnlineStockForOrder
<1> QED
  BY <1>1, <1>2

\* Unpacking gives back to both.
LEMMA RestoreKeepsTypes ==
  ASSUME LedgerTypeOK, NEW o \in Executions, restoreCommittedOnlineStockForOrder(o)
  PROVE  LedgerTypeOK'
<1>1. CASE ~stock_committed_at[o]
  BY <1>1 DEF restoreCommittedOnlineStockForOrder, LedgerTypeOK, ledgerVars
<1>2. CASE stock_committed_at[o]
  <2>1. /\ quantity' \in [Inventories -> Nat]
        /\ reserved_online' \in [Inventories -> Nat]
    BY <1>2, LedgerAssumption DEF restoreCommittedOnlineStockForOrder, LedgerTypeOK
  <2>2. IsFiniteSet(movements')
    <3> DEFINE f == [i \in Items(Demand[o]) |->
                       Movement("online_return", o, i, returnCycle(o, i) + 1,
                                Demand[o][i], Demand[o][i], 0)]
    <3>1. IsFiniteSet({f[i] : i \in Items(Demand[o])})
      BY ItemsFinite, FiniteImage
    <3>2. recordMovement({f[i] : i \in Items(Demand[o])})
      BY <1>2 DEF restoreCommittedOnlineStockForOrder
    <3> QED
      BY <3>1, <3>2, RecordFinite DEF LedgerTypeOK
  <2> QED
    BY <1>2, <2>1, <2>2 DEF LedgerTypeOK, restoreCommittedOnlineStockForOrder
<1> QED
  BY <1>1, <1>2

\* A new version of a sale moves the reserve of sellers by the difference,
\* which the code refuses to take below zero.
LEMMA SyncKeepsTypes ==
  ASSUME LedgerTypeOK, NEW s \in Sales, NEW new \in SaleContents,
         syncSellerReservation(s, new)
  PROVE  LedgerTypeOK'
<1> DEFINE delta == [i \in Inventories |-> new[i] - sale_items[s][i]]
<1>1. new \in [Inventories -> Nat] /\ sale_items[s] \in [Inventories -> Nat]
  BY LedgerAssumption DEF LedgerTypeOK
<1>2. \A i \in Inventories : delta[i] \in Int
  BY <1>1
<1>3. reserved_seller' \in [Inventories -> Nat]
  <2>1. /\ \A i \in Inventories : reserved_seller[i] + delta[i] >= 0
        /\ reserved_seller' = [i \in Inventories |-> reserved_seller[i] + delta[i]]
    BY DEF syncSellerReservation
  <2> HIDE DEF delta
  <2> QED
    BY <1>2, <2>1 DEF LedgerTypeOK
<1>4. /\ stock_reserved_at' \in [Documents -> BOOLEAN]
      /\ sale_items' \in [Sales -> [Inventories -> Nat]]
      /\ seller_revision' \in [Sales -> Nat]
  BY <1>1 DEF syncSellerReservation, LedgerTypeOK, Stamp
<1>5. IsFiniteSet(movements')
  <2> DEFINE rows == {j \in Inventories : delta[j] # 0}
             f == [i \in rows |-> Movement("seller_sync", s, i, seller_revision[s] + 1,
                                           0, 0, delta[i])]
  <2>1. IsFiniteSet(rows)
    BY FS_Subset, LedgerAssumption
  <2>2. IsFiniteSet({f[i] : i \in rows})
    <3> HIDE DEF rows, f
    <3> QED
      BY <2>1, FiniteImage
  <2>3. recordMovement({f[i] : i \in rows})
    BY DEF syncSellerReservation
  <2> QED
    BY <2>2, <2>3, RecordFinite DEF LedgerTypeOK
<1> QED
  BY <1>3, <1>4, <1>5 DEF LedgerTypeOK, syncSellerReservation

\* A cancelled sale takes from the reserve what it holds.
LEMMA ReleaseSaleKeepsTypes ==
  ASSUME LedgerTypeOK, NEW s \in Sales, releaseSellerStockForOrder(s)
  PROVE  LedgerTypeOK'
<1>1. CASE stock_released_at[s]
  BY <1>1 DEF releaseSellerStockForOrder, LedgerTypeOK, ledgerVars
<1>2. CASE ~stock_released_at[s]
  <2>1. reserved_seller' \in [Inventories -> Nat]
    <3>1. \A i \in Inventories : reserved_seller[i] - sale_items[s][i] \in Nat
      <4>1. \A i \in Inventories : sale_items[s][i] \in Nat /\ reserved_seller[i] \in Nat
        BY DEF LedgerTypeOK
      <4>2. \A i \in Inventories : reserved_seller[i] >= sale_items[s][i]
        BY <1>2 DEF releaseSellerStockForOrder
      <4> QED
        BY <4>1, <4>2
    <3> QED
      BY <1>2, <3>1 DEF releaseSellerStockForOrder
  <2>2. stock_released_at' \in [Documents -> BOOLEAN]
    BY <1>2 DEF releaseSellerStockForOrder, LedgerTypeOK, Stamp
  <2>3. IsFiniteSet(movements')
    <3> DEFINE f == [i \in Items(sale_items[s]) |->
                       Movement("seller_cancel", s, i, 0, 0, 0, -sale_items[s][i])]
    <3>1. IsFiniteSet({f[i] : i \in Items(sale_items[s])})
      BY ItemsFinite, FiniteImage
    <3>2. recordMovement({f[i] : i \in Items(sale_items[s])})
      BY <1>2 DEF releaseSellerStockForOrder
    <3> QED
      BY <3>1, <3>2, RecordFinite DEF LedgerTypeOK
  <2> QED
    BY <1>2, <2>1, <2>2, <2>3 DEF LedgerTypeOK, releaseSellerStockForOrder
<1> QED
  BY <1>1, <1>2

\* A completed sale takes from the shelf at most what is on it.
LEMMA CompleteKeepsTypes ==
  ASSUME LedgerTypeOK, NEW s \in Sales, NEW allow \in BOOLEAN,
         completeSellerStockForOrder(s, allow)
  PROVE  LedgerTypeOK'
<1> DEFINE sold == [i \in Inventories |-> Lesser(quantity[i], sale_items[s][i])]
<1>1. /\ quantity' \in [Inventories -> Nat]
      /\ reserved_seller' \in [Inventories -> Nat]
      /\ stock_committed_at' \in [Documents -> BOOLEAN]
  BY DEF completeSellerStockForOrder, LedgerTypeOK, Stamp, Lesser
<1>2. IsFiniteSet(movements')
  <2> DEFINE f == [i \in Items(sale_items[s]) |->
                     Movement("seller_sale", s, i, 0, -sold[i], 0, -sale_items[s][i])]
  <2>1. IsFiniteSet({f[i] : i \in Items(sale_items[s])})
    BY ItemsFinite, FiniteImage
  <2>2. recordMovement({f[i] : i \in Items(sale_items[s])})
    BY DEF completeSellerStockForOrder
  <2> QED
    BY <2>1, <2>2, RecordFinite DEF LedgerTypeOK
<1> QED
  BY <1>1, <1>2 DEF LedgerTypeOK, completeSellerStockForOrder

\* A correction sets a balance that is a number of goods.
LEMMA AdjustKeepsTypes ==
  ASSUME LedgerTypeOK, NEW i \in Inventories, NEW n \in AdjustTo, adjustQuantity(i, n)
  PROVE  LedgerTypeOK'
<1>1. n \in Nat
  BY LedgerAssumption
<1>2. IsFiniteSet(movements')
  BY FS_Singleton, RecordFinite DEF adjustQuantity, LedgerTypeOK
<1> QED
  BY <1>1, <1>2 DEF adjustQuantity, LedgerTypeOK

\* The opening balances are of the right types.
LEMMA InitTypes == LedgerInit => LedgerTypeOK
<1> SUFFICES ASSUME LedgerInit PROVE LedgerTypeOK
  OBVIOUS
<1>1. IsFiniteSet(movements)
  <2> DEFINE f == [i \in Inventories |->
                     Movement("opening_balance", "none", i, 0, InitialQuantity[i], 0, 0)]
  <2>1. IsFiniteSet({f[i] : i \in Inventories})
    <3>1. IsFiniteSet(Inventories)
      BY LedgerAssumption
    <3> HIDE DEF f
    <3> QED
      BY <3>1, FiniteImage
  <2> QED
    BY <2>1 DEF LedgerInit
<1> QED
  BY <1>1, LedgerAssumption DEF LedgerInit, LedgerTypeOK, NoItems

\* Every step is one of the operations, for some documents.
LEMMA TypesStep == LedgerTypeOK /\ [LedgerNext]_ledgerVars => LedgerTypeOK'
<1> SUFFICES ASSUME LedgerTypeOK, [LedgerNext]_ledgerVars PROVE LedgerTypeOK'
  OBVIOUS
<1>1. CASE ReserveOnline
  BY <1>1, ReserveKeepsTypes, LedgerAssumption DEF ReserveOnline
<1>2. CASE ReleaseOnline
  BY <1>2, ReleaseKeepsTypes, LedgerAssumption DEF ReleaseOnline
<1>3. CASE ReplaceOnline
  BY <1>3, ReplaceKeepsTypes, LedgerAssumption DEF ReplaceOnline
<1>4. CASE CommitOnline
  BY <1>4, CommitKeepsTypes DEF CommitOnline
<1>5. CASE RestoreOnline
  BY <1>5, RestoreKeepsTypes DEF RestoreOnline
<1>6. CASE SyncSale
  BY <1>6, SyncKeepsTypes DEF SyncSale
<1>7. CASE ReleaseSale
  BY <1>7, ReleaseSaleKeepsTypes DEF ReleaseSale
<1>8. CASE CompleteSale
  BY <1>8, CompleteKeepsTypes DEF CompleteSale
<1>9. CASE Adjust
  BY <1>9, AdjustKeepsTypes DEF Adjust
<1>10. CASE UNCHANGED ledgerVars
  BY <1>10 DEF ledgerVars, LedgerTypeOK
<1> QED
  BY <1>1, <1>2, <1>3, <1>4, <1>5, <1>6, <1>7, <1>8, <1>9, <1>10 DEF LedgerNext

\* Types, for any warehouses, orders and bounds: no history of reservations,
\* packings, returns, counter sales and corrections takes a balance below zero
\* (the CHECK constraints of the table inventories never refuse a step).
THEOREM LedgerTypes == LedgerSpec => []LedgerTypeOK
<1>1. LedgerInit => LedgerTypeOK
  BY InitTypes
<1>2. LedgerTypeOK /\ [LedgerNext]_ledgerVars => LedgerTypeOK'
  BY TypesStep
<1> QED
  BY <1>1, <1>2, PTL DEF LedgerSpec

(***************************************************************************)
(* The stamps.  StampsAgree is inductive given the types: an operation on  *)
(* a document asks for the stamps it finds, and StampsAgree says which of  *)
(* the others can be set.                                                  *)
(***************************************************************************)

\* Every operation looks at the stamps that forbid the one it sets.
LEMMA StampsStep ==
  LedgerTypeOK /\ StampsAgree /\ [LedgerNext]_ledgerVars => StampsAgree'
<1> SUFFICES ASSUME LedgerTypeOK, StampsAgree, [LedgerNext]_ledgerVars
             PROVE  StampsAgree'
  OBVIOUS
<1>0. /\ DOMAIN stock_reserved_at = Documents
      /\ DOMAIN stock_released_at = Documents
      /\ DOMAIN stock_committed_at = Documents
      /\ DOMAIN seller_revision = Sales
      /\ Executions \subseteq Documents /\ Sales \subseteq Documents
      /\ Executions \cap Sales = {}
  BY LedgerAssumption DEF LedgerTypeOK, Documents
<1>1. ASSUME NEW S \in Batches, reserveOnlineStockForOrders(S)
      PROVE  StampsAgree'
  BY <1>0, <1>1 DEF reserveOnlineStockForOrders, StampsAgree, Stamp
<1>2. ASSUME NEW S \in Batches, releaseOnlineStockForOrder(S)
      PROVE  StampsAgree'
  BY <1>0, <1>2 DEF releaseOnlineStockForOrder, StampsAgree, Stamp
<1>3. ASSUME NEW S \in Batches, NEW A \in Batches, S \cap A = {}, replaceOnlineStock(S, A)
      PROVE  StampsAgree'
  BY <1>0, <1>3 DEF replaceOnlineStock, StampsAgree, Stamp
<1>4. ASSUME NEW o \in Executions, commitOnlineStockForOrder(o)
      PROVE  StampsAgree'
  BY <1>0, <1>4 DEF commitOnlineStockForOrder, CanCommit, StampsAgree, Stamp, ledgerVars
<1>5. ASSUME NEW o \in Executions, restoreCommittedOnlineStockForOrder(o)
      PROVE  StampsAgree'
  BY <1>0, <1>5 DEF restoreCommittedOnlineStockForOrder, StampsAgree, ledgerVars
<1>6. ASSUME NEW s \in Sales, NEW new \in SaleContents,
             SaleOpen(s), syncSellerReservation(s, new)
      PROVE  StampsAgree'
  BY <1>0, <1>6 DEF SaleOpen, syncSellerReservation, StampsAgree, Stamp
<1>7. ASSUME NEW s \in Sales, seller_revision[s] > 0, releaseSellerStockForOrder(s)
      PROVE  StampsAgree'
  BY <1>0, <1>7 DEF releaseSellerStockForOrder, StampsAgree, Stamp, ledgerVars
<1>8. ASSUME NEW s \in Sales, NEW allow \in BOOLEAN, completeSellerStockForOrder(s, allow)
      PROVE  StampsAgree'
  BY <1>0, <1>8 DEF completeSellerStockForOrder, StampsAgree, Stamp
<1>9. ASSUME NEW i \in Inventories, NEW n \in AdjustTo, adjustQuantity(i, n)
      PROVE  StampsAgree'
  BY <1>9 DEF adjustQuantity, StampsAgree
<1>10. CASE UNCHANGED ledgerVars
  BY <1>10 DEF ledgerVars, StampsAgree
<1> QED
  BY <1>1, <1>2, <1>3, <1>4, <1>5, <1>6, <1>7, <1>8, <1>9, <1>10
  DEF LedgerNext, ReserveOnline, ReleaseOnline, ReplaceOnline, CommitOnline,
      RestoreOnline, SyncSale, ReleaseSale, CompleteSale, Adjust

\* Whatever the order in which documents are reserved, packed, unpacked, sold
\* and cancelled, a released document was not shipped, and what is shipped or
\* released had been reserved.
THEOREM StampsNeverContradict == LedgerSpec => []StampsAgree
<1>1. LedgerInit => StampsAgree
  BY DEF LedgerInit, StampsAgree, Documents
<1>2. LedgerTypeOK /\ StampsAgree /\ [LedgerNext]_ledgerVars => StampsAgree'
  BY StampsStep
<1> QED
  BY <1>1, <1>2, LedgerTypes, PTL DEF LedgerSpec

\* Every operation on a released document leaves its stamps as they are.
LEMMA ReleaseStep ==
  LedgerTypeOK /\ StampsAgree /\ [LedgerNext]_ledgerVars =>
    [\A o \in Documents : stock_released_at[o] =>
       /\ stock_released_at[o]'
       /\ stock_committed_at[o]' = stock_committed_at[o]]_ledgerVars
<1> SUFFICES ASSUME LedgerTypeOK, StampsAgree, LedgerNext,
                    NEW o \in Documents, stock_released_at[o]
             PROVE  /\ stock_released_at[o]'
                    /\ stock_committed_at[o]' = stock_committed_at[o]
  OBVIOUS
<1>0. /\ DOMAIN stock_released_at = Documents
      /\ DOMAIN stock_committed_at = Documents
      /\ ~stock_committed_at[o]
  BY DEF LedgerTypeOK, StampsAgree
<1>1. CASE ReserveOnline
  BY <1>1 DEF ReserveOnline, reserveOnlineStockForOrders
<1>2. CASE ReleaseOnline
  BY <1>0, <1>2 DEF ReleaseOnline, releaseOnlineStockForOrder, Stamp
<1>3. CASE ReplaceOnline
  BY <1>0, <1>3 DEF ReplaceOnline, replaceOnlineStock, Stamp
<1>4. CASE CommitOnline
  <2>1. PICK p \in Executions : commitOnlineStockForOrder(p)
    BY <1>4 DEF CommitOnline
  <2>2. CASE stock_committed_at[p]
    BY <2>1, <2>2 DEF commitOnlineStockForOrder, ledgerVars
  <2>3. CASE ~stock_committed_at[p]
    <3>1. p # o
      BY <2>1, <2>3 DEF commitOnlineStockForOrder, CanCommit
    <3>2. /\ stock_committed_at' = Stamp(stock_committed_at, {p})
          /\ stock_released_at' = stock_released_at
      BY <2>1, <2>3 DEF commitOnlineStockForOrder
    <3>3. stock_committed_at'[o] = stock_committed_at[o]
      BY <1>0, <3>1, <3>2 DEF Stamp, LedgerTypeOK
    <3> QED
      BY <3>2, <3>3
  <2> QED
    BY <2>2, <2>3
<1>5. CASE RestoreOnline
  <2>1. PICK p \in Executions : restoreCommittedOnlineStockForOrder(p)
    BY <1>5 DEF RestoreOnline
  <2>2. CASE ~stock_committed_at[p]
    BY <2>1, <2>2 DEF restoreCommittedOnlineStockForOrder, ledgerVars
  <2>3. CASE stock_committed_at[p]
    BY <1>0, <2>1, <2>3 DEF restoreCommittedOnlineStockForOrder
  <2> QED
    BY <2>2, <2>3
<1>6. CASE SyncSale
  BY <1>6 DEF SyncSale, syncSellerReservation
<1>7. CASE ReleaseSale
  BY <1>0, <1>7 DEF ReleaseSale, releaseSellerStockForOrder, Stamp, ledgerVars
<1>8. CASE CompleteSale
  <2>1. PICK s \in Sales, allow \in BOOLEAN : completeSellerStockForOrder(s, allow)
    BY <1>8 DEF CompleteSale
  <2>2. s # o
    BY <2>1 DEF completeSellerStockForOrder
  <2>3. /\ stock_committed_at' = Stamp(stock_committed_at, {s})
        /\ stock_released_at' = stock_released_at
    BY <2>1 DEF completeSellerStockForOrder
  <2>4. stock_committed_at'[o] = stock_committed_at[o]
    BY <1>0, <2>2, <2>3 DEF Stamp, LedgerTypeOK
  <2> QED
    BY <2>3, <2>4
<1>9. CASE Adjust
  BY <1>9 DEF Adjust, adjustQuantity
<1> QED
  BY <1>1, <1>2, <1>3, <1>4, <1>5, <1>6, <1>7, <1>8, <1>9 DEF LedgerNext

\* No later step takes a released document up again: it is neither reserved a
\* second time nor packed, restored or sold.
THEOREM ReleasedForGood == LedgerSpec => ReleaseIsFinal
<1>1. LedgerTypeOK /\ StampsAgree /\ [LedgerNext]_ledgerVars =>
        [\A o \in Documents : stock_released_at[o] =>
           /\ stock_released_at[o]'
           /\ stock_committed_at[o]' = stock_committed_at[o]]_ledgerVars
  BY ReleaseStep
<1> QED
  BY <1>1, LedgerTypes, StampsNeverContradict, PTL DEF LedgerSpec, ReleaseIsFinal

(***************************************************************************)
(* Overselling.                                                            *)
(***************************************************************************)

\* The shortage of a row depends on its three balances alone, and a row whose
\* promises do not grow while its stock does not shrink is not oversold further.
LEMMA ShortageMonotone ==
  ASSUME NEW i \in Inventories, LedgerTypeOK, LedgerTypeOK',
         reserved_online'[i] + reserved_seller'[i] - quantity'[i]
           <= reserved_online[i] + reserved_seller[i] - quantity[i]
  PROVE  ~(shortageQuantity(i)' > shortageQuantity(i))
<1>1. /\ quantity[i] \in Nat /\ reserved_online[i] \in Nat /\ reserved_seller[i] \in Nat
      /\ quantity'[i] \in Nat /\ reserved_online'[i] \in Nat /\ reserved_seller'[i] \in Nat
  BY DEF LedgerTypeOK
<1> QED
  BY <1>1 DEF shortageQuantity, Positive

\* What fits into the goods that are free leaves no shortage.
LEMMA NoShortage ==
  ASSUME NEW i \in Inventories, LedgerTypeOK, LedgerTypeOK',
         reserved_online'[i] + reserved_seller'[i] <= quantity'[i]
  PROVE  ~(shortageQuantity(i)' > shortageQuantity(i))
<1>1. /\ quantity[i] \in Nat /\ reserved_online[i] \in Nat /\ reserved_seller[i] \in Nat
      /\ quantity'[i] \in Nat /\ reserved_online'[i] \in Nat /\ reserved_seller'[i] \in Nat
  BY DEF LedgerTypeOK
<1> QED
  BY <1>1 DEF shortageQuantity, Positive

\* Operation by operation, which balances change and in which direction.
LEMMA OversoldStep ==
  LedgerTypeOK /\ LedgerTypeOK' /\ [LedgerNext]_ledgerVars =>
    [\A i \in Inventories :
       shortageQuantity(i)' > shortageQuantity(i) =>
         \/ reserved_seller[i]' > reserved_seller[i]
         \/ quantity[i]' < quantity[i] /\ reserved_online[i]' = reserved_online[i]
                                       /\ reserved_seller[i]' = reserved_seller[i]]_ledgerVars
<1> SUFFICES ASSUME LedgerTypeOK, LedgerTypeOK', LedgerNext,
                    NEW i \in Inventories, shortageQuantity(i)' > shortageQuantity(i)
             PROVE  \/ reserved_seller'[i] > reserved_seller[i]
                    \/ quantity'[i] < quantity[i] /\ reserved_online'[i] = reserved_online[i]
                                                  /\ reserved_seller'[i] = reserved_seller[i]
  OBVIOUS
<1>0. /\ quantity[i] \in Nat /\ reserved_online[i] \in Nat /\ reserved_seller[i] \in Nat
      /\ quantity'[i] \in Nat /\ reserved_online'[i] \in Nat /\ reserved_seller'[i] \in Nat
  BY DEF LedgerTypeOK
<1> DEFINE owed == reserved_online[i] + reserved_seller[i] - quantity[i]
           owedNext == reserved_online'[i] + reserved_seller'[i] - quantity'[i]
<1>a. owedNext > owed /\ owedNext > 0
  BY <1>0, ShortageMonotone, NoShortage
<1>1. ASSUME NEW S \in Batches, reserveOnlineStockForOrders(S)
      PROVE  FALSE
  <2> DEFINE n == Taken({o \in S : ~stock_reserved_at[o]}, i)
  <2>1. n \in Nat
    BY TakenNat, LedgerAssumption
  <2>2. /\ n > 0 => availableQuantity(i) >= n
        /\ reserved_online'[i] = reserved_online[i] + n
        /\ quantity'[i] = quantity[i] /\ reserved_seller'[i] = reserved_seller[i]
    BY <1>1 DEF reserveOnlineStockForOrders
  <2> HIDE DEF n
  <2> QED
    BY <1>0, <1>a, <2>1, <2>2 DEF availableQuantity, Positive
<1>2. ASSUME NEW S \in Batches, releaseOnlineStockForOrder(S)
      PROVE  FALSE
  <2> DEFINE n == Taken({o \in S : stock_reserved_at[o] /\ ~stock_released_at[o]}, i)
  <2>1. n \in Nat
    BY TakenNat, LedgerAssumption
  <2>2. /\ reserved_online'[i] = reserved_online[i] - n
        /\ quantity'[i] = quantity[i] /\ reserved_seller'[i] = reserved_seller[i]
    BY <1>2 DEF releaseOnlineStockForOrder
  <2> HIDE DEF n
  <2> QED
    BY <1>0, <1>a, <2>1, <2>2
<1>3. ASSUME NEW S \in Batches, NEW A \in Batches, replaceOnlineStock(S, A)
      PROVE  FALSE
  <2> DEFINE back == Taken({o \in S : stock_reserved_at[o] /\ ~stock_released_at[o]}, i)
             n == Taken({o \in A : ~stock_reserved_at[o]}, i)
  <2>1. back \in Nat /\ n \in Nat
    BY TakenNat, LedgerAssumption
  <2>2. /\ n > 0 => Positive(quantity[i] - (reserved_online[i] - back) - reserved_seller[i]) >= n
        /\ reserved_online'[i] = (reserved_online[i] - back) + n
        /\ quantity'[i] = quantity[i] /\ reserved_seller'[i] = reserved_seller[i]
    BY <1>3 DEF replaceOnlineStock
  <2> HIDE DEF n, back
  <2> QED
    BY <1>0, <1>a, <2>1, <2>2 DEF Positive
<1>4. ASSUME NEW o \in Executions, commitOnlineStockForOrder(o)
      PROVE  FALSE
  <2>1. Demand[o][i] \in Nat
    BY LedgerAssumption
  <2>2. \/ /\ quantity'[i] = quantity[i] - Demand[o][i]
           /\ reserved_online'[i] = reserved_online[i] - Demand[o][i]
           /\ reserved_seller'[i] = reserved_seller[i]
        \/ UNCHANGED << quantity, reserved_online, reserved_seller >>
    BY <1>4 DEF commitOnlineStockForOrder, ledgerVars
  <2> QED
    BY <1>0, <1>a, <2>1, <2>2
<1>5. ASSUME NEW o \in Executions, restoreCommittedOnlineStockForOrder(o)
      PROVE  FALSE
  <2>1. Demand[o][i] \in Nat
    BY LedgerAssumption
  <2>2. \/ /\ quantity'[i] = quantity[i] + Demand[o][i]
           /\ reserved_online'[i] = reserved_online[i] + Demand[o][i]
           /\ reserved_seller'[i] = reserved_seller[i]
        \/ UNCHANGED << quantity, reserved_online, reserved_seller >>
    BY <1>5 DEF restoreCommittedOnlineStockForOrder, ledgerVars
  <2> QED
    BY <1>0, <1>a, <2>1, <2>2
<1>6. ASSUME NEW s \in Sales, NEW new \in SaleContents, syncSellerReservation(s, new)
      PROVE  reserved_seller'[i] > reserved_seller[i]
  <2>1. quantity'[i] = quantity[i] /\ reserved_online'[i] = reserved_online[i]
    BY <1>6 DEF syncSellerReservation
  <2> QED
    BY <1>0, <1>a, <2>1
<1>7. ASSUME NEW s \in Sales, releaseSellerStockForOrder(s)
      PROVE  FALSE
  <2>1. sale_items[s][i] \in Nat
    BY DEF LedgerTypeOK
  <2>2. \/ /\ reserved_seller'[i] = reserved_seller[i] - sale_items[s][i]
           /\ quantity'[i] = quantity[i] /\ reserved_online'[i] = reserved_online[i]
        \/ UNCHANGED << quantity, reserved_online, reserved_seller >>
    BY <1>7 DEF releaseSellerStockForOrder, ledgerVars
  <2> QED
    BY <1>0, <1>a, <2>1, <2>2
<1>8. ASSUME NEW s \in Sales, NEW allow \in BOOLEAN, completeSellerStockForOrder(s, allow)
      PROVE  FALSE
  <2>1. sale_items[s][i] \in Nat
    BY DEF LedgerTypeOK
  <2>2. /\ quantity'[i] = quantity[i] - Lesser(quantity[i], sale_items[s][i])
        /\ reserved_seller'[i] = reserved_seller[i] - sale_items[s][i]
        /\ reserved_online'[i] = reserved_online[i]
    BY <1>8 DEF completeSellerStockForOrder
  <2> QED
    BY <1>0, <1>a, <2>1, <2>2 DEF Lesser
<1>9. ASSUME NEW j \in Inventories, NEW n \in AdjustTo, adjustQuantity(j, n)
      PROVE  quantity'[i] < quantity[i] /\ reserved_online'[i] = reserved_online[i]
                                       /\ reserved_seller'[i] = reserved_seller[i]
  <2>1. reserved_online'[i] = reserved_online[i] /\ reserved_seller'[i] = reserved_seller[i]
    BY <1>9 DEF adjustQuantity
  <2> QED
    BY <1>0, <1>a, <2>1
<1> QED
  BY <1>1, <1>2, <1>3, <1>4, <1>5, <1>6, <1>7, <1>8, <1>9
  DEF LedgerNext, ReserveOnline, ReleaseOnline, ReplaceOnline, CommitOnline,
      RestoreOnline, SyncSale, ReleaseSale, CompleteSale, Adjust

\* Web orders never oversell a row, however they are reserved, edited, packed
\* and returned; neither does completing or cancelling a sale.  A shortage grows
\* only when a seller promises goods or a person corrects the stock downwards.
THEOREM OnlyHandsOversell == LedgerSpec => OversoldOnlyByHand
<1>1. LedgerTypeOK /\ LedgerTypeOK' /\ [LedgerNext]_ledgerVars =>
        [\A i \in Inventories :
           shortageQuantity(i)' > shortageQuantity(i) =>
             \/ reserved_seller[i]' > reserved_seller[i]
             \/ quantity[i]' < quantity[i] /\ reserved_online[i]' = reserved_online[i]
                                           /\ reserved_seller[i]' = reserved_seller[i]]_ledgerVars
  BY OversoldStep
<1> QED
  BY <1>1, LedgerTypes, PTL DEF LedgerSpec, OversoldOnlyByHand

(***************************************************************************)
(* The keys of the journal.  The key of a packing counts the returns       *)
(* before it, so KeysNeverClash needs to know that the journal's returns   *)
(* are numbered without gaps, and that no packing is numbered ahead.       *)
(***************************************************************************)

\* The rows of the journal that unpack execution o from row i.
Returned(o, i) == {m \in movements : m.key[1] = "online_return"
                                     /\ m.key[2] = o /\ m.key[3] = i}

\* The strengthening of KeysNeverClash.
KeysInOrder ==
  \A o \in Executions : \A i \in Items(Demand[o]) : \A n :
    /\ << "online_return", o, i, n >> \in Keys => n \in 1 .. returnCycle(o, i)
    /\ << "online_sale", o, i, n >> \in Keys =>
         n \in 0 .. returnCycle(o, i)
         /\ (n = returnCycle(o, i) => stock_committed_at[o])

\* Returns are counted by a natural number.
LEMMA CycleNat ==
  ASSUME IsFiniteSet(movements), NEW o, NEW i
  PROVE  IsFiniteSet(Returned(o, i)) /\ returnCycle(o, i) \in Nat
<1>1. IsFiniteSet(Returned(o, i))
  BY FS_Subset DEF Returned
<1> QED
  BY <1>1, FS_CardinalityType DEF returnCycle, Returned

\* Rows that are no return of o from i leave the count alone.
LEMMA CycleSame ==
  ASSUME NEW new, NEW o, NEW i, recordMovement(new),
         \A m \in new : ~(m.key[1] = "online_return" /\ m.key[2] = o /\ m.key[3] = i)
  PROVE  returnCycle(o, i)' = returnCycle(o, i)
<1>1. Returned(o, i)' = Returned(o, i)
  BY DEF Returned, recordMovement
<1> QED
  BY <1>1 DEF returnCycle, Returned

\* One more return counts one more, since its key is new.
LEMMA CycleNext ==
  ASSUME NEW new, NEW o, NEW i, recordMovement(new), IsFiniteSet(movements),
         NEW r \in new, r.key[1] = "online_return", r.key[2] = o, r.key[3] = i,
         \A m \in new : m.key[3] = i => m = r
  PROVE  returnCycle(o, i)' = returnCycle(o, i) + 1
<1>1. Returned(o, i)' = Returned(o, i) \cup {r}
  BY DEF Returned, recordMovement
<1>2. r \notin Returned(o, i)
  BY DEF Returned, recordMovement, Keys
<1>3. Cardinality(Returned(o, i) \cup {r}) = Cardinality(Returned(o, i)) + 1
  BY <1>2, CycleNat, FS_AddElement
<1> QED
  BY <1>1, <1>3 DEF returnCycle, Returned

\* An operation that neither packs nor unpacks keeps the order of the keys.
LEMMA QuietKeepsOrder ==
  ASSUME KeysInOrder, NEW new, recordMovement(new),
         \A m \in new : m.key[1] \notin {"online_return", "online_sale"},
         \A o \in Executions : stock_committed_at'[o] = stock_committed_at[o]
  PROVE  KeysInOrder'
<1>1. \A o, i : returnCycle(o, i)' = returnCycle(o, i)
  BY CycleSame
<1>2. \A o, i, n : /\ << "online_return", o, i, n >> \in Keys' =>
                        << "online_return", o, i, n >> \in Keys
                   /\ << "online_sale", o, i, n >> \in Keys' =>
                        << "online_sale", o, i, n >> \in Keys
  BY DEF Keys, recordMovement
<1> QED
  BY <1>1, <1>2 DEF KeysInOrder

\* A packing takes the number of the returns before it.
LEMMA CommitKeepsOrder ==
  ASSUME LedgerTypeOK, KeysInOrder, NEW o \in Executions, commitOnlineStockForOrder(o)
  PROVE  KeysInOrder'
<1>1. CASE stock_committed_at[o]
  BY <1>1 DEF commitOnlineStockForOrder, ledgerVars, KeysInOrder, Keys, returnCycle
<1>2. CASE ~stock_committed_at[o]
  <2> DEFINE new == {Movement("online_sale", o, i, returnCycle(o, i),
                              -Demand[o][i], -Demand[o][i], 0) : i \in Items(Demand[o])}
  <2>1. recordMovement(new)
    BY <1>2 DEF commitOnlineStockForOrder
  <2>2. \A m \in new : m.key[1] = "online_sale"
    BY DEF Movement
  <2>3. \A p, i : returnCycle(p, i)' = returnCycle(p, i)
    <3> HIDE DEF new
    <3> QED
      BY <2>1, <2>2, CycleSame
  <2>4. \A p, i, n : << "online_return", p, i, n >> \in Keys' =>
                       << "online_return", p, i, n >> \in Keys
    <3> HIDE DEF new
    <3> QED
      BY <2>1, <2>2 DEF Keys, recordMovement
  <2>5. \A p, i, n : << "online_sale", p, i, n >> \in Keys' =>
                       \/ << "online_sale", p, i, n >> \in Keys
                       \/ p = o /\ n = returnCycle(o, i)
    <3>1. \A m \in new : m.key[2] = o /\ m.key[4] = returnCycle(o, m.key[3])
      BY DEF Movement
    <3> HIDE DEF new
    <3> QED
      BY <2>1, <3>1 DEF Keys, recordMovement
  <2>6. /\ stock_committed_at'[o]
        /\ \A p \in Executions : stock_committed_at[p] => stock_committed_at'[p]
    BY <1>2 DEF commitOnlineStockForOrder, Stamp, LedgerTypeOK, Documents
  <2>7. \A i : returnCycle(o, i) \in Nat
    BY CycleNat DEF LedgerTypeOK
  <2>8. ASSUME NEW p \in Executions, NEW i \in Items(Demand[p]), NEW n
        PROVE  /\ << "online_return", p, i, n >> \in Keys' => n \in 1 .. returnCycle(p, i)'
               /\ << "online_sale", p, i, n >> \in Keys' =>
                    n \in 0 .. returnCycle(p, i)'
                    /\ (n = returnCycle(p, i)' => stock_committed_at'[p])
    <3> HIDE DEF new
    <3>1. returnCycle(p, i)' = returnCycle(p, i)
      BY <2>3
    <3>2. << "online_return", p, i, n >> \in Keys' => n \in 1 .. returnCycle(p, i)'
      BY <2>4, <3>1 DEF KeysInOrder
    <3>3. CASE << "online_sale", p, i, n >> \in Keys
      BY <2>6, <3>1, <3>2, <3>3 DEF KeysInOrder
    <3>4. CASE p = o /\ n = returnCycle(o, i)
      BY <2>6, <2>7, <3>1, <3>2, <3>4
    <3> QED
      BY <2>5, <3>2, <3>3, <3>4
  <2> QED
    BY <2>8 DEF KeysInOrder
<1> QED
  BY <1>1, <1>2

\* A return takes the next number, and leaves every packing behind it.
LEMMA RestoreKeepsOrder ==
  ASSUME LedgerTypeOK, KeysInOrder, NEW o \in Executions,
         restoreCommittedOnlineStockForOrder(o)
  PROVE  KeysInOrder'
<1>1. CASE ~stock_committed_at[o]
  BY <1>1 DEF restoreCommittedOnlineStockForOrder, ledgerVars, KeysInOrder, Keys, returnCycle
<1>2. CASE stock_committed_at[o]
  <2> DEFINE row(i) == Movement("online_return", o, i, returnCycle(o, i) + 1,
                                Demand[o][i], Demand[o][i], 0)
             new == {row(i) : i \in Items(Demand[o])}
  <2>1. recordMovement(new)
    BY <1>2 DEF restoreCommittedOnlineStockForOrder
  <2>2. \A m \in new : /\ m.key[1] = "online_return" /\ m.key[2] = o
                       /\ m.key[4] = returnCycle(o, m.key[3]) + 1
    BY DEF Movement
  <2>3. \A i \in Items(Demand[o]) : returnCycle(o, i)' = returnCycle(o, i) + 1
    <3>1. ASSUME NEW i \in Items(Demand[o])
          PROVE  returnCycle(o, i)' = returnCycle(o, i) + 1
      <4>1. row(i) \in new
        OBVIOUS
      <4>2. row(i).key[1] = "online_return" /\ row(i).key[2] = o /\ row(i).key[3] = i
        BY DEF Movement
      <4>3. \A m \in new : m.key[3] = i => m = row(i)
        BY DEF Movement
      <4>4. IsFiniteSet(movements)
        BY DEF LedgerTypeOK
      <4> HIDE DEF new, row
      <4> QED
        BY <2>1, <4>1, <4>2, <4>3, <4>4, CycleNext
    <3> QED
      BY <3>1
  <2>4. \A p, i : p # o => returnCycle(p, i)' = returnCycle(p, i)
    <3> HIDE DEF new
    <3> QED
      BY <2>1, <2>2, CycleSame
  <2>5. \A p, i, n : << "online_sale", p, i, n >> \in Keys' =>
                       << "online_sale", p, i, n >> \in Keys
    <3> HIDE DEF new
    <3> QED
      BY <2>1, <2>2 DEF Keys, recordMovement
  <2>6. \A p, i, n : << "online_return", p, i, n >> \in Keys' =>
                       \/ << "online_return", p, i, n >> \in Keys
                       \/ p = o /\ n = returnCycle(o, i) + 1
    <3> HIDE DEF new
    <3> QED
      BY <2>1, <2>2 DEF Keys, recordMovement
  <2>7. \A p \in Executions : p # o => stock_committed_at'[p] = stock_committed_at[p]
    BY <1>2 DEF restoreCommittedOnlineStockForOrder, LedgerTypeOK, Documents
  <2>8. \A i : returnCycle(o, i) \in Nat
    BY CycleNat DEF LedgerTypeOK
  <2>9. ASSUME NEW p \in Executions, NEW i \in Items(Demand[p]), NEW n
        PROVE  /\ << "online_return", p, i, n >> \in Keys' => n \in 1 .. returnCycle(p, i)'
               /\ << "online_sale", p, i, n >> \in Keys' =>
                    n \in 0 .. returnCycle(p, i)'
                    /\ (n = returnCycle(p, i)' => stock_committed_at'[p])
    <3> HIDE DEF new
    <3>1. /\ << "online_return", p, i, n >> \in Keys => n \in 1 .. returnCycle(p, i)
          /\ << "online_sale", p, i, n >> \in Keys =>
               n \in 0 .. returnCycle(p, i)
               /\ (n = returnCycle(p, i) => stock_committed_at[p])
      BY DEF KeysInOrder
    <3>2. CASE p = o
      <4>1. returnCycle(p, i)' = returnCycle(p, i) + 1 /\ returnCycle(p, i) \in Nat
        BY <2>3, <2>8, <3>2
      <4> QED
        BY <2>5, <2>6, <3>1, <3>2, <4>1
    <3>3. CASE p # o
      BY <2>4, <2>5, <2>6, <2>7, <3>1, <3>3
    <3> QED
      BY <3>2, <3>3
  <2> QED
    BY <2>9 DEF KeysInOrder
<1> QED
  BY <1>1, <1>2

\* Every step of the ledger keeps the order of the keys.
LEMMA OrderKeysStep ==
  LedgerTypeOK /\ KeysInOrder /\ [LedgerNext]_ledgerVars => KeysInOrder'
<1> SUFFICES ASSUME LedgerTypeOK, KeysInOrder, [LedgerNext]_ledgerVars
             PROVE  KeysInOrder'
  OBVIOUS
<1> DEFINE Quiet(new) == \A m \in new : m.key[1] \notin {"online_return", "online_sale"}
<1>1. CASE ReserveOnline
  <2>1. PICK S \in Batches : reserveOnlineStockForOrders(S)
    BY <1>1 DEF ReserveOnline
  <2>2. PICK new : new = {Movement("online_reserve", l[1], l[2], 0,
                                   0, Demand[l[1]][l[2]], 0) :
                            l \in Lines({o \in S : ~stock_reserved_at[o]})}
    OBVIOUS
  <2>3. Quiet(new)
    <3>1. ASSUME NEW m \in new
          PROVE  m.key[1] = "online_reserve"
      <4>1. PICK l \in Lines({o \in S : ~stock_reserved_at[o]}) :
              m = Movement("online_reserve", l[1], l[2], 0, 0, Demand[l[1]][l[2]], 0)
        BY <2>2, Zenon
      <4> QED
        BY <4>1 DEF Movement
    <3> QED
      BY <3>1
  <2>4. recordMovement(new) /\ stock_committed_at' = stock_committed_at
    BY <2>1, <2>2 DEF reserveOnlineStockForOrders
  <2> QED
    BY <2>3, <2>4, QuietKeepsOrder
<1>2. CASE ReleaseOnline
  <2>1. PICK S \in Batches : releaseOnlineStockForOrder(S)
    BY <1>2 DEF ReleaseOnline
  <2>2. PICK new : new = {Movement("online_release", l[1], l[2], 0,
                                   0, -Demand[l[1]][l[2]], 0) :
                            l \in Lines({o \in S : stock_reserved_at[o] /\ ~stock_released_at[o]})}
    OBVIOUS
  <2>3. Quiet(new)
    <3>1. ASSUME NEW m \in new
          PROVE  m.key[1] = "online_release"
      <4>1. PICK l \in Lines({o \in S : stock_reserved_at[o] /\ ~stock_released_at[o]}) :
              m = Movement("online_release", l[1], l[2], 0, 0, -Demand[l[1]][l[2]], 0)
        BY <2>2, Zenon
      <4> QED
        BY <4>1 DEF Movement
    <3> QED
      BY <3>1
  <2>4. recordMovement(new) /\ stock_committed_at' = stock_committed_at
    BY <2>1, <2>2 DEF releaseOnlineStockForOrder
  <2> QED
    BY <2>3, <2>4, QuietKeepsOrder
<1>3. CASE ReplaceOnline
  <2>1. PICK S \in Batches, A \in Batches : replaceOnlineStock(S, A)
    BY <1>3 DEF ReplaceOnline
  <2>2. PICK new : new =
          {Movement("online_release", l[1], l[2], 0, 0, -Demand[l[1]][l[2]], 0) :
             l \in Lines({o \in S : stock_reserved_at[o] /\ ~stock_released_at[o]})}
          \cup {Movement("online_reserve", l[1], l[2], 0, 0, Demand[l[1]][l[2]], 0) :
                  l \in Lines({o \in A : ~stock_reserved_at[o]})}
    OBVIOUS
  <2>3. Quiet(new)
    <3>1. ASSUME NEW m \in new
          PROVE  m.key[1] \in {"online_release", "online_reserve"}
      <4>1. \/ \E l : m = Movement("online_release", l[1], l[2], 0,
                                   0, -Demand[l[1]][l[2]], 0)
            \/ \E l : m = Movement("online_reserve", l[1], l[2], 0,
                                   0, Demand[l[1]][l[2]], 0)
        BY <2>2, Zenon
      <4> QED
        BY <4>1 DEF Movement
    <3> QED
      BY <3>1
  <2>4. recordMovement(new) /\ stock_committed_at' = stock_committed_at
    BY <2>1, <2>2 DEF replaceOnlineStock
  <2> QED
    BY <2>3, <2>4, QuietKeepsOrder
<1>4. CASE CommitOnline
  BY <1>4, CommitKeepsOrder DEF CommitOnline
<1>5. CASE RestoreOnline
  BY <1>5, RestoreKeepsOrder DEF RestoreOnline
<1>6. CASE SyncSale
  <2>1. PICK s \in Sales, items \in SaleContents : syncSellerReservation(s, items)
    BY <1>6 DEF SyncSale
  <2>2. PICK new : new =
          {Movement("seller_sync", s, i, seller_revision[s] + 1, 0, 0,
                    [j \in Inventories |-> items[j] - sale_items[s][j]][i]) :
             i \in {k \in Inventories :
                      [j \in Inventories |-> items[j] - sale_items[s][j]][k] # 0}}
    OBVIOUS
  <2>3. Quiet(new)
    <3>1. ASSUME NEW m \in new
          PROVE  m.key[1] = "seller_sync"
      <4>1. PICK i :
              m = Movement("seller_sync", s, i, seller_revision[s] + 1, 0, 0,
                           [j \in Inventories |-> items[j] - sale_items[s][j]][i])
        BY <2>2, Zenon
      <4> QED
        BY <4>1 DEF Movement
    <3> QED
      BY <3>1
  <2>4. recordMovement(new) /\ stock_committed_at' = stock_committed_at
    BY <2>1, <2>2 DEF syncSellerReservation
  <2> QED
    BY <2>3, <2>4, QuietKeepsOrder
<1>7. CASE ReleaseSale
  <2>1. PICK s \in Sales : releaseSellerStockForOrder(s)
    BY <1>7 DEF ReleaseSale
  <2>2. CASE stock_released_at[s]
    BY <2>1, <2>2 DEF releaseSellerStockForOrder, ledgerVars, KeysInOrder, Keys, returnCycle
  <2>3. CASE ~stock_released_at[s]
    <3>1. PICK new : new = {Movement("seller_cancel", s, i, 0, 0, 0, -sale_items[s][i]) :
                              i \in Items(sale_items[s])}
      OBVIOUS
    <3>2. Quiet(new)
      BY <3>1 DEF Movement
    <3>3. recordMovement(new) /\ stock_committed_at' = stock_committed_at
      BY <2>1, <2>3, <3>1 DEF releaseSellerStockForOrder
    <3> QED
      BY <3>2, <3>3, QuietKeepsOrder
  <2> QED
    BY <2>2, <2>3
<1>8. CASE CompleteSale
  <2>1. PICK s \in Sales, allow \in BOOLEAN : completeSellerStockForOrder(s, allow)
    BY <1>8 DEF CompleteSale
  <2>2. PICK new : new =
          {Movement("seller_sale", s, i, 0,
                    -[j \in Inventories |-> Lesser(quantity[j], sale_items[s][j])][i],
                    0, -sale_items[s][i]) : i \in Items(sale_items[s])}
    OBVIOUS
  <2>3. Quiet(new)
    <3>1. ASSUME NEW m \in new
          PROVE  m.key[1] = "seller_sale"
      <4>1. PICK i :
              m = Movement("seller_sale", s, i, 0,
                           -[j \in Inventories |-> Lesser(quantity[j], sale_items[s][j])][i],
                           0, -sale_items[s][i])
        BY <2>2, Zenon
      <4> QED
        BY <4>1 DEF Movement
    <3> QED
      BY <3>1
  <2>4. recordMovement(new) /\ stock_committed_at' = Stamp(stock_committed_at, {s})
    BY <2>1, <2>2 DEF completeSellerStockForOrder
  <2>5. \A o \in Executions : stock_committed_at'[o] = stock_committed_at[o]
    BY <2>4, LedgerAssumption DEF Stamp, LedgerTypeOK, Documents
  <2> QED
    BY <2>3, <2>4, <2>5, QuietKeepsOrder
<1>9. CASE Adjust
  <2>1. PICK i \in Inventories, n \in AdjustTo : adjustQuantity(i, n)
    BY <1>9 DEF Adjust
  <2>2. PICK new : new = {Movement("adjustment", "none", i, Adjustments(i) + 1,
                                   n - quantity[i], 0, 0)}
    OBVIOUS
  <2>3. Quiet(new)
    BY <2>2 DEF Movement
  <2>4. recordMovement(new) /\ stock_committed_at' = stock_committed_at
    BY <2>1, <2>2 DEF adjustQuantity
  <2> QED
    BY <2>3, <2>4, QuietKeepsOrder
<1>10. CASE UNCHANGED ledgerVars
  BY <1>10 DEF ledgerVars, KeysInOrder, Keys, returnCycle
<1> QED
  BY <1>1, <1>2, <1>3, <1>4, <1>5, <1>6, <1>7, <1>8, <1>9, <1>10 DEF LedgerNext

\* The journal opens with balances alone.
LEMMA InitOrder == LedgerInit => KeysInOrder
  BY DEF LedgerInit, KeysInOrder, Keys, Movement

\* The order of the keys is what keeps them apart.
LEMMA OrderedKeysNeverClash ==
  LedgerTypeOK /\ KeysInOrder => KeysNeverClash
<1> SUFFICES ASSUME LedgerTypeOK, KeysInOrder,
                    NEW o \in Executions, NEW i \in Items(Demand[o])
             PROVE  /\ Holds(o) => << "online_sale", o, i, returnCycle(o, i) >> \notin Keys
                    /\ stock_committed_at[o] =>
                         << "online_return", o, i, returnCycle(o, i) + 1 >> \notin Keys
  BY DEF KeysNeverClash
<1>1. returnCycle(o, i) \in Nat
  BY CycleNat DEF LedgerTypeOK
<1>2. Holds(o) => << "online_sale", o, i, returnCycle(o, i) >> \notin Keys
  BY DEF KeysInOrder, Holds
<1>3. << "online_return", o, i, returnCycle(o, i) + 1 >> \notin Keys
  <2>1. << "online_return", o, i, returnCycle(o, i) + 1 >> \in Keys =>
          returnCycle(o, i) + 1 \in 1 .. returnCycle(o, i)
    BY Zenon DEF KeysInOrder
  <2> QED
    BY <1>1, <2>1
<1> QED
  BY <1>2, <1>3

\* However often packages are packed and unpacked, the unique key of the journal
\* never refuses the next packing or the next return.
THEOREM KeysStayApart == LedgerSpec => []KeysNeverClash
<1>1. LedgerInit => KeysInOrder
  BY InitOrder
<1>2. LedgerTypeOK /\ KeysInOrder /\ [LedgerNext]_ledgerVars => KeysInOrder'
  BY OrderKeysStep
<1>3. LedgerTypeOK /\ KeysInOrder => KeysNeverClash
  BY OrderedKeysNeverClash
<1> QED
  BY <1>1, <1>2, <1>3, LedgerTypes, PTL DEF LedgerSpec

-------------------------------------------------------------------------------

(***************************************************************************)
(* Sums over finite sets.  MapThenSumSet takes the elements of a set in an *)
(* order of its own; what follows shows that the order does not matter, and *)
(* how a sum changes with the set and with the function.                   *)
(***************************************************************************)

\* The element of a set that a fold of the library takes first.
First(s) == CHOOSE x \in s : TRUE

\* g[s] is the sum of f over s, for every subset s of S: the recursive function
\* that MapThenSumSet chooses.
IsSum(g, f, S) ==
  g = [s \in SUBSET S |-> IF s = {} THEN 0 ELSE f[First(s)] + g[s \ {First(s)}]]

\* The sum of f over S.
Total(f, S) == (CHOOSE g : IsSum(g, f, S))[S]

\* The first element is an element.
LEMMA FirstIn == ASSUME NEW s, s # {} PROVE First(s) \in s
  BY DEF First

\* Among some subsets of a finite set there is one that contains no other: what
\* fails for some set fails for a smallest one, which stands for an induction.
LEMMA Smallest ==
  ASSUME NEW S, IsFiniteSet(S), NEW T \in SUBSET SUBSET S, T # {}
  PROVE  \E s \in T : \A t \in T : t \subseteq s => t = s
<1>1. IsWellFoundedOn(StrictSubsetOrdering(S), SUBSET S)
  BY FS_StrictSubsetOrderingWellFounded, FS_FiniteSubsetsOfFinite
<1>2. PICK s \in T : \A t \in T : << t, s >> \notin StrictSubsetOrdering(S)
  <2> DEFINE R == StrictSubsetOrdering(S)
             U == SUBSET S
  <2>1. IsWellFoundedOn(R, U) /\ T \subseteq U /\ T # {}
    BY <1>1
  <2> HIDE DEF R, U
  <2>2. \E s \in T : \A t \in T : ~ (<< t, s >> \in R)
    BY <2>1, WFMin
  <2> QED
    BY <2>2 DEF R
<1>3. ASSUME NEW t \in T, t \subseteq s PROVE t = s
  BY <1>2, <1>3 DEF StrictSubsetOrdering
<1> QED
  BY <1>3

\* There is only one such function: two would differ on a smallest set first.
LEMMA SumUnique ==
  ASSUME NEW S, IsFiniteSet(S), NEW f, NEW g, NEW h, IsSum(g, f, S), IsSum(h, f, S)
  PROVE  g = h
<1> DEFINE D == {s \in SUBSET S : g[s] # h[s]}
<1>1. D = {}
  <2> SUFFICES ASSUME D # {} PROVE FALSE
    OBVIOUS
  <2>1. PICK s \in D : \A t \in D : t \subseteq s => t = s
    <3> HIDE DEF D
    <3>1. D \in SUBSET SUBSET S
      BY DEF D
    <3> QED
      BY <3>1, Smallest
  <2>2. s # {}
    BY <2>1 DEF IsSum
  <2>3. First(s) \in s /\ s \in SUBSET S
    BY <2>1, <2>2, FirstIn
  <2>4. s \ {First(s)} \notin D
    BY <2>1, <2>3
  <2>5. g[s \ {First(s)}] = h[s \ {First(s)}]
    BY <2>3, <2>4
  <2>6. g[s] = f[First(s)] + g[s \ {First(s)}] /\ h[s] = f[First(s)] + h[s \ {First(s)}]
    BY <2>2, <2>3 DEF IsSum
  <2> QED
    BY <2>1, <2>5, <2>6
<1>2. g = [s \in SUBSET S |-> g[s]] /\ h = [s \in SUBSET S |-> h[s]]
  BY DEF IsSum
<1> QED
  BY <1>1, <1>2

\* A sum over S contains the sum over each subset.
LEMMA SumRestricts ==
  ASSUME NEW S, NEW f, NEW g, IsSum(g, f, S), NEW T \in SUBSET S
  PROVE  IsSum([s \in SUBSET T |-> g[s]], f, T)
<1> DEFINE h == [s \in SUBSET T |-> g[s]]
<1>1. ASSUME NEW s \in SUBSET T
      PROVE  h[s] = IF s = {} THEN 0 ELSE f[First(s)] + h[s \ {First(s)}]
  <2>1. s \in SUBSET S /\ s \ {First(s)} \in SUBSET T
    OBVIOUS
  <2>2. g[s] = IF s = {} THEN 0 ELSE f[First(s)] + g[s \ {First(s)}]
    BY <2>1 DEF IsSum
  <2> QED
    BY <2>1, <2>2
<1>2. h = [s \in SUBSET T |-> IF s = {} THEN 0 ELSE f[First(s)] + h[s \ {First(s)}]]
  BY <1>1
<1> QED
  BY <1>2 DEF IsSum

\* There is one: on a smallest set without one, it is put together from those
\* of its parts.
LEMMA SumExists ==
  ASSUME NEW S, IsFiniteSet(S), NEW f
  PROVE  \E g : IsSum(g, f, S)
<1> DEFINE Bad == {T \in SUBSET S : ~ \E g : IsSum(g, f, T)}
<1>1. Bad = {}
  <2> SUFFICES ASSUME Bad # {} PROVE FALSE
    OBVIOUS
  <2>1. PICK T \in Bad : \A t \in Bad : t \subseteq T => t = T
    <3> HIDE DEF Bad
    <3>1. Bad \in SUBSET SUBSET S
      BY DEF Bad
    <3> QED
      BY <3>1, Smallest
  <2> DEFINE sum(s) == CHOOSE g : IsSum(g, f, s)
             value(s) == IF s = {} THEN 0 ELSE f[First(s)] + sum(s \ {First(s)})[s \ {First(s)}]
             all == [s \in SUBSET T |-> value(s)]
  <2>2. \A s \in SUBSET T : s # T => IsSum(sum(s), f, s)
    BY <2>1
  <2>3. ASSUME NEW s \in SUBSET T, s # T PROVE value(s) = sum(s)[s]
    <3>1. sum(s)[s] = IF s = {} THEN 0 ELSE f[First(s)] + sum(s)[s \ {First(s)}]
      <4> DEFINE g == sum(s)
      <4>1. IsSum(g, f, s)
        BY <2>2, <2>3
      <4> HIDE DEF g
      <4>2. g[s] = IF s = {} THEN 0 ELSE f[First(s)] + g[s \ {First(s)}]
        BY <4>1 DEF IsSum
      <4> QED
        BY <4>2 DEF g
    <3>2. CASE s = {}
      BY <3>1, <3>2
    <3>3. CASE s # {}
      <4> DEFINE r == s \ {First(s)}
                 g == sum(s)
                 h == sum(r)
                 k == [t \in SUBSET r |-> g[t]]
      <4>1. First(s) \in s /\ r \in SUBSET T /\ r # T /\ r \in SUBSET s
        BY <2>3, <3>3, FirstIn
      <4>2. IsSum(g, f, s) /\ IsSum(h, f, r)
        BY <2>2, <2>3, <4>1
      <4>3. IsFiniteSet(r)
        BY <2>1, <4>1, FS_Subset
      <4> HIDE DEF g, h, r
      <4>4. IsSum(k, f, r)
        BY <4>1, <4>2, SumRestricts
      <4> HIDE DEF k
      <4>5. k = h
        BY <4>2, <4>3, <4>4, SumUnique
      <4>6. g[r] = h[r]
        BY <4>5 DEF k
      <4> QED
        BY <3>1, <3>3, <4>6 DEF g, h, r
    <3> QED
      BY <3>2, <3>3
  <2>4. ASSUME NEW s \in SUBSET T
        PROVE  all[s] = IF s = {} THEN 0 ELSE f[First(s)] + all[s \ {First(s)}]
    <3>1. CASE s = {}
      BY <3>1
    <3>2. CASE s # {}
      <4> DEFINE r == s \ {First(s)}
      <4>1. First(s) \in s /\ r \in SUBSET T /\ r # T
        BY <3>2, FirstIn
      <4>2. all[s] = f[First(s)] + sum(r)[r]
        BY <3>2
      <4>3. all[r] = sum(r)[r]
        <5>1. all[r] = value(r)
          BY <4>1
        <5>2. value(r) = sum(r)[r]
          BY <2>3, <4>1
        <5> QED
          BY <5>1, <5>2
      <4> QED
        BY <3>2, <4>2, <4>3
    <3> QED
      BY <3>1, <3>2
  <2>5. IsSum(all, f, T)
    <3> HIDE DEF value
    <3>1. all = [s \in SUBSET T |-> all[s]]
      OBVIOUS
    <3> QED
      BY <2>4, <3>1 DEF IsSum
  <2> QED
    BY <2>1, <2>5
<1> QED
  BY <1>1

\* The chosen sum is a sum.
LEMMA ChosenIsSum ==
  ASSUME NEW S, IsFiniteSet(S), NEW f
  PROVE  IsSum(CHOOSE g : IsSum(g, f, S), f, S)
  BY SumExists

\* The sum over a subset, read off the sum over the whole.
LEMMA SumOfPart ==
  ASSUME NEW S, IsFiniteSet(S), NEW f, NEW g, IsSum(g, f, S), NEW T \in SUBSET S
  PROVE  Total(f, T) = g[T]
<1> DEFINE h == CHOOSE k : IsSum(k, f, T)
           p == [s \in SUBSET T |-> g[s]]
<1>1. IsFiniteSet(T)
  BY FS_Subset
<1>2. IsSum(h, f, T) /\ Total(f, T) = h[T]
  BY <1>1, ChosenIsSum DEF Total
<1>3. IsSum(p, f, T) /\ p[T] = g[T]
  BY SumRestricts
<1> HIDE DEF h, p
<1> QED
  BY <1>1, <1>2, <1>3, SumUnique

\* Nothing sums up to zero.
LEMMA TotalEmpty == \A f : Total(f, {}) = 0
<1> SUFFICES ASSUME NEW f PROVE Total(f, {}) = 0
  OBVIOUS
<1> DEFINE g == CHOOSE k : IsSum(k, f, {})
<1>1. IsSum(g, f, {})
  BY FS_EmptySet, ChosenIsSum
<1> HIDE DEF g
<1>2. g[{}] = 0
  BY <1>1 DEF IsSum
<1> QED
  BY <1>2 DEF g, Total

\* The recursion, for a set that is not empty.
LEMMA TotalUnfold ==
  ASSUME NEW S, IsFiniteSet(S), S # {}, NEW f
  PROVE  Total(f, S) = f[First(S)] + Total(f, S \ {First(S)})
<1>1. PICK g : IsSum(g, f, S)
  BY SumExists
<1>2. Total(f, S) = g[S] /\ Total(f, S \ {First(S)}) = g[S \ {First(S)}]
  BY <1>1, SumOfPart
<1>3. g[S] = f[First(S)] + g[S \ {First(S)}]
  BY <1>1 DEF IsSum
<1> QED
  BY <1>2, <1>3

\* Only the values on the set count.
LEMMA TotalAgrees ==
  ASSUME NEW S, NEW f, NEW g, \A x \in S : f[x] = g[x]
  PROVE  Total(f, S) = Total(g, S)
<1>1. ASSUME NEW s \in SUBSET S, s # {} PROVE f[First(s)] = g[First(s)]
  BY <1>1, FirstIn
<1>2. ASSUME NEW k PROVE IsSum(k, f, S) <=> IsSum(k, g, S)
  <2>1. [s \in SUBSET S |-> IF s = {} THEN 0 ELSE f[First(s)] + k[s \ {First(s)}]]
          = [s \in SUBSET S |-> IF s = {} THEN 0 ELSE g[First(s)] + k[s \ {First(s)}]]
    BY <1>1
  <2> QED
    BY <2>1 DEF IsSum
<1>3. (CHOOSE k : IsSum(k, f, S)) = (CHOOSE k : IsSum(k, g, S))
  BY <1>2
<1> QED
  BY <1>3 DEF Total

\* Integers sum up to an integer.
LEMMA TotalInt ==
  ASSUME NEW S, IsFiniteSet(S), NEW f, \A x \in S : f[x] \in Int
  PROVE  Total(f, S) \in Int
<1> DEFINE Bad == {T \in SUBSET S : Total(f, T) \notin Int}
<1>1. Bad = {}
  <2> SUFFICES ASSUME Bad # {} PROVE FALSE
    OBVIOUS
  <2>1. PICK T \in Bad : \A t \in Bad : t \subseteq T => t = T
    <3> HIDE DEF Bad
    <3>1. Bad \in SUBSET SUBSET S
      BY DEF Bad
    <3> QED
      BY <3>1, Smallest
  <2>2. Total(f, T) \notin Int /\ T \in SUBSET S
    OBVIOUS
  <2>3. T # {} /\ IsFiniteSet(T)
    <3>1. Total(f, {}) \in Int
      BY TotalEmpty
    <3>2. T # {}
      BY <2>2, <3>1
    <3> QED
      BY <2>2, <3>2, FS_Subset
  <2>4. First(T) \in T
    BY <2>3, FirstIn
  <2>5. Total(f, T \ {First(T)}) \in Int
    BY <2>1, <2>4
  <2>6. f[First(T)] \in Int
    BY <2>2, <2>4
  <2>7. Total(f, T) = f[First(T)] + Total(f, T \ {First(T)})
    <3> HIDE DEF Bad
    <3> QED
      BY <2>3, TotalUnfold
  <2> HIDE DEF Bad
  <2> QED
    BY <2>2, <2>5, <2>6, <2>7
<1> QED
  BY <1>1

\* Any element may be taken out first, since addition commutes.
LEMMA TotalTake ==
  ASSUME NEW S, IsFiniteSet(S), NEW f, \A x \in S : f[x] \in Int, NEW e \in S
  PROVE  Total(f, S) = f[e] + Total(f, S \ {e})
<1> DEFINE Bad == {T \in SUBSET S : \E x \in T : Total(f, T) # f[x] + Total(f, T \ {x})}
<1>1. Bad = {}
  <2> SUFFICES ASSUME Bad # {} PROVE FALSE
    OBVIOUS
  <2>1. PICK T \in Bad : \A t \in Bad : t \subseteq T => t = T
    <3> HIDE DEF Bad
    <3>1. Bad \in SUBSET SUBSET S
      BY DEF Bad
    <3> QED
      BY <3>1, Smallest
  <2>2. PICK x \in T : Total(f, T) # f[x] + Total(f, T \ {x})
    BY <2>1
  <2> DEFINE c == First(T)
  <2>3. T # {} /\ IsFiniteSet(T) /\ c \in T /\ T \in SUBSET S
    <3>1. T # {} /\ T \in SUBSET S
      BY <2>1, <2>2
    <3> QED
      BY <3>1, FS_Subset, FirstIn
  <2>4. Total(f, T) = f[c] + Total(f, T \ {c})
    BY <2>3, TotalUnfold
  <2>5. c # x
    BY <2>2, <2>4
  <2> HIDE DEF c
  <2>6. T \ {c} \notin Bad /\ T \ {x} \notin Bad
    BY <2>1, <2>2, <2>3
  <2>7. Total(f, T \ {c}) = f[x] + Total(f, (T \ {c}) \ {x})
    BY <2>2, <2>3, <2>5, <2>6
  <2>8. Total(f, T \ {x}) = f[c] + Total(f, (T \ {x}) \ {c})
    BY <2>2, <2>3, <2>5, <2>6
  <2>9. (T \ {c}) \ {x} = (T \ {x}) \ {c}
    OBVIOUS
  <2>10. f[x] \in Int /\ f[c] \in Int
    <3>1. x \in S /\ c \in S
      BY <2>2, <2>3
    <3> QED
      BY <3>1
  <2>11. Total(f, (T \ {x}) \ {c}) \in Int
    <3> DEFINE U == (T \ {x}) \ {c}
    <3>1. IsFiniteSet(U) /\ \A y \in U : f[y] \in Int
      BY <2>3, FS_Subset
    <3> HIDE DEF U
    <3> QED
      BY <3>1, TotalInt DEF U
  <2> DEFINE r == Total(f, (T \ {x}) \ {c})
             a == f[x]
             b == f[c]
  <2>12. /\ Total(f, T) = b + (a + r)
         /\ Total(f, T \ {x}) = b + r
    BY <2>4, <2>7, <2>8, <2>9
  <2>13. a \in Int /\ b \in Int /\ r \in Int
    BY <2>10, <2>11
  <2> HIDE DEF a, b, r, Bad
  <2>14. b + (a + r) = a + (b + r)
    BY <2>13
  <2>15. Total(f, T) = a + Total(f, T \ {x})
    BY <2>12, <2>14
  <2> QED
    BY <2>2, <2>15 DEF a
<1> QED
  BY <1>1

\* One element more.
LEMMA TotalPut ==
  ASSUME NEW S, IsFiniteSet(S), NEW f, NEW e, e \notin S,
         \A x \in S \cup {e} : f[x] \in Int
  PROVE  Total(f, S \cup {e}) = Total(f, S) + f[e]
<1> DEFINE T == S \cup {e}
<1>1. IsFiniteSet(T) /\ e \in T /\ T \ {e} = S /\ \A x \in T : f[x] \in Int
  BY FS_AddElement
<1>2. Total(f, S) \in Int
  BY TotalInt
<1> HIDE DEF T
<1>3. Total(f, T) = f[e] + Total(f, S)
  BY <1>1, TotalTake
<1> QED
  BY <1>1, <1>2, <1>3 DEF T

\* One element alone.
LEMMA TotalOne ==
  ASSUME NEW f, NEW e, f[e] \in Int
  PROVE  Total(f, {e}) = f[e]
<1>1. Total(f, {} \cup {e}) = Total(f, {}) + f[e]
  BY TotalPut, FS_EmptySet
<1> QED
  BY <1>1, TotalEmpty

\* Sums over disjoint sets add up.
LEMMA TotalUnion ==
  ASSUME NEW A, IsFiniteSet(A), NEW B, IsFiniteSet(B), A \cap B = {}, NEW f,
         \A x \in A \cup B : f[x] \in Int
  PROVE  Total(f, A \cup B) = Total(f, A) + Total(f, B)
<1> DEFINE Bad == {T \in SUBSET B : Total(f, A \cup T) # Total(f, A) + Total(f, T)}
<1>0. Total(f, A) \in Int
  BY TotalInt
<1>1. Bad = {}
  <2> SUFFICES ASSUME Bad # {} PROVE FALSE
    OBVIOUS
  <2>1. PICK T \in Bad : \A t \in Bad : t \subseteq T => t = T
    <3> HIDE DEF Bad
    <3>1. Bad \in SUBSET SUBSET B
      BY DEF Bad
    <3> QED
      BY <3>1, Smallest
  <2>2. T # {}
    <3>1. A \cup {} = A
      OBVIOUS
    <3>2. Total(f, A \cup {}) = Total(f, A) + Total(f, {})
      BY <1>0, <3>1, TotalEmpty
    <3> QED
      BY <2>1, <3>2
  <2>3. PICK e \in T : TRUE
    BY <2>2
  <2> DEFINE U == T \ {e}
             V == A \cup U
  <2>4. /\ IsFiniteSet(U) /\ IsFiniteSet(V)
        /\ e \notin V /\ V \cup {e} = A \cup T /\ U \cup {e} = T /\ e \notin U
        /\ \A x \in V \cup {e} : f[x] \in Int
        /\ \A x \in U \cup {e} : f[x] \in Int
    BY ZenonT(60), <2>1, <2>3, FS_Subset, FS_Union
  <2>5. Total(f, V) = Total(f, A) + Total(f, U)
    <3>1. U \notin Bad /\ U \in SUBSET B
      BY <2>1, <2>3
    <3> QED
      BY <3>1
  <2> HIDE DEF U, V
  <2>6. Total(f, V \cup {e}) = Total(f, V) + f[e]
    BY <2>4, TotalPut
  <2>7. Total(f, U \cup {e}) = Total(f, U) + f[e]
    BY <2>4, TotalPut
  <2>8. Total(f, U) \in Int /\ f[e] \in Int
    BY <2>4, TotalInt
  <2>9. Total(f, A \cup T) = Total(f, A) + Total(f, T)
    <3> DEFINE a == Total(f, A)
               u == Total(f, U)
               v == f[e]
    <3>1. Total(f, A \cup T) = (a + u) + v /\ Total(f, T) = u + v
      BY <2>4, <2>5, <2>6, <2>7
    <3>2. a \in Int /\ u \in Int /\ v \in Int
      BY <1>0, <2>8
    <3> HIDE DEF a, u, v, Bad
    <3>3. (a + u) + v = a + (u + v)
      BY <3>2
    <3> QED
      BY <3>1, <3>3 DEF a
  <2> QED
    BY <2>1, <2>9
<1> QED
  BY <1>1

\* Zeros sum up to zero.
LEMMA TotalZero ==
  ASSUME NEW S, IsFiniteSet(S), NEW f, \A x \in S : f[x] = 0
  PROVE  Total(f, S) = 0
<1> DEFINE Bad == {T \in SUBSET S : Total(f, T) # 0}
<1>1. Bad = {}
  <2> SUFFICES ASSUME Bad # {} PROVE FALSE
    OBVIOUS
  <2>1. PICK T \in Bad : \A t \in Bad : t \subseteq T => t = T
    <3> HIDE DEF Bad
    <3>1. Bad \in SUBSET SUBSET S
      BY DEF Bad
    <3> QED
      BY <3>1, Smallest
  <2>2. T # {} /\ IsFiniteSet(T)
    BY <2>1, TotalEmpty, FS_Subset
  <2>3. First(T) \in T
    BY <2>2, FirstIn
  <2>4. Total(f, T \ {First(T)}) = 0
    BY <2>1, <2>3
  <2> QED
    BY <2>1, <2>2, <2>3, <2>4, TotalUnfold
<1> QED
  BY <1>1

(***************************************************************************)
(* The sums of the ledger.                                                 *)
(***************************************************************************)

\* The sum of a column over some rows of the journal.
Column(c, R) == Total([m \in R |-> m[c]], R)

\* The sums that the invariants of the ledger are written with, one by one: what
\* some executions take from a row,
LEMMA DemandSum ==
  ASSUME NEW S, IsFiniteSet(S), NEW i
  PROVE  MapThenSumSet(LAMBDA o : Demand[o][i], S) = Total([o \in S |-> Demand[o][i]], S)
<1> DEFINE f == [o \in S |-> Demand[o][i]]
           A(g) == g = [s \in SUBSET S |->
                          IF s = {} THEN 0
                          ELSE Demand[CHOOSE x \in s : TRUE][i] + g[s \ {CHOOSE x \in s : TRUE}]]
<1>1. MapThenSumSet(LAMBDA o : Demand[o][i], S) = (CHOOSE g : A(g))[S]
  BY DEF MapThenSumSet, MapThenFoldSet
<1>2. ASSUME NEW s \in SUBSET S, s # {}
      PROVE  f[First(s)] = Demand[CHOOSE x \in s : TRUE][i]
  BY <1>2, FirstIn DEF First
<1>3. ASSUME NEW g PROVE A(g) <=> IsSum(g, f, S)
  BY <1>2 DEF IsSum, First
<1>4. (CHOOSE g : A(g)) = (CHOOSE g : IsSum(g, f, S))
  BY <1>3
<1> QED
  BY <1>1, <1>4 DEF Total

\* what some sales take from it,
LEMMA ItemsSum ==
  ASSUME NEW S, IsFiniteSet(S), NEW i
  PROVE  MapThenSumSet(LAMBDA s : sale_items[s][i], S) = Total([s \in S |-> sale_items[s][i]], S)
<1> DEFINE f == [s \in S |-> sale_items[s][i]]
           A(g) == g = [s \in SUBSET S |->
                          IF s = {} THEN 0
                          ELSE sale_items[CHOOSE x \in s : TRUE][i] + g[s \ {CHOOSE x \in s : TRUE}]]
<1>1. MapThenSumSet(LAMBDA s : sale_items[s][i], S) = (CHOOSE g : A(g))[S]
  BY DEF MapThenSumSet, MapThenFoldSet
<1>2. ASSUME NEW s \in SUBSET S, s # {}
      PROVE  f[First(s)] = sale_items[CHOOSE x \in s : TRUE][i]
  BY <1>2, FirstIn DEF First
<1>3. ASSUME NEW g PROVE A(g) <=> IsSum(g, f, S)
  BY <1>2 DEF IsSum, First
<1>4. (CHOOSE g : A(g)) = (CHOOSE g : IsSum(g, f, S))
  BY <1>3
<1> QED
  BY <1>1, <1>4 DEF Total

\* and the three columns of some rows of the journal.
LEMMA PhysicalSum ==
  ASSUME NEW S, IsFiniteSet(S)
  PROVE  MapThenSumSet(LAMBDA m : m.physical, S) = Column("physical", S)
<1> DEFINE f == [m \in S |-> m["physical"]]
           A(g) == g = [s \in SUBSET S |->
                          IF s = {} THEN 0
                          ELSE (CHOOSE x \in s : TRUE).physical + g[s \ {CHOOSE x \in s : TRUE}]]
<1>1. MapThenSumSet(LAMBDA m : m.physical, S) = (CHOOSE g : A(g))[S]
  BY DEF MapThenSumSet, MapThenFoldSet
<1>2. ASSUME NEW s \in SUBSET S, s # {}
      PROVE  f[First(s)] = (CHOOSE x \in s : TRUE).physical
  BY <1>2, FirstIn DEF First
<1>3. ASSUME NEW g PROVE A(g) <=> IsSum(g, f, S)
  BY <1>2 DEF IsSum, First
<1>4. (CHOOSE g : A(g)) = (CHOOSE g : IsSum(g, f, S))
  BY <1>3
<1> QED
  BY <1>1, <1>4 DEF Total, Column

\* The same for the reserve of web orders.
LEMMA OnlineSum ==
  ASSUME NEW S, IsFiniteSet(S)
  PROVE  MapThenSumSet(LAMBDA m : m.online, S) = Column("online", S)
<1> DEFINE f == [m \in S |-> m["online"]]
           A(g) == g = [s \in SUBSET S |->
                          IF s = {} THEN 0
                          ELSE (CHOOSE x \in s : TRUE).online + g[s \ {CHOOSE x \in s : TRUE}]]
<1>1. MapThenSumSet(LAMBDA m : m.online, S) = (CHOOSE g : A(g))[S]
  BY DEF MapThenSumSet, MapThenFoldSet
<1>2. ASSUME NEW s \in SUBSET S, s # {}
      PROVE  f[First(s)] = (CHOOSE x \in s : TRUE).online
  BY <1>2, FirstIn DEF First
<1>3. ASSUME NEW g PROVE A(g) <=> IsSum(g, f, S)
  BY <1>2 DEF IsSum, First
<1>4. (CHOOSE g : A(g)) = (CHOOSE g : IsSum(g, f, S))
  BY <1>3
<1> QED
  BY <1>1, <1>4 DEF Total, Column
\* The same for the reserve of sellers.
LEMMA SellerSum ==
  ASSUME NEW S, IsFiniteSet(S)
  PROVE  MapThenSumSet(LAMBDA m : m.seller, S) = Column("seller", S)
<1> DEFINE f == [m \in S |-> m["seller"]]
           A(g) == g = [s \in SUBSET S |->
                          IF s = {} THEN 0
                          ELSE (CHOOSE x \in s : TRUE).seller + g[s \ {CHOOSE x \in s : TRUE}]]
<1>1. MapThenSumSet(LAMBDA m : m.seller, S) = (CHOOSE g : A(g))[S]
  BY DEF MapThenSumSet, MapThenFoldSet
<1>2. ASSUME NEW s \in SUBSET S, s # {}
      PROVE  f[First(s)] = (CHOOSE x \in s : TRUE).seller
  BY <1>2, FirstIn DEF First
<1>3. ASSUME NEW g PROVE A(g) <=> IsSum(g, f, S)
  BY <1>2 DEF IsSum, First
<1>4. (CHOOSE g : A(g)) = (CHOOSE g : IsSum(g, f, S))
  BY <1>3
<1> QED
  BY <1>1, <1>4 DEF Total, Column

\* What a row of the journal counts.
Columns == {"physical", "online", "seller"}

\* Rows that say how many goods they move.
Typed(R) == \A m \in R : m.physical \in Int /\ m.online \in Int /\ m.seller \in Int

\* The rows about balance i.
RowsAt(R, i) == {m \in R : m.key[3] = i}

\* The rows about what document o does to balance i.
RowsOf(R, o, i) == {m \in R : m.key[2] = o /\ m.key[3] = i}

\* Columns of disjoint sets of rows add up.
LEMMA ColumnGrows ==
  ASSUME NEW A, IsFiniteSet(A), NEW B, IsFiniteSet(B), A \cap B = {},
         Typed(A), Typed(B), NEW c \in Columns
  PROVE  Column(c, A \cup B) = Column(c, A) + Column(c, B)
<1> DEFINE f == [m \in A \cup B |-> m[c]]
           a == [m \in A |-> m[c]]
           b == [m \in B |-> m[c]]
<1>1. \A m \in A \cup B : f[m] \in Int
  BY DEF Typed, Columns
<1>2. (\A m \in A : f[m] = a[m]) /\ (\A m \in B : f[m] = b[m])
  OBVIOUS
<1>3. Column(c, A \cup B) = Total(f, A \cup B) /\ Column(c, A) = Total(a, A)
      /\ Column(c, B) = Total(b, B)
  BY DEF Column
<1> HIDE DEF f, a, b
<1>4. Total(f, A \cup B) = Total(f, A) + Total(f, B)
  BY <1>1, TotalUnion
<1>5. Total(f, A) = Total(a, A) /\ Total(f, B) = Total(b, B)
  BY <1>2, TotalAgrees
<1> QED
  BY <1>3, <1>4, <1>5

\* A column of finitely many rows is an integer,
LEMMA ColumnInt ==
  ASSUME NEW A, IsFiniteSet(A), Typed(A), NEW c \in Columns
  PROVE  Column(c, A) \in Int
<1> DEFINE a == [m \in A |-> m[c]]
<1>1. \A m \in A : a[m] \in Int
  BY DEF Typed, Columns
<1> HIDE DEF a
<1>2. Total(a, A) \in Int
  BY <1>1, TotalInt
<1> QED
  BY <1>2 DEF a, Column

\* it is zero if its entries are,
LEMMA ColumnZero ==
  ASSUME NEW A, IsFiniteSet(A), NEW c, \A m \in A : m[c] = 0
  PROVE  Column(c, A) = 0
<1> DEFINE a == [m \in A |-> m[c]]
<1>1. \A m \in A : a[m] = 0
  OBVIOUS
<1> HIDE DEF a
<1>2. Total(a, A) = 0
  BY <1>1, TotalZero
<1> QED
  BY <1>2 DEF a, Column

\* and the entry itself if there is one row.
LEMMA ColumnOne ==
  ASSUME NEW m, NEW c, m[c] \in Int
  PROVE  Column(c, {m}) = m[c]
<1> DEFINE a == [r \in {m} |-> r[c]]
<1>1. a[m] = m[c]
  OBVIOUS
<1> HIDE DEF a
<1>2. Total(a, {m}) = m[c]
  BY <1>1, TotalOne
<1> QED
  BY <1>2 DEF a, Column

\* Sums of the journal grow by what is recorded.
LEMMA Recorded ==
  ASSUME NEW new, IsFiniteSet(new), Typed(new), IsFiniteSet(movements), Typed(movements),
         recordMovement(new), NEW c \in Columns
  PROVE  /\ Typed(movements')
         /\ \A i : Column(c, RowsAt(movements', i)) =
                     Column(c, RowsAt(movements, i)) + Column(c, RowsAt(new, i))
         /\ \A o, i : Column(c, RowsOf(movements', o, i)) =
                        Column(c, RowsOf(movements, o, i)) + Column(c, RowsOf(new, o, i))
<1>1. movements' = movements \cup new /\ movements \cap new = {}
  BY DEF recordMovement, Keys
<1>2. Typed(movements')
  BY <1>1 DEF Typed
<1>3. ASSUME NEW i
      PROVE  Column(c, RowsAt(movements', i)) =
               Column(c, RowsAt(movements, i)) + Column(c, RowsAt(new, i))
  <2> DEFINE A == RowsAt(movements, i)
             B == RowsAt(new, i)
  <2>1. /\ IsFiniteSet(A) /\ IsFiniteSet(B) /\ A \cap B = {}
        /\ Typed(A) /\ Typed(B) /\ RowsAt(movements', i) = A \cup B
    BY <1>1, FS_Subset DEF RowsAt, Typed
  <2> HIDE DEF A, B
  <2> QED
    BY <2>1, ColumnGrows DEF A, B
<1>4. ASSUME NEW o, NEW i
      PROVE  Column(c, RowsOf(movements', o, i)) =
               Column(c, RowsOf(movements, o, i)) + Column(c, RowsOf(new, o, i))
  <2> DEFINE A == RowsOf(movements, o, i)
             B == RowsOf(new, o, i)
  <2>1. /\ IsFiniteSet(A) /\ IsFiniteSet(B) /\ A \cap B = {}
        /\ Typed(A) /\ Typed(B) /\ RowsOf(movements', o, i) = A \cup B
    BY <1>1, FS_Subset DEF RowsOf, Typed
  <2> HIDE DEF A, B
  <2> QED
    BY <2>1, ColumnGrows DEF A, B
<1> QED
  BY <1>2, <1>3, <1>4

\* new is one row f[i] of the journal for each row i of I.
OneForEachRow(f, I, new) ==
  /\ IsFiniteSet(I)
  /\ \A i \in I : /\ f[i] \in new /\ f[i].key[3] = i
                  /\ f[i].physical \in Int /\ f[i].online \in Int /\ f[i].seller \in Int
  /\ \A m \in new : \E i \in I : m = f[i]

\* Then the column of a balance is the entry of its row, if it has one.
LEMMA WrittenByRow ==
  ASSUME NEW I, NEW f, NEW new, OneForEachRow(f, I, new)
  PROVE  /\ IsFiniteSet(new) /\ Typed(new)
         /\ \A i : \A c \in Columns :
              Column(c, RowsAt(new, i)) = IF i \in I THEN f[i][c] ELSE 0
<1> USE DEF OneForEachRow
<1>0. new = {f[i] : i \in I}
  OBVIOUS
<1>1. IsFiniteSet(new)
  BY <1>0, FiniteImage
<1>2. Typed(new)
  BY <1>0 DEF Typed
<1>3. ASSUME NEW i, NEW c \in Columns
      PROVE  Column(c, RowsAt(new, i)) = IF i \in I THEN f[i][c] ELSE 0
  <2>1. CASE i \in I
    <3>1. RowsAt(new, i) = {f[i]}
      BY <2>1 DEF RowsAt
    <3>2. f[i][c] \in Int
      BY <2>1 DEF Columns
    <3> QED
      BY <2>1, <3>1, <3>2, ColumnOne
  <2>2. CASE i \notin I
    <3>1. RowsAt(new, i) = {}
      BY <2>2 DEF RowsAt
    <3> QED
      BY <2>2, <3>1, ColumnZero, FS_EmptySet
  <2> QED
    BY <2>1, <2>2
<1> QED
  BY <1>1, <1>2, <1>3

\* What the executions take from row i, as a function to be summed.
DemandAt(i) == [o \in Executions |-> Demand[o][i]]

\* What the sales take from row i.
ItemsAt(i) == [s \in Sales |-> sale_items[s][i]]

\* The executions that hold a reserve.
HeldOnline == {o \in Executions : Holds(o)}

\* The sales that hold one.
HeldBySales == {s \in Sales : Holds(s)}

\* What the assumptions on the constants say about these sums.
LEMMA DemandTyped ==
  /\ IsFiniteSet(Executions) /\ IsFiniteSet(Sales) /\ IsFiniteSet(Inventories)
  /\ \A i \in Inventories : \A o \in Executions :
       DemandAt(i)[o] = Demand[o][i] /\ Demand[o][i] \in Nat
  BY LedgerAssumption DEF DemandAt

\* At most one execution of a batch takes from row i.
LEMMA OneTaker ==
  ASSUME NEW S \in Batches, NEW T \in SUBSET S, NEW i \in Inventories
  PROVE  \/ Takers(T, i) = {} /\ Taken(T, i) = 0
         \/ \E o \in T : /\ Takers(T, i) = {o} /\ Taken(T, i) = Demand[o][i]
                         /\ o \in Executions
<1>1. S \subseteq Executions
  BY LedgerAssumption
<1>2. CASE Takers(T, i) = {}
  BY <1>2 DEF Taken
<1>3. CASE Takers(T, i) # {}
  <2> DEFINE o == CHOOSE p \in Takers(T, i) : TRUE
  <2>1. o \in Takers(T, i)
    BY <1>3
  <2> HIDE DEF o
  <2>2. \A p \in Takers(T, i) : p = o
    BY <2>1, LedgerAssumption DEF DisjointBatches, Takers
  <2>3. Takers(T, i) = {o}
    BY <2>1, <2>2
  <2>4. Taken(T, i) = Demand[o][i]
    BY <1>3 DEF Taken, o
  <2> QED
    BY <1>1, <2>1, <2>3, <2>4 DEF Takers
<1> QED
  BY <1>2, <1>3

\* What a batch takes from a row is the sum of what its executions take.
LEMMA TakenIsTotal ==
  ASSUME NEW S \in Batches, NEW T \in SUBSET S, NEW i \in Inventories
  PROVE  Taken(T, i) = Total(DemandAt(i), T)
<1> DEFINE f == DemandAt(i)
<1>1. T \subseteq Executions /\ IsFiniteSet(T)
  BY LedgerAssumption, FS_Subset
<1>2. \A o \in T : f[o] = Demand[o][i] /\ f[o] \in Nat
  BY <1>1, DemandTyped
<1> HIDE DEF f
<1>3. CASE Takers(T, i) = {} /\ Taken(T, i) = 0
  <2>1. \A o \in T : f[o] = 0
    BY <1>2, <1>3 DEF Takers
  <2> QED
    BY <1>1, <1>3, <2>1, TotalZero DEF f
<1>4. ASSUME NEW o \in T, Takers(T, i) = {o}, Taken(T, i) = Demand[o][i]
      PROVE  Taken(T, i) = Total(f, T)
  <2> DEFINE U == T \ {o}
  <2>1. IsFiniteSet(U) /\ \A p \in U : f[p] = 0
    BY <1>1, <1>2, <1>4, FS_Subset DEF Takers
  <2>2. Total(f, T) = f[o] + Total(f, U)
    BY <1>1, <1>2, TotalTake
  <2> HIDE DEF U
  <2>3. Total(f, U) = 0
    BY <2>1, TotalZero
  <2> QED
    BY <1>2, <1>4, <2>2, <2>3
<1> QED
  BY <1>3, <1>4, OneTaker DEF f

\* new is one row f[l] of the journal for each order line l of T, which adds
\* the line to the reserve of web orders or takes it from there.
OneForEachLine(f, T, sign, new) ==
  /\ \A l \in Lines(T) : /\ f[l] \in new /\ f[l].key[2] = l[1] /\ f[l].key[3] = l[2]
                         /\ f[l].physical = 0 /\ f[l].seller = 0
                         /\ f[l].online = sign * Demand[l[1]][l[2]]
  /\ \A m \in new : \E l \in Lines(T) : m = f[l]

\* Such rows add up to what T takes.
LEMMA WrittenByLine ==
  ASSUME NEW S \in Batches, NEW T \in SUBSET S, NEW f, NEW sign \in {1, -1},
         NEW new, OneForEachLine(f, T, sign, new)
  PROVE  /\ IsFiniteSet(new) /\ Typed(new)
         /\ \A m \in new : m.physical = 0 /\ m.seller = 0
         /\ \A i \in Inventories :
              Column("online", RowsAt(new, i)) = sign * Taken(T, i)
<1> USE DEF OneForEachLine
<1>1. T \subseteq Executions
  BY LedgerAssumption
<1>2. IsFiniteSet(new)
  <2>1. new = {f[l] : l \in Lines(T)}
    OBVIOUS
  <2> QED
    BY <1>1, <2>1, FiniteLines, FiniteImage
<1>3. \A l \in Lines(T) : l \in T \X Inventories /\ Demand[l[1]][l[2]] \in Nat
  BY <1>1, LedgerAssumption DEF Lines
<1>4. Typed(new)
  BY <1>3 DEF Typed
<1>5. \A m \in new : m.physical = 0 /\ m.seller = 0
  OBVIOUS
<1>6. ASSUME NEW i \in Inventories
      PROVE  Column("online", RowsAt(new, i)) = sign * Taken(T, i)
  <2>1. RowsAt(new, i) = {f[<< o, i >>] : o \in Takers(T, i)}
    <3>1. \A l \in Lines(T) : l[2] = i => l = << l[1], i >> /\ l[1] \in Takers(T, i)
      BY <1>3 DEF Lines, Takers
    <3>2. \A o \in Takers(T, i) : << o, i >> \in Lines(T) /\ << o, i >>[2] = i
      BY DEF Lines, Takers
    <3>3. \A o \in Takers(T, i) : f[<< o, i >>] \in new /\ f[<< o, i >>].key[3] = i
      BY <3>2
    <3>4. \A m \in new : m.key[3] = i => \E o \in Takers(T, i) : m = f[<< o, i >>]
      BY <3>1
    <3>5. \A m : m \in RowsAt(new, i) <=> \E o \in Takers(T, i) : m = f[<< o, i >>]
      BY <3>3, <3>4 DEF RowsAt
    <3> QED
      BY <3>5
  <2>2. CASE Takers(T, i) = {} /\ Taken(T, i) = 0
    <3>1. RowsAt(new, i) = {}
      BY <2>1, <2>2
    <3>2. Column("online", {}) = 0
      BY ColumnZero, FS_EmptySet
    <3>3. sign * Taken(T, i) = 0
      BY <2>2
    <3> QED
      BY <3>1, <3>2, <3>3
  <2>3. ASSUME NEW o \in T, Takers(T, i) = {o}, Taken(T, i) = Demand[o][i]
        PROVE  Column("online", RowsAt(new, i)) = sign * Taken(T, i)
    <3> DEFINE m == f[<< o, i >>]
    <3>1. RowsAt(new, i) = {m}
      BY <2>1, <2>3
    <3>2. << o, i >> \in Lines(T)
      BY <2>3 DEF Lines, Takers
    <3>3. m["online"] = sign * Demand[o][i]
      BY <3>2
    <3>4. m["online"] \in Int
      BY <1>4, <3>2 DEF Typed
    <3> HIDE DEF m
    <3>5. Column("online", {m}) = m["online"]
      BY <3>4, ColumnOne
    <3> QED
      BY <2>3, <3>1, <3>3, <3>5
  <2> QED
    BY <2>2, <2>3, OneTaker
<1> QED
  BY <1>2, <1>4, <1>5, <1>6

(***************************************************************************)
(* What is kept.                                                           *)
(***************************************************************************)

\* ReservesMatchDocuments, in terms of Total.
ReservesHeld ==
  \A i \in Inventories :
    /\ reserved_online[i] = Total(DemandAt(i), HeldOnline)
    /\ reserved_seller[i] = Total(ItemsAt(i), HeldBySales)

\* JournalExplainsBalances, in terms of Column.
JournalKept ==
  \A i \in Inventories :
    /\ quantity[i] = Column("physical", RowsAt(movements, i))
    /\ reserved_online[i] = Column("online", RowsAt(movements, i))
    /\ reserved_seller[i] = Column("seller", RowsAt(movements, i))

\* ShippedOnce, in terms of Column.
ShipmentsKept ==
  \A o \in Executions, i \in Inventories :
    Column("physical", RowsOf(movements, o, i))
      = IF stock_committed_at[o] THEN -Demand[o][i] ELSE 0

\* A sale that the server does not know has no items: its first version brings
\* all it holds.
UnreservedEmpty == \A s \in Sales : ~stock_reserved_at[s] => sale_items[s] = NoItems

(***************************************************************************)
(* The inductive invariant.  BooksAgree is not inductive by itself: what a *)
(* release gives back is what the document held only if its stamps agree,  *)
(* a packing is told from a repeated one by its stamp, and the sums change *)
(* by what is written only if rows are never overwritten, which the unique *)
(* key of the journal forbids.                                             *)
(***************************************************************************)
BooksInv ==
  /\ LedgerTypeOK
  /\ StampsAgree
  /\ Typed(movements)
  /\ ReservesHeld
  /\ JournalKept
  /\ ShipmentsKept
  /\ UnreservedEmpty

\* An operation on documents that are no packed executions.
LEMMA QuietShipment ==
  ASSUME LedgerTypeOK, Typed(movements), ShipmentsKept,
         NEW new, recordMovement(new), IsFiniteSet(new), Typed(new),
         \A m \in new : m.key[2] \in Executions => m.physical = 0,
         \A o \in Executions : stock_committed_at'[o] = stock_committed_at[o]
  PROVE  ShipmentsKept'
<1> SUFFICES ASSUME NEW o \in Executions, NEW i \in Inventories
             PROVE  Column("physical", RowsOf(movements', o, i))
                      = IF stock_committed_at'[o] THEN -Demand[o][i] ELSE 0
  BY DEF ShipmentsKept
<1>1. Column("physical", RowsOf(movements', o, i)) =
        Column("physical", RowsOf(movements, o, i)) + Column("physical", RowsOf(new, o, i))
  BY Recorded DEF LedgerTypeOK, Columns
<1>2. Column("physical", RowsOf(new, o, i)) = 0
  <2> DEFINE R == RowsOf(new, o, i)
  <2>1. IsFiniteSet(R) /\ \A m \in R : m["physical"] = 0
    BY FS_Subset DEF RowsOf
  <2> HIDE DEF R
  <2> QED
    BY <2>1, ColumnZero DEF R
<1>3. Column("physical", RowsOf(movements, o, i))
        = IF stock_committed_at[o] THEN -Demand[o][i] ELSE 0
  BY DEF ShipmentsKept
<1>4. Demand[o][i] \in Nat
  BY DemandTyped
<1> QED
  BY <1>1, <1>2, <1>3, <1>4

\* new is one row f[i] of the journal for each row i that execution d takes
\* from: it takes the demand from the shelf and the reserve, or gives it back.
MovesPackage(f, d, sign, new) ==
  /\ \A i \in Items(Demand[d]) : /\ f[i] \in new /\ f[i].key[2] = d /\ f[i].key[3] = i
                                 /\ f[i].physical = sign * Demand[d][i]
                                 /\ f[i].online = sign * Demand[d][i]
                                 /\ f[i].seller = 0
  /\ \A m \in new : \E i \in Items(Demand[d]) : m = f[i]

\* An operation on the package of execution d moves d's demand.
LEMMA Shipment ==
  ASSUME LedgerTypeOK, Typed(movements), ShipmentsKept, NEW d \in Executions,
         NEW f, NEW new, NEW sign \in {1, -1}, MovesPackage(f, d, sign, new),
         recordMovement(new),
         sign = 1 => stock_committed_at[d] /\ ~stock_committed_at'[d],
         sign = -1 => ~stock_committed_at[d] /\ stock_committed_at'[d],
         \A o \in Executions : o # d => stock_committed_at'[o] = stock_committed_at[o]
  PROVE  /\ Typed(movements')
         /\ ShipmentsKept'
         /\ \A i \in Inventories :
              /\ Column("physical", RowsAt(movements', i)) =
                   Column("physical", RowsAt(movements, i)) + sign * Demand[d][i]
              /\ Column("online", RowsAt(movements', i)) =
                   Column("online", RowsAt(movements, i)) + sign * Demand[d][i]
              /\ Column("seller", RowsAt(movements', i)) = Column("seller", RowsAt(movements, i))
<1> DEFINE I == Items(Demand[d])
<1> USE DEF MovesPackage
<1>0. IsFiniteSet(movements) /\ IsFiniteSet(I) /\ \A i \in Inventories : Demand[d][i] \in Nat
  BY ItemsFinite, DemandTyped DEF LedgerTypeOK
<1>1. OneForEachRow(f, I, new)
  BY <1>0 DEF OneForEachRow, Items
<1>2. /\ IsFiniteSet(new) /\ Typed(new)
      /\ \A i : \A c \in Columns : Column(c, RowsAt(new, i)) = IF i \in I THEN f[i][c] ELSE 0
  <2> HIDE DEF I
  <2> QED
    BY <1>1, WrittenByRow
<1>3. ASSUME NEW c \in Columns
      PROVE  /\ Typed(movements')
             /\ \A i : Column(c, RowsAt(movements', i)) =
                         Column(c, RowsAt(movements, i)) + Column(c, RowsAt(new, i))
             /\ \A o, i : Column(c, RowsOf(movements', o, i)) =
                            Column(c, RowsOf(movements, o, i)) + Column(c, RowsOf(new, o, i))
  BY <1>0, <1>2, Recorded
<1>4. \A c \in Columns : \A i : Column(c, RowsAt(movements, i)) \in Int
  <2>1. ASSUME NEW c \in Columns, NEW i PROVE Column(c, RowsAt(movements, i)) \in Int
    <3>1. IsFiniteSet(RowsAt(movements, i)) /\ Typed(RowsAt(movements, i))
      BY <1>0, FS_Subset DEF RowsAt, Typed
    <3> QED
      BY <3>1, ColumnInt
  <2> QED
    BY <2>1
<1>5. ASSUME NEW i \in Inventories
      PROVE  /\ Column("physical", RowsAt(new, i)) = sign * Demand[d][i]
             /\ Column("online", RowsAt(new, i)) = sign * Demand[d][i]
             /\ Column("seller", RowsAt(new, i)) = 0
  <2>1. CASE i \in I
    BY <1>2, <2>1 DEF Columns
  <2>2. CASE i \notin I
    <3>1. sign * Demand[d][i] = 0
      BY <1>0, <2>2 DEF Items
    <3> QED
      BY <1>2, <2>2, <3>1 DEF Columns
  <2> QED
    BY <2>1, <2>2
<1>6. ASSUME NEW o \in Executions, NEW i \in Inventories
      PROVE  Column("physical", RowsOf(movements', o, i))
               = IF stock_committed_at'[o] THEN -Demand[o][i] ELSE 0
  <2>1. Column("physical", RowsOf(movements, o, i))
          = IF stock_committed_at[o] THEN -Demand[o][i] ELSE 0
    BY DEF ShipmentsKept
  <2>2. Column("physical", RowsOf(movements', o, i)) =
          Column("physical", RowsOf(movements, o, i)) + Column("physical", RowsOf(new, o, i))
    BY <1>3 DEF Columns
  <2>3. CASE o = d
    <3>1. RowsOf(new, o, i) = RowsAt(new, i)
      BY <2>3 DEF RowsOf, RowsAt
    <3>2. Column("physical", RowsOf(new, o, i)) = sign * Demand[d][i]
      BY <1>5, <3>1
    <3>3. Demand[d][i] \in Nat
      BY <1>0
    <3>4. CASE sign = 1
      BY <2>1, <2>2, <2>3, <3>2, <3>3, <3>4
    <3>5. CASE sign = -1
      BY <2>1, <2>2, <2>3, <3>2, <3>3, <3>5
    <3> QED
      BY <3>4, <3>5
  <2>4. CASE o # d
    <3>1. RowsOf(new, o, i) = {}
      BY <2>4 DEF RowsOf
    <3>2. Column("physical", RowsOf(new, o, i)) = 0
      BY <3>1, ColumnZero, FS_EmptySet
    <3>3. stock_committed_at'[o] = stock_committed_at[o] /\ Demand[o][i] \in Nat
      BY <2>4, DemandTyped
    <3> QED
      BY <2>1, <2>2, <3>2, <3>3
  <2> QED
    BY <2>3, <2>4
<1>7. ShipmentsKept'
  BY <1>6 DEF ShipmentsKept
<1>8. Typed(movements')
  BY <1>3 DEF Columns
<1>9. ASSUME NEW i \in Inventories
      PROVE  /\ Column("physical", RowsAt(movements', i)) =
                  Column("physical", RowsAt(movements, i)) + sign * Demand[d][i]
             /\ Column("online", RowsAt(movements', i)) =
                  Column("online", RowsAt(movements, i)) + sign * Demand[d][i]
             /\ Column("seller", RowsAt(movements', i)) = Column("seller", RowsAt(movements, i))
  <2> QED
    BY <1>3, <1>4, <1>5 DEF Columns
<1> QED
  BY <1>7, <1>8, <1>9

(***************************************************************************)
(* The operations, one by one.                                             *)
(***************************************************************************)

\* Reserves of executions that were not held are added to what was.
LEMMA HoldMore ==
  ASSUME NEW H \in SUBSET Executions, NEW S \in Batches, NEW T \in SUBSET S,
         H \cap T = {}, NEW i \in Inventories
  PROVE  /\ Total(DemandAt(i), H \cup T) = Total(DemandAt(i), H) + Taken(T, i)
         /\ Total(DemandAt(i), H) \in Int
         /\ Taken(T, i) \in Nat
<1> DEFINE f == DemandAt(i)
<1>1. /\ T \subseteq Executions /\ IsFiniteSet(T) /\ IsFiniteSet(H)
      /\ \A o \in Executions : f[o] \in Int
  BY DemandTyped, LedgerAssumption, FS_Subset
<1>2. Taken(T, i) = Total(f, T) /\ Taken(T, i) \in Nat
  BY <1>1, TakenIsTotal, TakenNat
<1> HIDE DEF f
<1>3. Total(f, H \cup T) = Total(f, H) + Total(f, T)
  BY <1>1, TotalUnion
<1>4. Total(f, H) \in Int
  BY <1>1, TotalInt
<1> QED
  BY <1>2, <1>3, <1>4 DEF f

\* Reserves of executions that were held are taken from it.
LEMMA HoldLess ==
  ASSUME NEW H \in SUBSET Executions, NEW S \in Batches, NEW T \in SUBSET S,
         T \subseteq H, NEW i \in Inventories
  PROVE  /\ Total(DemandAt(i), H \ T) = Total(DemandAt(i), H) - Taken(T, i)
         /\ Total(DemandAt(i), H \ T) \in Int
         /\ Taken(T, i) \in Nat
<1> DEFINE G == H \ T
<1>1. G \in SUBSET Executions /\ G \cap T = {} /\ G \cup T = H
  OBVIOUS
<1> HIDE DEF G
<1>2. /\ Total(DemandAt(i), H) = Total(DemandAt(i), G) + Taken(T, i)
      /\ Total(DemandAt(i), G) \in Int /\ Taken(T, i) \in Nat
  BY <1>1, HoldMore
<1> QED
  BY <1>2 DEF G

\* One execution more.
LEMMA HoldOne ==
  ASSUME NEW H \in SUBSET Executions, NEW o \in Executions, o \notin H,
         NEW i \in Inventories
  PROVE  /\ Total(DemandAt(i), H \cup {o}) = Total(DemandAt(i), H) + Demand[o][i]
         /\ Total(DemandAt(i), H) \in Int
<1> DEFINE f == DemandAt(i)
<1>1. IsFiniteSet(H) /\ (\A p \in Executions : f[p] \in Int) /\ f[o] = Demand[o][i]
  BY DemandTyped, FS_Subset
<1> HIDE DEF f
<1>2. \A p \in H \cup {o} : f[p] \in Int
  BY <1>1
<1>3. Total(f, H \cup {o}) = Total(f, H) + f[o]
  BY <1>1, <1>2, TotalPut
<1>4. Total(f, H) \in Int
  BY <1>1, <1>2, TotalInt
<1> QED
  BY <1>1, <1>3, <1>4 DEF f

\* One execution less.
LEMMA HoldOneLess ==
  ASSUME NEW H \in SUBSET Executions, NEW o \in H, NEW i \in Inventories
  PROVE  Total(DemandAt(i), H \ {o}) = Total(DemandAt(i), H) - Demand[o][i]
<1> DEFINE G == H \ {o}
<1>1. G \in SUBSET Executions /\ o \notin G /\ G \cup {o} = H /\ o \in Executions
  OBVIOUS
<1> HIDE DEF G
<1>2. /\ Total(DemandAt(i), H) = Total(DemandAt(i), G) + Demand[o][i]
      /\ Total(DemandAt(i), G) \in Int
  BY <1>1, HoldOne
<1>3. Demand[o][i] \in Nat
  BY <1>1, DemandTyped
<1> QED
  BY <1>2, <1>3 DEF G

\* What the journal says is a number.
LEMMA ColumnsInt ==
  ASSUME LedgerTypeOK, Typed(movements), NEW c \in Columns, NEW i
  PROVE  Column(c, RowsAt(movements, i)) \in Int
<1>1. IsFiniteSet(RowsAt(movements, i)) /\ Typed(RowsAt(movements, i))
  BY FS_Subset DEF RowsAt, Typed, LedgerTypeOK
<1> QED
  BY <1>1, ColumnInt

\* An operation on web orders leaves what sellers hold as it is.
LEMMA SellersKept ==
  ASSUME LedgerTypeOK, ReservesHeld, UnreservedEmpty,
         reserved_seller' = reserved_seller, sale_items' = sale_items,
         \A s \in Sales : /\ stock_reserved_at'[s] = stock_reserved_at[s]
                          /\ stock_released_at'[s] = stock_released_at[s]
                          /\ stock_committed_at'[s] = stock_committed_at[s]
  PROVE  /\ UnreservedEmpty'
         /\ \A i \in Inventories : reserved_seller'[i] = Total(ItemsAt(i), HeldBySales)'
<1>1. HeldBySales' = HeldBySales
  BY DEF HeldBySales, Holds
<1>2. \A i : ItemsAt(i)' = ItemsAt(i)
  BY DEF ItemsAt
<1>3. UnreservedEmpty'
  BY DEF UnreservedEmpty
<1> QED
  BY <1>1, <1>2, <1>3 DEF ReservesHeld

\* An operation on sales, or on nothing, leaves what web orders hold as it is.
LEMMA WebKept ==
  ASSUME LedgerTypeOK, ReservesHeld, reserved_online' = reserved_online,
         \A o \in Executions : /\ stock_reserved_at'[o] = stock_reserved_at[o]
                               /\ stock_released_at'[o] = stock_released_at[o]
                               /\ stock_committed_at'[o] = stock_committed_at[o]
  PROVE  \A i \in Inventories : reserved_online'[i] = Total(DemandAt(i), HeldOnline)'
<1>1. HeldOnline' = HeldOnline
  BY DEF HeldOnline, Holds
<1>2. \A i : DemandAt(i)' = DemandAt(i)
  BY DEF DemandAt
<1> QED
  BY <1>1, <1>2 DEF ReservesHeld

\* Putting the invariant together after a step.
LEMMA BooksAfter ==
  ASSUME BooksInv, LedgerNext, Typed(movements)', ReservesHeld', JournalKept',
         ShipmentsKept', UnreservedEmpty'
  PROVE  BooksInv'
  BY TypesStep, StampsStep DEF BooksInv

\* Sums that grow by what is recorded explain the balances they did.
LEMMA JournalGrows ==
  ASSUME LedgerTypeOK, Typed(movements), JournalKept,
         NEW new, recordMovement(new), IsFiniteSet(new), Typed(new),
         \A i \in Inventories :
           /\ quantity'[i] = quantity[i] + Column("physical", RowsAt(new, i))
           /\ reserved_online'[i] = reserved_online[i] + Column("online", RowsAt(new, i))
           /\ reserved_seller'[i] = reserved_seller[i] + Column("seller", RowsAt(new, i))
  PROVE  Typed(movements)' /\ JournalKept'
<1>1. \A c \in Columns :
        /\ Typed(movements')
        /\ \A i : Column(c, RowsAt(movements', i)) =
                    Column(c, RowsAt(movements, i)) + Column(c, RowsAt(new, i))
  BY Recorded DEF LedgerTypeOK
<1>2. ASSUME NEW i \in Inventories
      PROVE  /\ quantity'[i] = Column("physical", RowsAt(movements', i))
             /\ reserved_online'[i] = Column("online", RowsAt(movements', i))
             /\ reserved_seller'[i] = Column("seller", RowsAt(movements', i))
  <2>1. /\ quantity[i] = Column("physical", RowsAt(movements, i))
        /\ reserved_online[i] = Column("online", RowsAt(movements, i))
        /\ reserved_seller[i] = Column("seller", RowsAt(movements, i))
    BY DEF JournalKept
  <2> QED
    BY <1>1, <2>1 DEF Columns
<1> QED
  BY <1>1, <1>2 DEF JournalKept, Columns

\* An operation whose journal rows move the reserve of web orders alone.
LEMMA WebJournal ==
  ASSUME LedgerTypeOK, Typed(movements), JournalKept, ShipmentsKept,
         NEW new, recordMovement(new), IsFiniteSet(new), Typed(new),
         \A m \in new : m.physical = 0 /\ m.seller = 0,
         quantity' = quantity, reserved_seller' = reserved_seller,
         \A i \in Inventories :
           reserved_online'[i] = reserved_online[i] + Column("online", RowsAt(new, i)),
         \A o \in Executions : stock_committed_at'[o] = stock_committed_at[o]
  PROVE  Typed(movements)' /\ JournalKept' /\ ShipmentsKept'
<1>1. \A i : Column("physical", RowsAt(new, i)) = 0 /\ Column("seller", RowsAt(new, i)) = 0
  <2>1. ASSUME NEW i, NEW c \in {"physical", "seller"} PROVE Column(c, RowsAt(new, i)) = 0
    <3>1. IsFiniteSet(RowsAt(new, i)) /\ \A m \in RowsAt(new, i) : m[c] = 0
      BY FS_Subset DEF RowsAt
    <3> QED
      BY <3>1, ColumnZero
  <2> QED
    BY <2>1
<1>2. \A i \in Inventories :
        /\ quantity'[i] = quantity[i] + Column("physical", RowsAt(new, i))
        /\ reserved_seller'[i] = reserved_seller[i] + Column("seller", RowsAt(new, i))
  BY <1>1 DEF LedgerTypeOK
<1>3. Typed(movements)' /\ JournalKept'
  BY <1>2, JournalGrows
<1>4. ShipmentsKept'
  BY QuietShipment
<1> QED
  BY <1>3, <1>4

\* A reserve: what it takes is held from now on.
LEMMA ReserveBooks ==
  ASSUME BooksInv, NEW S \in Batches, reserveOnlineStockForOrders(S)
  PROVE  /\ Typed(movements)' /\ ReservesHeld' /\ JournalKept'
         /\ ShipmentsKept' /\ UnreservedEmpty'
<1> DEFINE T == {o \in S : ~stock_reserved_at[o]}
           f == [l \in Lines(T) |-> Movement("online_reserve", l[1], l[2], 0,
                                             0, Demand[l[1]][l[2]], 0)]
           new == {Movement("online_reserve", l[1], l[2], 0,
                            0, Demand[l[1]][l[2]], 0) : l \in Lines(T)}
<1> USE DEF BooksInv
<1>1. /\ S \subseteq Executions /\ T \in SUBSET S /\ Executions \cap Sales = {}
      /\ Executions \subseteq Documents /\ Sales \subseteq Documents
  BY LedgerAssumption DEF Documents
<1>2. OneForEachLine(f, T, 1, new)
  <2>1. ASSUME NEW l \in Lines(T)
        PROVE  /\ f[l] \in new /\ f[l].key[2] = l[1] /\ f[l].key[3] = l[2]
               /\ f[l].physical = 0 /\ f[l].seller = 0
               /\ f[l].online = 1 * Demand[l[1]][l[2]]
    <3>1. Demand[l[1]][l[2]] \in Nat
      BY <1>1, LedgerAssumption DEF Lines
    <3>2. /\ f[l] \in new /\ f[l].key[2] = l[1] /\ f[l].key[3] = l[2]
          /\ f[l].physical = 0 /\ f[l].seller = 0 /\ f[l].online = Demand[l[1]][l[2]]
      BY DEF Movement
    <3>3. 1 * Demand[l[1]][l[2]] = Demand[l[1]][l[2]]
      BY <3>1
    <3> QED
      BY <3>2, <3>3
  <2>2. \A m \in new : \E l \in Lines(T) : m = f[l]
    OBVIOUS
  <2> QED
    BY <2>1, <2>2 DEF OneForEachLine
<1>3. /\ recordMovement(new) /\ reserved_seller' = reserved_seller
      /\ sale_items' = sale_items /\ quantity' = quantity
      /\ stock_reserved_at' = Stamp(stock_reserved_at, T)
      /\ stock_released_at' = stock_released_at
      /\ stock_committed_at' = stock_committed_at
      /\ \A i \in Inventories : reserved_online'[i] = reserved_online[i] + Taken(T, i)
  BY DEF reserveOnlineStockForOrders
<1>4. /\ \A o \in Executions : stock_reserved_at'[o] <=> (stock_reserved_at[o] \/ o \in T)
      /\ \A s \in Sales : stock_reserved_at'[s] = stock_reserved_at[s]
  BY <1>1, <1>3 DEF Stamp, LedgerTypeOK
<1>5. HeldOnline' = HeldOnline \cup T /\ HeldOnline \cap T = {}
  BY <1>1, <1>3, <1>4 DEF HeldOnline, Holds, StampsAgree
<1> HIDE DEF T, f, new
<1>6. /\ IsFiniteSet(new) /\ Typed(new)
      /\ \A m \in new : m.physical = 0 /\ m.seller = 0
      /\ \A i \in Inventories : Column("online", RowsAt(new, i)) = 1 * Taken(T, i)
  BY ZenonT(60), <1>1, <1>2, WrittenByLine
<1>7. \A i \in Inventories :
        /\ Total(DemandAt(i), HeldOnline \cup T) = Total(DemandAt(i), HeldOnline) + Taken(T, i)
        /\ Taken(T, i) \in Nat
  <2>1. HeldOnline \in SUBSET Executions
    BY DEF HeldOnline
  <2> QED
    BY <1>1, <1>5, <2>1, HoldMore
<1>8. Typed(movements)' /\ JournalKept' /\ ShipmentsKept'
  <2>1. \A i \in Inventories :
          reserved_online'[i] = reserved_online[i] + Column("online", RowsAt(new, i))
    BY <1>3, <1>6, <1>7
  <2> QED
    BY <1>3, <1>6, <2>1, WebJournal
<1>9. UnreservedEmpty' /\ \A i \in Inventories :
        reserved_seller'[i] = Total(ItemsAt(i), HeldBySales)'
  BY <1>3, <1>4, SellersKept
<1>10. ReservesHeld'
  <2>1. \A i : DemandAt(i)' = DemandAt(i)
    BY DEF DemandAt
  <2> QED
    BY <1>3, <1>5, <1>7, <1>9, <2>1 DEF ReservesHeld
<1> QED
  BY <1>8, <1>9, <1>10

\* A release: what it gives back is held no longer.
LEMMA ReleaseBooks ==
  ASSUME BooksInv, NEW S \in Batches, releaseOnlineStockForOrder(S)
  PROVE  /\ Typed(movements)' /\ ReservesHeld' /\ JournalKept'
         /\ ShipmentsKept' /\ UnreservedEmpty'
<1> DEFINE T == {o \in S : stock_reserved_at[o] /\ ~stock_released_at[o]}
           f == [l \in Lines(T) |-> Movement("online_release", l[1], l[2], 0,
                                             0, -Demand[l[1]][l[2]], 0)]
           new == {Movement("online_release", l[1], l[2], 0,
                            0, -Demand[l[1]][l[2]], 0) : l \in Lines(T)}
<1> USE DEF BooksInv
<1>1. /\ S \subseteq Executions /\ T \in SUBSET S /\ Executions \cap Sales = {}
      /\ Executions \subseteq Documents /\ Sales \subseteq Documents
  BY LedgerAssumption DEF Documents
<1>2. OneForEachLine(f, T, -1, new)
  <2>1. ASSUME NEW l \in Lines(T)
        PROVE  /\ f[l] \in new /\ f[l].key[2] = l[1] /\ f[l].key[3] = l[2]
               /\ f[l].physical = 0 /\ f[l].seller = 0
               /\ f[l].online = (-1) * Demand[l[1]][l[2]]
    <3>1. Demand[l[1]][l[2]] \in Nat
      BY <1>1, LedgerAssumption DEF Lines
    <3>2. /\ f[l] \in new /\ f[l].key[2] = l[1] /\ f[l].key[3] = l[2]
          /\ f[l].physical = 0 /\ f[l].seller = 0 /\ f[l].online = -Demand[l[1]][l[2]]
      BY DEF Movement
    <3>3. (-1) * Demand[l[1]][l[2]] = -Demand[l[1]][l[2]]
      BY <3>1
    <3> QED
      BY <3>2, <3>3
  <2>2. \A m \in new : \E l \in Lines(T) : m = f[l]
    OBVIOUS
  <2> QED
    BY <2>1, <2>2 DEF OneForEachLine
<1>3. /\ recordMovement(new) /\ reserved_seller' = reserved_seller
      /\ sale_items' = sale_items /\ quantity' = quantity
      /\ stock_released_at' = Stamp(stock_released_at, T)
      /\ stock_reserved_at' = stock_reserved_at
      /\ stock_committed_at' = stock_committed_at
      /\ \A i \in Inventories : reserved_online'[i] = reserved_online[i] - Taken(T, i)
      /\ \A o \in S : ~stock_released_at[o] => ~stock_committed_at[o]
  BY DEF releaseOnlineStockForOrder
<1>4. /\ \A o \in Executions : stock_released_at'[o] <=> (stock_released_at[o] \/ o \in T)
      /\ \A s \in Sales : stock_released_at'[s] = stock_released_at[s]
  BY <1>1, <1>3 DEF Stamp, LedgerTypeOK
<1>5. HeldOnline' = HeldOnline \ T /\ T \subseteq HeldOnline
  BY <1>1, <1>3, <1>4 DEF HeldOnline, Holds
<1> HIDE DEF T, f, new
<1>6. /\ IsFiniteSet(new) /\ Typed(new)
      /\ \A m \in new : m.physical = 0 /\ m.seller = 0
      /\ \A i \in Inventories : Column("online", RowsAt(new, i)) = (-1) * Taken(T, i)
  BY ZenonT(60), <1>1, <1>2, WrittenByLine
<1>7. \A i \in Inventories :
        /\ Total(DemandAt(i), HeldOnline \ T) = Total(DemandAt(i), HeldOnline) - Taken(T, i)
        /\ Taken(T, i) \in Nat
  <2>1. HeldOnline \in SUBSET Executions
    BY DEF HeldOnline
  <2> QED
    BY <1>1, <1>5, <2>1, HoldLess
<1>8. Typed(movements)' /\ JournalKept' /\ ShipmentsKept'
  <2>1. ASSUME NEW i \in Inventories
        PROVE  reserved_online'[i] = reserved_online[i] + Column("online", RowsAt(new, i))
    <3>1. reserved_online[i] \in Nat
      BY DEF LedgerTypeOK
    <3> QED
      BY <1>3, <1>6, <1>7, <3>1
  <2> QED
    BY <1>3, <1>6, <2>1, WebJournal
<1>9. UnreservedEmpty' /\ \A i \in Inventories :
        reserved_seller'[i] = Total(ItemsAt(i), HeldBySales)'
  BY <1>3, <1>4, SellersKept
<1>10. ReservesHeld'
  <2>1. \A i : DemandAt(i)' = DemandAt(i)
    BY DEF DemandAt
  <2> QED
    BY <1>3, <1>5, <1>7, <1>9, <2>1 DEF ReservesHeld
<1> QED
  BY <1>8, <1>9, <1>10

\* An edit: what the old parts held goes back, what the new ones take is held.
LEMMA ReplaceBooks ==
  ASSUME BooksInv, NEW S \in Batches, NEW A \in Batches, S \cap A = {},
         replaceOnlineStock(S, A)
  PROVE  /\ Typed(movements)' /\ ReservesHeld' /\ JournalKept'
         /\ ShipmentsKept' /\ UnreservedEmpty'
<1> DEFINE T == {o \in S : stock_reserved_at[o] /\ ~stock_released_at[o]}
           N == {o \in A : ~stock_reserved_at[o]}
           f == [l \in Lines(T) |-> Movement("online_release", l[1], l[2], 0,
                                             0, -Demand[l[1]][l[2]], 0)]
           g == [l \in Lines(N) |-> Movement("online_reserve", l[1], l[2], 0,
                                             0, Demand[l[1]][l[2]], 0)]
           back == {Movement("online_release", l[1], l[2], 0,
                             0, -Demand[l[1]][l[2]], 0) : l \in Lines(T)}
           taken == {Movement("online_reserve", l[1], l[2], 0,
                              0, Demand[l[1]][l[2]], 0) : l \in Lines(N)}
<1> USE DEF BooksInv
<1>1. /\ S \subseteq Executions /\ A \subseteq Executions /\ Executions \cap Sales = {}
      /\ T \in SUBSET S /\ N \in SUBSET A
      /\ Executions \subseteq Documents /\ Sales \subseteq Documents
  BY LedgerAssumption DEF Documents
<1>2. OneForEachLine(f, T, -1, back)
  <2>1. ASSUME NEW l \in Lines(T)
        PROVE  /\ f[l] \in back /\ f[l].key[2] = l[1] /\ f[l].key[3] = l[2]
               /\ f[l].physical = 0 /\ f[l].seller = 0
               /\ f[l].online = (-1) * Demand[l[1]][l[2]]
    <3>1. Demand[l[1]][l[2]] \in Nat
      BY <1>1, LedgerAssumption DEF Lines
    <3>2. /\ f[l] \in back /\ f[l].key[2] = l[1] /\ f[l].key[3] = l[2]
          /\ f[l].physical = 0 /\ f[l].seller = 0 /\ f[l].online = -Demand[l[1]][l[2]]
      BY DEF Movement
    <3>3. (-1) * Demand[l[1]][l[2]] = -Demand[l[1]][l[2]]
      BY <3>1
    <3> QED
      BY <3>2, <3>3
  <2>2. \A m \in back : \E l \in Lines(T) : m = f[l]
    OBVIOUS
  <2> QED
    BY <2>1, <2>2 DEF OneForEachLine
<1>3. OneForEachLine(g, N, 1, taken)
  <2>1. ASSUME NEW l \in Lines(N)
        PROVE  /\ g[l] \in taken /\ g[l].key[2] = l[1] /\ g[l].key[3] = l[2]
               /\ g[l].physical = 0 /\ g[l].seller = 0
               /\ g[l].online = 1 * Demand[l[1]][l[2]]
    <3>1. Demand[l[1]][l[2]] \in Nat
      BY <1>1, LedgerAssumption DEF Lines
    <3>2. /\ g[l] \in taken /\ g[l].key[2] = l[1] /\ g[l].key[3] = l[2]
          /\ g[l].physical = 0 /\ g[l].seller = 0 /\ g[l].online = Demand[l[1]][l[2]]
      BY DEF Movement
    <3>3. 1 * Demand[l[1]][l[2]] = Demand[l[1]][l[2]]
      BY <3>1
    <3> QED
      BY <3>2, <3>3
  <2>2. \A m \in taken : \E l \in Lines(N) : m = g[l]
    OBVIOUS
  <2> QED
    BY <2>1, <2>2 DEF OneForEachLine
<1>4. back \cap taken = {}
  <2>1. ASSUME NEW m \in back PROVE m.key[1] = "online_release"
    <3>1. PICK l \in Lines(T) : m = Movement("online_release", l[1], l[2], 0,
                                            0, -Demand[l[1]][l[2]], 0)
      BY Zenon
    <3> QED
      BY <3>1 DEF Movement
  <2>2. ASSUME NEW m \in taken PROVE m.key[1] = "online_reserve"
    <3>1. PICK l \in Lines(N) : m = Movement("online_reserve", l[1], l[2], 0,
                                            0, Demand[l[1]][l[2]], 0)
      BY Zenon
    <3> QED
      BY <3>1 DEF Movement
  <2> HIDE DEF back, taken
  <2> QED
    BY <2>1, <2>2
<1>5. /\ recordMovement(back \cup taken) /\ reserved_seller' = reserved_seller
      /\ sale_items' = sale_items /\ quantity' = quantity
      /\ stock_released_at' = Stamp(stock_released_at, T)
      /\ stock_reserved_at' = Stamp(stock_reserved_at, N)
      /\ stock_committed_at' = stock_committed_at
      /\ \A i \in Inventories :
           reserved_online'[i] = (reserved_online[i] - Taken(T, i)) + Taken(N, i)
      /\ \A o \in S : ~stock_released_at[o] => ~stock_committed_at[o]
  BY DEF replaceOnlineStock
<1>6. /\ \A o \in Executions :
           /\ stock_released_at'[o] <=> (stock_released_at[o] \/ o \in T)
           /\ stock_reserved_at'[o] <=> (stock_reserved_at[o] \/ o \in N)
      /\ \A s \in Sales : /\ stock_released_at'[s] = stock_released_at[s]
                          /\ stock_reserved_at'[s] = stock_reserved_at[s]
  BY <1>1, <1>5 DEF Stamp, LedgerTypeOK
<1>7. /\ HeldOnline' = (HeldOnline \ T) \cup N
      /\ T \subseteq HeldOnline /\ (HeldOnline \ T) \cap N = {}
  <2>1. T \cap N = {}
    BY <1>1
  <2>2. T \subseteq HeldOnline
    BY <1>1, <1>5 DEF HeldOnline, Holds
  <2>3. ASSUME NEW o \in Executions
        PROVE  Holds(o)' <=> (Holds(o) /\ o \notin T) \/ o \in N
    <3>1. o \in N => ~stock_reserved_at[o] /\ ~stock_released_at[o] /\ ~stock_committed_at[o]
      BY <1>1 DEF StampsAgree
    <3> HIDE DEF N
    <3> QED
      BY <1>1, <1>5, <1>6, <2>1, <3>1 DEF Holds
  <2>4. (HeldOnline \ T) \cap N = {}
    BY DEF HeldOnline, Holds
  <2> HIDE DEF T, N
  <2>5. HeldOnline' = (HeldOnline \ T) \cup N
    BY <1>1, <2>3 DEF HeldOnline
  <2> QED
    BY <2>2, <2>4, <2>5
<1> HIDE DEF T, N, f, g, back, taken
<1>8. /\ IsFiniteSet(back) /\ Typed(back)
      /\ \A m \in back : m.physical = 0 /\ m.seller = 0
      /\ \A i \in Inventories : Column("online", RowsAt(back, i)) = (-1) * Taken(T, i)
  <2>1. T \in SUBSET S /\ -1 \in {1, -1}
    BY <1>1
  <2> QED
    BY <1>2, <2>1, WrittenByLine, SMTT(30)
<1>9. /\ IsFiniteSet(taken) /\ Typed(taken)
      /\ \A m \in taken : m.physical = 0 /\ m.seller = 0
      /\ \A i \in Inventories : Column("online", RowsAt(taken, i)) = 1 * Taken(N, i)
  BY <1>1, <1>3, WrittenByLine
<1>10. ASSUME NEW i \in Inventories
       PROVE  /\ Total(DemandAt(i), HeldOnline') =
                   (Total(DemandAt(i), HeldOnline) - Taken(T, i)) + Taken(N, i)
              /\ Taken(T, i) \in Nat /\ Taken(N, i) \in Nat
  <2> DEFINE H == HeldOnline \ T
  <2>1. HeldOnline \in SUBSET Executions /\ H \in SUBSET Executions
    BY DEF HeldOnline
  <2>2. /\ Total(DemandAt(i), H) = Total(DemandAt(i), HeldOnline) - Taken(T, i)
        /\ Taken(T, i) \in Nat
    BY ZenonT(60), <1>1, <1>7, <2>1, HoldLess
  <2>3. H \cap N = {} /\ HeldOnline' = H \cup N
    BY <1>7
  <2> HIDE DEF H
  <2>4. /\ Total(DemandAt(i), H \cup N) = Total(DemandAt(i), H) + Taken(N, i)
        /\ Taken(N, i) \in Nat
    BY <1>1, <2>1, <2>3, HoldMore
  <2> QED
    BY <2>2, <2>3, <2>4
<1>11. Typed(movements)' /\ JournalKept' /\ ShipmentsKept'
  <2> DEFINE new == back \cup taken
  <2>1. /\ IsFiniteSet(new) /\ Typed(new) /\ \A m \in new : m.physical = 0 /\ m.seller = 0
    BY <1>8, <1>9, FS_Union DEF Typed
  <2>2. ASSUME NEW i \in Inventories
        PROVE  reserved_online'[i] = reserved_online[i] + Column("online", RowsAt(new, i))
    <3> DEFINE B == RowsAt(back, i)
               C == RowsAt(taken, i)
    <3>1. RowsAt(new, i) = B \cup C
      BY DEF RowsAt
    <3>2. /\ IsFiniteSet(B) /\ IsFiniteSet(C) /\ Typed(B) /\ Typed(C) /\ B \cap C = {}
      BY <1>4, <1>8, <1>9, FS_Subset DEF RowsAt, Typed
    <3>3. Column("online", B) = (-1) * Taken(T, i) /\ Column("online", C) = 1 * Taken(N, i)
      BY <1>8, <1>9
    <3> HIDE DEF B, C, new
    <3>4. Column("online", B \cup C) = Column("online", B) + Column("online", C)
      BY <3>2, ColumnGrows DEF Columns
    <3>5. reserved_online[i] \in Nat /\ Taken(T, i) \in Nat /\ Taken(N, i) \in Nat
      BY <1>10 DEF LedgerTypeOK
    <3>6. reserved_online'[i] = (reserved_online[i] - Taken(T, i)) + Taken(N, i)
      BY <1>5
    <3> QED
      BY <3>1, <3>3, <3>4, <3>5, <3>6
  <2>3. recordMovement(new)
    BY <1>5
  <2> HIDE DEF new
  <2> QED
    BY <1>5, <2>1, <2>2, <2>3, WebJournal
<1>12. UnreservedEmpty' /\ \A i \in Inventories :
         reserved_seller'[i] = Total(ItemsAt(i), HeldBySales)'
  BY <1>5, <1>6, SellersKept
<1>13. ReservesHeld'
  <2>1. \A i : DemandAt(i)' = DemandAt(i)
    BY DEF DemandAt
  <2>2. ASSUME NEW i \in Inventories
        PROVE  reserved_online'[i] = Total(DemandAt(i), HeldOnline)'
    <3>1. reserved_online[i] = Total(DemandAt(i), HeldOnline)
      BY DEF ReservesHeld
    <3> QED
      BY <1>5, <1>10, <2>1, <3>1
  <2> QED
    BY <1>12, <2>2 DEF ReservesHeld
<1> QED
  BY <1>11, <1>12, <1>13

\* A step that changes nothing changes no book.
LEMMA SameBooks ==
  ASSUME BooksInv, UNCHANGED ledgerVars
  PROVE  BooksInv'
<1>1. HeldOnline' = HeldOnline /\ HeldBySales' = HeldBySales
  BY DEF ledgerVars, HeldOnline, HeldBySales, Holds
<1>2. \A i : DemandAt(i)' = DemandAt(i) /\ ItemsAt(i)' = ItemsAt(i)
  BY DEF ledgerVars, DemandAt, ItemsAt
<1>3. ReservesHeld'
  BY <1>1, <1>2 DEF BooksInv, ReservesHeld, ledgerVars
<1>4. LedgerTypeOK' /\ StampsAgree'
  BY DEF BooksInv, LedgerTypeOK, StampsAgree, ledgerVars
<1> QED
  BY <1>3, <1>4 DEF BooksInv, JournalKept, ShipmentsKept, UnreservedEmpty, ledgerVars

\* A packing: what o held leaves with its goods.
LEMMA CommitBooks ==
  ASSUME BooksInv, NEW o \in Executions, commitOnlineStockForOrder(o),
         ~stock_committed_at[o]
  PROVE  /\ Typed(movements)' /\ ReservesHeld' /\ JournalKept'
         /\ ShipmentsKept' /\ UnreservedEmpty'
<1> DEFINE f == [i \in Items(Demand[o]) |->
                   Movement("online_sale", o, i, returnCycle(o, i),
                            -Demand[o][i], -Demand[o][i], 0)]
           new == {Movement("online_sale", o, i, returnCycle(o, i),
                            -Demand[o][i], -Demand[o][i], 0) : i \in Items(Demand[o])}
<1> USE DEF BooksInv
<1>0. /\ Executions \cap Sales = {} /\ Executions \subseteq Documents
      /\ Sales \subseteq Documents /\ \A i \in Inventories : Demand[o][i] \in Nat
  BY LedgerAssumption DEF Documents
<1>1. /\ recordMovement(new)
      /\ reserved_seller' = reserved_seller /\ sale_items' = sale_items
      /\ stock_released_at' = stock_released_at
      /\ stock_reserved_at' = stock_reserved_at
      /\ stock_committed_at' = Stamp(stock_committed_at, {o})
      /\ \A i \in Inventories : /\ reserved_online'[i] = reserved_online[i] - Demand[o][i]
                                /\ quantity'[i] = quantity[i] - Demand[o][i]
      /\ Holds(o)
  BY DEF commitOnlineStockForOrder, CanCommit, Holds
<1>2. /\ stock_committed_at'[o]
      /\ \A p \in Executions : p # o => stock_committed_at'[p] = stock_committed_at[p]
      /\ \A s \in Sales : stock_committed_at'[s] = stock_committed_at[s]
  BY <1>0, <1>1 DEF Stamp, LedgerTypeOK
<1>3. HeldOnline' = HeldOnline \ {o} /\ o \in HeldOnline
  BY <1>1, <1>2 DEF HeldOnline, Holds
<1>4. MovesPackage(f, o, -1, new)
  <2>1. \A i \in Items(Demand[o]) :
          /\ f[i] \in new /\ f[i].key[2] = o /\ f[i].key[3] = i /\ f[i].seller = 0
          /\ f[i].physical = -Demand[o][i] /\ f[i].online = -Demand[o][i]
    BY DEF Movement
  <2>2. \A i \in Items(Demand[o]) : (-1) * Demand[o][i] = -Demand[o][i]
    BY <1>0 DEF Items
  <2>3. \A m \in new : \E i \in Items(Demand[o]) : m = f[i]
    OBVIOUS
  <2> HIDE DEF f, new
  <2> QED
    BY <2>1, <2>2, <2>3 DEF MovesPackage
<1> HIDE DEF f, new
<1>5. /\ Typed(movements') /\ ShipmentsKept'
      /\ \A i \in Inventories :
           /\ Column("physical", RowsAt(movements', i)) =
                Column("physical", RowsAt(movements, i)) + (-1) * Demand[o][i]
           /\ Column("online", RowsAt(movements', i)) =
                Column("online", RowsAt(movements, i)) + (-1) * Demand[o][i]
           /\ Column("seller", RowsAt(movements', i)) = Column("seller", RowsAt(movements, i))
  <2>1. LedgerTypeOK /\ Typed(movements) /\ ShipmentsKept /\ recordMovement(new)
    BY <1>1
  <2>2. -1 \in {1, -1}
    OBVIOUS
  <2>3. /\ -1 = 1 => stock_committed_at[o] /\ ~stock_committed_at'[o]
        /\ -1 = -1 => ~stock_committed_at[o] /\ stock_committed_at'[o]
    BY <1>2
  <2> HIDE DEF BooksInv
  <2> QED
    BY <1>2, <1>4, <2>1, <2>2, <2>3, Shipment
<1>6. JournalKept'
  <2>1. ASSUME NEW i \in Inventories
        PROVE  /\ quantity'[i] = Column("physical", RowsAt(movements', i))
               /\ reserved_online'[i] = Column("online", RowsAt(movements', i))
               /\ reserved_seller'[i] = Column("seller", RowsAt(movements', i))
    <3>1. /\ quantity[i] = Column("physical", RowsAt(movements, i))
          /\ reserved_online[i] = Column("online", RowsAt(movements, i))
          /\ reserved_seller[i] = Column("seller", RowsAt(movements, i))
      BY DEF JournalKept
    <3>2. quantity[i] \in Nat /\ reserved_online[i] \in Nat /\ Demand[o][i] \in Nat
      BY <1>0 DEF LedgerTypeOK
    <3> QED
      BY <1>1, <1>5, <3>1, <3>2
  <2> QED
    BY <2>1 DEF JournalKept
<1>7. UnreservedEmpty' /\ \A i \in Inventories :
        reserved_seller'[i] = Total(ItemsAt(i), HeldBySales)'
  BY <1>1, <1>2, SellersKept
<1>8. ReservesHeld'
  <2>1. \A i : DemandAt(i)' = DemandAt(i)
    BY DEF DemandAt
  <2>2. \A i \in Inventories :
          Total(DemandAt(i), HeldOnline \ {o}) = Total(DemandAt(i), HeldOnline) - Demand[o][i]
    <3>1. HeldOnline \in SUBSET Executions
      BY DEF HeldOnline
    <3> QED
      BY <1>3, <3>1, HoldOneLess
  <2> QED
    BY <1>1, <1>3, <1>7, <2>1, <2>2 DEF ReservesHeld
<1> QED
  BY <1>5, <1>6, <1>7, <1>8

\* Unpacking: the goods are back, and held again.
LEMMA RestoreBooks ==
  ASSUME BooksInv, NEW o \in Executions, restoreCommittedOnlineStockForOrder(o),
         stock_committed_at[o]
  PROVE  /\ Typed(movements)' /\ ReservesHeld' /\ JournalKept'
         /\ ShipmentsKept' /\ UnreservedEmpty'
<1> DEFINE f == [i \in Items(Demand[o]) |->
                   Movement("online_return", o, i, returnCycle(o, i) + 1,
                            Demand[o][i], Demand[o][i], 0)]
           new == {Movement("online_return", o, i, returnCycle(o, i) + 1,
                            Demand[o][i], Demand[o][i], 0) : i \in Items(Demand[o])}
<1> USE DEF BooksInv
<1>0. /\ Executions \cap Sales = {} /\ Executions \subseteq Documents
      /\ Sales \subseteq Documents /\ \A i \in Inventories : Demand[o][i] \in Nat
  BY LedgerAssumption DEF Documents
<1>1. /\ recordMovement(new)
      /\ reserved_seller' = reserved_seller /\ sale_items' = sale_items
      /\ stock_released_at' = stock_released_at
      /\ stock_reserved_at' = stock_reserved_at
      /\ stock_committed_at' = [stock_committed_at EXCEPT ![o] = FALSE]
      /\ \A i \in Inventories : /\ reserved_online'[i] = reserved_online[i] + Demand[o][i]
                                /\ quantity'[i] = quantity[i] + Demand[o][i]
  BY DEF restoreCommittedOnlineStockForOrder
<1>2. /\ ~stock_committed_at'[o]
      /\ \A p \in Executions : p # o => stock_committed_at'[p] = stock_committed_at[p]
      /\ \A s \in Sales : stock_committed_at'[s] = stock_committed_at[s]
  BY <1>0, <1>1 DEF LedgerTypeOK
<1>3. HeldOnline' = HeldOnline \cup {o} /\ o \notin HeldOnline
  <2>1. stock_reserved_at[o] /\ ~stock_released_at[o]
    BY <1>0 DEF StampsAgree
  <2> QED
    BY <1>1, <1>2, <2>1 DEF HeldOnline, Holds
<1>4. MovesPackage(f, o, 1, new)
  <2>1. \A i \in Items(Demand[o]) :
          /\ f[i] \in new /\ f[i].key[2] = o /\ f[i].key[3] = i /\ f[i].seller = 0
          /\ f[i].physical = Demand[o][i] /\ f[i].online = Demand[o][i]
    BY DEF Movement
  <2>2. \A i \in Items(Demand[o]) : 1 * Demand[o][i] = Demand[o][i]
    BY <1>0 DEF Items
  <2>3. \A m \in new : \E i \in Items(Demand[o]) : m = f[i]
    OBVIOUS
  <2> HIDE DEF f, new
  <2> QED
    BY <2>1, <2>2, <2>3 DEF MovesPackage
<1> HIDE DEF f, new
<1>5. /\ Typed(movements') /\ ShipmentsKept'
      /\ \A i \in Inventories :
           /\ Column("physical", RowsAt(movements', i)) =
                Column("physical", RowsAt(movements, i)) + 1 * Demand[o][i]
           /\ Column("online", RowsAt(movements', i)) =
                Column("online", RowsAt(movements, i)) + 1 * Demand[o][i]
           /\ Column("seller", RowsAt(movements', i)) = Column("seller", RowsAt(movements, i))
  <2>1. LedgerTypeOK /\ Typed(movements) /\ ShipmentsKept /\ recordMovement(new)
    BY <1>1
  <2>2. 1 \in {1, -1}
    OBVIOUS
  <2>3. /\ 1 = 1 => stock_committed_at[o] /\ ~stock_committed_at'[o]
        /\ 1 = -1 => ~stock_committed_at[o] /\ stock_committed_at'[o]
    BY <1>2
  <2> HIDE DEF BooksInv
  <2> QED
    BY <1>2, <1>4, <2>1, <2>2, <2>3, Shipment
<1>6. JournalKept'
  <2>1. ASSUME NEW i \in Inventories
        PROVE  /\ quantity'[i] = Column("physical", RowsAt(movements', i))
               /\ reserved_online'[i] = Column("online", RowsAt(movements', i))
               /\ reserved_seller'[i] = Column("seller", RowsAt(movements', i))
    <3>1. /\ quantity[i] = Column("physical", RowsAt(movements, i))
          /\ reserved_online[i] = Column("online", RowsAt(movements, i))
          /\ reserved_seller[i] = Column("seller", RowsAt(movements, i))
      BY DEF JournalKept
    <3>2. quantity[i] \in Nat /\ reserved_online[i] \in Nat /\ Demand[o][i] \in Nat
      BY <1>0 DEF LedgerTypeOK
    <3> QED
      BY <1>1, <1>5, <3>1, <3>2
  <2> QED
    BY <2>1 DEF JournalKept
<1>7. UnreservedEmpty' /\ \A i \in Inventories :
        reserved_seller'[i] = Total(ItemsAt(i), HeldBySales)'
  BY <1>1, <1>2, SellersKept
<1>8. ReservesHeld'
  <2>1. \A i : DemandAt(i)' = DemandAt(i)
    BY DEF DemandAt
  <2>2. \A i \in Inventories :
          Total(DemandAt(i), HeldOnline \cup {o}) = Total(DemandAt(i), HeldOnline) + Demand[o][i]
    <3>1. HeldOnline \in SUBSET Executions
      BY DEF HeldOnline
    <3> QED
      BY <1>3, <3>1, HoldOne
  <2> QED
    BY <1>1, <1>3, <1>7, <2>1, <2>2 DEF ReservesHeld
<1> QED
  BY <1>5, <1>6, <1>7, <1>8

\* A sale that holds nothing any more takes its items with it.
LEMMA SaleLetsGo ==
  ASSUME LedgerTypeOK, ReservesHeld, NEW s \in HeldBySales, sale_items' = sale_items,
         HeldBySales' = HeldBySales \ {s},
         \A i \in Inventories : reserved_seller'[i] = reserved_seller[i] - sale_items[s][i]
  PROVE  \A i \in Inventories : reserved_seller'[i] = Total(ItemsAt(i), HeldBySales)'
<1> SUFFICES ASSUME NEW i \in Inventories
             PROVE  reserved_seller'[i] = Total(ItemsAt(i), HeldBySales)'
  OBVIOUS
<1> DEFINE f == ItemsAt(i)
           H == HeldBySales
<1>1. ItemsAt(i)' = ItemsAt(i)
  BY DEF ItemsAt
<1>2. /\ IsFiniteSet(H) /\ s \in H /\ f[s] = sale_items[s][i]
      /\ \A x \in H : f[x] \in Int
  <2>1. H \subseteq Sales /\ s \in H
    BY DEF HeldBySales
  <2> QED
    BY <2>1, DemandTyped, FS_Subset DEF ItemsAt, LedgerTypeOK
<1>3. IsFiniteSet(H \ {s}) /\ \A x \in H \ {s} : f[x] \in Int
  BY <1>2, FS_Subset
<1>4. reserved_seller[i] = Total(f, H)
  BY DEF ReservesHeld
<1> HIDE DEF f, H
<1>5. Total(f, H) = f[s] + Total(f, H \ {s})
  BY <1>2, TotalTake
<1>6. Total(f, H \ {s}) \in Int /\ f[s] \in Int
  BY <1>2, <1>3, TotalInt
<1>7. reserved_seller'[i] = Total(f, H \ {s})
  BY <1>2, <1>4, <1>5, <1>6
<1> QED
  BY <1>1, <1>7 DEF f, H

\* A new version of a sale: it holds its new items and no longer the old ones.
LEMMA SyncBooks ==
  ASSUME BooksInv, NEW s \in Sales, NEW q \in SaleContents, SaleOpen(s),
         syncSellerReservation(s, q)
  PROVE  /\ Typed(movements)' /\ ReservesHeld' /\ JournalKept'
         /\ ShipmentsKept' /\ UnreservedEmpty'
<1> DEFINE delta == [i \in Inventories |-> q[i] - sale_items[s][i]]
           I == {j \in Inventories : delta[j] # 0}
           f == [i \in I |-> Movement("seller_sync", s, i, seller_revision[s] + 1,
                                      0, 0, delta[i])]
           new == {Movement("seller_sync", s, i, seller_revision[s] + 1,
                            0, 0, delta[i]) : i \in I}
<1> USE DEF BooksInv
<1>0. /\ Executions \cap Sales = {} /\ Executions \subseteq Documents
      /\ Sales \subseteq Documents
      /\ \A i \in Inventories : /\ q[i] \in Nat /\ sale_items[s][i] \in Nat
                                /\ reserved_seller[i] \in Nat
      /\ q \in [Inventories -> Nat]
  BY LedgerAssumption DEF Documents, LedgerTypeOK
<1>1. /\ recordMovement(new) /\ quantity' = quantity
      /\ reserved_online' = reserved_online
      /\ stock_released_at' = stock_released_at
      /\ stock_committed_at' = stock_committed_at
      /\ stock_reserved_at' = Stamp(stock_reserved_at, {s})
      /\ sale_items' = [sale_items EXCEPT ![s] = q]
      /\ \A i \in Inventories : reserved_seller'[i] = reserved_seller[i] + delta[i]
  BY DEF syncSellerReservation
<1>2. /\ \A i \in Inventories : delta[i] = q[i] - sale_items[s][i] /\ delta[i] \in Int
      /\ IsFiniteSet(I) /\ \A i \in Inventories : i \notin I => delta[i] = 0
  <2>1. IsFiniteSet(I)
    BY DemandTyped, FS_Subset
  <2> QED
    BY <1>0, <2>1
<1> HIDE DEF delta
<1>3. OneForEachRow(f, I, new) /\ \A m \in new : m.key[2] = s
  <2>1. ASSUME NEW i \in I
        PROVE  /\ f[i] \in new /\ f[i].key[3] = i /\ f[i].key[2] = s
               /\ f[i].physical = 0 /\ f[i].online = 0 /\ f[i].seller = delta[i]
    BY DEF Movement
  <2>2. \A m \in new : \E i \in I : m = f[i]
    OBVIOUS
  <2>3. \A i \in I : delta[i] \in Int
    BY <1>2
  <2> HIDE DEF f, new
  <2> QED
    BY <1>2, <2>1, <2>2, <2>3 DEF OneForEachRow
<1>4. \A i \in I : f[i].physical = 0 /\ f[i].online = 0 /\ f[i].seller = delta[i]
  BY DEF Movement
<1>5. /\ stock_reserved_at'[s]
      /\ \A d \in Documents : d # s => stock_reserved_at'[d] = stock_reserved_at[d]
      /\ \A d \in Documents : stock_reserved_at[d] => stock_reserved_at'[d]
  BY <1>0, <1>1 DEF Stamp, LedgerTypeOK
<1> HIDE DEF I, f, new
<1>6. /\ IsFiniteSet(new) /\ Typed(new)
      /\ \A i : \A c \in Columns : Column(c, RowsAt(new, i)) = IF i \in I THEN f[i][c] ELSE 0
  BY <1>3, WrittenByRow
<1>7. \A i \in Inventories : /\ Column("physical", RowsAt(new, i)) = 0
                             /\ Column("online", RowsAt(new, i)) = 0
                             /\ Column("seller", RowsAt(new, i)) = delta[i]
  BY <1>2, <1>4, <1>6 DEF Columns
<1>8. Typed(movements)' /\ JournalKept'
  <2>1. \A i \in Inventories :
          /\ quantity'[i] = quantity[i] + Column("physical", RowsAt(new, i))
          /\ reserved_online'[i] = reserved_online[i] + Column("online", RowsAt(new, i))
          /\ reserved_seller'[i] = reserved_seller[i] + Column("seller", RowsAt(new, i))
    BY <1>1, <1>7 DEF LedgerTypeOK
  <2> QED
    BY <1>1, <1>6, <2>1, JournalGrows
<1>9. ShipmentsKept'
  <2>1. \A m \in new : m.key[2] \in Executions => m.physical = 0
    BY <1>0, <1>3
  <2> QED
    BY <1>1, <1>6, <2>1, QuietShipment
<1>10. UnreservedEmpty'
  <2>1. \A p \in Sales : p # s => sale_items'[p] = sale_items[p]
    BY <1>1 DEF LedgerTypeOK
  <2> QED
    BY <1>0, <1>5, <2>1 DEF UnreservedEmpty
<1>11. HeldBySales' = HeldBySales \cup {s}
  BY <1>0, <1>1, <1>5 DEF HeldBySales, Holds, SaleOpen
<1>12. ASSUME NEW i \in Inventories
       PROVE  reserved_seller'[i] = Total(ItemsAt(i), HeldBySales)'
  <2> DEFINE g == ItemsAt(i)
             h == ItemsAt(i)'
             H == HeldBySales
             R == H \ {s}
  <2>1. /\ IsFiniteSet(H) /\ IsFiniteSet(R) /\ s \notin R
        /\ H \cup {s} = R \cup {s}
        /\ R \cup {s} \subseteq Sales /\ H \subseteq Sales
    BY DemandTyped, FS_Subset DEF HeldBySales
  <2>2. /\ \A p \in Sales : g[p] \in Int
        /\ \A p \in Sales : h[p] \in Int
        /\ g[s] = sale_items[s][i] /\ h[s] = q[i]
        /\ \A p \in R : g[p] = h[p]
    BY <1>0, <1>1, <2>1 DEF ItemsAt, LedgerTypeOK
  <2>3. reserved_seller[i] = Total(g, H)
    BY DEF ReservesHeld
  <2>4. Total(ItemsAt(i), HeldBySales)' = Total(h, H \cup {s})
    BY <1>11
  <2>5. s \in H \/ (H = R /\ g[s] = 0)
    <3>1. ASSUME s \notin H PROVE g[s] = 0 /\ H = R
      <4>1. ~stock_reserved_at[s]
        BY <3>1 DEF HeldBySales, Holds, SaleOpen
      <4>2. sale_items[s][i] = 0
        BY <4>1 DEF UnreservedEmpty, NoItems
      <4> QED
        BY <2>2, <3>1, <4>2
    <3> QED
      BY <3>1
  <2> HIDE DEF g, h, H, R
  <2>6. Total(g, H) = g[s] + Total(g, R)
    <3>1. CASE s \in H
      <4>1. Total(g, H) = g[s] + Total(g, H \ {s})
        BY <2>1, <2>2, <3>1, TotalTake
      <4> QED
        BY <4>1 DEF R
    <3>2. CASE H = R /\ g[s] = 0
      <4>1. Total(g, R) \in Int
        BY <2>1, <2>2, TotalInt
      <4> QED
        BY <3>2, <4>1
    <3> QED
      BY <2>5, <3>1, <3>2
  <2>7. Total(h, R \cup {s}) = Total(h, R) + h[s]
    <3>1. \A p \in R \cup {s} : h[p] \in Int
      BY <2>1, <2>2
    <3> QED
      BY <2>1, <3>1, TotalPut
  <2>8. Total(g, R) = Total(h, R)
    BY <2>2, TotalAgrees
  <2>9. Total(h, R) \in Int
    <3>1. \A p \in R : h[p] \in Int
      BY <2>1, <2>2
    <3> QED
      BY <2>1, <3>1, TotalInt
  <2>10. reserved_seller[i] = sale_items[s][i] + Total(h, R)
    BY <2>2, <2>3, <2>6, <2>8
  <2>11. Total(ItemsAt(i), HeldBySales)' = Total(h, R) + q[i]
    BY <2>1, <2>2, <2>4, <2>7
  <2>12. reserved_seller'[i] = reserved_seller[i] + (q[i] - sale_items[s][i])
    BY <1>1, <1>2
  <2>13. q[i] \in Nat /\ sale_items[s][i] \in Nat
    BY <1>0
  <2> HIDE DEF BooksInv
  <2>14. reserved_seller'[i] = Total(h, R) + q[i]
    BY <2>9, <2>10, <2>12, <2>13
  <2> QED
    BY <2>11, <2>14
<1>13. ReservesHeld'
  <2>1. \A i \in Inventories : reserved_online'[i] = Total(DemandAt(i), HeldOnline)'
    <3>1. \A o \in Executions : stock_reserved_at'[o] = stock_reserved_at[o]
      BY <1>0, <1>5
    <3> QED
      BY <1>1, <3>1, WebKept
  <2> QED
    BY <1>12, <2>1 DEF ReservesHeld
<1> QED
  BY <1>8, <1>9, <1>10, <1>13

\* A cancelled sale: its items are held no longer.
LEMMA ReleaseSaleBooks ==
  ASSUME BooksInv, NEW s \in Sales, seller_revision[s] > 0, releaseSellerStockForOrder(s),
         ~stock_released_at[s]
  PROVE  /\ Typed(movements)' /\ ReservesHeld' /\ JournalKept'
         /\ ShipmentsKept' /\ UnreservedEmpty'
<1> DEFINE I == Items(sale_items[s])
           f == [i \in I |-> Movement("seller_cancel", s, i, 0, 0, 0, -sale_items[s][i])]
           new == {Movement("seller_cancel", s, i, 0, 0, 0, -sale_items[s][i]) : i \in I}
<1> USE DEF BooksInv
<1>0. /\ Executions \cap Sales = {} /\ Executions \subseteq Documents
      /\ Sales \subseteq Documents
      /\ \A i \in Inventories : sale_items[s][i] \in Nat /\ reserved_seller[i] \in Nat
  BY LedgerAssumption DEF Documents, LedgerTypeOK
<1>1. /\ recordMovement(new) /\ quantity' = quantity
      /\ reserved_online' = reserved_online /\ sale_items' = sale_items
      /\ stock_released_at' = Stamp(stock_released_at, {s})
      /\ stock_committed_at' = stock_committed_at
      /\ stock_reserved_at' = stock_reserved_at
      /\ \A i \in Inventories : reserved_seller'[i] = reserved_seller[i] - sale_items[s][i]
      /\ ~stock_committed_at[s]
  BY DEF releaseSellerStockForOrder
<1>2. /\ IsFiniteSet(I) /\ I \subseteq Inventories
      /\ \A i \in Inventories : i \notin I => sale_items[s][i] = 0
  BY <1>0, ItemsFinite DEF Items
<1>3. OneForEachRow(f, I, new) /\ \A m \in new : m.key[2] = s
  <2>1. ASSUME NEW i \in I
        PROVE  /\ f[i] \in new /\ f[i].key[3] = i /\ f[i].key[2] = s
               /\ f[i].physical = 0 /\ f[i].online = 0 /\ f[i].seller = -sale_items[s][i]
    BY DEF Movement
  <2>2. \A m \in new : \E i \in I : m = f[i]
    OBVIOUS
  <2>3. \A i \in I : -sale_items[s][i] \in Int
    BY <1>0, <1>2
  <2> HIDE DEF f, new
  <2> QED
    BY <1>2, <2>1, <2>2, <2>3 DEF OneForEachRow
<1>4. \A i \in I : f[i].physical = 0 /\ f[i].online = 0 /\ f[i].seller = -sale_items[s][i]
  BY DEF Movement
<1>5. /\ stock_released_at'[s]
      /\ \A d \in Documents : d # s => stock_released_at'[d] = stock_released_at[d]
  BY <1>0, <1>1 DEF Stamp, LedgerTypeOK
<1> HIDE DEF I, f, new
<1>6. /\ IsFiniteSet(new) /\ Typed(new)
      /\ \A i : \A c \in Columns : Column(c, RowsAt(new, i)) = IF i \in I THEN f[i][c] ELSE 0
  BY <1>3, WrittenByRow
<1>7. \A i \in Inventories : /\ Column("physical", RowsAt(new, i)) = 0
                             /\ Column("online", RowsAt(new, i)) = 0
                             /\ Column("seller", RowsAt(new, i)) = -sale_items[s][i]
  BY <1>2, <1>4, <1>6 DEF Columns
<1>8. Typed(movements)' /\ JournalKept'
  <2>1. \A i \in Inventories :
          /\ quantity'[i] = quantity[i] + Column("physical", RowsAt(new, i))
          /\ reserved_online'[i] = reserved_online[i] + Column("online", RowsAt(new, i))
          /\ reserved_seller'[i] = reserved_seller[i] + Column("seller", RowsAt(new, i))
    BY <1>0, <1>1, <1>7 DEF LedgerTypeOK
  <2> QED
    BY <1>1, <1>6, <2>1, JournalGrows
<1>9. ShipmentsKept'
  <2>1. \A m \in new : m.key[2] \in Executions => m.physical = 0
    BY <1>0, <1>3
  <2> QED
    BY <1>1, <1>6, <2>1, QuietShipment
<1>10. UnreservedEmpty'
  BY <1>1 DEF UnreservedEmpty
<1>11. HeldBySales' = HeldBySales \ {s} /\ s \in HeldBySales
  BY <1>0, <1>1, <1>5 DEF HeldBySales, Holds, StampsAgree
<1>12. ReservesHeld'
  <2>1. \A i \in Inventories : reserved_online'[i] = Total(DemandAt(i), HeldOnline)'
    <3>1. \A o \in Executions : stock_released_at'[o] = stock_released_at[o]
      BY <1>0, <1>5
    <3> QED
      BY <1>1, <3>1, WebKept
  <2>2. \A i \in Inventories : reserved_seller'[i] = Total(ItemsAt(i), HeldBySales)'
    BY <1>1, <1>11, SaleLetsGo
  <2> QED
    BY <2>1, <2>2 DEF ReservesHeld
<1> QED
  BY <1>8, <1>9, <1>10, <1>12

\* A completed sale: the goods leave the shelf as far as the books know of them,
\* and nothing of it is held any more.
LEMMA CompleteBooks ==
  ASSUME BooksInv, NEW s \in Sales, NEW allow \in BOOLEAN,
         completeSellerStockForOrder(s, allow)
  PROVE  /\ Typed(movements)' /\ ReservesHeld' /\ JournalKept'
         /\ ShipmentsKept' /\ UnreservedEmpty'
<1> DEFINE sold == [i \in Inventories |-> Lesser(quantity[i], sale_items[s][i])]
           I == Items(sale_items[s])
           f == [i \in I |-> Movement("seller_sale", s, i, 0, -sold[i], 0, -sale_items[s][i])]
           new == {Movement("seller_sale", s, i, 0, -sold[i], 0, -sale_items[s][i]) : i \in I}
<1> USE DEF BooksInv
<1>0. /\ Executions \cap Sales = {} /\ Executions \subseteq Documents
      /\ Sales \subseteq Documents
      /\ \A i \in Inventories : /\ sale_items[s][i] \in Nat /\ reserved_seller[i] \in Nat
                                /\ quantity[i] \in Nat
  BY LedgerAssumption DEF Documents, LedgerTypeOK
<1>1. /\ recordMovement(new)
      /\ reserved_online' = reserved_online /\ sale_items' = sale_items
      /\ stock_released_at' = stock_released_at
      /\ stock_committed_at' = Stamp(stock_committed_at, {s})
      /\ stock_reserved_at' = stock_reserved_at
      /\ \A i \in Inventories : /\ reserved_seller'[i] = reserved_seller[i] - sale_items[s][i]
                                /\ quantity'[i] = quantity[i] - sold[i]
      /\ ~stock_committed_at[s] /\ ~stock_released_at[s] /\ stock_reserved_at[s]
  BY DEF completeSellerStockForOrder
<1>2. /\ IsFiniteSet(I) /\ I \subseteq Inventories
      /\ \A i \in Inventories : sold[i] \in Nat
      /\ \A i \in Inventories : i \notin I => sale_items[s][i] = 0 /\ sold[i] = 0
  BY <1>0, ItemsFinite DEF Items, Lesser
<1> HIDE DEF sold
<1>3. OneForEachRow(f, I, new) /\ \A m \in new : m.key[2] = s
  <2>1. ASSUME NEW i \in I
        PROVE  /\ f[i] \in new /\ f[i].key[3] = i /\ f[i].key[2] = s
               /\ f[i].physical = -sold[i] /\ f[i].online = 0
               /\ f[i].seller = -sale_items[s][i]
    BY DEF Movement
  <2>2. \A m \in new : \E i \in I : m = f[i]
    OBVIOUS
  <2>3. \A i \in I : -sale_items[s][i] \in Int /\ -sold[i] \in Int
    BY <1>0, <1>2
  <2> HIDE DEF f, new
  <2> QED
    BY <1>2, <2>1, <2>2, <2>3 DEF OneForEachRow
<1>4. \A i \in I : /\ f[i].physical = -sold[i] /\ f[i].online = 0
                   /\ f[i].seller = -sale_items[s][i]
  BY DEF Movement
<1>5. /\ stock_committed_at'[s]
      /\ \A d \in Documents : d # s => stock_committed_at'[d] = stock_committed_at[d]
  BY <1>0, <1>1 DEF Stamp, LedgerTypeOK
<1> HIDE DEF I, f, new
<1>6. /\ IsFiniteSet(new) /\ Typed(new)
      /\ \A i : \A c \in Columns : Column(c, RowsAt(new, i)) = IF i \in I THEN f[i][c] ELSE 0
  BY <1>3, WrittenByRow
<1>7. \A i \in Inventories : /\ Column("physical", RowsAt(new, i)) = -sold[i]
                             /\ Column("online", RowsAt(new, i)) = 0
                             /\ Column("seller", RowsAt(new, i)) = -sale_items[s][i]
  BY <1>2, <1>4, <1>6 DEF Columns
<1>8. Typed(movements)' /\ JournalKept'
  <2>1. \A i \in Inventories :
          /\ quantity'[i] = quantity[i] + Column("physical", RowsAt(new, i))
          /\ reserved_online'[i] = reserved_online[i] + Column("online", RowsAt(new, i))
          /\ reserved_seller'[i] = reserved_seller[i] + Column("seller", RowsAt(new, i))
    BY <1>0, <1>1, <1>2, <1>7 DEF LedgerTypeOK
  <2> QED
    BY <1>1, <1>6, <2>1, JournalGrows
<1>9. \A o \in Executions : stock_committed_at'[o] = stock_committed_at[o]
  BY <1>0, <1>5
<1>10. ShipmentsKept'
  <2>1. \A m \in new : m.key[2] \in Executions => m.physical = 0
    BY <1>0, <1>3
  <2> QED
    BY <1>1, <1>6, <1>9, <2>1, QuietShipment
<1>11. UnreservedEmpty'
  BY <1>1 DEF UnreservedEmpty
<1>12. HeldBySales' = HeldBySales \ {s} /\ s \in HeldBySales
  BY <1>0, <1>1, <1>5 DEF HeldBySales, Holds
<1>13. ReservesHeld'
  <2>1. \A i \in Inventories : reserved_online'[i] = Total(DemandAt(i), HeldOnline)'
    BY <1>1, <1>9, WebKept
  <2>2. \A i \in Inventories : reserved_seller'[i] = Total(ItemsAt(i), HeldBySales)'
    BY <1>1, <1>12, SaleLetsGo
  <2> QED
    BY <2>1, <2>2 DEF ReservesHeld
<1> QED
  BY <1>8, <1>10, <1>11, <1>13

\* A correction moves no reserve and ships nothing.
LEMMA AdjustBooks ==
  ASSUME BooksInv, NEW i \in Inventories, NEW n \in AdjustTo, adjustQuantity(i, n)
  PROVE  /\ Typed(movements)' /\ ReservesHeld' /\ JournalKept'
         /\ ShipmentsKept' /\ UnreservedEmpty'
<1> DEFINE m == Movement("adjustment", "none", i, Adjustments(i) + 1, n - quantity[i], 0, 0)
           new == {m}
           f == [j \in {i} |-> m]
<1> USE DEF BooksInv
<1>0. "none" \notin Executions /\ n \in Nat /\ quantity[i] \in Nat
  BY LedgerAssumption DEF Documents, LedgerTypeOK
<1>1. /\ recordMovement(new) /\ quantity' = [quantity EXCEPT ![i] = n]
      /\ reserved_online' = reserved_online /\ reserved_seller' = reserved_seller
      /\ stock_released_at' = stock_released_at
      /\ stock_committed_at' = stock_committed_at
      /\ stock_reserved_at' = stock_reserved_at
      /\ sale_items' = sale_items
  BY DEF adjustQuantity
<1>2. /\ m.key[2] = "none" /\ m.key[3] = i /\ m.physical = n - quantity[i]
      /\ m.online = 0 /\ m.seller = 0
  BY DEF Movement
<1> HIDE DEF m
<1>3. OneForEachRow(f, {i}, new)
  <2>1. IsFiniteSet({i})
    BY FS_Singleton
  <2>2. n - quantity[i] \in Int
    BY <1>0
  <2>3. \A j \in {i} : /\ f[j] \in new /\ f[j].key[3] = j
                      /\ f[j].physical \in Int /\ f[j].online \in Int /\ f[j].seller \in Int
    BY <1>2, <2>2
  <2>4. \A x \in new : \E j \in {i} : x = f[j]
    OBVIOUS
  <2> HIDE DEF f, new
  <2> QED
    BY <2>1, <2>3, <2>4 DEF OneForEachRow
<1>4. f[i] = m
  OBVIOUS
<1>5. \A x \in new : x.key[2] \notin Executions
  BY <1>0, <1>2
<1> HIDE DEF f, new
<1>6. /\ IsFiniteSet(new) /\ Typed(new)
      /\ \A j : \A c \in Columns : Column(c, RowsAt(new, j)) = IF j \in {i} THEN f[j][c] ELSE 0
  BY <1>3, WrittenByRow
<1>7. Typed(movements)' /\ JournalKept'
  <2>1. ASSUME NEW j \in Inventories
        PROVE  /\ quantity'[j] = quantity[j] + Column("physical", RowsAt(new, j))
               /\ reserved_online'[j] = reserved_online[j] + Column("online", RowsAt(new, j))
               /\ reserved_seller'[j] = reserved_seller[j] + Column("seller", RowsAt(new, j))
    <3>1. /\ reserved_online[j] \in Nat /\ reserved_seller[j] \in Nat /\ quantity[j] \in Nat
          /\ quantity'[j] = IF j = i THEN n ELSE quantity[j]
      BY <1>1 DEF LedgerTypeOK
    <3>2. /\ Column("physical", RowsAt(new, j)) = IF j = i THEN n - quantity[i] ELSE 0
          /\ Column("online", RowsAt(new, j)) = 0 /\ Column("seller", RowsAt(new, j)) = 0
      BY <1>2, <1>4, <1>6 DEF Columns
    <3> QED
      BY <1>0, <1>1, <3>1, <3>2
  <2> QED
    BY <1>1, <1>6, <2>1, JournalGrows
<1>8. ShipmentsKept'
  BY <1>1, <1>5, <1>6, QuietShipment
<1>9. UnreservedEmpty' /\ \A j \in Inventories :
        reserved_seller'[j] = Total(ItemsAt(j), HeldBySales)'
  BY <1>1, SellersKept
<1>10. \A j \in Inventories : reserved_online'[j] = Total(DemandAt(j), HeldOnline)'
  BY <1>1, WebKept
<1>11. ReservesHeld'
  BY <1>9, <1>10 DEF ReservesHeld
<1> QED
  BY <1>7, <1>8, <1>9, <1>11

\* The books open with the balances alone.
LEMMA InitBooks == LedgerInit => BooksInv
<1> SUFFICES ASSUME LedgerInit PROVE BooksInv
  OBVIOUS
<1> DEFINE f == [i \in Inventories |->
                   Movement("opening_balance", "none", i, 0, InitialQuantity[i], 0, 0)]
           R == movements
<1>1. LedgerTypeOK /\ StampsAgree
  BY InitTypes DEF LedgerInit, StampsAgree, Documents
<1>2. /\ R = {Movement("opening_balance", "none", i, 0, InitialQuantity[i], 0, 0) :
               i \in Inventories}
      /\ quantity = InitialQuantity
      /\ reserved_online = [i \in Inventories |-> 0]
      /\ reserved_seller = [i \in Inventories |-> 0]
      /\ \A o \in Documents : ~stock_reserved_at[o] /\ ~stock_committed_at[o]
      /\ \A s \in Sales : sale_items[s] = NoItems
      /\ "none" \notin Executions
      /\ \A i \in Inventories : InitialQuantity[i] \in Nat
  BY LedgerAssumption DEF LedgerInit, Documents
<1>3. OneForEachRow(f, Inventories, R)
  <2>1. ASSUME NEW i \in Inventories
        PROVE  /\ f[i] \in R /\ f[i].key[3] = i /\ f[i].physical = InitialQuantity[i]
               /\ f[i].online = 0 /\ f[i].seller = 0
    BY <1>2 DEF Movement
  <2>2. \A m \in R : \E i \in Inventories : m = f[i]
    BY <1>2
  <2> HIDE DEF f, R
  <2> QED
    BY <1>2, <2>1, <2>2, DemandTyped DEF OneForEachRow
<1>4. \A m \in R : m.key[2] = "none"
  BY <1>2 DEF Movement
<1>5. \A i \in Inventories : /\ f[i].physical = InitialQuantity[i]
                             /\ f[i].online = 0 /\ f[i].seller = 0
  BY DEF Movement
<1> HIDE DEF f, R
<1>6. /\ Typed(R)
      /\ \A i : \A c \in Columns :
           Column(c, RowsAt(R, i)) = IF i \in Inventories THEN f[i][c] ELSE 0
  BY <1>3, WrittenByRow
<1>7. JournalKept
  BY <1>2, <1>5, <1>6 DEF JournalKept, Columns, R
<1>8. ShipmentsKept
  <2>1. ASSUME NEW o \in Executions, NEW i \in Inventories
        PROVE  /\ Column("physical", RowsOf(movements, o, i)) = 0
               /\ ~stock_committed_at[o]
    <3>1. RowsOf(movements, o, i) = {}
      BY <1>2, <1>4 DEF RowsOf, R
    <3> QED
      BY <1>2, <3>1, ColumnZero, FS_EmptySet DEF Documents
  <2> QED
    BY <2>1 DEF ShipmentsKept
<1>9. ReservesHeld
  <2>1. HeldOnline = {} /\ HeldBySales = {}
    BY <1>2 DEF HeldOnline, HeldBySales, Holds, Documents
  <2> QED
    BY <1>2, <2>1, TotalEmpty DEF ReservesHeld
<1>10. UnreservedEmpty
  BY <1>2 DEF UnreservedEmpty
<1> QED
  BY <1>1, <1>6, <1>7, <1>8, <1>9, <1>10 DEF BooksInv, R

\* Every operation keeps the books, one lemma for each.
LEMMA BooksStep == BooksInv /\ [LedgerNext]_ledgerVars => BooksInv'
<1> SUFFICES ASSUME BooksInv, [LedgerNext]_ledgerVars PROVE BooksInv'
  OBVIOUS
<1>1. CASE UNCHANGED ledgerVars
  BY <1>1, SameBooks
<1>2. ASSUME LedgerNext,
             Typed(movements)' /\ ReservesHeld' /\ JournalKept' /\ ShipmentsKept'
               /\ UnreservedEmpty'
      PROVE  BooksInv'
  BY <1>2, BooksAfter
<1>3. CASE ReserveOnline
  BY <1>2, <1>3, ReserveBooks DEF ReserveOnline, LedgerNext
<1>4. CASE ReleaseOnline
  BY <1>2, <1>4, ReleaseBooks DEF ReleaseOnline, LedgerNext
<1>5. CASE ReplaceOnline
  BY <1>2, <1>5, ReplaceBooks DEF ReplaceOnline, LedgerNext
<1>6. CASE CommitOnline
  <2>1. PICK o \in Executions : commitOnlineStockForOrder(o)
    BY <1>6 DEF CommitOnline
  <2>2. CASE stock_committed_at[o]
    BY <1>1, <2>1, <2>2 DEF commitOnlineStockForOrder
  <2>3. CASE ~stock_committed_at[o]
    BY <1>2, <1>6, <2>1, <2>3, CommitBooks DEF LedgerNext
  <2> QED
    BY <2>2, <2>3
<1>7. CASE RestoreOnline
  <2>1. PICK o \in Executions : restoreCommittedOnlineStockForOrder(o)
    BY <1>7 DEF RestoreOnline
  <2>2. CASE ~stock_committed_at[o]
    BY <1>1, <2>1, <2>2 DEF restoreCommittedOnlineStockForOrder
  <2>3. CASE stock_committed_at[o]
    BY <1>2, <1>7, <2>1, <2>3, RestoreBooks DEF LedgerNext
  <2> QED
    BY <2>2, <2>3
<1>8. CASE SyncSale
  BY <1>2, <1>8, SyncBooks DEF SyncSale, LedgerNext
<1>9. CASE ReleaseSale
  <2>1. PICK s \in Sales : seller_revision[s] > 0 /\ releaseSellerStockForOrder(s)
    BY <1>9 DEF ReleaseSale
  <2>2. CASE stock_released_at[s]
    BY <1>1, <2>1, <2>2 DEF releaseSellerStockForOrder
  <2>3. CASE ~stock_released_at[s]
    BY <1>2, <1>9, <2>1, <2>3, ReleaseSaleBooks DEF LedgerNext
  <2> QED
    BY <2>2, <2>3
<1>10. CASE CompleteSale
  BY <1>2, <1>10, CompleteBooks DEF CompleteSale, LedgerNext
<1>11. CASE Adjust
  BY <1>2, <1>11, AdjustBooks DEF Adjust, LedgerNext
<1> QED
  BY <1>1, <1>3, <1>4, <1>5, <1>6, <1>7, <1>8, <1>9, <1>10, <1>11 DEF LedgerNext

\* The strengthened invariant says what the balances are made of.
LEMMA BooksFollow == BooksInv => BooksAgree /\ ShippedOnce
<1> SUFFICES ASSUME BooksInv PROVE BooksAgree /\ ShippedOnce
  OBVIOUS
<1> USE DEF BooksInv
<1>1. ASSUME NEW i \in Inventories
      PROVE  /\ reserved_online[i] =
                  MapThenSumSet(LAMBDA o : Demand[o][i], {o \in Executions : Holds(o)})
             /\ reserved_seller[i] =
                  MapThenSumSet(LAMBDA s : sale_items[s][i], {s \in Sales : Holds(s)})
  <2> DEFINE H == {o \in Executions : Holds(o)}
             K == {s \in Sales : Holds(s)}
             f == [o \in H |-> Demand[o][i]]
             g == [s \in K |-> sale_items[s][i]]
  <2>1. IsFiniteSet(H) /\ IsFiniteSet(K) /\ H = HeldOnline /\ K = HeldBySales
    BY DemandTyped, FS_Subset DEF HeldOnline, HeldBySales
  <2>2. MapThenSumSet(LAMBDA o : Demand[o][i], H) = Total(f, H)
    <3> HIDE DEF H
    <3> QED
      BY <2>1, DemandSum
  <2>3. MapThenSumSet(LAMBDA s : sale_items[s][i], K) = Total(g, K)
    <3> HIDE DEF K
    <3> QED
      BY <2>1, ItemsSum
  <2>4. (\A o \in H : f[o] = DemandAt(i)[o]) /\ \A s \in K : g[s] = ItemsAt(i)[s]
    BY DEF DemandAt, ItemsAt
  <2>5. Total(f, H) = Total(DemandAt(i), H) /\ Total(g, K) = Total(ItemsAt(i), K)
    <3> HIDE DEF H, K, f, g
    <3> QED
      BY <2>4, TotalAgrees
  <2> QED
    BY <2>1, <2>2, <2>3, <2>5 DEF ReservesHeld
<1>2. ASSUME NEW i \in Inventories
      PROVE  LET rows == {m \in movements : m.key[3] = i} IN
             /\ quantity[i] = MapThenSumSet(LAMBDA m : m.physical, rows)
             /\ reserved_online[i] = MapThenSumSet(LAMBDA m : m.online, rows)
             /\ reserved_seller[i] = MapThenSumSet(LAMBDA m : m.seller, rows)
  <2> DEFINE rows == {m \in movements : m.key[3] = i}
  <2>1. IsFiniteSet(rows) /\ rows = RowsAt(movements, i)
    BY FS_Subset DEF RowsAt, LedgerTypeOK
  <2> HIDE DEF rows
  <2>2. /\ MapThenSumSet(LAMBDA m : m.physical, rows) = Column("physical", rows)
        /\ MapThenSumSet(LAMBDA m : m.online, rows) = Column("online", rows)
        /\ MapThenSumSet(LAMBDA m : m.seller, rows) = Column("seller", rows)
    BY <2>1, PhysicalSum, OnlineSum, SellerSum
  <2> QED
    BY <2>1, <2>2 DEF JournalKept, rows
<1>3. ASSUME NEW o \in Executions, NEW i \in Inventories
      PROVE  LET rows == {m \in movements : m.key[2] = o /\ m.key[3] = i} IN
             MapThenSumSet(LAMBDA m : m.physical, rows)
               = IF stock_committed_at[o] THEN -Demand[o][i] ELSE 0
  <2> DEFINE rows == {m \in movements : m.key[2] = o /\ m.key[3] = i}
  <2>1. IsFiniteSet(rows) /\ rows = RowsOf(movements, o, i)
    BY FS_Subset DEF RowsOf, LedgerTypeOK
  <2> HIDE DEF rows
  <2>2. MapThenSumSet(LAMBDA m : m.physical, rows) = Column("physical", rows)
    BY <2>1, PhysicalSum
  <2> QED
    BY <2>1, <2>2 DEF ShipmentsKept, rows
<1>4. ReservesMatchDocuments
  BY <1>1 DEF ReservesMatchDocuments
<1>5. JournalExplainsBalances
  BY <1>2 DEF JournalExplainsBalances
<1>6. ShippedOnce
  BY <1>3 DEF ShippedOnce
<1> QED
  BY <1>4, <1>5, <1>6 DEF BooksAgree

\* For any warehouses, orders, sales and bounds: each reserve column is what the
\* open documents hold, and every balance is the sum of its journal.  No reserve
\* is lost, taken twice or left behind, whatever the order of reserves, edits,
\* packings, returns, counter sales, cancellations and corrections.
THEOREM BooksAlwaysAgree == LedgerSpec => []BooksAgree
<1>1. LedgerInit => BooksInv
  BY InitBooks
<1>2. BooksInv /\ [LedgerNext]_ledgerVars => BooksInv'
  BY BooksStep
<1>3. BooksInv => BooksAgree
  BY BooksFollow
<1> QED
  BY <1>1, <1>2, <1>3, PTL DEF LedgerSpec

\* However often a package is packed and unpacked, the journal has taken the
\* demand of its execution from the shelf once while it is packed, and not at all
\* otherwise.
THEOREM TakenFromTheShelfOnce == LedgerSpec => []ShippedOnce
<1>1. LedgerInit => BooksInv
  BY InitBooks
<1>2. BooksInv /\ [LedgerNext]_ledgerVars => BooksInv'
  BY BooksStep
<1>3. BooksInv => ShippedOnce
  BY BooksFollow
<1> QED
  BY <1>1, <1>2, <1>3, PTL DEF LedgerSpec
===============================================================================
