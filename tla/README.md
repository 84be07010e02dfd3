# TeaSeat: a verification project

TeaSeat is a shop for tea and gifts. The backend (`src/backend`, Laravel on
PostgreSQL) keeps orders and stock; the frontend (`src/frontend`, React) has an
application for each role, among them an offline application for the sellers
of the physical shops. This directory holds TLA+ models of the parts in which
several people, or a device and a server, act on the same rows, the TLC runs
that check them on small instances, and proofs of what holds for every
instance.

`PROJECT.json` lists the components, the runs with their properties, the source
lines of every definition, the hazards, the findings and the theorems.

## 1. The system

| Component | Code | State | Operations | What is hard |
| --- | --- | --- | --- | --- |
| Stock ledger | `WarehouseService`, `Inventory` | balances of a product at a warehouse, three stamps per document, the journal `inventory_movements` | reserve, release, commit and return for web orders; sync, release and complete for sales; correction | competition for one row, repetition, packing after a return, completing with conflicts |
| Picking, consolidation | `OrderFulfillmentService` | status, picker and stamps of order rows, cases | take, release, complete, escalate, report a shortage, receive a transfer, return to stock | parts in work at the same time, travel between warehouses, returning one part of several |
| Delivery | `DeliveryWorkflowService` | courier and status | claim, release, start, deliver, assign | claim against assignment, starting before all is packed |
| Order statuses | `OrderManagementService` | status of main orders and parts | direct status moves, copied to the parts | moves against the workflows |
| Manager's commands, edits | `ManagerOrderCommandService`, `ManagerOrderItemService` | order, its parts, operation ids | confirm, cancel, reschedule, change the contents | editing what somebody works on |
| Checkout | `CheckoutService`, `CartService` | cart, orders, idempotency key | checkout, cancel | double submission, partial selection |
| Cases | `FulfillmentIssueService` | status and owner of a case | take, release, close | competing managers |
| Seller orders | `SellerOrderService`, `SyncController` | revision, hash, status | upsert, cancel, complete, escalate | repetition, late requests, versions |
| Seller's application | `SellerContext`, `seller/bootstrap.ts`, `OrderWizardPage` and the pages of sales | session, cached goods and point in IndexedDB, their copies in React, the draft of the wizard | choose a point, refresh, reset, sell, complete | a bootstrap in several steps, expiry, quick presses, closed tabs |
| Picker's application | `PickerContext` and pages | lists and transfers of a point, the open order | start, choose a point, poll, command | late answers, shared flags |
| Manager's application | `useManagerQuery`, dialogs | one answer per page, one dialog | filter, poll, command, edit | late answers, retried edits, throttling |
| Courier's application | `CourierContext`, `reducer.ts` | a dictionary of deliveries, three lists of ids | page, filter, claim, start, deliver | older answers overwrite newer ones |
| Cart and checkout pages | `CustomerCartContext`, `CartPage`, `CheckoutPage` | a shared and a local copy of the cart, a form, a total, a key of the attempt | change rows, select, check out | double presses, lost answers, totals of older forms |
| Accounts on the device | `AuthContext`, `useWishlist` | token, cached user, data of the sections, hearts | start, login, logout, save | answers for another account |
| Gift constructor | `ConstructorEditor`, `GiftConfirmation`, `GiftLayoutService`, `GiftCartService` | two drafts of a box, a confirmation, gifts and their versions | place, move, turn, quote, confirm, add | two geometries, two calls of which either may be lost |
| Seller's queue | `seller/orders.ts`, `seller/sync.ts` | IndexedDB tables `orders` and `outbox` | draft, commit, command, drain | every `await`, lost answers, closed tabs |
| Discounts | `PricingService` | usage counters | consume, adjust, release | limits under concurrency, order of locks |
| Delivery slots | `DeliveryScheduleService` | orders per slot and day | reserve a place | capacity, revival of orders |
| Requests | `OrderRequestService` | status and owner | create, withdraw, take, release, resolve | ownership |
| Gift assembly | `GiftAssemblyService` | stock of components and gifts | assemble | two kinds of rows in one operation |

How they interact: checkout, edits, packing, returns and seller orders call the
ledger in their own transaction; status moves and edits rewrite the rows that
pickers and couriers work on; the devices talk to the server by requests that
may be lost, late or repeated. All handlers lock the order row they change
(`lockForUpdate`), the main order before the part, so a handler is atomic with
respect to the others, except where a model says otherwise: the cart is read and
written without a lock (`CustomerShop`), and a gift that is added to the cart is
read without one, its row first and its items after it (`GiftConstructor`, where
such an addition is two steps). The interleavings are between handlers, and on the
device between any two `await`s. The sections of the frontend
(shop, seller, picker, courier, manager) share the token, the router and what
`AuthContext` clears when the user changes; each keeps a provider of its own.

## 2. The modules

| Module | Role |
| --- | --- |
| `InventoryLedger` | the balances, the stamps and the journal; one action per method of `WarehouseService` that moves stock |
| `InventoryLedger_proofs` | theorems about it: types, stamps, keys, shortages, and its sums: reserves, balances, shipments |
| `CustomerOrder` | abstract: an order as its customer sees it, in seven stages |
| `Fulfillment` | EXTENDS the ledger; orders and parts, managers, pickers, couriers, administrators; implements both `CustomerOrder` and the ledger's specification |
| `Fulfillment_proofs` | what holds of orders whatever administrators ask for; what holds of them while administrators keep to their task; the two refinements |
| `SellerSync` | the seller's device, the network and the server's rules on versions |
| `SellerSync_proofs` | theorems about the queue and the versions |
| `SellerTill` | the seller's application around its queue |
| `SellerTill_proofs` | theorems about its drafts and its point |
| `PickerApp`, `ManagerDesk` | the applications of pickers and managers |
| `StaffDevice` | a tab of the staff: composes the two |
| `StaffDevice_proofs` | a dialog of the manager edits once |
| `CourierApp` | the couriers' application |
| `CourierApp_proofs` | one tap is one command |
| `CustomerShop` | the cart and the checkout, in the browser and on the server |
| `CustomerAccount` | the account of a tab and the wishlist |
| `CustomerTab` | a tab of a customer: composes the two |
| `CustomerTab_proofs` | theorems about orders, keys and totals, and about who is shown and what is disabled, in the composed tab |
| `GiftLayout` | the geometry of a gift, as operators: the browser's, the server's, and a reference |
| `GiftConstructor` | EXTENDS the geometry; the constructor, the confirmation, gifts and the cart |
| `GiftConstructor_proofs` | theorems about both: the geometries, the search for a layout, confirmations and the cart |
| `MC...` | constants for TLC; `SellerTill` and `CustomerAccount` take theirs from the cfg |

### InventoryLedger

`quantity`, `reserved_online`, `reserved_seller` are the columns of
`inventories`; `stock_reserved_at`, `stock_released_at`, `stock_committed_at`
say whether the stamp of a document (an execution of a web order or a sale) is
set; `movements` are the rows of the journal. A key of a movement is the
quadruple (operation, document, row, counter) that the code formats into
`idempotency_key`; the unique index is the guard of `recordMovement`. A thrown
`DomainException` rolls the transaction back: the action is not enabled. What
an execution takes is the constant `Demand`; `DisjointBatches` states that the
executions made by one call lie at different warehouses (`createPartialOrders`).
`replaceOnlineStock` is the edit of an order: the old parts' release and the
new parts' reserve in one transaction, against what is free after the release.

Not in it: assembling gifts, transfers of products between warehouses that
change `quantity` (there are none in the services), the choice of warehouses.

### Fulfillment

`status` has a value for each order row, mains and parts; `parts[m]` are the
parts of `m` that are not soft-deleted; `shipped_at` is the set of rows whose
stamp is set, `main_stock_committed_at` the stamp of the main rows, `issue` the
status of the case of a part and a row. `Transfers` are parts whose warehouse is
not the delivery hub. One action per handler: `Place`, `ManagerConfirm`,
`CustomerCancel`, `ManagerCancel`, `ManagerEdit`; `Take`, `ReleasePicking`,
`CompletePart` and `CompleteMain` (the two branches of `complete`), `Escalate`,
`ReportShortage`, `ReceiveTransfer`; `Claim`, `ReleaseDelivery`, `Start`,
`Deliver`, `AssignCourier`; `ReturnByPart` and `ReturnByMain` (the two branches
of `returnPackedOrderToStock`); `AdminUpdate`; the three moves of a case.
`SyncMain` (`syncMainOrderAfterArrival`) is part of every action whose handler
calls it. An administrator's wishes are the constant `AdminMoves`, so that a run
says what it lets administrators do; what the code refuses is in
`StatusMoveAllowed`. `AdminTargets` are the statuses that the forms
(`OrderResource.php:74-109`) offer and the service does not refuse always;
`ServiceMoves` are the moves administrators are there for, which no application
of the staff makes: taking an order out of review, and the hand-over of orders
that no courier of the shop delivers.

Simplified: an order is unpaid (a manager may not cancel a paid one), nothing is
ordered from suppliers, the delivery method does not change, an administrator
is not also a picker, the claim window of couriers is always open, a case has
no owner.

### CustomerOrder and the refinements

`Stage(m)` maps a main order to none, open, packing, packed, out, delivered or
cancelled: packing as soon as a part is off the shelf, packed when the main
order has its stamp. `KeepsPromise` says that every step of the fulfilment is a
step of `CustomerOrder` or leaves the stage alone: an order with goods off the
shelf is not cancelled, one that is out does not come back, only a packed one
goes out. `StockFollowsLedger` says that every step is a step of the ledger, so
what is proved of the ledger holds of the fulfilment.

### SellerSync

`local` and `outbox` are the tables of the device, `wizard` the sale being
edited, `drain` the one drain in progress and where it stands. The drain is cut
at the awaits that matter: reading the queue and the orders (`look`), marking
events (`claim`), waiting, reading a sale of a result (`readOrder`), writing it
back (`putOrder`), deleting the event. `giveUp` is a lost or failed answer,
`crash` a closed tab; a request that was given up stays in `requests` and the
server may handle it later. `processEvent` is one event on the server with the
rules of `SellerOrderService` on revisions, contents and statuses; whether the
stock allows a sale is left open (`fits`). `committed` is a history variable:
what the seller has confirmed in the last step of the wizard. Two reads that
follow each other without a write between them (queue, then orders) are one
step; the order of events by time is the order of their numbers.

### The device modules

They are built alike. The server is a few variables (the stage of each
document, the rows of the cart) and `Others`, what other people do to it. A
request is a record in flight: what it asks, whether the server has handled it
and with what, whether the page that sent it is still there. It is sent, is
answered, settles or is cut off, and is applied by the code after its `await`;
each of these is an action, so that any order of answers occurs. An effect that
has to run is a flag (`due`, `starting`, `asks`); a cleanup disowns the requests
that the effect has sent. A reopened tab loses what is in React and in flight,
keeps what is stored, and leaves the posts that the server has not yet seen
behind as ghosts, which may still arrive. Wording, styles and the
shape of the pages are left out; a button is a guard.

- `SellerTill`: `meta` and `cached` are the IndexedDB tables of the session and
  the goods, with the time of issue for their contents; `boot` is the bootstrap in progress and the
  step it is at (`PhaseAfter`), each of which may fail (`bootFails`: the points, the
  answer of the server, the writing of the goods, the writing of the session); `ops` is what was requested of the store, worked
  off in order; `rows` the sales; `drains` the chain of drains, of which only the
  verdict matters here (`SellerSync` has the rest). One product stands for the
  catalogue.
- `PickerApp`: `queue`, `mine`, `transfers` are the lists of the context, `page`
  the order page with its dialogs; `init`, `selectWarehouse`, `poll`, `refresh`,
  `loadOrder` and `run` are the functions of the same names.
- `ManagerDesk`: `scope` is what the loader of the page asks for, `shown` the one
  answer that is kept; `form` the dialog. Orders, cases and requests are
  documents with their own commands. `Known` is the server's look-up of an
  operation id.
- `CourierApp`: `entries` and `lists` are the reducer's dictionary and lists,
  `commands` the states of the buttons, `synced` whether a snapshot follows.
- `CustomerShop`: `shared` is the cart of the context, `cartPage` that of the
  page, `form` the checkout with its key and signature. Adding to the cart is two
  steps on the server (`findRow`, `writeRow`); `checkout` is one, under the lock
  of the cart, and looks the key up first (`Known`) and the rows next
  (`Possible`). `used` are the numbers that rows of the cart have had: the table
  counts its ids up, so a row that was removed or ordered never comes back under
  its number. A row more than the instance has numbers for is its bound.
- `CustomerAccount`: `token`, `cache` and `scoped` are the browser's storage
  (`scoped` names the owners of what sections have kept); `wish` is the wishlist
  store with its generation. A page is left, and a user logs out, whatever is under
  way: the calls go on, and the button that waited for them is gone with its page
  (`own`). `clearUserScopedState` is two steps, the data and the cached user
  (`clearScoped`), then the caches, after which `acceptUser` or `logout` goes on
  (`cleared`, `loggedOut`); either step may fail (`clearFails`), and then the catch of
  `fetchUser` or `login` shows the cached user or nobody (`Caught`), and a logout is
  carried out all the same (`LogOut`). A tab opened at another page is this one
  after a `goTo` that comes before `mount`.
- `GiftLayout`: `Overlap`, `Inside` and `firstFreePlacement` compare rectangles
  (`utils/giftLayout.ts`); `Cells`, `validate`, `placeRecursively` and `autoPlace`
  mark cells (`GiftLayoutService`); `Ordered` is the stable sort by area, largest
  first, in which the server lays the pieces; `Packable` is the reference: some
  assignment of places (`PlacesIn`) without a common cell.
- `GiftConstructor`: `view` and `draft` are the editor, `send` the confirmation,
  `calls` the reads that are aborted when their key changes, `posts` the
  creations and additions, which are not; `gifts`, `cart` and `stock` the server.
  `readGift` compares the version and reads the layout of a gift, `putGift` reads its
  items and writes the row; `adding` is the addition between the two, which holds the
  lock of the cart, so other changes of the cart wait and other changes of the gift
  (`update`, `archive`) do not. A row has the layout that the cart shows and the goods
  that are sold, which may differ.

Simplified: a tab has one section open at a time; the stock suffices for a
checkout and addresses exist; one row of the catalogue stands for many; the
picker's gift pages, moderation and the opening of a request are left out.

## 3. The runs

| Run | Question | Bounds |
| --- | --- | --- |
| `ledger` | do balances, stamps and journal agree? | two rows, three executions in two orders that compete for one row, one sale with two possible contents; one return per execution, two revisions, one correction |
| `courier_orders` | is a composite order handed on only whole, and its stock right? | one order: a local part and a transfer, or after an edit one part; two pickers, one courier, one administrator |
| `any_admin_move` | what do the refusals guarantee for an order sent by post if an administrator may ask for anything? | composite order only, every move of main or part, one picker, one correction of the stock |
| `settling` | is every order delivered or cancelled? | as `courier_orders`, with the edit from the two parts to the one and back, shortages and a return, but one picker; fairness |
| `seller_queue` | is an event lost, or the wrong version closed? | one sale, two contents, three events, one failure |
| `seller_queue_drains` | does every version leave the queue? | two events, one failure, fairness |
| `late_commit` | is a commit ever lost? (violated, section 4) | as `seller_queue` |
| `till` | do session, goods and screen belong to one point, and has the wizard its draft while the snapshot lives? | two points, three sales, two ticks of the clock with a snapshot that lives none, three presses or faults |
| `staff_pages` | does what is shown become true, is an edit carried out once? | one order at two points for the picker, two calls in flight, two events; for the manager one order, one request, two filters, two calls, two moves |
| `courier_app` | is one tap one command, and do the lists catch up? | two deliveries, one of them a transfer, pages of one, two filters of each sort, two calls, two steps |
| `customer_tab` | is a row bought once, is a total that comes of the form, is who is shown who is cached? | one product in at most two rows, two addresses whose methods differ, two calls, three presses, one loss; two users, one of the staff, two calls, four clicks, one loss or failed deletion |
| `gift` | do browser and server agree on a layout, and does the cart show what was confirmed, once? | a box of 2 x 2 and one of 4 x 1, three formats, one of which turns, at most three items, two edits, one fault, one confirmation |

The bounds are named in the cfg files. One order with two parts and its
replacement is enough for every interaction between parts, since parts of
different orders meet only in the ledger, where `ledger` has two orders compete.
One sale is enough for the queue, since a drain treats sales separately; two
contents tell one version from another. In the device runs two calls in flight
are what it takes for one answer to overtake another, and the bounds on presses
allow a press, something that interferes, and what undoes it; answers, effects
and timers are not bounded. The initial states include
each stage of the documents, since a page may be opened at any time. A case of
shortage behaves on the desk as a request with fewer commands, so the instance has
a request only. The gift boxes are chosen so that a tin lies in the flat box only
when it is turned, where it fills the box with a bar, and a tube does not lie there at
all; a tube and a bar have the area of the square box and cannot be packed in it. Four
clicks on the account are what it takes to save the profile, log out while the `GET
/user` of the save is under way, go to the login and enter as somebody else; nothing
but their number, that of the calls and that of the failures bounds what the user
does. The till watches a snapshot expire (`Ttl` is 0, the clock has two ticks), with
bootstraps that fail at each of their steps.

`MC...More.cfg` are further checks of the same instances that also pass; they are
kept apart because they are slower or say less: that spinners and busy buttons
come back (`PickerSpinnerEnds`, `DeskRefreshEnds`, `LayoutLoads`, `LoadingEnds`,
`BusyEnds`), that hearts are disabled for a toggle under way (`HeartsAreReal`), that the session never looks fresher than the
goods (`NeverFresher`), that quotes and goods shown are of what is chosen (`ShownIsAsked`), that the candidates of
`firstFreePlacement` suffice (`NoPlaceMeansNone`) and that a gift lies in the cart
once (`OnceInCart`).

### What the properties say

Ledger: `BooksAgree` (a reserve is exactly what open documents hold, and every
balance the sum of its journal), `ShippedOnce` (packing and unpacking in any
number take the goods once), `KeysNeverClash` (the unique key refuses no step
that the stamps allow), `StampsAgree`, `OversoldOnlyByHand`, `ReleaseIsFinal`.

Fulfilment: `PackedIffCommitted`, `HandedOnWhole`, `VoidKeepsNothing` (neither
cancelled orders nor deleted parts), `NoStaleOwner`, `SinglePartNeverStranded`,
`TravelIsOneWay`, `StagesBelongToWorkflows`, `EveryOrderSettles` and the two
refinements.

Queue: `NoEventLost`, `AckIsTheServers`, `ClosedAsSeen` (a late command never
closes contents that the seller has not seen accepted), `ClosedIsFinal`,
`UpsertsDrain`.

Till: `OneDraftPerPoint`, `PointIsWhole` (who is let in sees the goods of the
point that session and store name, whatever failed or was cut, and also while a
reset is still waiting for the store; the snapshot whose expiry is watched is no
fresher than those goods), `WizardGetsDraft` (who stays in the wizard gets a draft
after each sale and after each catalogue that was loaded anew, as long as the snapshot
lives; that the code begins sales after it has expired, too, is in section 4).

Staff: `PickerListsCatchUp`, `DeskPageCatchesUp`, `CourierCatchesUp` (who stays on
a page sees in the end what the server has, whatever answers were late or lost),
`DeskEditsOncePerDialog`, `PendingIsOnePost`.

Customers: `RowsOrderedOnce`, `RetryIsAnswered`, `TotalIsOfForm` (the answer of an
older quote never comes over the total of a newer choice: what comes onto the page is
of what is selected there by then. The total shown before stays until then, and the
buttons with it: section 4), `TotalComes`, `ShownIsCached` (who is shown is who the
device would show when it is loaded without a network, but while data are being
cleared: answers of two users that cross, pages left with calls under way, and
clearings that fail leave nobody else).

Gifts: `ReadyIsAccepted`, `PackingIsDecided`, `OneGiftPerConfirmation`,
`CartShowsWhatWasConfirmed` (name, layout and mark-up in the cart are those that
were confirmed, and so are the goods as long as no other page has changed the gift).

## 4. Disagreements between the code and what is said of it

Each has a cfg with which TLC finds the counterexample, and is a real behaviour of
the code; `late_commit` is among the runs, the others are reproduced with
`tlc -config <cfg> <module>`.

| Module, cfg | Property | What the code does, against what is said |
| --- | --- | --- |
| `MCSellerSync`, `MCSellerSyncLateCommit.cfg` | `NoCommitLost` | a commit between the reading of the queue and the marking of its events is taken for sent (`seller/orders.ts:160-169`) |
| `MCSellerSync`, `MCSellerSyncLostAnswer.cfg` | `RevisionNeverRefuses` | a sale that is edited after its answer was lost is refused for its version from then on (`seller/sync.ts:17-20`, `SellerOrderService.php:104`) |
| `MCSellerSync`, `MCSellerSyncLeak.cfg` | `OnlyCommittedArrives` | unfinished edits of a queued sale are sent (`seller/sync.ts:124`, `seller/orders.ts:195`) |
| `MCFulfillment`, `MCFulfillmentJoined.cfg` | `JoinedOrderStaysJoined` | returning a part, named by its own number, takes a joined composite order apart, although the branch for the main order refuses just that (`OrderFulfillmentService.php:460-476`) |
| `MCFulfillment`, `MCFulfillmentStages.cfg` | `StagesBelongToWorkflows` | a status move of the main order takes a part away from the picker who is at work on it; for the row itself the code refuses it (`OrderManagementService.php:105-114`, `193-213`). The run `courier_orders` checks the property for `ServiceMoves`, without that move |
| `MCFulfillment`, `MCFulfillmentPartDelivered.cfg` | `OnlyMainOrdersDelivered` | a transfer on its way can be marked delivered, which `backend/docs/picker-courier.md:105` reserves for main orders |
| `SellerTill`, `MCSellerTillStaleDraft.cfg` | `SalesAreAccepted` | a draft keeps the time at which it was begun, also when the catalogue is refreshed under it; goods added from then on carry the tokens of a snapshot issued after that time, and the sale is refused (`seller/orders.ts:61-73`; `backend/docs/seller-pwa.md:89-91`) |
| `SellerTill`, `MCSellerTillLateDraft.cfg` | `NoSaleAfterExpiry` | a sale is begun although the snapshot has expired: the page works out whether it has only when the session is set (`SellerContext.tsx:225-228`), not as time passes, and the creation of a draft does not ask again; "После `expires_at` PWA не должна создавать новые локальные продажи до обновления каталога" (`backend/docs/seller-pwa.md:91-92`) |
| `MCCustomerTab`, `MCCustomerShopSlowGet.cfg` | `AddedStays` | a row that was added vanishes from the shared cart for a while: a GET that starts while the change is under way is answered before the row is written and comes after it; the version that should refuse it is raised only when the change starts (`CustomerCartContext.tsx:114-116`) |
| `MCCustomerTab`, `MCCustomerShopStaleTotal.cfg` | `TotalGoesOn` | the total of the rows, or of the method, chosen before stays on the page, with its button enabled, during the delay before the next quote is asked for and after that quote has failed (`CheckoutPage.tsx:223-227`, `414`, `CartPage.tsx:122-126`, `265`): a customer goes to the checkout, or places the order, at a total of something else; "Боковая сумма показывает именно серверный quote выбранных строк" (`CartPage.tsx:255`) |
| `CustomerAccount`, `MCCustomerAccountLogout.cfg` | `LogoutHolds` | an answer of `GET /user`, asked for by a saved profile, that comes after a logout shows the user again and writes the cache that the logout has deleted (`AuthContext.tsx:71-72`) |
| `CustomerAccount`, `MCCustomerAccountLeft.cfg` | `OwnDataOnly` | a section may write again while a logout waits for the caches to be deleted, and meanwhile somebody else logs in: the login, begun while the token was still there, is not going to clear data of nobody known (`clearUnknown` is worked out only when `login` is called), so the new user is shown with what the section of the one before has kept (`AuthContext.tsx:90-97`, `131`); "При выходе и смене аккаунта эти данные тоже обязательно удаляем" (`AuthContext.tsx:71-72`) |
| `MCGiftConstructor`, `MCGiftConstructorTorn.cfg` | `CartHoldsWhatWasConfirmed` | a gift is changed from another page between the reading of its row and that of its items: the version that was compared and the layout that is shown are those confirmed, the goods in the cart are not (`GiftCartService.php:52-62`, `GiftConstructorService.php:197-217`); "Подарок был изменён. Обновите его перед добавлением в корзину" (`GiftCartService.php:60-61`) |
| `MCCourierApp`, `MCCourierWaiting.cfg` | `WaitingEnds` | a delivery that comes with a list while its own GET is under way leaves the page of the delivery loading: the cleanup of the effect forgets the answer that would end it (`courier/useCourier.ts:23-40`) |

## 5. Fairness

`settling`: for each main order, strong fairness of confirming it (from pending by
a manager, from review by an administrator), and of taking, completing and starting
one of its rows, the order's or a part's, weak fairness of delivering and receiving
one. Which row is open: it is enough that the staff, who can go on with an order
again and again, go on with it. These are the daily work of the staff: the lists in
their applications show an order as long as it waits, and the code never hides
one that is ready. Strong fairness is needed because an order may be released, or
edited to other parts and back, before somebody gets to it. Nobody is assumed to cancel, edit,
release, return or correct; the bounds on returns make the number of detours
finite. In this run nobody corrects stock, so a packing is never refused for
want of goods.

`seller_queue_drains`: the seller has the queue sent again and again (a commit,
a command and the button each start a drain), a drain goes on, the server
handles what it gets; answers are lost a bounded number of times.

The device runs assume of the environment only that calls are answered or cut
off, that what has settled is applied, that effects run and timers fire (weak
fairness of each), and that the browser tells of the network and of a visible tab again.
Nobody is assumed to press a button. Lost calls, presses and changes by others
are bounded, so a page that polls is in the end left alone; what is promised is
promised to someone who stays on the page (`<>[](route = ...) => ...`). In
`till` the store, the drain and the effect of the wizard are weakly fair; that a
snapshot expires releases the code from its promise of a draft, and nothing else does.

## 6. Proofs

Every theorem is about all values of the constants that the module's assumption
allows: any number of rows, orders, sales, addresses, lost answers, presses. Each
invariant was first checked by TLC, with its strengthening, on the instance of its
run. What the strengthenings say, and why they are needed, follows.

### The ledger

From `LedgerAssumption` alone: the sets are finite, executions, sales and the
mark of a journal row without a document are apart, and the executions that one
call creates lie at different warehouses (`createPartialOrders`).

- `LedgerTypes`: `LedgerSpec => []LedgerTypeOK`. Inductive as it stands: each
  operation subtracts only what its guard has compared. One lemma per operation.
- `StampsNeverContradict`: `LedgerSpec => []StampsAgree`. The conjunct on
  revisions is what makes it inductive: a sale is released or sold only after a
  first revision has stamped it reserved.
- `ReleasedForGood`: `LedgerSpec => ReleaseIsFinal`, an action property, from
  `StampsAgree`.
- `KeysStayApart`: `LedgerSpec => []KeysNeverClash`, from the stronger
  `KeysInOrder`: the journal's returns of an execution are numbered within
  `1 .. returnCycle`, its packings within `0 .. returnCycle`, and the last
  number is used by a packing only while the execution is committed. A packing
  adds the last number, a return moves the count past it (`CycleNext`), and no
  other operation writes such a row (`QuietKeepsOrder`).
- `OnlyHandsOversell`: `LedgerSpec => OversoldOnlyByHand`. A reserve is
  taken from what is free, so it leaves no shortage (`NoShortage`); the other
  operations of web orders never raise promises above stock more than they were
  (`ShortageMonotone`).
- `BooksAlwaysAgree`, `TakenFromTheShelfOnce`:
  `BooksAgree` and `ShippedOnce`, which are about sums. A sum over a finite set
  is a recursive function of its subsets (`IsSum`); that there is exactly one,
  and how it changes when a document or a movement is added or changed, is proved
  without induction: a set for which it fails would have a smallest one
  (`Smallest`, by the library's theorem that the subsets of a finite set are well
  founded), and that one leads to a contradiction. The invariant `BooksInv` adds
  to types and stamps that the movements are well typed and that a sale without a
  reserve has no items (`UnreservedEmpty`). The unique key is needed: without it a
  row of the journal could be written over, and the sum would not change by what
  is written.

### Fulfilment

From `FulfillmentAssumption` and `LedgerAssumption`. The assumption says that
allocations of different orders have no part in common, since `Place` makes new
rows for the parts it creates.

- `FulfilmentTypesAndStamps`, `OrdersHandedOnWhole`, for any moves of administrators. `HandedOnWhole` needs to know of each order
  (`OrderOK`) that its parts are one of its allocations (`AllocatedAt`), that it
  has parts once it is placed (`PlacedAt`), that these are reserved, and committed
  when they are away from the shelf (`PackedAt`), that a cancelled part means an order whose
  reserves are released (`CancelledAt`), that an order whose parts are all packed
  has its stamp (`StampedAt`) and that an order in a status of the hand-over
  is whole (`WholeAt`). The last is what returns, edits and status moves threaten.
- The others have the form `ServiceOnly /\ Spec => ...`, where
  `ServiceOnly` says that `AdminMoves` are among `ServiceMoves`, as in the run
  `courier_orders`. With other moves these properties do not hold: an administrator
  can take parts away from the people at work on them (section 4,
  `MCFulfillmentStages.cfg`), which is why the condition is a hypothesis
  of the theorems and not an assumption of the module. The invariant
  `ServiceInv` adds to `WholeInv` what the service keeps of an order (`ServedAt`:
  its parts are cancelled with it and wait with it, only orders of several parts
  are joined, a single part does not stay behind, a stamp means arrival), of parts
  that no order has yet or has no more (`FreshAt`, `LooseAt`), and of owners
  (`OwnedAt`). From it: `PackedAsBooked` (`PackedIffCommitted`), `VoidIsEmpty`
  (`VoidKeepsNothing`), `OwnersAreCurrent` (`NoStaleOwner`), `SinglePartsMoveOn`
  (`SinglePartNeverStranded`), and the action properties `TravelsOneWay`
  (`TravelIsOneWay`) and `StagesKept` (`StagesBelongToWorkflows`).
- `LedgerIsFollowed`, a refinement: `ServiceOnly /\ Spec => StockFollowsLedger`.
  Each handler that moves stock does a step of the ledger, the others leave it
  alone; what has to be shown is that the documents a handler passes meet the
  guards of the ledger. `BooksSurviveService` draws the conclusion: the books agree, packages
  are taken once, keys never clash, released reserves stay released and nothing is
  oversold but by hand, while pickers, couriers and managers work.
- `PromiseIsKept`, the other refinement: `ServiceOnly /\ Spec => KeepsPromise`,
  by the stages of `CustomerOrder`.

### The seller's device

`SellerSync_proofs`, from `SyncAssumption`: `QueueTypesKept`,
`NothingQueuedIsLost` (`NoEventLost`), `AcksAreTrue` (`AckIsTheServers`) and the
action properties `ClosedInTheVersionSeen` (`ClosedAsSeen`) and `ClosedForGood`
(`ClosedIsFinal`). `QueueInv` says what lost and late messages leave true: an id
names one event of one sale wherever it is (`IdsAgree`); of a draft nothing is on
the way (`DraftsAreLocal`); an answer is to something that was sent and carries a
version that the server has reached (`AnswersAreTrue`); a command
carries a version that the device has seen accepted (`CommandsSeen`); and a drain between
two awaits still agrees with the tables (`DrainAgrees`): what it is about to write
back has the acknowledgements of the row that is there, though the seller may have
edited the rest. The last conjunct is the one an added `await` would break.

`SellerTill_proofs`, from `TillAssumption`: `OneDraftPerPointHolds`
(`OneDraftPerPoint`), `PointStaysWhole` (`PointIsWhole`) and `SessionNeverFresher`
(`NeverFresher`). `TillInv` says how far a bootstrap is and what store and
context hold by then (`BootAgrees`), so that a bootstrap that fails, at a call or at a
write, leaves either everything or the goods alone renewed; that no reset is left in the queue of the store
once a bootstrap has stored its goods (`ResetComesFirst`: what a screen behind the
spinner cannot ask for), and that what is about to be shown is no older than what it
replaces (`TimesAgree`).

### The customer's tab

`CustomerTab_proofs`, from `TabAssumption` and `ShopAssumption`, for the tab with
its account (`TabSpec`): `RowsAreOrderedOnce` (`RowsOrderedOnce`),
`RetriesAreAnswered` (`RetryIsAnswered`), `TotalsAreOfTheForm` (`TotalIsOfForm`);
and for the shop alone `ShownIsSubmitted` (`SubmittedIsShown`). `ShopInv` has four
ideas. Every row that a page, a call or an order knows is among `used`, so a form
that was refused because a row is gone stays refused. A key
stands for one form over all calls, the page and the orders (`KeysAgree`), also
when ghosts of a closed tab arrive. What a checkout was answered still holds
when the page hears of it (`AnswersAgree`). And a quote that is still listened
to is of what the page wants (`QuotesAreCurrent`): `TotalIsOfForm` is an action
property, which follows from it for each step (`TotalKept`). The theorem is about
what comes onto the page; what stays there meanwhile is in section 4.

About the account, for the same tab: `ShownIsTheCached` (`ShownIsCached`) and
`HeartsWaitForToggles` (`HeartsAreReal`). `HeartInv` has the types the two rest on
and pairs each heart that is disabled with its call, whatever lists and owners come in
between; neither theorem assumes that users wait for anything. `ShownIsCached` is
inductive together with it: a user is put on the screen with the cache
(`AcceptUser`) or from it (`Caught`), the cache is deleted only by a call that is
then clearing (`clearScoped`), and such a call ends by putting somebody into both, or
by showing what the cache has by then, or nobody, also when the deletion fails. Two
calls may be clearing at once, so a step must not end the clearing of another call
(`OneCallRests`, `SentRests`). That no data of another user are left on the device
is not a theorem: the code does not keep it (section 4, `OwnDataOnly`).

### The staff's devices

- `OnePostPerTap` (`PendingIsOnePost`, `CourierApp_proofs`). `CourierInv` pairs
  the deliveries whose buttons are disabled with the calls that post, both ways,
  and no two calls post for the same (`Paired`); a dialog is only open on the page
  of its delivery, so a confirmation posts for the delivery whose button it checks.
- `EditsOncePerDialog` (`DeskEditsOncePerDialog`, `StaffDevice_proofs`). The ids
  in use, at the server, in calls and in the dialog, are among some set `D` of ids
  that dialogs have drawn, with no more of them than dialogs opened (`Drawn`): the
  server applies an id once, and a retry carries the id of its dialog.

### The gift constructor

From `LayoutAssumption` and `ConstructorAssumption`, for any boxes, formats, stocks and
steps. The types of the editor, the confirmation and the server
(`GiftTypes`) come first.

- `OverlapIsSharedCell`: two items overlap as rectangles (the browser) exactly
  when they have a cell in common (the server), since two stretches of a line
  overlap exactly when they share a point (`StretchesMeet`).
- `GeometriesAgree`: for every box and every layout that is not empty and not
  too heavy, `NoLayoutError` of the browser and `validate` of the server give
  the same answer.
- `OneGift` (`OneGiftPerConfirmation`), `OneRow` (`OnceInCart`),
  `CartShowsTheConfirmed` (`CartShowsWhatWasConfirmed`), from `GiftsInv`: a
  confirmation has at most one creation on its way, and one that has not been
  carried out, or may be sent again, has made nothing (`Creations`); references
  name the first version of a gift that exists (`RefsHold`), whose contents are
  those that were confirmed until it is changed (`Contents`); there is one instance
  id for each gift, in the confirmation, in every addition under way and in the cart
  (`Instances`); and the addition that holds the lock of the cart has read the
  layout that was confirmed, and its instance has no row yet (`AddingHolds`). The
  version never goes back, so a gift that is of the confirmed version when its items
  are in the cart was of that version when they were read.
- `ShownWasAsked` (`ShownIsAsked`) and `ConfirmedIsAccepted` (`ReadyIsAccepted`),
  from `LoadsInv`: what a resource keeps was loaded for its key. The total weight
  of the items of a layout, a fold over a set, is treated as a sum, as in the
  ledger.
- `NoPlaceIsNone` (`NoPlaceMeansNone`): the corners that `firstFreePlacement`
  tries are enough. A place that is free can be pushed to the left and up until it
  meets an edge (`StoppedAtEdge`, `FreeAtEdges`); of the free places one has the
  least sum of coordinates, and that one is a corner.
- `PackingDecided` (`PackingIsDecided`), the correctness of `autoPlace`. The
  search is a function of the piece it is at and of what lies already; that it
  exists, and that it finds a layout exactly when one exists, is shown by the
  smallest number of pieces from the end for which it would fail
  (`LayExists`, `SearchIsRight`). The order in which the server lays the pieces
  is a permutation of the selection (`PiecesAreOrdered`), so what can be packed in
  one order can be in the other. The other half is counting: the cells of
  rectangles that do not meet add up (`SumCounts`), so a selection of more area
  than the box, or with a format that fits in no orientation, has no packing
  (`PackedFits`), and the browser refuses nothing else.

### Only model-checked

- Liveness: `EveryOrderSettles`, `UpsertsDrain`, `WizardGetsDraft`,
  `PickerListsCatchUp`, `DeskPageCatchesUp`, `CourierCatchesUp`, `TotalComes`, and
  those of the `More` checks. They rest on fairness, and so on ENABLED, which the
  prover does not treat.
- What depends on particular bounds: the disagreements of section 4 are
  counterexamples, and need no proof.

## 7. Plan

1. `SellerOrders`: `SellerOrderService` on the ledger, with the cases an
   escalation opens and discounts consumed once; refines the server of
   `SellerSync`.
2. `DeliverySlots` and `DiscountUsage`: capacity and limits under checkout,
   reschedule, cancel and status moves.
3. `LockOrder`: the locks each transaction takes in order, deadlock.
4. `GiftAssembly` as further operations on the ledger.
5. Proofs: every safety property that a run expects to hold is a theorem. What a
   proof of a new module can use is there: sums over sets, pairings of calls and
   buttons, and the smallest counterexample in the place of induction.

The project keeps to a dozen runs. Runs for new modules take the place of those
that ask least; what they showed stays described in section 4.

## 8. Not modelled

The drawing of a gift in three dimensions (`ThreeScene`, `components/constructor/three`), the
arithmetic of prices, reviews, the catalogue and its filters, imports, supplier
orders, permissions and access to warehouses, the admin panel beyond status moves,
notifications and service workers: single-row or read-only code, file input and
output, or display. What is planned is listed above; PROJECT.json has a reason for
every component.
