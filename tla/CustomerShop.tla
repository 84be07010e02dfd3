----------------------------- MODULE CustomerShop -----------------------------
(***************************************************************************)
(* The customer's cart and checkout: CustomerCartContext, which every page  *)
(* shares, the cart page with a copy of its own, the checkout page, and the *)
(* handlers of the cart and of the checkout on the server.                  *)
(*                                                                         *)
(* A change of the cart reads its row and writes it without a lock between; *)
(* a checkout locks the cart and moves the selected rows to an order.  The  *)
(* stock suffices and the addresses have come when the checkout opens.      *)
(***************************************************************************)
EXTENDS Naturals, FiniteSets, Sequences, SequencesExt

CONSTANTS
  Products, Rows, of,     \* the rows the cart may ever have, numbered, and their products
  Addresses, Methods,
  Serves,                 \* the delivery methods of the town of each address, in order
  NoMethod,
  MaxAmount,              \* bound: units in a row
  Wires,                  \* bound: calls in flight at once, 1 .. their number
  MaxPresses, MaxLosses   \* bounds: what the customer does, answers that are lost

VARIABLES
  cart, amount, orders, used,            \* the server; the numbers its rows have had
  shared, loading, initialized, pending, \* CustomerCartContext
  route,
  cartPage,                              \* CartPage
  form,                                  \* CheckoutPage
  quote,                                 \* the total that the open page shows
  wire,                                  \* calls in flight
  presses, losses

shopVars == << cart, amount, orders, used, shared, loading, initialized, pending, route,
               cartPage, form, quote, wire, presses, losses >>
serverVars == << cart, amount, orders, used >>
contextVars == << shared, loading, initialized, pending >>

ASSUME ShopAssumption ==
  /\ Rows \subseteq Nat /\ of \in [Rows -> Products] /\ NoMethod \notin Methods
  /\ Serves \in [Addresses -> Seq(Methods)]
  /\ MaxAmount \in Nat \ {0} /\ MaxPresses \in Nat /\ MaxLosses \in Nat

NoForm == [sel |-> {}, addr |-> 0, method |-> NoMethod]

\* The cart as an answer brings it; << >> is a cart that is not known.
Snapshot == << [r \in Rows |-> IF r \in cart THEN amount[r] ELSE 0] >>
RowsOf(snapshot) == IF snapshot = << >> THEN {} ELSE {r \in Rows : snapshot[1][r] > 0}

Ordered == UNION {o.rows : o \in orders}

Idle == [kind |-> "idle", op |-> "none", row |-> {}, product |-> {}, qty |-> 0, action |-> << >>,
         form |-> NoForm, key |-> 0, state |-> "none", ok |-> FALSE, ans |-> << >>,
         fresh |-> FALSE, page |-> FALSE]

\* An answer, or the news that there will be none.
Settled(c) == c.state \in {"done", "lost"}

NoTotal == [of |-> NoForm, loading |-> FALSE, due |-> FALSE, failed |-> FALSE]
NoCartPage == [snapshot |-> << >>, due |-> FALSE, loading |-> FALSE, selected |-> {}, busy |-> {}]
NoCheckout == [sel |-> {}, addr |-> 0, methods |-> << >>, method |-> NoMethod, asks |-> FALSE,
               submitting |-> FALSE, key |-> 0, signature |-> NoForm]

Press == presses < MaxPresses /\ presses' = presses + 1

\* A new call takes the first wire that is free; the wires are numbers.
Call(s, wires, call) ==
  /\ wires[s].kind = "idle" /\ \A g \in Wires : g < s => wires[g].kind # "idle"
  /\ wire' = [wires EXCEPT ![s] = [call EXCEPT !.state = "sent", !.fresh = TRUE]]

\* requestVersion: the answers of the context's older GETs will not be taken.
Bumped == [s \in Wires |-> IF wire[s].kind = "cart" /\ ~wire[s].page
                           THEN [wire[s] EXCEPT !.fresh = FALSE] ELSE wire[s]]

\* The cleanup of the effects that the page has run with older values.
Stale(kinds, wires) == [s \in Wires |-> IF wires[s].kind \in kinds
                                        THEN [wires[s] EXCEPT !.fresh = FALSE] ELSE wires[s]]

\* What the open page asks a total for.
CartForm(selected) == [NoForm EXCEPT !.sel = selected]
CheckoutForm(f) == [sel |-> f.sel, addr |-> f.addr, method |-> f.method]
Wanted == CASE route = "cart" -> CartForm(cartPage.selected)
            [] route = "checkout" -> CheckoutForm(form)
            [] OTHER -> NoForm

\* The effect of the total runs again: the timer is set, or nothing is to be shown.
QuoteAgain(complete) ==
  quote' = IF complete THEN [quote EXCEPT !.due = TRUE, !.failed = FALSE]
           ELSE [quote EXCEPT !.of = NoForm, !.due = FALSE, !.failed = FALSE]

------------------------------------------------------------------------------
(* The shared cart. *)

refreshCart(s) ==
  /\ Call(s, Bumped, [Idle EXCEPT !.kind = "cart"])
  /\ loading' = TRUE
  /\ UNCHANGED << shared, initialized, pending >>

\* The header loads the cart once.
headerLoads(s) ==
  /\ ~initialized /\ ~loading
  /\ refreshCart(s)
  /\ UNCHANGED << serverVars, route, cartPage, form, quote, presses, losses >>

handleCartClick(s) ==
  /\ shared = << >> /\ ~loading /\ Press
  /\ refreshCart(s)
  /\ UNCHANGED << serverVars, route, cartPage, form, quote, losses >>

runAction(s, action, call) ==
  /\ Call(s, Bumped, [call EXCEPT !.kind = "change", !.action = action])
  /\ loading' = FALSE /\ initialized' = TRUE
  /\ pending' = action
  /\ Press
  /\ UNCHANGED << serverVars, shared, route, cartPage, form, quote, losses >>

\* A card of the catalogue, or its quick view.
addProduct(s, p, qty) ==
  /\ route = "catalog" /\ pending # << "add", p >>
  /\ runAction(s, << "add", p >>, [Idle EXCEPT !.op = "add", !.product = {p}, !.qty = qty])

\* The mini cart: only the last action disables its row.
miniUpdate(s, r, qty) ==
  /\ r \in RowsOf(shared) /\ pending \notin {<< "update", r >>, << "remove", r >>}
  /\ qty \in {shared[1][r] - 1, shared[1][r] + 1} \cap 1..MaxAmount
  /\ runAction(s, << "update", r >>, [Idle EXCEPT !.op = "update", !.row = {r}, !.qty = qty])

miniRemove(s, r) ==
  /\ r \in RowsOf(shared) /\ pending \notin {<< "update", r >>, << "remove", r >>}
  /\ runAction(s, << "remove", r >>, [Idle EXCEPT !.op = "remove", !.row = {r}])

receiveAction(s) ==
  LET c == wire[s] IN
  /\ c.kind = "change" /\ ~c.page /\ Settled(c)
  /\ shared' = IF c.ok THEN c.ans ELSE shared
  /\ pending' = IF pending = c.action THEN << >> ELSE pending
  /\ wire' = [wire EXCEPT ![s] = Idle]
  /\ UNCHANGED << serverVars, loading, initialized, route, cartPage, form, quote, presses, losses >>

receiveShared(s) ==
  LET c == wire[s] IN
  /\ c.kind = "cart" /\ ~c.page /\ Settled(c)
  /\ IF c.fresh
     THEN /\ shared' = IF c.ok THEN c.ans ELSE shared
          /\ loading' = FALSE /\ initialized' = TRUE
     ELSE UNCHANGED << shared, loading, initialized >>
  /\ wire' = [wire EXCEPT ![s] = Idle]
  /\ UNCHANGED << serverVars, pending, route, cartPage, form, quote, presses, losses >>

------------------------------------------------------------------------------
(* The cart page. *)

\* The pages are left: their calls end unheard, but a cart still goes to the context.
Left == [s \in Wires |-> [wire[s] EXCEPT !.fresh = @ /\ wire[s].kind \in {"cart", "change"}
                                                  /\ ~wire[s].page]]

openCart ==
  /\ route # "cart" /\ Press
  /\ route' = "cart"
  /\ wire' = Left
  /\ cartPage' = [NoCartPage EXCEPT !.due = TRUE, !.loading = TRUE]
  /\ form' = NoCheckout /\ quote' = NoTotal
  /\ UNCHANGED << serverVars, contextVars, losses >>

retryCart ==
  /\ route = "cart" /\ ~cartPage.loading /\ cartPage.snapshot = << >> /\ Press
  /\ cartPage' = [cartPage EXCEPT !.due = TRUE, !.loading = TRUE]
  /\ UNCHANGED << serverVars, contextVars, route, form, quote, wire, losses >>

fetchCart(s) ==
  /\ cartPage.due
  /\ cartPage' = [cartPage EXCEPT !.due = FALSE]
  /\ Call(s, wire, [Idle EXCEPT !.kind = "cart", !.page = TRUE])
  /\ UNCHANGED << serverVars, contextVars, route, form, quote, presses, losses >>

\* replaceCart: the page's cart becomes everybody's.
replaceCart(snapshot, s) ==
  /\ shared' = snapshot /\ loading' = FALSE /\ initialized' = TRUE
  /\ wire' = [Stale(IF wire[s].fresh THEN {"quote"} ELSE {}, Bumped) EXCEPT ![s] = Idle]
  /\ UNCHANGED pending

\* fetchCart: everything is selected.
receiveCart(s) ==
  LET c == wire[s] rows == RowsOf(c.ans) IN
  /\ c.kind = "cart" /\ c.page /\ Settled(c)
  /\ IF c.ok THEN replaceCart(c.ans, s)
     ELSE wire' = [wire EXCEPT ![s] = Idle] /\ UNCHANGED contextVars
  /\ IF c.fresh /\ c.ok
     THEN /\ cartPage' = [cartPage EXCEPT !.snapshot = c.ans, !.loading = FALSE, !.selected = rows]
          /\ QuoteAgain(rows # {})
     ELSE /\ cartPage' = IF c.fresh THEN [cartPage EXCEPT !.loading = FALSE] ELSE cartPage
          /\ UNCHANGED quote
  /\ UNCHANGED << serverVars, route, form, presses, losses >>

\* runUpdate: the row is busy, the others are not.
runUpdate(s, r, op, qty) ==
  /\ route = "cart" /\ ~cartPage.loading /\ r \in RowsOf(cartPage.snapshot) \ cartPage.busy
  /\ op = "update" => qty \in {cartPage.snapshot[1][r] - 1, cartPage.snapshot[1][r] + 1}
  /\ Press
  /\ Call(s, wire, [Idle EXCEPT !.kind = "change", !.op = op, !.row = {r}, !.qty = qty, !.page = TRUE])
  /\ cartPage' = [cartPage EXCEPT !.busy = @ \cup {r}]
  /\ UNCHANGED << serverVars, contextVars, route, form, quote, losses >>

BusyAfter(c) == cartPage.busy \ c.row

\* acceptCart: what is gone is not selected any more.
receiveUpdate(s) ==
  LET c == wire[s] kept == cartPage.selected \cap RowsOf(c.ans) IN
  /\ c.kind = "change" /\ c.page /\ Settled(c)
  /\ IF c.ok THEN replaceCart(c.ans, s)
     ELSE wire' = [wire EXCEPT ![s] = Idle] /\ UNCHANGED contextVars
  /\ IF c.fresh /\ c.ok
     THEN /\ cartPage' = [cartPage EXCEPT !.snapshot = c.ans, !.selected = kept,
                                            !.busy = BusyAfter(c)]
          /\ QuoteAgain(kept # {})
     ELSE /\ cartPage' = IF c.fresh THEN [cartPage EXCEPT !.busy = BusyAfter(c)] ELSE cartPage
          /\ UNCHANGED quote
  /\ UNCHANGED << serverVars, route, form, presses, losses >>

\* A box of a row, or "all".
select(rows) ==
  /\ route = "cart" /\ ~cartPage.loading /\ Press
  /\ rows # cartPage.selected
  /\ \/ rows \in {{}, RowsOf(cartPage.snapshot)}
     \/ \E r \in RowsOf(cartPage.snapshot) : rows \in {cartPage.selected \cup {r}, cartPage.selected \ {r}}
  /\ cartPage' = [cartPage EXCEPT !.selected = rows]
  /\ QuoteAgain(rows # {})
  /\ wire' = Stale({"quote"}, wire)
  /\ UNCHANGED << serverVars, contextVars, route, form, losses >>

------------------------------------------------------------------------------
(* The total. *)

\* The timer of the page fires.
askQuote(s) ==
  /\ quote.due
  /\ Call(s, wire, [Idle EXCEPT !.kind = "quote", !.form = Wanted])
  /\ quote' = [quote EXCEPT !.due = FALSE, !.loading = TRUE]
  /\ UNCHANGED << serverVars, contextVars, route, cartPage, form, presses, losses >>

\* Mutants: an answer of an older form is shown; a failure leaves the total awaited.
QuoteAfterAny(c) ==
  IF c.ok THEN [quote EXCEPT !.of = c.form, !.loading = FALSE]
  ELSE [quote EXCEPT !.failed = TRUE, !.loading = FALSE]

QuoteAfterSuccess(c) ==
  IF ~c.fresh THEN quote
  ELSE IF c.ok THEN [quote EXCEPT !.of = c.form, !.loading = FALSE]
  ELSE [quote EXCEPT !.failed = TRUE]

QuoteAfter(c) ==
  IF ~c.fresh THEN quote
  ELSE IF c.ok THEN [quote EXCEPT !.of = c.form, !.loading = FALSE]
  ELSE [quote EXCEPT !.failed = TRUE, !.loading = FALSE]

receiveQuote(s) ==
  LET c == wire[s] IN
  /\ c.kind = "quote" /\ Settled(c)
  /\ quote' = QuoteAfter(c)
  /\ wire' = [wire EXCEPT ![s] = Idle]
  /\ UNCHANGED << serverVars, contextVars, route, cartPage, form, presses, losses >>

------------------------------------------------------------------------------
(* The checkout page. *)

\* With an address: its methods are asked for, the old ones stay until they come.
Checkout(sel, a) == [NoCheckout EXCEPT !.sel = sel, !.addr = a, !.asks = TRUE]

goCheckout ==
  /\ route = "cart" /\ cartPage.selected # {} /\ ~quote.loading /\ quote.of # NoForm /\ Press
  /\ route' = "checkout"
  /\ \E a \in Addresses : form' = Checkout(cartPage.selected, a)
  /\ cartPage' = NoCartPage /\ quote' = NoTotal
  /\ wire' = Left
  /\ UNCHANGED << serverVars, contextVars, losses >>

chooseAddress(a) ==
  /\ route = "checkout" /\ a # form.addr /\ Press
  /\ form' = [form EXCEPT !.addr = a, !.asks = TRUE]
  /\ QuoteAgain(form.method # NoMethod)
  /\ wire' = Stale({"quote", "methods"}, wire)
  /\ UNCHANGED << serverVars, contextVars, route, cartPage, losses >>

askMethods(s) ==
  /\ form.asks
  /\ form' = [form EXCEPT !.asks = FALSE]
  /\ Call(s, wire, [Idle EXCEPT !.kind = "methods", !.form = CheckoutForm(form)])
  /\ UNCHANGED << serverVars, contextVars, route, cartPage, quote, presses, losses >>

\* The method stays if the new address has it, or else the first is taken.
receiveMethods(s) ==
  LET c == wire[s]
      list == Serves[c.form.addr]
      method == IF Contains(list, form.method) THEN form.method
                ELSE IF list = << >> THEN NoMethod ELSE list[1] IN
  /\ c.kind = "methods" /\ Settled(c)
  /\ IF c.fresh /\ c.ok
     THEN /\ form' = [form EXCEPT !.methods = list, !.method = method]
          /\ IF method # form.method
             THEN /\ QuoteAgain(method # NoMethod)
                  /\ wire' = [Stale({"quote"}, wire) EXCEPT ![s] = Idle]
             ELSE UNCHANGED quote /\ wire' = [wire EXCEPT ![s] = Idle]
     ELSE UNCHANGED << form, quote >> /\ wire' = [wire EXCEPT ![s] = Idle]
  /\ UNCHANGED << serverVars, contextVars, route, cartPage, presses, losses >>

chooseMethod(m) ==
  /\ route = "checkout" /\ m # form.method /\ Contains(form.methods, m) /\ Press
  /\ form' = [form EXCEPT !.method = m]
  /\ QuoteAgain(TRUE)
  /\ wire' = Stale({"quote"}, wire)
  /\ UNCHANGED << serverVars, contextVars, route, cartPage, losses >>

\* One key for one payload; presses number the keys.
KeyOf(payload, new) == IF form.signature = payload THEN form.key ELSE new

submit(s) ==
  LET payload == CheckoutForm(form)
      key == KeyOf(payload, presses') IN
  /\ route = "checkout" /\ ~form.submitting /\ Press
  /\ form.method # NoMethod /\ quote.of # NoForm /\ ~quote.loading
  /\ form' = [form EXCEPT !.submitting = TRUE, !.signature = payload, !.key = key]
  /\ Call(s, wire, [Idle EXCEPT !.kind = "checkout", !.op = "checkout", !.form = payload, !.key = key])
  /\ UNCHANGED << serverVars, contextVars, route, cartPage, quote, losses >>

\* The order's page opens, whatever page is open by then.
receiveCheckout(s) ==
  LET c == wire[s] IN
  /\ c.kind = "checkout" /\ Settled(c)
  /\ IF c.ok
     THEN /\ route' = "order"
          /\ form' = [NoCheckout EXCEPT !.key = c.key, !.signature = c.form]
          /\ cartPage' = NoCartPage /\ quote' = NoTotal
          /\ wire' = [Left EXCEPT ![s] = Idle]
     ELSE /\ form' = IF c.fresh THEN [form EXCEPT !.submitting = FALSE] ELSE form
          /\ wire' = [wire EXCEPT ![s] = Idle]
          /\ UNCHANGED << route, cartPage, quote >>
  /\ UNCHANGED << serverVars, contextVars, presses, losses >>

openCatalog ==
  /\ route # "catalog" /\ Press
  /\ route' = "catalog"
  /\ cartPage' = NoCartPage /\ form' = NoCheckout /\ quote' = NoTotal
  /\ wire' = Left
  /\ UNCHANGED << serverVars, contextVars, losses >>

------------------------------------------------------------------------------
(* The server. *)

Answer(s, ok, ans) ==
  wire' = [wire EXCEPT ![s] = IF wire[s].kind = "ghost" THEN Idle
                              ELSE [wire[s] EXCEPT !.state = "done", !.ok = ok, !.ans = ans]]

clientVars == << contextVars, route, cartPage, form, quote, presses, losses >>

getCart(s) ==
  /\ wire[s].kind = "cart" /\ wire[s].state = "sent"
  /\ Answer(s, TRUE, Snapshot)
  /\ UNCHANGED << serverVars, clientVars >>

Delivered(f) == f.addr \in Addresses => Contains(Serves[f.addr], f.method)

\* Mutants: the key is looked up among the carts; the rows are those that the page shows.
KnownCart(key) == \E o \in orders : o.key = key /\ o.rows \subseteq cart

PossibleAsShown(f) == Delivered(f)

Known(key) == \E o \in orders : o.key = key

Possible(f) == f.sel \subseteq cart /\ Delivered(f)

\* quote and delivery-methods; a selection that is not in the cart is refused.
answerQuestion(s) ==
  LET c == wire[s] f == c.form IN
  /\ c.kind \in {"quote", "methods"} /\ c.state = "sent"
  /\ Answer(s, c.kind = "quote" => Possible(f), << >>)
  /\ UNCHANGED << serverVars, clientVars >>

Target(c) == IF c.op = "add" THEN {r \in cart : of[r] \in c.product} ELSE c.row

\* addItem, updateItemQuantity, removeItem find their row ...
findRow(s) ==
  LET c == wire[s] IN
  /\ c.op \in {"add", "update", "remove"} /\ c.state = "sent"
  /\ IF c.op # "add" /\ ~c.row \subseteq cart
     THEN Answer(s, FALSE, << >>)
     ELSE wire' = [wire EXCEPT ![s].row = Target(c), ![s].state = "found"]
  /\ UNCHANGED << serverVars, clientVars >>

\* ... and write it, wherever it is by now; a product without a row gets one.
writeRow(s) ==
  LET c == wire[s] IN
  /\ c.state = "found"
  /\ IF c.row = {}
     THEN LET new == {r \in Rows : of[r] \in c.product /\ r \notin used} IN
          /\ new # {}   \* bound: the rows of the instance
          /\ cart' = cart \cup {Min(new)} /\ used' = used \cup {Min(new)}
          /\ amount' = [amount EXCEPT ![Min(new)] = c.qty]
     ELSE \E r \in c.row :
            /\ cart' = IF c.op = "remove" THEN cart \ {r} ELSE cart
            /\ used' = used
            /\ amount' = [amount EXCEPT ![r] = IF c.op = "remove" \/ @ = 0 THEN 0 ELSE c.qty]
  /\ UNCHANGED << orders, clientVars >>
  /\ Answer(s, TRUE, << [r \in Rows |-> IF r \in cart' THEN amount'[r] ELSE 0] >>)

\* The checkout: a known key is answered with its order, before and after the lock.
checkout(s) ==
  LET c == wire[s] f == c.form IN
  /\ c.key > 0 /\ c.state = "sent"
  /\ IF Known(c.key) \/ ~Possible(f) THEN UNCHANGED serverVars
     ELSE /\ cart' = cart \ f.sel
          /\ orders' = orders \cup {[key |-> c.key, form |-> f, rows |-> f.sel,
                                     reserved |-> [r \in f.sel |-> amount[r]]]}
          /\ UNCHANGED << amount, used >>
  /\ Answer(s, Known(c.key) \/ Possible(f), << >>)
  /\ UNCHANGED clientVars

\* The network fails: the answer is lost, or the request, which the server may yet get.
Cut(c) == [c EXCEPT !.state = "lost", !.ok = FALSE, !.ans = << >>]

lose(s) ==
  LET c == wire[s] IN
  /\ c.kind \notin {"idle", "ghost"} /\ c.state # "lost"
  /\ losses < MaxLosses /\ losses' = losses + 1
  /\ \/ wire' = [wire EXCEPT ![s] = Cut(c)]
     \/ /\ c.kind \in {"change", "checkout"} /\ ~Settled(c)
        /\ \E g \in Wires : /\ wire[g].kind = "idle"
                            /\ wire' = [wire EXCEPT ![s] = Cut(c), ![g] = [c EXCEPT !.kind = "ghost"]]
  /\ UNCHANGED << serverVars, contextVars, route, cartPage, form, quote, presses >>

\* The tab is loaded anew; the selection of the checkout is in the session's storage.
reload ==
  /\ Press
  /\ shared' = << >> /\ loading' = FALSE /\ initialized' = FALSE /\ pending' = << >>
  /\ cartPage' = IF route = "cart" THEN [NoCartPage EXCEPT !.due = TRUE, !.loading = TRUE]
                 ELSE NoCartPage
  /\ IF route = "checkout" THEN \E a \in Addresses : form' = Checkout(form.sel, a)
     ELSE UNCHANGED form
  /\ quote' = NoTotal
  /\ wire' = [s \in Wires |-> IF wire[s].op = "none" \/ Settled(wire[s]) THEN Idle
                              ELSE [wire[s] EXCEPT !.kind = "ghost"]]
  /\ UNCHANGED << serverVars, route, losses >>

------------------------------------------------------------------------------
ShopInit ==
  /\ cart \in SUBSET {r \in Rows : \A q \in Rows : of[q] = of[r] => r <= q}
  /\ amount = [r \in Rows |-> IF r \in cart THEN 1 ELSE 0] /\ used = cart /\ orders = {}
  /\ loading = FALSE /\ pending = << >> /\ cartPage = NoCartPage /\ quote = NoTotal
  /\ \/ /\ route = "catalog" /\ form = NoCheckout
        /\ shared = << >> /\ initialized = FALSE
     \/ /\ route = "checkout" /\ cart # {} \* the cart page has been passed
        /\ \E sel \in (SUBSET cart) \ {{}}, a \in Addresses : form = Checkout(sel, a)
        /\ shared = Snapshot /\ initialized = TRUE
  /\ wire = [s \in Wires |-> Idle] /\ presses = 0 /\ losses = 0

Served(s) == getCart(s) \/ answerQuestion(s) \/ findRow(s) \/ writeRow(s) \/ checkout(s)

Applied(s) == \/ receiveAction(s) \/ receiveShared(s) \/ receiveCart(s) \/ receiveUpdate(s)
              \/ receiveQuote(s) \/ receiveMethods(s) \/ receiveCheckout(s)

Effects(s) == headerLoads(s) \/ fetchCart(s) \/ askQuote(s) \/ askMethods(s)

ShopNext ==
  \/ \E s \in Wires :
       \/ Served(s) \/ Applied(s) \/ Effects(s) \/ lose(s)
       \/ handleCartClick(s) \/ submit(s)
       \/ \E p \in Products, n \in 1..MaxAmount : addProduct(s, p, n)
       \/ \E r \in Rows : \/ miniRemove(s, r) \/ runUpdate(s, r, "remove", 0)
                          \/ \E n \in 1..MaxAmount : miniUpdate(s, r, n) \/ runUpdate(s, r, "update", n)
  \/ openCart \/ retryCart \/ goCheckout \/ openCatalog \/ reload
  \/ \E rows \in SUBSET Rows : select(rows)
  \/ \E a \in Addresses : chooseAddress(a)
  \/ \E m \in Methods : chooseMethod(m)

\* Calls are answered or cut off, what settles is applied, effects run and timers
\* fire; nobody has to press a button.
ShopFairness ==
  /\ \A s \in Wires : WF_shopVars(Served(s)) /\ WF_shopVars(Applied(s))
  /\ WF_shopVars(\E s \in Wires : fetchCart(s))
  /\ WF_shopVars(\E s \in Wires : askMethods(s))
  /\ WF_shopVars(\E s \in Wires : askQuote(s))

ShopSpec == ShopInit /\ [][ShopNext]_shopVars /\ ShopFairness

------------------------------------------------------------------------------
(* Properties. *)

\* A row of the cart is bought once: a double click, a retry with the same key, a
\* request that comes late and a checkout after a reload never put it in a second
\* order, nor leave it in the cart (CheckoutService, idempotency and locks).
RowsOrderedOnce ==
  /\ cart \cap Ordered = {}
  /\ \A o1, o2 \in orders : o1 # o2 => o1.rows \cap o2.rows = {} /\ o1.key # o2.key

\* A retry of a checkout that was carried out is never refused.
RetryIsAnswered ==
  \A s \in Wires : wire[s].kind = "checkout" /\ wire[s].state = "done" /\ ~wire[s].ok
                    => \A o \in orders : o.key # wire[s].key

\* The order that the customer is led to is of the form that was submitted last,
\* also when an earlier submission was carried out and its answer lost.
SubmittedIsShown ==
  route = "order" => \E o \in orders : o.key = form.key /\ o.form = form.signature

\* The answer of an older quote never comes over the total of a newer choice: a total that
\* comes onto a page is of what is selected there by then, whatever has been chosen, changed
\* on the server or left while quotes were under way (CartPage.tsx:113-114).
TotalIsOfForm ==
  [][quote'.of # quote.of => quote'.of \in {NoForm, Wanted'}]_shopVars

\* CartPage.tsx:255 says that the sum beside the cart shows the server's quote of the rows
\* that are selected: so it would be when the customer goes on to the checkout with it, and
\* that of the checkout when the order is submitted.
TotalGoesOn ==
  [][/\ route = "cart" /\ route' = "checkout" => quote.of = Wanted
     /\ ~form.submitting /\ form'.submitting => quote.of = Wanted]_shopVars

\* A customer who waits gets the total of what is selected, or an error, and the
\* button to go on with it.
QuoteSettles ==
  <>[](\/ Wanted.sel = {} \/ (route = "checkout" /\ form.method = NoMethod)
       \/ ~quote.loading /\ ~quote.due /\ (quote.failed \/ quote.of = Wanted))

\* CustomerCartContext.tsx:114 says that a slow GET does not wipe out a row that was
\* added meanwhile: no row that the cart has leaves the shared cart shown.
AddedStays ==
  [][shared' # << >> => RowsOf(shared) \cap cart \subseteq RowsOf(shared')]_shopVars
===============================================================================
