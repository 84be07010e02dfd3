-------------------------- MODULE CustomerTab_proofs --------------------------
(***************************************************************************)
(* Proofs about the cart and the checkout of a customer, for any           *)
(* products, rows, addresses, methods, calls in flight, presses and        *)
(* losses: a row is ordered once, a retry of a checkout that was carried   *)
(* out is answered, a total that comes onto a page is of what is selected  *)
(* there by then, and the order shown is of the form submitted last.  The  *)
(* inductive invariant is ShopInv.  Then about the account of the tab, for *)
(* any users, staff and calls: a heart waits only for a toggle that is     *)
(* under way (HeartInv), and who is shown is who is cached.                *)
(***************************************************************************)
EXTENDS CustomerTab, SequenceTheorems, WellFoundedInduction, TLAPS

\* What a total is asked for, and an order made of.
Forms == [sel : SUBSET Rows, addr : Addresses \cup {0}, method : Methods \cup {NoMethod}]

\* The carts that answers bring.
Snapshots == Seq([Rows -> Nat])

\* What the context has in hand.
Actions == Seq({"add", "update", "remove"} \cup Products \cup Rows)

\* The calls, by their fields.
CallRecords ==
  [kind : {"idle", "ghost", "cart", "change", "quote", "methods", "checkout"},
   op : {"none", "add", "update", "remove", "checkout"}, row : SUBSET Rows,
   product : SUBSET Products, qty : Nat, action : Actions, form : Forms, key : Nat,
   state : {"none", "sent", "found", "done", "lost"}, ok : BOOLEAN, ans : Snapshots,
   fresh : BOOLEAN, page : BOOLEAN]

\* Only checkouts have a key; what a call asks for fits its kind; no cut-off call is ok.
CallShaped(c) ==
  /\ c \in CallRecords
  /\ c.key > 0 => c.op = "checkout"
  /\ c.kind = "checkout" => c.key > 0
  /\ c.kind = "quote" => c.op = "none"
  /\ c.kind = "methods" => c.form.addr \in Addresses
  /\ c.state = "found" => c.op \in {"add", "update", "remove"}
  /\ c.state = "lost" => ~c.ok
  /\ c.kind = "idle" => c.op = "none"

\* The states of the cart page.
CartPages == [snapshot : Snapshots, due : BOOLEAN, loading : BOOLEAN,
              selected : SUBSET Rows, busy : SUBSET Rows]

\* The states of the checkout page.
CheckoutPages == [sel : SUBSET Rows, addr : Addresses \cup {0}, methods : Seq(Methods),
                  method : Methods \cup {NoMethod}, asks : BOOLEAN, submitting : BOOLEAN,
                  key : Nat, signature : Forms]

\* The states of the total that a page shows.
Totals == [of : Forms, loading : BOOLEAN, due : BOOLEAN, failed : BOOLEAN]

\* The types of the server: whatever was sold had a number of its cart.
ServerTypes ==
  /\ cart \subseteq used /\ used \subseteq Rows /\ amount \in [Rows -> Nat]
  /\ \A o \in orders : o.key \in Nat /\ o.form \in Forms /\ o.rows \subseteq used

\* The types of the pages and of the shared cart.
PageTypes ==
  /\ shared \in Snapshots /\ presses \in Nat
  /\ cartPage \in CartPages
  /\ form \in CheckoutPages
  /\ form.asks => form.addr \in Addresses
  /\ quote \in Totals

\* The types of the calls in flight.
WireTypes == wire \in [Wires -> CallRecords] /\ \A s \in Wires : CallShaped(wire[s])

\* The pages know no row that the cart never had ...
PagesUsed ==
  /\ RowsOf(shared) \subseteq used /\ RowsOf(cartPage.snapshot) \subseteq used
  /\ cartPage.selected \subseteq used /\ form.sel \subseteq used

\* ... nor do the calls: a row that is yet to come is in no form.
CallsUsed == \A s \in Wires : RowsOf(wire[s].ans) \subseteq used /\ wire[s].form.sel \subseteq used

\* The pairs of a key and a form: of calls that may reach the server, of the page, of
\* the orders.
Submitted == {[key |-> wire[s].key, form |-> wire[s].form] : s \in {t \in Wires : wire[t].key > 0}}
             \cup {[key |-> form.key, form |-> form.signature]}
             \cup {[key |-> o.key, form |-> o.form] : o \in orders}

\* A key stands for one form wherever it is, and the next one is new.
KeysAgree ==
  /\ \A a \in Submitted : a.key <= presses /\ (a.key = 0 => a.form = NoForm)
  /\ \A a, b \in Submitted : a.key = b.key => a.form = b.form

\* What a checkout was answered still holds when the page hears of it.
AnswersAgree ==
  \A s \in Wires : wire[s].kind = "checkout" /\ wire[s].state = "done" =>
    IF wire[s].ok THEN \E o \in orders : o.key = wire[s].key /\ o.form = wire[s].form
    ELSE ~Known(wire[s].key) /\ ~Possible(wire[s].form)

\* A total whose answer the page will take.
FreshQuote(c) == c.kind = "quote" /\ c.fresh

\* Such a total is of what the page wants.
QuotesAreCurrent == \A s \in Wires : FreshQuote(wire[s]) => wire[s].form = Wanted

\* What is kept of the server ...
ServerInv == ServerTypes /\ RowsOrderedOnce

\* ... of the calls ...
WireInv == WireTypes /\ CallsUsed /\ AnswersAgree

\* ... of the pages ...
PageInv == PageTypes /\ PagesUsed

\* ... of the keys ...
KeyInv == KeysAgree /\ SubmittedIsShown

\* The inductive invariant.
ShopInv == ServerInv /\ WireInv /\ PageInv /\ KeyInv /\ QuotesAreCurrent

------------------------------------------------------------------------------
(* The wires after a step of the pages. *)

\* What becomes of a call when pages move: it is forgotten, or nobody listens to it.
Kept(c, d) ==
  /\ CallShaped(d)
  /\ \/ d.kind = "idle" /\ d.key = 0 /\ d.ans = << >> /\ d.form = NoForm
     \/ /\ d.kind = c.kind \/ (d.kind = "ghost" /\ c.kind # "idle")
        /\ d.key = c.key /\ d.form = c.form /\ d.state = c.state
        /\ d.ok = c.ok /\ d.ans = c.ans /\ (d.fresh => c.fresh)

\* A call on the wire that is not answered: one that begins, or is cut off.
New(d) ==
  CallShaped(d) /\ d.state # "done" /\ RowsOf(d.ans) \subseteq used /\ d.form.sel \subseteq used

\* The wires after a step of the pages that asks for nothing.
WiresFrom(w) == w \in [Wires -> CallRecords] /\ \A t \in Wires : Kept(wire[t], w[t])

\* The totals listened to are those that were.
Calm(w) == \A t \in Wires : FreshQuote(w[t]) <=> FreshQuote(wire[t])

\* No total is listened to.
Silent(w) == \A t \in Wires : ~FreshQuote(w[t])

\* The empty values have their types.
LEMMA Nothings ==
  /\ NoForm \in Forms /\ NoForm.sel = {} /\ NoForm.method = NoMethod
  /\ << >> \in Snapshots /\ << >> \in Actions /\ RowsOf(<< >>) = {}
<1>1. NoForm \in Forms /\ NoForm.sel = {} /\ NoForm.method = NoMethod
  BY DEF NoForm, Forms
<1>2. << >> \in Snapshots /\ << >> \in Actions
  BY DEF Snapshots, Actions
<1>3. RowsOf(<< >>) = {}
  BY DEF RowsOf
<1> QED
  BY <1>1, <1>2, <1>3

\* A free wire is a call like the others.
LEMMA IdleIs ==
  /\ CallShaped(Idle) /\ Idle.kind = "idle" /\ Idle.key = 0 /\ Idle.ans = << >>
  /\ Idle.form = NoForm /\ Idle.op = "none"
  BY Nothings DEF Idle, CallShaped, CallRecords

\* A call may always be forgotten.
LEMMA IdleKept == \A c : Kept(c, Idle) /\ ~FreshQuote(Idle)
  BY IdleIs DEF Kept, FreshQuote

\* A call that stays is kept.
LEMMA SelfKept == ASSUME NEW c, CallShaped(c) PROVE Kept(c, c)
  BY DEF Kept, CallShaped

\* What is done to calls twice is done to them.
LEMMA KeptAgain ==
  ASSUME NEW a, NEW b, NEW c, Kept(a, b), Kept(b, c) PROVE Kept(a, c)
  BY DEF Kept

\* A call may be left unheard.
LEMMA FreshKept ==
  ASSUME NEW c, CallShaped(c), NEW b \in BOOLEAN, b => c.fresh
  PROVE  /\ Kept(c, [c EXCEPT !.fresh = b]) /\ [c EXCEPT !.fresh = b] \in CallRecords
         /\ FreshQuote([c EXCEPT !.fresh = b]) <=> c.kind = "quote" /\ b
<1> DEFINE d == [c EXCEPT !.fresh = b]
<1>1. d \in CallRecords
  BY DEF CallShaped, CallRecords
<1>2. /\ d.kind = c.kind /\ d.key = c.key /\ d.form = c.form /\ d.state = c.state /\ d.ok = c.ok
      /\ d.ans = c.ans /\ d.op = c.op
  BY DEF CallShaped, CallRecords
<1>3. d.fresh = b
  BY DEF CallShaped, CallRecords
<1> HIDE DEF d
<1>4. CallShaped(d)
  BY <1>1, <1>2 DEF CallShaped
<1> QED
  BY <1>1, <1>2, <1>3, <1>4 DEF Kept, FreshQuote, d

\* The wires as they are.
LEMMA WireItself == ASSUME WireTypes PROVE WiresFrom(wire) /\ Calm(wire)
  BY SelfKept DEF WireTypes, WiresFrom, Calm

\* The wires after the cleanup of effects.
LEMMA StaleWires ==
  ASSUME WireTypes, NEW w, WiresFrom(w), NEW kinds
  PROVE  /\ WiresFrom(Stale(kinds, w))
         /\ "quote" \in kinds => Silent(Stale(kinds, w))
         /\ "quote" \notin kinds /\ Calm(w) => Calm(Stale(kinds, w))
<1> DEFINE v == Stale(kinds, w)
<1>1. ASSUME NEW t \in Wires
      PROVE  /\ v[t] \in CallRecords /\ Kept(wire[t], v[t])
             /\ FreshQuote(v[t]) <=> FreshQuote(w[t]) /\ "quote" \notin kinds
  <2>1. CallShaped(w[t]) /\ w[t] \in CallRecords /\ Kept(wire[t], w[t])
    BY <1>1 DEF WiresFrom, Kept
  <2>2. CASE w[t].kind \in kinds
    <3> DEFINE d == [w[t] EXCEPT !.fresh = FALSE]
    <3>1. v[t] = d
      BY <2>2 DEF Stale
    <3>2. Kept(w[t], d) /\ d \in CallRecords /\ ~FreshQuote(d)
      BY <2>1, FreshKept
    <3> HIDE DEF d, v
    <3> QED
      BY <2>1, <2>2, <3>1, <3>2, KeptAgain DEF FreshQuote
  <2>3. CASE w[t].kind \notin kinds
    <3>1. v[t] = w[t]
      BY <2>3 DEF Stale
    <3> QED
      BY <2>1, <2>3, <3>1 DEF FreshQuote
  <2> QED
    BY <2>2, <2>3
<1>2. v = [t \in Wires |-> v[t]]
  BY DEF Stale
<1> HIDE DEF v
<1>3. v \in [Wires -> CallRecords]
  BY <1>1, <1>2
<1> QED
  BY <1>1, <1>3 DEF WiresFrom, Silent, Calm, v

\* The wires when the version of the requests has grown.
LEMMA BumpedWires == ASSUME WireTypes PROVE WiresFrom(Bumped) /\ Calm(Bumped)
<1>1. ASSUME NEW t \in Wires
      PROVE  /\ Bumped[t] \in CallRecords /\ Kept(wire[t], Bumped[t])
             /\ FreshQuote(Bumped[t]) <=> FreshQuote(wire[t])
  <2>1. CallShaped(wire[t]) /\ wire[t] \in CallRecords
    BY <1>1 DEF WireTypes
  <2>2. CASE wire[t].kind = "cart" /\ ~wire[t].page
    <3> DEFINE d == [wire[t] EXCEPT !.fresh = FALSE]
    <3>1. Bumped[t] = d
      BY <2>2 DEF Bumped
    <3>2. Kept(wire[t], d) /\ d \in CallRecords /\ ~FreshQuote(d)
      BY <2>1, FreshKept
    <3> HIDE DEF d
    <3> QED
      BY <2>1, <2>2, <3>1, <3>2 DEF FreshQuote
  <2>3. CASE ~(wire[t].kind = "cart" /\ ~wire[t].page)
    <3>1. Bumped[t] = wire[t]
      BY <2>3 DEF Bumped
    <3> QED
      BY <2>1, <2>3, <3>1, SelfKept DEF FreshQuote
  <2> QED
    BY <2>2, <2>3
<1>2. Bumped = [t \in Wires |-> Bumped[t]]
  BY DEF Bumped
<1>3. Bumped \in [Wires -> CallRecords]
  BY <1>1, <1>2
<1> QED
  BY <1>1, <1>3 DEF WiresFrom, Calm

\* The wires when a page was left.
LEMMA LeftWires == ASSUME WireTypes PROVE WiresFrom(Left) /\ Silent(Left)
<1>1. ASSUME NEW t \in Wires
      PROVE  Left[t] \in CallRecords /\ Kept(wire[t], Left[t]) /\ ~FreshQuote(Left[t])
  <2> DEFINE b == wire[t].fresh /\ wire[t].kind \in {"cart", "change"} /\ ~wire[t].page
  <2>1. CallShaped(wire[t]) /\ wire[t].fresh \in BOOLEAN /\ b \in BOOLEAN
    BY <1>1 DEF WireTypes, CallRecords
  <2>2. Left[t] = [wire[t] EXCEPT !.fresh = b]
    BY DEF Left
  <2>3. (b => wire[t].fresh) /\ (b => wire[t].kind # "quote")
    OBVIOUS
  <2> HIDE DEF b
  <2> QED
    BY <2>1, <2>2, <2>3, FreshKept
<1>2. Left = [t \in Wires |-> Left[t]]
  BY DEF Left
<1>3. Left \in [Wires -> CallRecords]
  BY <1>1, <1>2
<1> QED
  BY <1>1, <1>3 DEF WiresFrom, Silent

\* The wires when one of them has become free.
LEMMA IdleWires ==
  ASSUME WireTypes, NEW w, WiresFrom(w), NEW s \in Wires
  PROVE  /\ WiresFrom([w EXCEPT ![s] = Idle])
         /\ Silent(w) => Silent([w EXCEPT ![s] = Idle])
         /\ Calm(w) /\ ~FreshQuote(wire[s]) => Calm([w EXCEPT ![s] = Idle])
<1> DEFINE v == [w EXCEPT ![s] = Idle]
<1>1. w \in [Wires -> CallRecords] /\ Idle \in CallRecords
  BY IdleIs DEF WiresFrom, CallShaped
<1>2. v \in [Wires -> CallRecords] /\ v[s] = Idle /\ \A t \in Wires \ {s} : v[t] = w[t]
  BY <1>1
<1> HIDE DEF v
<1> QED
  BY <1>2, IdleKept DEF WiresFrom, Silent, Calm, v

\* The call goes out on the wire.
Sends(w, s, d) == w[s].kind = "idle" /\ wire' = [w EXCEPT ![s] = d]

\* The wires with a call more.
LEMMA CallWires ==
  ASSUME WireTypes, NEW w, WiresFrom(w), Calm(w), NEW s \in Wires, NEW d, New(d), Sends(w, s, d)
  PROVE  /\ wire' \in [Wires -> CallRecords] /\ wire'[s] = d
         /\ \A t \in Wires \ {s} : Kept(wire[t], wire'[t])
         /\ \A t \in Wires \ {s} : FreshQuote(wire'[t]) <=> FreshQuote(wire[t])
         /\ ~FreshQuote(wire[s])
<1>1. w \in [Wires -> CallRecords] /\ d \in CallRecords
  BY DEF WiresFrom, New, CallShaped
<1>2. w[s].kind = "idle" /\ wire' = [w EXCEPT ![s] = d]
  BY DEF Sends
<1>3. wire' \in [Wires -> CallRecords] /\ wire'[s] = d /\ \A t \in Wires \ {s} : wire'[t] = w[t]
  BY <1>1, <1>2
<1> QED
  BY <1>2, <1>3 DEF WiresFrom, Calm, FreshQuote

------------------------------------------------------------------------------
(* A step of the pages. *)

\* Nothing changes on the server; calls end, are not heard any more, or begin.
WiresStep == /\ wire' \in [Wires -> CallRecords]
             /\ \A t \in Wires : Kept(wire[t], wire'[t]) \/ New(wire'[t])

\* Pages do nothing to the server, and to what it has answered.
LEMMA WiresKept ==
  ASSUME ServerInv, WireInv, UNCHANGED serverVars, WiresStep PROVE ServerInv' /\ WireInv'
<1>1. UNCHANGED << cart, amount, orders, used >>
  BY DEF serverVars
<1>2. ServerInv'
  BY <1>1 DEF ServerInv, ServerTypes, RowsOrderedOnce, Ordered
<1>3. WireTypes'
  BY DEF WiresStep, WireTypes, Kept, New
<1>4. CallsUsed'
  BY <1>1, Nothings DEF WiresStep, WireInv, CallsUsed, Kept, New, RowsOf
<1>5. AnswersAgree'
  <2> SUFFICES ASSUME NEW s \in Wires, wire'[s].kind = "checkout", wire'[s].state = "done"
               PROVE  IF wire'[s].ok
                      THEN \E o \in orders : o.key = wire'[s].key /\ o.form = wire'[s].form
                      ELSE ~Known(wire'[s].key) /\ ~Possible(wire'[s].form)
    BY <1>1 DEF AnswersAgree, Known, Possible, Delivered
  <2>1. /\ wire'[s].kind = wire[s].kind /\ wire'[s].state = wire[s].state
        /\ wire'[s].ok = wire[s].ok /\ wire'[s].key = wire[s].key /\ wire'[s].form = wire[s].form
    BY DEF WiresStep, Kept, New
  <2> QED
    BY <2>1 DEF WireInv, AnswersAgree
<1> QED
  BY <1>2, <1>3, <1>4, <1>5 DEF WireInv

\* The keys of the calls and of the orders are those there were.
LEMMA KeysKept ==
  ASSUME KeysAgree, PageTypes, presses' \in Nat, presses <= presses', WireTypes, ServerTypes,
         \A a \in Submitted' : a \in Submitted \/ (a.key = 0 /\ a.form = NoForm)
  PROVE  KeysAgree'
<1>1. \A a \in Submitted : a.key \in Nat
  BY DEF Submitted, PageTypes, WireTypes, ServerTypes, CallRecords, CheckoutPages
<1> HIDE DEF Submitted
<1>2. \A a \in Submitted' : a.key <= presses' /\ (a.key = 0 => a.form = NoForm)
  BY <1>1 DEF KeysAgree, PageTypes
<1>3. \A a, b \in Submitted' : a.key = b.key => a.form = b.form
  BY DEF KeysAgree
<1> QED
  BY <1>2, <1>3 DEF KeysAgree

\* The same checkout, if it is one.
Same(c, d) == d.key = c.key /\ d.form = c.form

\* Calls that are kept are of the keys there were.
LEMMA KeptSame ==
  ASSUME NEW w, NEW s, \A t \in Wires \ {s} : Kept(wire[t], w[t]), w[s].key = 0
  PROVE  \A t \in Wires : w[t].key = 0 \/ \E u \in Wires : Same(wire[u], w[t])
  BY DEF Kept, Same

\* Pages that submit nothing know no key that was not there.
LEMMA KeysOfPages ==
  ASSUME KeyInv, PageTypes, presses' \in Nat, presses <= presses', WireTypes, ServerTypes,
         UNCHANGED orders,
         \A t \in Wires : wire'[t].key = 0 \/ \E u \in Wires : Same(wire[u], wire'[t]),
         \/ form'.key = form.key /\ form'.signature = form.signature
         \/ form'.key = 0 /\ form'.signature = NoForm,
         \/ route' # "order"
         \/ route' = route /\ form'.key = form.key /\ form'.signature = form.signature
  PROVE  KeyInv'
<1>1. ASSUME NEW a \in Submitted' PROVE a \in Submitted \/ (a.key = 0 /\ a.form = NoForm)
  <2>1. CASE \E t \in Wires : wire'[t].key > 0 /\ a = [key |-> wire'[t].key, form |-> wire'[t].form]
    <3>1. PICK t \in Wires : wire'[t].key > 0 /\ a = [key |-> wire'[t].key, form |-> wire'[t].form]
      BY <2>1
    <3>2. PICK u \in Wires : wire'[t].key = wire[u].key /\ wire'[t].form = wire[u].form
      BY <3>1 DEF Same
    <3> QED
      BY <3>1, <3>2 DEF Submitted
  <2>2. CASE a = [key |-> form'.key, form |-> form'.signature]
    BY <2>2 DEF Submitted
  <2>3. CASE \E o \in orders : a = [key |-> o.key, form |-> o.form]
    BY <2>3 DEF Submitted
  <2> QED
    BY <2>1, <2>2, <2>3 DEF Submitted
<1>2. KeysAgree'
  BY <1>1, KeysKept DEF KeyInv
<1>3. SubmittedIsShown'
  BY DEF KeyInv, SubmittedIsShown
<1> QED
  BY <1>2, <1>3 DEF KeyInv

\* A total listened to is of the form that it was asked for.
LEMMA CalmForms ==
  ASSUME NEW w, WiresFrom(w) PROVE \A t \in Wires : FreshQuote(w[t]) => w[t].form = wire[t].form
  BY DEF WiresFrom, Kept, FreshQuote

\* Nothing changes in the totals.
LEMMA CalmKeepsQuote ==
  ASSUME QuotesAreCurrent, Calm(wire'), UNCHANGED quote, Wanted' = Wanted,
         \A t \in Wires : FreshQuote(wire'[t]) => wire'[t].form = wire[t].form
  PROVE  QuotesAreCurrent'
  BY DEF QuotesAreCurrent, Calm

\* No answer will be taken.
LEMMA SilentKeepsQuote == ASSUME Silent(wire') PROVE QuotesAreCurrent'
  BY DEF QuotesAreCurrent, Silent, FreshQuote

\* A call begins that asks for no total.
LEMMA CallKeepsQuote ==
  ASSUME QuotesAreCurrent, NEW s \in Wires, ~FreshQuote(wire[s]), ~FreshQuote(wire'[s]),
         \A t \in Wires \ {s} : Kept(wire[t], wire'[t]),
         \A t \in Wires \ {s} : FreshQuote(wire'[t]) <=> FreshQuote(wire[t]),
         UNCHANGED quote, Wanted' = Wanted
  PROVE  QuotesAreCurrent'
<1>1. \A t \in Wires \ {s} : FreshQuote(wire[t]) => wire'[t].form = wire[t].form
  BY DEF Kept, FreshQuote
<1> QED
  BY <1>1 DEF QuotesAreCurrent, FreshQuote

\* What is wanted is a form.
LEMMA Wants == ASSUME PageTypes PROVE Wanted \in Forms
  BY Nothings DEF Wanted, CartForm, CheckoutForm, NoForm, Forms, PageTypes, CartPages,
                  CheckoutPages

\* The effect of the total.
LEMMA AskedAgain ==
  ASSUME PageTypes, NEW b \in BOOLEAN, QuoteAgain(b)
  PROVE  quote' \in Totals
  BY Nothings DEF QuoteAgain, PageTypes, Totals

\* Pages that are closed.
LEMMA NothingOpen ==
  /\ NoTotal \in Totals
  /\ NoTotal.of = NoForm
  /\ NoCartPage \in CartPages
  /\ RowsOf(NoCartPage.snapshot) = {} /\ NoCartPage.selected = {}
  /\ NoCheckout \in CheckoutPages
  /\ NoCheckout.sel = {} /\ ~NoCheckout.asks /\ NoCheckout.key = 0 /\ NoCheckout.signature = NoForm
  BY Nothings DEF NoTotal, NoCartPage, NoCheckout, CartPages, CheckoutPages, Totals

\* The checkout page when it opens.
LEMMA CheckoutOpens ==
  ASSUME NEW sel \in SUBSET Rows, NEW a \in Addresses
  PROVE  /\ Checkout(sel, a) \in CheckoutPages
         /\ Checkout(sel, a).sel = sel /\ Checkout(sel, a).addr = a
         /\ Checkout(sel, a).key = 0 /\ Checkout(sel, a).signature = NoForm
<1>1. NoCheckout \in CheckoutPages
      /\ NoCheckout.key = 0 /\ NoCheckout.signature = NoForm
  BY NothingOpen
<1> QED
  BY <1>1 DEF Checkout, CheckoutPages

\* A press is counted.
LEMMA Pressed == ASSUME Press, presses \in Nat PROVE presses' \in Nat /\ presses <= presses'
  BY DEF Press

\* What PagesMove and the answer of a total have in common.
LEMMA PagesStep ==
  ASSUME ShopInv, UNCHANGED serverVars, presses' \in Nat, presses <= presses', WiresFrom(wire'),
         \/ form'.key = form.key /\ form'.signature = form.signature
         \/ form'.key = 0 /\ form'.signature = NoForm,
         \/ route' # "order"
         \/ route' = route /\ form'.key = form.key /\ form'.signature = form.signature
  PROVE  ServerInv' /\ WireInv' /\ KeyInv'
<1>1. WiresStep
  BY DEF WiresFrom, WiresStep
<1>2. ServerInv' /\ WireInv'
  BY <1>1, WiresKept DEF ShopInv
<1>3. UNCHANGED orders
  BY DEF serverVars
<1>4. \A t \in Wires : wire'[t].key = 0 \/ \E u \in Wires : Same(wire[u], wire'[t])
  BY DEF WiresFrom, Kept, Same
<1>5. KeyInv'
  BY <1>3, <1>4, KeysOfPages DEF ShopInv, WireInv, ServerInv, PageInv
<1> QED
  BY <1>2, <1>5

\* A step of the pages that calls nothing keeps the invariant.
LEMMA PagesMove ==
  ASSUME ShopInv, UNCHANGED serverVars, presses' \in Nat, presses <= presses',
         WiresFrom(wire'), PageInv',
         \/ form'.key = form.key /\ form'.signature = form.signature
         \/ form'.key = 0 /\ form'.signature = NoForm,
         \/ route' # "order"
         \/ route' = route /\ form'.key = form.key /\ form'.signature = form.signature,
         \/ Calm(wire') /\ UNCHANGED quote /\ Wanted' = Wanted
         \/ Silent(wire')
  PROVE  ShopInv'
<1>1. ServerInv' /\ WireInv' /\ KeyInv'
  BY PagesStep
<1>2. \A t \in Wires : FreshQuote(wire'[t]) => wire'[t].form = wire[t].form
  BY CalmForms
<1>3. QuotesAreCurrent'
  BY <1>2, CalmKeepsQuote, SilentKeepsQuote DEF ShopInv
<1> QED
  BY <1>1, <1>3 DEF ShopInv

\* A call begins that is no checkout and asks for no total.
LEMMA CallMoves ==
  ASSUME ShopInv, UNCHANGED << serverVars, quote, route >>, presses' \in Nat, presses <= presses',
         NEW w, WiresFrom(w), Calm(w), NEW s \in Wires, NEW d, New(d), Sends(w, s, d),
         d.key = 0, d.kind # "quote",
         PageInv', form'.key = form.key, form'.signature = form.signature, Wanted' = Wanted
  PROVE  ShopInv'
<1>1. /\ wire' \in [Wires -> CallRecords] /\ wire'[s] = d
      /\ \A t \in Wires \ {s} : Kept(wire[t], wire'[t])
      /\ \A t \in Wires \ {s} : FreshQuote(wire'[t]) <=> FreshQuote(wire[t])
      /\ ~FreshQuote(wire[s])
  BY CallWires DEF ShopInv, WireInv
<1>2. WiresStep
  BY <1>1 DEF WiresStep
<1>3. ServerInv' /\ WireInv'
  BY <1>2, WiresKept DEF ShopInv
<1>4. KeyInv'
  <2>1. UNCHANGED orders
    BY DEF serverVars
  <2>2. \A t \in Wires : wire'[t].key = 0 \/ \E u \in Wires : Same(wire[u], wire'[t])
    BY <1>1, KeptSame
  <2> QED
    BY <2>1, <2>2, KeysOfPages DEF ShopInv, WireInv, ServerInv, PageInv
<1>5. QuotesAreCurrent'
  BY <1>1, CallKeepsQuote DEF ShopInv, FreshQuote
<1> QED
  BY <1>3, <1>4, <1>5 DEF ShopInv

\* A call that asks for nothing in particular.
LEMMA PlainCall ==
  ASSUME NEW d \in CallRecords, d.state = "sent", d.ans = << >>, d.form = NoForm, d.key = 0,
         d.kind \in {"cart", "change"}
  PROVE  New(d)
  BY Nothings DEF New, CallShaped

------------------------------------------------------------------------------
(* Calls of the pages. *)

\* refreshCart asks for the cart.
LEMMA RefreshKeeps ==
  ASSUME ShopInv, NEW s \in Wires, refreshCart(s), presses' \in Nat, presses <= presses',
         UNCHANGED << serverVars, route, cartPage, form, quote >>
  PROVE  ShopInv'
<1> DEFINE asked == [Idle EXCEPT !.kind = "cart"]
           d == [asked EXCEPT !.state = "sent", !.fresh = TRUE]
<1>1. d \in CallRecords /\ d.state = "sent" /\ d.ans = << >> /\ d.form = NoForm /\ d.key = 0
      /\ d.kind = "cart"
  BY IdleIs DEF CallShaped, CallRecords
<1>2. Call(s, Bumped, asked) /\ UNCHANGED shared
  BY DEF refreshCart
<1>3. PageInv' /\ Wanted' = Wanted
  BY <1>2 DEF ShopInv, PageInv, PageTypes, PagesUsed, RowsOf, serverVars, Wanted
<1>4. WiresFrom(Bumped) /\ Calm(Bumped)
  BY BumpedWires DEF ShopInv, WireInv
<1>5. Sends(Bumped, s, d)
  BY <1>2 DEF Call, Sends
<1> HIDE DEF asked, d
<1>6. New(d)
  BY <1>1, PlainCall
<1> QED
  BY <1>1, <1>2, <1>3, <1>4, <1>5, <1>6, CallMoves

\* runAction sends a change of the cart.
LEMMA ActionKeeps ==
  ASSUME ShopInv, NEW s \in Wires, NEW action \in Actions, NEW c \in CallRecords,
         c.ans = << >>, c.form = NoForm, c.key = 0, runAction(s, action, c)
  PROVE  ShopInv'
<1> DEFINE asked == [c EXCEPT !.kind = "change", !.action = action]
           d == [asked EXCEPT !.state = "sent", !.fresh = TRUE]
<1>1. d \in CallRecords /\ d.state = "sent" /\ d.ans = << >> /\ d.form = NoForm /\ d.key = 0
      /\ d.kind = "change"
  BY DEF CallRecords
<1>2. Call(s, Bumped, asked) /\ Press /\ UNCHANGED << serverVars, shared, route, cartPage, form, quote >>
  BY DEF runAction
<1>3. presses' \in Nat /\ presses <= presses'
  BY <1>2, Pressed DEF ShopInv, PageInv, PageTypes
<1>4. PageInv' /\ Wanted' = Wanted
  BY <1>2, <1>3 DEF ShopInv, PageInv, PageTypes, PagesUsed, RowsOf, serverVars, Wanted
<1>5. WiresFrom(Bumped) /\ Calm(Bumped)
  BY BumpedWires DEF ShopInv, WireInv
<1>6. Sends(Bumped, s, d)
  BY <1>2 DEF Call, Sends
<1> HIDE DEF asked, d
<1>7. New(d)
  BY <1>1, PlainCall
<1> QED
  BY <1>1, <1>2, <1>3, <1>4, <1>5, <1>6, <1>7, CallMoves

\* The cards of the catalogue and the mini cart.
LEMMA ShopActionsKeep ==
  ASSUME ShopInv, NEW s \in Wires, NEW n \in 1 .. MaxAmount,
         \/ \E p \in Products : addProduct(s, p, n)
         \/ \E r \in Rows : miniUpdate(s, r, n) \/ miniRemove(s, r)
  PROVE  ShopInv'
<1>1. n \in Nat
  BY ShopAssumption
<1>2. CASE \E p \in Products : addProduct(s, p, n)
  <2>1. PICK p \in Products : addProduct(s, p, n)
    BY <1>2
  <2> DEFINE c == [Idle EXCEPT !.op = "add", !.product = {p}, !.qty = n]
  <2>2. c \in CallRecords /\ c.ans = << >> /\ c.form = NoForm /\ c.key = 0
    BY <1>1, IdleIs DEF CallShaped, CallRecords
  <2>3. << "add", p >> \in Actions
    BY DEF Actions
  <2>4. runAction(s, << "add", p >>, c)
    BY <2>1 DEF addProduct
  <2> HIDE DEF c
  <2> QED
    BY <2>2, <2>3, <2>4, ActionKeeps
<1>3. ASSUME NEW r \in Rows, miniUpdate(s, r, n) PROVE ShopInv'
  <2> DEFINE c == [Idle EXCEPT !.op = "update", !.row = {r}, !.qty = n]
  <2>1. c \in CallRecords /\ c.ans = << >> /\ c.form = NoForm /\ c.key = 0
    BY <1>1, IdleIs DEF CallShaped, CallRecords
  <2>2. << "update", r >> \in Actions
    BY DEF Actions
  <2>3. runAction(s, << "update", r >>, c)
    BY <1>3 DEF miniUpdate
  <2> HIDE DEF c
  <2> QED
    BY <2>1, <2>2, <2>3, ActionKeeps
<1>4. ASSUME NEW r \in Rows, miniRemove(s, r) PROVE ShopInv'
  <2> DEFINE c == [Idle EXCEPT !.op = "remove", !.row = {r}]
  <2>1. c \in CallRecords /\ c.ans = << >> /\ c.form = NoForm /\ c.key = 0
    BY IdleIs DEF CallShaped, CallRecords
  <2>2. << "remove", r >> \in Actions
    BY DEF Actions
  <2>3. runAction(s, << "remove", r >>, c)
    BY <1>4 DEF miniRemove
  <2> HIDE DEF c
  <2> QED
    BY <2>1, <2>2, <2>3, ActionKeeps
<1> QED
  BY <1>2, <1>3, <1>4

\* The cart page asks for its cart.
LEMMA FetchCartKeeps == ASSUME ShopInv, NEW s \in Wires, fetchCart(s) PROVE ShopInv'
<1> DEFINE asked == [Idle EXCEPT !.kind = "cart", !.page = TRUE]
           d == [asked EXCEPT !.state = "sent", !.fresh = TRUE]
<1>1. d \in CallRecords /\ d.state = "sent" /\ d.ans = << >> /\ d.form = NoForm /\ d.key = 0
      /\ d.kind = "cart"
  BY IdleIs DEF CallShaped, CallRecords
<1>2. Call(s, wire, asked) /\ cartPage' = [cartPage EXCEPT !.due = FALSE]
      /\ UNCHANGED << serverVars, contextVars, route, form, quote, presses >>
  BY DEF fetchCart
<1>3. presses' \in Nat /\ presses <= presses'
  BY <1>2 DEF ShopInv, PageInv, PageTypes
<1>4. PageInv' /\ Wanted' = Wanted
  BY <1>2 DEF ShopInv, PageInv, PageTypes, PagesUsed, RowsOf, serverVars, contextVars, Wanted,
              CartPages
<1>5. WiresFrom(wire) /\ Calm(wire)
  BY WireItself DEF ShopInv, WireInv
<1>6. Sends(wire, s, d)
  BY <1>2 DEF Call, Sends
<1> HIDE DEF asked, d
<1>7. New(d)
  BY <1>1, PlainCall
<1> QED
  BY <1>1, <1>2, <1>3, <1>4, <1>5, <1>6, <1>7, CallMoves

\* The cart page changes a row.
LEMMA RunUpdateKeeps ==
  ASSUME ShopInv, NEW s \in Wires, NEW r \in Rows, NEW op \in {"update", "remove"}, NEW n \in Nat,
         runUpdate(s, r, op, n)
  PROVE  ShopInv'
<1> DEFINE asked == [Idle EXCEPT !.kind = "change", !.op = op, !.row = {r}, !.qty = n, !.page = TRUE]
           d == [asked EXCEPT !.state = "sent", !.fresh = TRUE]
<1>1. d \in CallRecords /\ d.state = "sent" /\ d.ans = << >> /\ d.form = NoForm /\ d.key = 0
      /\ d.kind = "change"
  BY IdleIs DEF CallShaped, CallRecords
<1>2. Call(s, wire, asked) /\ cartPage' = [cartPage EXCEPT !.busy = @ \cup {r}] /\ Press
      /\ UNCHANGED << serverVars, contextVars, route, form, quote >>
  BY DEF runUpdate
<1>3. presses' \in Nat /\ presses <= presses'
  BY <1>2, Pressed DEF ShopInv, PageInv, PageTypes
<1>4. PageInv' /\ Wanted' = Wanted
  BY <1>2, <1>3 DEF ShopInv, PageInv, PageTypes, PagesUsed, RowsOf, serverVars, contextVars,
                    Wanted, CartPages
<1>5. WiresFrom(wire) /\ Calm(wire)
  BY WireItself DEF ShopInv, WireInv
<1>6. Sends(wire, s, d)
  BY <1>2 DEF Call, Sends
<1> HIDE DEF asked, d
<1>7. New(d)
  BY <1>1, PlainCall
<1> QED
  BY <1>1, <1>2, <1>3, <1>4, <1>5, <1>6, <1>7, CallMoves

\* The checkout page asks for the methods of the town.
LEMMA AskMethodsKeeps == ASSUME ShopInv, NEW s \in Wires, askMethods(s) PROVE ShopInv'
<1> DEFINE f == CheckoutForm(form)
           asked == [Idle EXCEPT !.kind = "methods", !.form = f]
           d == [asked EXCEPT !.state = "sent", !.fresh = TRUE]
<1>1. f \in Forms /\ f.sel = form.sel /\ f.addr \in Addresses
  BY DEF askMethods, CheckoutForm, Forms, ShopInv, PageInv, PageTypes, CheckoutPages
<1>2. Call(s, wire, asked) /\ form' = [form EXCEPT !.asks = FALSE]
      /\ UNCHANGED << serverVars, contextVars, route, cartPage, quote, presses >>
  BY DEF askMethods
<1> HIDE DEF f
<1>3. d \in CallRecords /\ d.state = "sent" /\ d.ans = << >> /\ d.form = f /\ d.key = 0
      /\ d.kind = "methods"
  BY <1>1, IdleIs DEF CallShaped, CallRecords
<1>4. presses' \in Nat /\ presses <= presses'
  BY <1>2 DEF ShopInv, PageInv, PageTypes
<1>5. PageInv' /\ Wanted' = Wanted /\ form'.key = form.key /\ form'.signature = form.signature
  BY <1>2 DEF ShopInv, PageInv, PageTypes, PagesUsed, RowsOf, serverVars, contextVars, Wanted,
              CheckoutForm, CheckoutPages
<1>6. WiresFrom(wire) /\ Calm(wire)
  BY WireItself DEF ShopInv, WireInv
<1>7. Sends(wire, s, d)
  BY <1>2 DEF Call, Sends
<1> HIDE DEF asked, d
<1>8. New(d)
  BY <1>1, <1>3, Nothings DEF New, CallShaped, ShopInv, PageInv, PagesUsed
<1> QED
  BY <1>2, <1>3, <1>4, <1>5, <1>6, <1>7, <1>8, CallMoves

\* The total asked for is of what is wanted now.
LEMMA AskQuoteKeeps == ASSUME ShopInv, NEW s \in Wires, askQuote(s) PROVE ShopInv'
<1> DEFINE f == Wanted
           asked == [Idle EXCEPT !.kind = "quote", !.form = f]
           d == [asked EXCEPT !.state = "sent", !.fresh = TRUE]
<1>1. f \in Forms /\ f.sel \subseteq used
  <2>1. Wanted.sel \subseteq used
    BY Nothings DEF Wanted, CartForm, CheckoutForm, NoForm, ShopInv, PageInv, PagesUsed
  <2> QED
    BY <2>1, Wants DEF ShopInv, PageInv
<1>2. Call(s, wire, asked) /\ quote' = [quote EXCEPT !.due = FALSE, !.loading = TRUE]
      /\ UNCHANGED << serverVars, contextVars, route, cartPage, form, presses >>
  BY DEF askQuote
<1>3. Wanted' = f
  BY <1>2 DEF Wanted
<1> HIDE DEF f
<1>4. d \in CallRecords /\ d.state = "sent" /\ d.ans = << >> /\ d.form = f /\ d.key = 0
      /\ d.kind = "quote" /\ d.op = "none" /\ d.fresh = TRUE
  BY <1>1, IdleIs DEF CallShaped, CallRecords
<1>5. presses' \in Nat /\ presses <= presses'
  BY <1>2 DEF ShopInv, PageInv, PageTypes
<1>6. PageInv'
  BY <1>2 DEF ShopInv, PageInv, PageTypes, PagesUsed, RowsOf, serverVars, contextVars, Totals
<1>7. WiresFrom(wire) /\ Calm(wire)
  BY WireItself DEF ShopInv, WireInv
<1>8. Sends(wire, s, d)
  BY <1>2 DEF Call, Sends
<1> HIDE DEF asked, d
<1>9. New(d)
  BY <1>1, <1>4, Nothings DEF New, CallShaped
<1>10. /\ wire' \in [Wires -> CallRecords] /\ wire'[s] = d
       /\ \A t \in Wires \ {s} : Kept(wire[t], wire'[t])
       /\ \A t \in Wires \ {s} : FreshQuote(wire'[t]) <=> FreshQuote(wire[t])
  BY <1>2, <1>7, <1>8, <1>9, CallWires DEF ShopInv, WireInv
<1>11. ServerInv' /\ WireInv'
  BY <1>2, <1>9, <1>10, WiresKept DEF ShopInv, WiresStep
<1>12. KeyInv'
  <2>1. UNCHANGED orders
    BY <1>2 DEF serverVars
  <2>2. \A t \in Wires : wire'[t].key = 0 \/ \E u \in Wires : Same(wire[u], wire'[t])
    BY <1>4, <1>10, KeptSame
  <2> QED
    BY <1>2, <1>5, <2>1, <2>2, KeysOfPages DEF ShopInv, WireInv, ServerInv, PageInv
<1>13. QuotesAreCurrent'
  <2> SUFFICES ASSUME NEW t \in Wires, FreshQuote(wire'[t]) PROVE wire'[t].form = Wanted'
    BY DEF QuotesAreCurrent
  <2>1. CASE t = s
    BY <1>3, <1>4, <1>10, <2>1
  <2>2. CASE t # s
    <3>1. FreshQuote(wire[t]) /\ wire'[t].form = wire[t].form /\ wire[t].form = Wanted
      BY <1>10, <2>2 DEF Kept, FreshQuote, ShopInv, QuotesAreCurrent
    <3> QED
      BY <1>3, <3>1 DEF f
  <2> QED
    BY <2>1, <2>2
<1> QED
  BY <1>6, <1>11, <1>12, <1>13 DEF ShopInv

------------------------------------------------------------------------------
(* Answers that reach the pages, and what the customer does there. *)

\* What the invariant says of one call.
LEMMA CallOf ==
  ASSUME ShopInv, NEW s \in Wires
  PROVE  /\ wire[s] \in CallRecords /\ CallShaped(wire[s])
         /\ wire[s].ans \in Snapshots /\ RowsOf(wire[s].ans) \subseteq used
         /\ wire[s].form \in Forms /\ wire[s].form.sel \subseteq used
         /\ wire[s].ok \in BOOLEAN /\ wire[s].fresh \in BOOLEAN
         /\ WireTypes /\ WiresFrom(wire) /\ Calm(wire)
<1>1. WireTypes /\ CallsUsed
  BY DEF ShopInv, WireInv
<1>2. wire[s] \in CallRecords /\ CallShaped(wire[s])
  BY <1>1 DEF WireTypes
<1> QED
  BY <1>1, <1>2, WireItself DEF CallsUsed, CallRecords

\* The call of the wire has ended.
LEMMA EndedWires ==
  ASSUME ShopInv, NEW s \in Wires, wire' = [wire EXCEPT ![s] = Idle], ~FreshQuote(wire[s])
  PROVE  WiresFrom(wire') /\ Calm(wire')
  BY CallOf, IdleWires

\* The shared cart is replaced.
LEMMA SharedUsed ==
  ASSUME ShopInv, UNCHANGED << serverVars, cartPage, form, quote, presses >>,
         shared' \in Snapshots, RowsOf(shared') \subseteq used
  PROVE  PageInv' /\ presses' \in Nat /\ presses <= presses'
  BY DEF ShopInv, PageInv, PageTypes, PagesUsed, RowsOf, serverVars

\* An answer to the context.
LEMMA ReceiveActionKeeps == ASSUME ShopInv, NEW s \in Wires, receiveAction(s) PROVE ShopInv'
<1>1. shared' \in Snapshots /\ RowsOf(shared') \subseteq used
  BY CallOf DEF receiveAction, ShopInv, PageInv, PageTypes, PagesUsed
<1>2. PageInv' /\ presses' \in Nat /\ presses <= presses'
  BY <1>1, SharedUsed DEF receiveAction
<1>3. WiresFrom(wire') /\ Calm(wire')
  BY EndedWires DEF receiveAction, FreshQuote
<1>4. Wanted' = Wanted /\ UNCHANGED << serverVars, route, form, quote >>
  BY DEF receiveAction, Wanted
<1> QED
  BY <1>2, <1>3, <1>4, PagesMove

\* A cart for the context.
LEMMA ReceiveSharedKeeps == ASSUME ShopInv, NEW s \in Wires, receiveShared(s) PROVE ShopInv'
<1>1. shared' \in Snapshots /\ RowsOf(shared') \subseteq used
  BY CallOf DEF receiveShared, ShopInv, PageInv, PageTypes, PagesUsed
<1>2. PageInv' /\ presses' \in Nat /\ presses <= presses'
  BY <1>1, SharedUsed DEF receiveShared
<1>3. WiresFrom(wire') /\ Calm(wire')
  BY EndedWires DEF receiveShared, FreshQuote
<1>4. Wanted' = Wanted /\ UNCHANGED << serverVars, route, form, quote >>
  BY DEF receiveShared, Wanted
<1> QED
  BY <1>2, <1>3, <1>4, PagesMove

\* A page is opened: whatever it asks for, it asks for it again.
LEMMA OpensKeep ==
  ASSUME ShopInv, Press, wire' = Left, quote' = NoTotal, UNCHANGED << serverVars, contextVars >>,
         route' # "order",
         cartPage' = NoCartPage \/ cartPage' = [NoCartPage EXCEPT !.due = TRUE, !.loading = TRUE],
         form' = NoCheckout \/ \E sel \in SUBSET used, a \in Addresses : form' = Checkout(sel, a)
  PROVE  ShopInv'
<1>1. presses' \in Nat /\ presses <= presses'
  BY Pressed DEF ShopInv, PageInv, PageTypes
<1>2. used \subseteq Rows /\ UNCHANGED << used, shared >>
  BY DEF ShopInv, ServerInv, ServerTypes, serverVars, contextVars
<1>3. /\ cartPage' \in CartPages
      /\ RowsOf(cartPage'.snapshot) = {} /\ cartPage'.selected = {}
  BY NothingOpen DEF CartPages
<1>4. /\ form' \in CheckoutPages
      /\ form'.sel \subseteq used /\ (form'.asks => form'.addr \in Addresses)
      /\ form'.key = 0 /\ form'.signature = NoForm
  <2>1. CASE form' = NoCheckout
    BY <2>1, NothingOpen
  <2>2. CASE \E sel \in SUBSET used, a \in Addresses : form' = Checkout(sel, a)
    <3>1. PICK sel \in SUBSET used, a \in Addresses : form' = Checkout(sel, a)
      BY <2>2
    <3>2. sel \in SUBSET Rows
      BY <1>2
    <3> QED
      BY <3>1, <3>2, CheckoutOpens
  <2> QED
    BY <2>1, <2>2
<1>5. PageInv'
  <2>1. PageTypes'
    BY <1>1, <1>2, <1>3, <1>4, NothingOpen DEF PageTypes, ShopInv, PageInv
  <2>2. PagesUsed'
    BY <1>2, <1>3, <1>4 DEF PagesUsed, ShopInv, PageInv, RowsOf
  <2> QED
    BY <2>1, <2>2 DEF PageInv
<1>6. WiresFrom(wire') /\ Silent(wire')
  BY LeftWires DEF ShopInv, WireInv
<1>7. quote'.of = NoForm
  BY NothingOpen
<1> QED
  BY <1>1, <1>4, <1>5, <1>6, <1>7, PagesMove

\* The cart page opens.
LEMMA OpenCartKeeps == ASSUME ShopInv, openCart PROVE ShopInv'
  BY OpensKeep DEF openCart

\* The catalogue opens.
LEMMA OpenCatalogKeeps == ASSUME ShopInv, openCatalog PROVE ShopInv'
  BY OpensKeep DEF openCatalog

\* The checkout page opens.
LEMMA GoCheckoutKeeps == ASSUME ShopInv, goCheckout PROVE ShopInv'
<1>1. cartPage.selected \in SUBSET used
  BY DEF ShopInv, PageInv, PagesUsed
<1> QED
  BY <1>1, OpensKeep DEF goCheckout

\* The cart page tries again.
LEMMA RetryCartKeeps == ASSUME ShopInv, retryCart PROVE ShopInv'
<1>1. presses' \in Nat /\ presses <= presses'
  BY Pressed DEF retryCart, ShopInv, PageInv, PageTypes
<1>2. PageInv' /\ Wanted' = Wanted
  BY <1>1 DEF retryCart, ShopInv, PageInv, PageTypes, PagesUsed, RowsOf, serverVars, contextVars,
              Wanted, CartPages
<1>3. WiresFrom(wire) /\ Calm(wire)
  BY WireItself DEF ShopInv, WireInv
<1>4. UNCHANGED << serverVars, route, form, quote, wire >>
  BY DEF retryCart
<1>5. WiresFrom(wire') /\ Calm(wire')
  BY <1>3, <1>4 DEF WiresFrom, Calm
<1> QED
  BY <1>1, <1>2, <1>4, <1>5, PagesMove

\* The total is asked for again, and the answers to come are of what was selected before.
LEMMA AsksAgainKeeps ==
  ASSUME ShopInv, NEW b \in BOOLEAN, QuoteAgain(b), WiresFrom(wire'), Silent(wire'),
         UNCHANGED serverVars, presses' \in Nat, presses <= presses',
         quote' \in Totals => PageInv',
         form'.key = form.key, form'.signature = form.signature, UNCHANGED route
  PROVE  ShopInv'
<1>1. quote' \in Totals
  BY AskedAgain DEF ShopInv, PageInv
<1> QED
  BY <1>1, PagesMove

\* Another selection wants another total.
LEMMA SelectKeeps == ASSUME ShopInv, NEW rows \in SUBSET Rows, select(rows) PROVE ShopInv'
<1>1. presses' \in Nat /\ presses <= presses'
  BY Pressed DEF select, ShopInv, PageInv, PageTypes
<1>2. rows \subseteq used
  BY DEF select, ShopInv, PageInv, PagesUsed
<1>3. UNCHANGED << serverVars, contextVars, route, form >> /\ QuoteAgain(rows # {})
      /\ cartPage' = [cartPage EXCEPT !.selected = rows]
  BY DEF select
<1>4. quote' \in Totals => PageInv'
  BY <1>1, <1>2, <1>3 DEF ShopInv, PageInv, PageTypes, PagesUsed, RowsOf, serverVars,
                          contextVars, CartPages
<1>5. WiresFrom(wire') /\ Silent(wire')
  BY WireItself, StaleWires DEF ShopInv, WireInv, select
<1> QED
  BY <1>1, <1>3, <1>4, <1>5, AsksAgainKeeps

\* Another address too.
LEMMA ChooseAddressKeeps == ASSUME ShopInv, NEW a \in Addresses, chooseAddress(a) PROVE ShopInv'
<1>1. presses' \in Nat /\ presses <= presses'
  BY Pressed DEF chooseAddress, ShopInv, PageInv, PageTypes
<1>2. UNCHANGED << serverVars, contextVars, route, cartPage >> /\ QuoteAgain(form.method # NoMethod)
      /\ form' = [form EXCEPT !.addr = a, !.asks = TRUE]
  BY DEF chooseAddress
<1>3. /\ quote' \in Totals => PageInv'
      /\ form'.key = form.key /\ form'.signature = form.signature
  BY <1>1, <1>2 DEF ShopInv, PageInv, PageTypes, PagesUsed, RowsOf, serverVars, contextVars,
                    CheckoutPages
<1>4. WiresFrom(wire') /\ Silent(wire')
  BY WireItself, StaleWires DEF ShopInv, WireInv, chooseAddress
<1> QED
  BY <1>1, <1>2, <1>3, <1>4, AsksAgainKeeps

\* Another method too.
LEMMA ChooseMethodKeeps == ASSUME ShopInv, NEW m \in Methods, chooseMethod(m) PROVE ShopInv'
<1>1. presses' \in Nat /\ presses <= presses'
  BY Pressed DEF chooseMethod, ShopInv, PageInv, PageTypes
<1>2. UNCHANGED << serverVars, contextVars, route, cartPage >> /\ QuoteAgain(TRUE)
      /\ form' = [form EXCEPT !.method = m]
  BY DEF chooseMethod
<1>3. /\ quote' \in Totals => PageInv'
      /\ form'.key = form.key /\ form'.signature = form.signature
  BY <1>1, <1>2 DEF ShopInv, PageInv, PageTypes, PagesUsed, RowsOf, serverVars, contextVars,
                    CheckoutPages
<1>4. WiresFrom(wire') /\ Silent(wire')
  BY WireItself, StaleWires DEF ShopInv, WireInv, chooseMethod
<1> QED
  BY <1>1, <1>2, <1>3, <1>4, AsksAgainKeeps

\* A cart of the page: it becomes everybody's, and the total of it is asked for if
\* the page is still the one that asked.
LEMMA PageCartKeeps ==
  ASSUME ShopInv, NEW s \in Wires, wire[s].kind \in {"cart", "change"},
         UNCHANGED << serverVars, route, form, presses >>,
         IF wire[s].ok THEN replaceCart(wire[s].ans, s)
         ELSE wire' = [wire EXCEPT ![s] = Idle] /\ UNCHANGED contextVars,
         cartPage' \in CartPages,
         RowsOf(cartPage'.snapshot) \subseteq used, cartPage'.selected \subseteq used,
         \/ /\ wire[s].fresh /\ wire[s].ok
            /\ \E b \in BOOLEAN : QuoteAgain(b)
         \/ ~(wire[s].fresh /\ wire[s].ok) /\ UNCHANGED quote /\ cartPage'.selected = cartPage.selected
  PROVE  ShopInv'
<1>1. presses' \in Nat /\ presses <= presses'
  BY DEF ShopInv, PageInv, PageTypes
<1>2. shared' \in Snapshots /\ RowsOf(shared') \subseteq used
  BY CallOf DEF replaceCart, contextVars, ShopInv, PageInv, PageTypes, PagesUsed
<1>3. quote' \in Totals => PageInv'
  <2>1. UNCHANGED used
    BY DEF serverVars
  <2>2. PagesUsed'
    BY <1>2, <2>1 DEF ShopInv, PageInv, PagesUsed, RowsOf
  <2> QED
    BY <1>1, <1>2, <2>2 DEF ShopInv, PageInv, PageTypes
<1>4. ~FreshQuote(wire[s]) /\ WireTypes
  BY CallOf DEF FreshQuote
<1>5. CASE wire[s].fresh /\ wire[s].ok
  <2>1. wire' = [Stale({"quote"}, Bumped) EXCEPT ![s] = Idle]
    BY <1>5 DEF replaceCart
  <2>2. WiresFrom(Stale({"quote"}, Bumped)) /\ Silent(Stale({"quote"}, Bumped))
    BY <1>4, BumpedWires, StaleWires
  <2>3. WiresFrom(wire') /\ Silent(wire')
    BY <1>4, <2>1, <2>2, IdleWires
  <2> QED
    BY <1>1, <1>3, <1>5, <2>3, AsksAgainKeeps
<1>6. CASE ~(wire[s].fresh /\ wire[s].ok)
  <2>1. WiresFrom(wire') /\ Calm(wire')
    <3>1. CASE wire[s].ok
      <4>1. wire' = [Stale({}, Bumped) EXCEPT ![s] = Idle]
        BY <1>6, <3>1 DEF replaceCart
      <4>2. WiresFrom(Stale({}, Bumped)) /\ Calm(Stale({}, Bumped))
        BY <1>4, BumpedWires, StaleWires
      <4> QED
        BY <1>4, <4>1, <4>2, IdleWires
    <3>2. CASE ~wire[s].ok
      BY <1>4, <3>2, EndedWires
    <3> QED
      BY <3>1, <3>2
  <2>2. UNCHANGED quote /\ Wanted' = Wanted
    BY <1>6 DEF Wanted
  <2>3. PageInv'
    BY <1>3, <2>2 DEF ShopInv, PageInv, PageTypes
  <2> QED
    BY <1>1, <2>1, <2>2, <2>3, PagesMove
<1> QED
  BY <1>5, <1>6

\* The cart page has its cart, with every row selected.
LEMMA ReceiveCartKeeps == ASSUME ShopInv, NEW s \in Wires, receiveCart(s) PROVE ShopInv'
<1> DEFINE rows == RowsOf(wire[s].ans)
<1>1. /\ wire[s].ans \in Snapshots /\ rows \subseteq used /\ rows \subseteq Rows
      /\ wire[s].ok \in BOOLEAN /\ wire[s].fresh \in BOOLEAN
  BY CallOf DEF RowsOf
<1>2. /\ cartPage' \in CartPages
      /\ RowsOf(cartPage'.snapshot) \subseteq used /\ cartPage'.selected \subseteq used
  BY <1>1 DEF receiveCart, ShopInv, PageInv, PageTypes, PagesUsed, CartPages
<1>3. \/ /\ wire[s].fresh /\ wire[s].ok
         /\ \E b \in BOOLEAN : QuoteAgain(b)
      \/ ~(wire[s].fresh /\ wire[s].ok) /\ UNCHANGED quote /\ cartPage'.selected = cartPage.selected
  BY DEF receiveCart, ShopInv, PageInv, PageTypes, CartPages
<1>4. /\ wire[s].kind \in {"cart", "change"} /\ UNCHANGED << serverVars, route, form, presses >>
      /\ IF wire[s].ok THEN replaceCart(wire[s].ans, s)
         ELSE wire' = [wire EXCEPT ![s] = Idle] /\ UNCHANGED contextVars
  BY DEF receiveCart
<1> QED
  BY <1>2, <1>3, <1>4, PageCartKeeps

\* The cart page has its change, with the rest of the selection.
LEMMA ReceiveUpdateKeeps == ASSUME ShopInv, NEW s \in Wires, receiveUpdate(s) PROVE ShopInv'
<1> DEFINE kept == cartPage.selected \cap RowsOf(wire[s].ans)
<1>1. /\ wire[s].ans \in Snapshots /\ RowsOf(wire[s].ans) \subseteq used
      /\ wire[s].ok \in BOOLEAN /\ wire[s].fresh \in BOOLEAN
  BY CallOf
<1>2. kept \subseteq used /\ kept \subseteq Rows
  BY DEF ShopInv, PageInv, PagesUsed, RowsOf
<1>3. /\ cartPage' \in CartPages
      /\ RowsOf(cartPage'.snapshot) \subseteq used /\ cartPage'.selected \subseteq used
  <2> DEFINE left == BusyAfter(wire[s])
             accepted == [cartPage EXCEPT !.snapshot = wire[s].ans, !.selected = kept, !.busy = left]
  <2>1. left \subseteq Rows
    BY DEF BusyAfter, ShopInv, PageInv, PageTypes, CartPages
  <2>2. \/ cartPage' = accepted \/ cartPage' = [cartPage EXCEPT !.busy = left] \/ cartPage' = cartPage
    BY DEF receiveUpdate
  <2> HIDE DEF left, kept
  <2>3. CASE cartPage' = accepted
    BY <1>1, <1>2, <2>1, <2>3 DEF ShopInv, PageInv, PageTypes, CartPages
  <2>4. CASE cartPage' = [cartPage EXCEPT !.busy = left]
    BY <2>1, <2>4 DEF ShopInv, PageInv, PageTypes, PagesUsed, CartPages
  <2>5. CASE cartPage' = cartPage
    BY <2>5 DEF ShopInv, PageInv, PageTypes, PagesUsed
  <2> QED
    BY <2>2, <2>3, <2>4, <2>5
<1>4. \/ /\ wire[s].fresh /\ wire[s].ok
         /\ \E b \in BOOLEAN : QuoteAgain(b)
      \/ ~(wire[s].fresh /\ wire[s].ok) /\ UNCHANGED quote /\ cartPage'.selected = cartPage.selected
  BY DEF receiveUpdate, ShopInv, PageInv, PageTypes, CartPages
<1>5. /\ wire[s].kind \in {"cart", "change"} /\ UNCHANGED << serverVars, route, form, presses >>
      /\ IF wire[s].ok THEN replaceCart(wire[s].ans, s)
         ELSE wire' = [wire EXCEPT ![s] = Idle] /\ UNCHANGED contextVars
  BY DEF receiveUpdate
<1> QED
  BY <1>3, <1>4, <1>5, PageCartKeeps

\* The answer taken is of what is wanted.
LEMMA ReceiveQuoteKeeps == ASSUME ShopInv, NEW s \in Wires, receiveQuote(s) PROVE ShopInv'
<1>1. /\ UNCHANGED << serverVars, contextVars, route, cartPage, form, presses >>
      /\ wire' = [wire EXCEPT ![s] = Idle] /\ wire[s].kind = "quote" /\ quote' = QuoteAfter(wire[s])
  BY DEF receiveQuote
<1>2. wire[s].form \in Forms /\ wire[s].fresh \in BOOLEAN /\ wire[s].ok \in BOOLEAN
      /\ WireTypes /\ WiresFrom(wire)
  BY CallOf
<1>3. WiresFrom(wire')
  BY <1>1, <1>2, IdleWires
<1>4. presses' \in Nat /\ presses <= presses'
  BY <1>1 DEF ShopInv, PageInv, PageTypes
<1>5. quote' \in Totals
  BY <1>1, <1>2 DEF QuoteAfter, ShopInv, PageInv, PageTypes, Totals
<1>6. PageInv'
  BY <1>1, <1>5 DEF ShopInv, PageInv, PageTypes, PagesUsed, RowsOf, serverVars, contextVars
<1>7. ServerInv' /\ WireInv' /\ KeyInv'
  BY <1>1, <1>3, <1>4, PagesStep
<1>8. Wanted' = Wanted
  BY <1>1 DEF Wanted
<1>9. wire'[s] = Idle /\ \A t \in Wires \ {s} : wire'[t] = wire[t]
  BY <1>1, <1>2 DEF WireTypes
<1>10. QuotesAreCurrent'
  BY <1>8, <1>9, IdleKept DEF ShopInv, QuotesAreCurrent
<1> QED
  BY <1>6, <1>7, <1>10 DEF ShopInv

\* A method that goes takes its total with it.
LEMMA ReceiveMethodsKeeps == ASSUME ShopInv, NEW s \in Wires, receiveMethods(s) PROVE ShopInv'
<1> DEFINE list == Serves[wire[s].form.addr]
           method == IF Contains(list, form.method) THEN form.method
                     ELSE IF list = << >> THEN NoMethod ELSE list[1]
<1>1. /\ UNCHANGED << serverVars, contextVars, route, cartPage, presses >>
      /\ wire[s].kind = "methods"
      /\ \/ /\ form' = [form EXCEPT !.methods = list, !.method = method] /\ method # form.method
            /\ QuoteAgain(method # NoMethod) /\ wire' = [Stale({"quote"}, wire) EXCEPT ![s] = Idle]
         \/ /\ form' = [form EXCEPT !.methods = list, !.method = method] /\ method = form.method
            /\ UNCHANGED quote /\ wire' = [wire EXCEPT ![s] = Idle]
         \/ UNCHANGED << form, quote >> /\ wire' = [wire EXCEPT ![s] = Idle]
  BY DEF receiveMethods
<1>2. CallShaped(wire[s]) /\ WireTypes /\ WiresFrom(wire)
  BY CallOf
<1>3. list \in Seq(Methods)
  BY <1>1, <1>2, ShopAssumption DEF CallShaped
<1>4. form.method \in Methods \cup {NoMethod}
  BY DEF ShopInv, PageInv, PageTypes, CheckoutPages
<1>5. method \in Methods \cup {NoMethod}
  BY <1>3, <1>4
<1>6. presses' \in Nat /\ presses <= presses'
  BY <1>1 DEF ShopInv, PageInv, PageTypes
<1> HIDE DEF list, method
<1>7. /\ quote' \in Totals => PageInv'
      /\ form'.key = form.key /\ form'.signature = form.signature
      /\ form'.sel = form.sel /\ form'.addr = form.addr
  <2>1. form' \in {form, [form EXCEPT !.methods = list, !.method = method]}
    BY <1>1
  <2>2. /\ form' \in CheckoutPages
        /\ form'.key = form.key /\ form'.signature = form.signature /\ form'.asks = form.asks
        /\ form'.sel = form.sel /\ form'.addr = form.addr
    BY <1>3, <1>5, <2>1 DEF ShopInv, PageInv, PageTypes, CheckoutPages
  <2> QED
    BY <1>1, <1>6, <2>2 DEF ShopInv, PageInv, PageTypes, PagesUsed, RowsOf, serverVars,
                            contextVars
<1>8. CASE QuoteAgain(method # NoMethod) /\ wire' = [Stale({"quote"}, wire) EXCEPT ![s] = Idle]
  <2>1. WiresFrom(Stale({"quote"}, wire)) /\ Silent(Stale({"quote"}, wire))
    BY <1>2, StaleWires
  <2>2. WiresFrom(wire') /\ Silent(wire')
    BY <1>2, <1>8, <2>1, IdleWires
  <2> QED
    BY <1>1, <1>6, <1>7, <1>8, <2>2, AsksAgainKeeps
<1>9. CASE UNCHANGED quote /\ form'.method = form.method /\ wire' = [wire EXCEPT ![s] = Idle]
  <2>1. WiresFrom(wire') /\ Calm(wire')
    BY <1>1, <1>9, EndedWires DEF FreshQuote
  <2>2. PageInv'
    BY <1>7, <1>9 DEF ShopInv, PageInv, PageTypes
  <2>3. Wanted' = Wanted
    BY <1>1, <1>7, <1>9 DEF Wanted, CheckoutForm
  <2> QED
    BY <1>1, <1>6, <1>7, <1>9, <2>1, <2>2, <2>3, PagesMove
<1>10. form' = [form EXCEPT !.methods = list, !.method = method] => form'.method = method
  BY DEF ShopInv, PageInv, PageTypes
<1> QED
  BY <1>1, <1>8, <1>9, <1>10

\* An answer that is ok has its order, of the form it was asked for.
LEMMA ReceiveCheckoutKeeps == ASSUME ShopInv, NEW s \in Wires, receiveCheckout(s) PROVE ShopInv'
<1>1. wire[s].kind = "checkout" /\ Settled(wire[s]) /\ UNCHANGED << serverVars, contextVars, presses >>
  BY DEF receiveCheckout
<1>2. CallShaped(wire[s]) /\ wire[s].form \in Forms /\ wire[s].key \in Nat /\ WireTypes
  BY CallOf DEF CallRecords
<1>3. presses' \in Nat /\ presses <= presses'
  BY <1>1 DEF ShopInv, PageInv, PageTypes
<1>4. CASE ~wire[s].ok
  <2>1. /\ UNCHANGED << route, cartPage, quote >> /\ wire' = [wire EXCEPT ![s] = Idle]
        /\ \/ form' = [form EXCEPT !.submitting = FALSE] \/ UNCHANGED form
    BY <1>4 DEF receiveCheckout
  <2>2. /\ form' \in CheckoutPages
        /\ form'.key = form.key /\ form'.signature = form.signature /\ form'.asks = form.asks
        /\ form'.sel = form.sel /\ form'.addr = form.addr /\ form'.method = form.method
    BY <2>1 DEF ShopInv, PageInv, PageTypes, CheckoutPages
  <2>3. PageInv' /\ Wanted' = Wanted
    BY <1>1, <2>1, <2>2 DEF ShopInv, PageInv, PageTypes, PagesUsed, RowsOf, serverVars,
                            contextVars,
                            Wanted, CheckoutForm
  <2>4. WiresFrom(wire') /\ Calm(wire')
    BY <1>1, <2>1, EndedWires DEF FreshQuote
  <2> QED
    BY <1>1, <1>3, <2>1, <2>2, <2>3, <2>4, PagesMove
<1>5. CASE wire[s].ok
  <2> DEFINE f == [NoCheckout EXCEPT !.key = wire[s].key, !.signature = wire[s].form]
  <2>1. /\ route' = "order" /\ form' = f /\ cartPage' = NoCartPage /\ quote' = NoTotal
        /\ wire' = [Left EXCEPT ![s] = Idle]
    BY <1>5 DEF receiveCheckout
  <2>2. /\ f \in CheckoutPages
        /\ f.key = wire[s].key /\ f.signature = wire[s].form /\ ~f.asks /\ f.sel = {}
    BY <1>2, NothingOpen DEF CheckoutPages
  <2> HIDE DEF f
  <2>3. PageInv'
    <3>1. PageTypes'
      BY <1>1, <1>3, <2>1, <2>2, NothingOpen DEF ShopInv, PageInv, PageTypes, contextVars
    <3>2. PagesUsed'
      BY <1>1, <2>1, <2>2, NothingOpen DEF ShopInv, PageInv, PagesUsed, RowsOf, serverVars,
                                        contextVars
    <3> QED
      BY <3>1, <3>2 DEF PageInv
  <2>4. WiresFrom(wire') /\ Silent(wire')
    BY <1>2, <2>1, LeftWires, IdleWires
  <2>5. ServerInv' /\ WireInv'
    BY <1>1, <2>4, WiresKept DEF WiresFrom, WiresStep, ShopInv
  <2>6. UNCHANGED orders
    BY <1>1 DEF serverVars
  <2>7. KeysAgree'
    <3>1. ASSUME NEW a \in Submitted' PROVE a \in Submitted \/ (a.key = 0 /\ a.form = NoForm)
      <4>1. CASE \E t \in Wires : wire'[t].key > 0 /\ a = [key |-> wire'[t].key, form |-> wire'[t].form]
        <5>1. PICK t \in Wires : wire'[t].key > 0 /\ a = [key |-> wire'[t].key, form |-> wire'[t].form]
          BY <4>1
        <5>2. wire'[t].key = wire[t].key /\ wire'[t].form = wire[t].form
          BY <2>4, <5>1 DEF WiresFrom, Kept
        <5> QED
          BY <5>1, <5>2 DEF Submitted
      <4>2. CASE a = [key |-> form'.key, form |-> form'.signature]
        <5>1. wire[s].key > 0
          BY <1>1, <1>2 DEF CallShaped
        <5> QED
          BY <2>1, <2>2, <4>2, <5>1 DEF Submitted
      <4>3. CASE \E o \in orders : a = [key |-> o.key, form |-> o.form]
        BY <4>3 DEF Submitted
      <4> QED
        BY <2>6, <4>1, <4>2, <4>3 DEF Submitted
    <3> QED
      BY <1>3, <3>1, KeysKept DEF ShopInv, KeyInv, WireInv, ServerInv, PageInv
  <2>8. SubmittedIsShown'
    <3>1. wire[s].state = "done"
      BY <1>1, <1>2, <1>5 DEF Settled, CallShaped
    <3>2. \E o \in orders : o.key = wire[s].key /\ o.form = wire[s].form
      BY <1>1, <1>5, <3>1 DEF ShopInv, WireInv, AnswersAgree
    <3> QED
      BY <2>1, <2>2, <2>6, <3>2 DEF SubmittedIsShown
  <2>9. QuotesAreCurrent'
    BY <2>1, <2>4, NothingOpen, SilentKeepsQuote
  <2> QED
    BY <2>3, <2>5, <2>7, <2>8, <2>9 DEF ShopInv, KeyInv
<1> QED
  BY <1>4, <1>5

\* A checkout goes out with the key of its form, or with a new one.
LEMMA SubmitKeeps == ASSUME ShopInv, NEW s \in Wires, submit(s) PROVE ShopInv'
<1> DEFINE f == CheckoutForm(form)
           k == KeyOf(f, presses')
           asked == [Idle EXCEPT !.kind = "checkout", !.op = "checkout", !.form = f, !.key = k]
           d == [asked EXCEPT !.state = "sent", !.fresh = TRUE]
<1>1. /\ Call(s, wire, asked) /\ Press
      /\ form' = [form EXCEPT !.submitting = TRUE, !.signature = f, !.key = k]
      /\ UNCHANGED << serverVars, contextVars, route, cartPage, quote >>
      /\ route = "checkout" /\ form.method # NoMethod
  BY DEF submit
<1>2. presses \in Nat /\ presses' = presses + 1
  BY <1>1 DEF Press, ShopInv, PageInv, PageTypes
<1>3. f \in Forms /\ f.sel = form.sel /\ f.method = form.method
  BY DEF CheckoutForm, Forms, ShopInv, PageInv, PageTypes, CheckoutPages
<1>4. form.key \in Nat /\ form.signature \in Forms
      /\ (form.key = 0 => form.signature = NoForm) /\ form.key <= presses
  <2>1. [key |-> form.key, form |-> form.signature] \in Submitted
    BY DEF Submitted
  <2> QED
    BY <2>1 DEF ShopInv, KeyInv, KeysAgree, PageInv, PageTypes, CheckoutPages
<1>5. k \in Nat /\ k > 0 /\ k <= presses'
      /\ (k = presses' \/ (k = form.key /\ f = form.signature))
  <2>1. f # NoForm
    BY <1>1, <1>3, Nothings
  <2> QED
    BY <1>2, <1>4, <2>1 DEF KeyOf
<1> HIDE DEF f, k
<1>6. d \in CallRecords /\ d.state = "sent" /\ d.ans = << >> /\ d.form = f /\ d.key = k
      /\ d.kind = "checkout" /\ d.op = "checkout"
  BY <1>3, <1>5, IdleIs DEF CallShaped, CallRecords
<1>7. Sends(wire, s, d)
  BY <1>1 DEF Call, Sends
<1> HIDE DEF asked, d
<1>8. New(d)
  BY <1>3, <1>5, <1>6, Nothings DEF New, CallShaped, ShopInv, PageInv, PagesUsed
<1>9. /\ wire' \in [Wires -> CallRecords] /\ wire'[s] = d
      /\ \A t \in Wires \ {s} : Kept(wire[t], wire'[t])
      /\ \A t \in Wires \ {s} : FreshQuote(wire'[t]) <=> FreshQuote(wire[t])
      /\ ~FreshQuote(wire[s])
  BY <1>7, <1>8, CallOf, CallWires
<1>10. ServerInv' /\ WireInv'
  BY <1>1, <1>8, <1>9, WiresKept DEF ShopInv, WiresStep
<1>11. /\ form' \in CheckoutPages
       /\ form'.key = k /\ form'.signature = f /\ form'.asks = form.asks
       /\ form'.sel = form.sel /\ form'.addr = form.addr /\ form'.method = form.method
  BY <1>1, <1>3, <1>5 DEF ShopInv, PageInv, PageTypes, CheckoutPages
<1>12. PageInv' /\ Wanted' = Wanted
  BY <1>1, <1>2, <1>11 DEF ShopInv, PageInv, PageTypes, PagesUsed, RowsOf, serverVars,
                           contextVars,
                           Wanted, CheckoutForm
<1>13. KeyInv'
  <2> DEFINE n == [key |-> k, form |-> f]
  <2>1. n.key = k /\ n.form = f
    OBVIOUS
  <2>2. ASSUME NEW a \in Submitted' PROVE a = n \/ a \in Submitted
    <3>1. CASE \E t \in Wires : wire'[t].key > 0 /\ a = [key |-> wire'[t].key, form |-> wire'[t].form]
      <4>1. PICK t \in Wires : wire'[t].key > 0 /\ a = [key |-> wire'[t].key, form |-> wire'[t].form]
        BY <3>1
      <4>2. CASE t = s
        BY <1>6, <1>9, <4>1, <4>2
      <4>3. CASE t # s
        <5>1. wire'[t].key = wire[t].key /\ wire'[t].form = wire[t].form
          BY <1>9, <4>1, <4>3 DEF Kept
        <5> QED
          BY <4>1, <5>1 DEF Submitted
      <4> QED
        BY <4>2, <4>3
    <3>2. CASE a = [key |-> form'.key, form |-> form'.signature]
      BY <1>11, <3>2
    <3>3. CASE \E o \in orders : a = [key |-> o.key, form |-> o.form]
      BY <3>3 DEF Submitted
    <3>4. UNCHANGED orders
      BY <1>1 DEF serverVars
    <3> QED
      BY <3>1, <3>2, <3>3, <3>4 DEF Submitted
  <2>3. n \in Submitted \/ k = presses'
    BY <1>5 DEF Submitted
  <2>4. ASSUME NEW a \in Submitted
        PROVE  a.key \in Nat /\ a.key <= presses /\ (a.key = 0 => a.form = NoForm)
    <3>1. a.key \in Nat
      BY DEF Submitted, ShopInv, PageInv, WireInv, ServerInv, PageTypes, WireTypes, ServerTypes,
             CallRecords, CheckoutPages
    <3> QED
      BY <3>1 DEF ShopInv, KeyInv, KeysAgree
  <2> HIDE DEF n
  <2>5. ASSUME NEW a \in Submitted' PROVE a.key <= presses' /\ (a.key = 0 => a.form = NoForm)
    BY <1>2, <1>5, <2>1, <2>2, <2>4
  <2>6. ASSUME NEW a \in Submitted', NEW b \in Submitted', a.key = b.key PROVE a.form = b.form
    <3>1. CASE a \in Submitted /\ b \in Submitted
      BY <2>6, <3>1 DEF ShopInv, KeyInv, KeysAgree
    <3>2. CASE n \in Submitted
      BY <2>2, <2>6, <3>2 DEF ShopInv, KeyInv, KeysAgree
    <3>3. CASE k = presses'
      BY <1>2, <2>1, <2>2, <2>4, <2>6, <3>1, <3>3
    <3> QED
      BY <2>3, <3>2, <3>3
  <2>7. SubmittedIsShown'
    BY <1>1 DEF SubmittedIsShown
  <2> QED
    BY <2>5, <2>6, <2>7 DEF KeyInv, KeysAgree
<1>14. QuotesAreCurrent'
  BY <1>1, <1>6, <1>9, <1>12, CallKeepsQuote DEF ShopInv, FreshQuote
<1> QED
  BY <1>10, <1>12, <1>13, <1>14 DEF ShopInv

\* The calls change on the device only: they are cut off, or lost in the reload.
LEMMA ReloadKeeps == ASSUME ShopInv, reload PROVE ShopInv'
<1>1. /\ UNCHANGED << serverVars, route >> /\ quote' = NoTotal /\ shared' = << >>
      /\ wire' = [s \in Wires |-> IF wire[s].op = "none" \/ Settled(wire[s]) THEN Idle
                                  ELSE [wire[s] EXCEPT !.kind = "ghost"]]
      /\ cartPage' = NoCartPage \/ cartPage' = [NoCartPage EXCEPT !.due = TRUE, !.loading = TRUE]
      /\ (route # "checkout" /\ UNCHANGED form)
         \/ (route = "checkout" /\ \E a \in Addresses : form' = Checkout(form.sel, a))
  BY DEF reload
<1>2. presses' \in Nat /\ presses <= presses'
  BY Pressed DEF reload, ShopInv, PageInv, PageTypes
<1>3. ASSUME NEW t \in Wires
      PROVE  wire'[t] \in CallRecords /\ Kept(wire[t], wire'[t]) /\ ~FreshQuote(wire'[t])
  <2>1. wire[t] \in CallRecords /\ CallShaped(wire[t])
    BY CallOf
  <2>2. CASE wire[t].op = "none" \/ Settled(wire[t])
    <3>1. wire'[t] = Idle
      BY <1>1, <2>2
    <3> QED
      BY <3>1, IdleIs, IdleKept DEF CallShaped
  <2>3. CASE ~(wire[t].op = "none" \/ Settled(wire[t]))
    <3> DEFINE d == [wire[t] EXCEPT !.kind = "ghost"]
    <3>1. wire'[t] = d
      BY <1>1, <2>3
    <3>2. /\ d \in CallRecords /\ d.kind = "ghost" /\ d.key = wire[t].key /\ d.form = wire[t].form
          /\ d.state = wire[t].state /\ d.ok = wire[t].ok /\ d.ans = wire[t].ans
          /\ d.fresh = wire[t].fresh /\ d.op = wire[t].op
      BY <2>1 DEF CallRecords
    <3>3. wire[t].kind # "idle"
      BY <2>1, <2>3 DEF CallShaped
    <3> HIDE DEF d
    <3> QED
      BY <2>1, <3>1, <3>2, <3>3 DEF Kept, CallShaped, FreshQuote
  <2> QED
    BY <2>2, <2>3
<1>4. wire' = [t \in Wires |-> wire'[t]]
  BY <1>1
<1>5. WiresFrom(wire') /\ Silent(wire')
  BY <1>3, <1>4 DEF WiresFrom, Silent
<1>6. /\ form' \in CheckoutPages
      /\ form'.sel = form.sel /\ (form'.asks => form'.addr \in Addresses)
      /\ \/ form'.key = form.key /\ form'.signature = form.signature /\ route' = route
         \/ form'.key = 0 /\ form'.signature = NoForm /\ route' # "order"
  <2>1. CASE UNCHANGED form
    BY <1>1, <2>1 DEF ShopInv, PageInv, PageTypes
  <2>2. CASE route = "checkout" /\ \E a \in Addresses : form' = Checkout(form.sel, a)
    <3>1. PICK a \in Addresses : form' = Checkout(form.sel, a)
      BY <2>2
    <3>2. form.sel \in SUBSET Rows
      BY DEF ShopInv, PageInv, PageTypes, CheckoutPages
    <3> QED
      BY <1>1, <2>2, <3>1, <3>2, CheckoutOpens
  <2> QED
    BY <1>1, <2>1, <2>2
<1>7. /\ cartPage' \in CartPages
      /\ RowsOf(cartPage'.snapshot) = {} /\ cartPage'.selected = {}
  BY <1>1, NothingOpen DEF CartPages
<1>8. PageInv'
  <2>1. PageTypes'
    BY <1>1, <1>2, <1>6, <1>7, Nothings, NothingOpen DEF PageTypes
  <2>2. PagesUsed'
    BY <1>1, <1>6, <1>7, Nothings DEF PagesUsed, ShopInv, PageInv, RowsOf, serverVars
  <2> QED
    BY <2>1, <2>2 DEF PageInv
<1> QED
  BY <1>1, <1>2, <1>5, <1>6, <1>8, NothingOpen, PagesMove

\* A cut-off call keeps its key, and so does the request that goes on.
LEMMA LoseKeeps == ASSUME ShopInv, NEW s \in Wires, lose(s) PROVE ShopInv'
<1> DEFINE c == wire[s]
           d == Cut(c)
           ghost == [c EXCEPT !.kind = "ghost"]
<1>1. /\ UNCHANGED << serverVars, contextVars, route, cartPage, form, quote, presses >>
      /\ c.kind \notin {"idle", "ghost"}
      /\ \/ wire' = [wire EXCEPT ![s] = d]
         \/ /\ c.kind \in {"change", "checkout"} /\ ~Settled(c)
            /\ \E g \in Wires : wire[g].kind = "idle" /\ wire' = [wire EXCEPT ![s] = d, ![g] = ghost]
  BY DEF lose
<1>2. c \in CallRecords /\ CallShaped(c) /\ RowsOf(c.ans) \subseteq used /\ c.form.sel \subseteq used
      /\ WireTypes
  BY CallOf
<1>3. /\ d \in CallRecords /\ d.kind = c.kind /\ d.key = c.key /\ d.form = c.form /\ d.op = c.op
      /\ d.state = "lost" /\ d.ok = FALSE /\ d.ans = << >> /\ d.fresh = c.fresh
  BY <1>2, Nothings DEF CallRecords, Cut
<1>4. /\ ghost \in CallRecords /\ ghost.kind = "ghost" /\ ghost.key = c.key /\ ghost.form = c.form
      /\ ghost.op = c.op /\ ghost.state = c.state /\ ghost.ok = c.ok /\ ghost.ans = c.ans
  BY <1>2 DEF CallRecords
<1> HIDE DEF d, ghost
<1>5. New(d) /\ (FreshQuote(d) <=> FreshQuote(c)) /\ Same(c, d)
  BY <1>1, <1>2, <1>3, Nothings DEF New, CallShaped, FreshQuote, Same
<1>6. ~Settled(c) => New(ghost)
  BY <1>2, <1>4 DEF New, CallShaped, Settled
<1>7. ~FreshQuote(ghost) /\ Same(c, ghost)
  BY <1>4 DEF FreshQuote, Same
<1>8. /\ wire' \in [Wires -> CallRecords] /\ wire'[s] = d
      /\ \A t \in Wires \ {s} : \/ wire'[t] = wire[t]
                                \/ wire[t].kind = "idle" /\ wire'[t] = ghost /\ ~Settled(c)
  <2>1. CASE wire' = [wire EXCEPT ![s] = d]
    BY <1>2, <1>3, <2>1 DEF WireTypes
  <2>2. CASE ~Settled(c) /\ \E g \in Wires : wire[g].kind = "idle"
                                             /\ wire' = [wire EXCEPT ![s] = d, ![g] = ghost]
    <3>1. PICK g \in Wires : wire[g].kind = "idle" /\ wire' = [wire EXCEPT ![s] = d, ![g] = ghost]
      BY <2>2
    <3>2. g # s
      BY <1>1, <3>1
    <3> QED
      BY <1>2, <1>3, <1>4, <2>2, <3>1, <3>2 DEF WireTypes
  <2> QED
    BY <1>1, <2>1, <2>2
<1> HIDE DEF c
<1>9. WiresStep
  <2> SUFFICES ASSUME NEW t \in Wires PROVE Kept(wire[t], wire'[t]) \/ New(wire'[t])
    BY <1>8 DEF WiresStep
  <2>1. CallShaped(wire[t])
    BY CallOf
  <2> QED
    BY <1>5, <1>6, <1>8, <2>1, SelfKept
<1>10. ServerInv' /\ WireInv'
  BY <1>1, <1>9, WiresKept DEF ShopInv
<1>11. PageInv' /\ Wanted' = Wanted
  BY <1>1 DEF ShopInv, PageInv, PageTypes, PagesUsed, RowsOf, serverVars, contextVars, Wanted
<1>12. KeyInv'
  <2>1. UNCHANGED orders /\ presses' \in Nat /\ presses <= presses'
    BY <1>1 DEF serverVars, ShopInv, PageInv, PageTypes
  <2>2. \A t \in Wires : wire'[t].key = 0 \/ \E u \in Wires : Same(wire[u], wire'[t])
    BY <1>5, <1>7, <1>8 DEF Same, c
  <2> QED
    BY <1>1, <2>1, <2>2, KeysOfPages DEF ShopInv, WireInv, ServerInv, PageInv
<1>13. QuotesAreCurrent'
  <2>1. Calm(wire')
    BY <1>5, <1>7, <1>8 DEF Calm, FreshQuote, c
  <2>2. \A t \in Wires : FreshQuote(wire'[t]) => wire'[t].form = wire[t].form
    BY <1>3, <1>7, <1>8 DEF c
  <2> QED
    BY <1>1, <1>11, <2>1, <2>2, CalmKeepsQuote DEF ShopInv
<1> QED
  BY <1>10, <1>11, <1>12, <1>13 DEF ShopInv

------------------------------------------------------------------------------
(* The server. *)

\* Numbers have a least one.
LEMMA MinIn == ASSUME NEW S \in SUBSET Nat, S # {} PROVE Min(S) \in S
<1> DEFINE R == OpToRel(<, Nat)
<1>1. IsWellFoundedOn(R, Nat)
  BY NatLessThanWellFounded
<1>2. \A x, y \in Nat : y < x => << y, x >> \in R
  BY DEF OpToRel
<1> HIDE DEF R
<1>3. PICK x \in S : \A y \in S : ~(<< y, x >> \in R)
  BY <1>1, WFMin
<1>4. ASSUME NEW y \in S PROVE x =< y
  <2>1. x \in Nat /\ y \in Nat
    OBVIOUS
  <2>2. ~(y < x)
    BY <1>2, <1>3, <2>1
  <2> QED
    BY <2>1, <2>2
<1> QED
  BY <1>4 DEF Min

\* An answer: the call is settled, and what the server has done concerns its rows
\* and its key only.
LEMMA AnswerKeeps ==
  ASSUME ShopInv, NEW s \in Wires, NEW ok \in BOOLEAN, NEW ans \in Snapshots, Answer(s, ok, ans),
         UNCHANGED clientVars, ServerInv', used \subseteq used', orders \subseteq orders',
         RowsOf(ans) \subseteq used',
         wire[s].kind # "idle",
         \A o \in orders' \ orders : /\ wire[s].key > 0 /\ o.key = wire[s].key
                                     /\ o.form = wire[s].form /\ Possible(wire[s].form),
         \A f : f.sel \subseteq used /\ f.sel \subseteq cart' => f.sel \subseteq cart,
         wire[s].kind = "checkout" =>
           IF ok THEN \E o \in orders' : o.key = wire[s].key /\ o.form = wire[s].form
           ELSE ~(\E o \in orders' : o.key = wire[s].key) /\ ~Possible(wire[s].form)
  PROVE  ShopInv'
<1> DEFINE c == wire[s]
           d == IF c.kind = "ghost" THEN Idle ELSE [c EXCEPT !.state = "done", !.ok = ok, !.ans = ans]
<1>1. c \in CallRecords /\ CallShaped(c) /\ c.form.sel \subseteq used /\ WireTypes
  BY CallOf
<1>2. wire' = [wire EXCEPT ![s] = d]
  BY DEF Answer
<1>3. /\ d \in CallRecords /\ CallShaped(d) /\ RowsOf(d.ans) \subseteq used'
      /\ d.form.sel \subseteq used'
      /\ d.key = 0 \/ Same(c, d)
      /\ FreshQuote(d) <=> FreshQuote(c)
      /\ FreshQuote(d) => d.form = c.form
      /\ d.kind = "checkout" => c.kind = "checkout" /\ d.state = "done" /\ d.ok = ok /\ Same(c, d)
  <2>1. CASE c.kind = "ghost"
    BY <2>1, IdleIs, Nothings DEF CallShaped, FreshQuote
  <2>2. CASE c.kind # "ghost"
    <3> DEFINE e == [c EXCEPT !.state = "done", !.ok = ok, !.ans = ans]
    <3>1. d = e
      BY <2>2
    <3>2. /\ e \in CallRecords /\ e.kind = c.kind /\ e.key = c.key /\ e.form = c.form /\ e.op = c.op
          /\ e.state = "done" /\ e.ok = ok /\ e.ans = ans /\ e.fresh = c.fresh
      BY <1>1 DEF CallRecords
    <3> HIDE DEF c, d, e
    <3>3. RowsOf(e.ans) \subseteq used'
      BY <3>2
    <3> QED
      BY <1>1, <3>1, <3>2, <3>3 DEF CallShaped, FreshQuote, Same
  <2> QED
    BY <2>1, <2>2
<1> HIDE DEF d
<1>4. wire' \in [Wires -> CallRecords] /\ wire'[s] = d /\ \A t \in Wires \ {s} : wire'[t] = wire[t]
  BY <1>1, <1>2, <1>3 DEF WireTypes
<1> HIDE DEF c
<1>5. WireTypes'
  BY <1>1, <1>3, <1>4 DEF WireTypes
<1>6. CallsUsed'
  <2> SUFFICES ASSUME NEW t \in Wires
               PROVE  RowsOf(wire'[t].ans) \subseteq used' /\ wire'[t].form.sel \subseteq used'
    BY DEF CallsUsed, RowsOf
  <2>1. CASE t = s
    BY <1>3, <1>4, <2>1
  <2>2. CASE t # s
    BY <1>4, <2>2, CallOf
  <2> QED
    BY <2>1, <2>2
<1>7. AnswersAgree'
  <2> SUFFICES ASSUME NEW t \in Wires, wire'[t].kind = "checkout", wire'[t].state = "done"
               PROVE  IF wire'[t].ok
                      THEN \E o \in orders' : o.key = wire'[t].key /\ o.form = wire'[t].form
                      ELSE /\ ~(\E o \in orders' : o.key = wire'[t].key)
                           /\ ~(wire'[t].form.sel \subseteq cart' /\ Delivered(wire'[t].form))
    BY DEF AnswersAgree, Known, Possible, Delivered
  <2>1. CASE t = s
    <3>1. wire'[t].ok = ok /\ wire'[t].key = c.key /\ wire'[t].form = c.form /\ c.kind = "checkout"
      BY <1>3, <1>4, <2>1 DEF Same
    <3>2. ~Possible(c.form) => ~(c.form.sel \subseteq cart' /\ Delivered(c.form))
      BY <1>1 DEF Possible
    <3> QED
      BY <3>1, <3>2 DEF c
  <2>2. CASE t # s
    <3>1. wire'[t] = wire[t] /\ wire[t].form.sel \subseteq used /\ CallShaped(wire[t])
      BY <1>4, <2>2, CallOf
    <3>2. IF wire[t].ok THEN \E o \in orders : o.key = wire[t].key /\ o.form = wire[t].form
          ELSE ~Known(wire[t].key) /\ ~Possible(wire[t].form)
      BY <3>1 DEF ShopInv, WireInv, AnswersAgree
    <3>3. CASE wire[t].ok
      BY <3>1, <3>2, <3>3
    <3>4. CASE ~wire[t].ok
      <4>1. ~(wire[t].form.sel \subseteq cart' /\ Delivered(wire[t].form))
        BY <3>1, <3>2, <3>4 DEF Possible
      <4>2. ASSUME NEW o \in orders', o.key = wire[t].key PROVE FALSE
        <5>1. o \notin orders
          BY <3>2, <3>4, <4>2 DEF Known
        <5>2. o.key = wire[s].key /\ wire[s].key > 0 /\ Possible(wire[s].form)
          BY <5>1
        <5>3. /\ [key |-> wire[s].key, form |-> wire[s].form] \in Submitted
              /\ [key |-> wire[t].key, form |-> wire[t].form] \in Submitted
          BY <4>2, <5>2 DEF Submitted
        <5>4. wire[s].form = wire[t].form
          BY <4>2, <5>2, <5>3 DEF ShopInv, KeyInv, KeysAgree
        <5> QED
          BY <3>2, <3>4, <5>2, <5>4
      <4> QED
        BY <3>1, <3>4, <4>1, <4>2
    <3> QED
      BY <3>3, <3>4
  <2> QED
    BY <2>1, <2>2
<1>8. UNCHANGED << shared, route, cartPage, form, quote, presses >>
  BY DEF clientVars, contextVars
<1>9. PageInv' /\ Wanted' = Wanted
  BY <1>8 DEF ShopInv, PageInv, PageTypes, PagesUsed, RowsOf, Wanted
<1>10. KeysAgree'
  <2>1. ASSUME NEW a \in Submitted' PROVE a \in Submitted \/ (a.key = 0 /\ a.form = NoForm)
    <3>1. CASE \E t \in Wires : wire'[t].key > 0 /\ a = [key |-> wire'[t].key, form |-> wire'[t].form]
      <4>1. PICK t \in Wires : wire'[t].key > 0 /\ a = [key |-> wire'[t].key, form |-> wire'[t].form]
        BY <3>1
      <4>2. wire'[t].key = wire[t].key /\ wire'[t].form = wire[t].form
        BY <1>3, <1>4, <4>1 DEF Same, c
      <4> QED
        BY <4>1, <4>2 DEF Submitted
    <3>2. CASE a = [key |-> form'.key, form |-> form'.signature]
      BY <1>8, <3>2 DEF Submitted
    <3>3. CASE \E o \in orders' : a = [key |-> o.key, form |-> o.form]
      BY <3>3 DEF Submitted
    <3> QED
      BY <3>1, <3>2, <3>3 DEF Submitted
  <2>2. presses' \in Nat /\ presses <= presses'
    BY <1>8 DEF ShopInv, PageInv, PageTypes
  <2> QED
    BY <2>1, <2>2, KeysKept DEF ShopInv, KeyInv, WireInv, ServerInv, PageInv
<1>11. SubmittedIsShown'
  BY <1>8 DEF SubmittedIsShown, ShopInv, KeyInv
<1>12. QuotesAreCurrent'
  <2>1. Calm(wire')
    BY <1>3, <1>4 DEF Calm, FreshQuote, c
  <2>2. \A t \in Wires : FreshQuote(wire'[t]) => wire'[t].form = wire[t].form
    BY <1>3, <1>4 DEF c
  <2> QED
    BY <1>8, <1>9, <2>1, <2>2, CalmKeepsQuote DEF ShopInv
<1> QED
  BY <1>5, <1>6, <1>7, <1>9, <1>10, <1>11, <1>12 DEF ShopInv, WireInv, KeyInv

\* An answer for which the server did nothing.
LEMMA QuietAnswerKeeps ==
  ASSUME ShopInv, NEW s \in Wires, NEW ok \in BOOLEAN, NEW ans \in Snapshots, Answer(s, ok, ans),
         UNCHANGED << serverVars, clientVars >>, RowsOf(ans) \subseteq used,
         wire[s].kind \notin {"idle", "checkout"}
  PROVE  ShopInv'
<1>1. UNCHANGED << cart, amount, orders, used >>
  BY DEF serverVars
<1>2. ServerInv'
  BY <1>1 DEF ShopInv, ServerInv, ServerTypes, RowsOrderedOnce, Ordered
<1> QED
  BY <1>1, <1>2, AnswerKeeps

\* The cart in an answer has only rows of the cart.
LEMMA SnapshotIs ==
  ASSUME NEW C, NEW f \in [Rows -> Nat]
  PROVE  /\ << [r \in Rows |-> IF r \in C THEN f[r] ELSE 0] >> \in Snapshots
         /\ RowsOf(<< [r \in Rows |-> IF r \in C THEN f[r] ELSE 0] >>) \subseteq C
<1> DEFINE g == [r \in Rows |-> IF r \in C THEN f[r] ELSE 0]
<1>1. g \in [Rows -> Nat] /\ \A r \in Rows : g[r] > 0 => r \in C
  OBVIOUS
<1> HIDE DEF g
<1>2. << g >> \in Snapshots /\ << g >>[1] = g /\ << g >> # << >>
  BY <1>1 DEF Snapshots
<1>3. RowsOf(<< g >>) \subseteq C
  BY <1>1, <1>2 DEF RowsOf
<1> QED
  BY <1>2, <1>3 DEF g

\* An answer with the cart has its rows.
LEMMA GetCartKeeps == ASSUME ShopInv, NEW s \in Wires, getCart(s) PROVE ShopInv'
<1>1. Snapshot \in Snapshots /\ RowsOf(Snapshot) \subseteq used
  BY SnapshotIs DEF Snapshot, ShopInv, ServerInv, ServerTypes
<1> QED
  BY <1>1, QuietAnswerKeeps DEF getCart

\* Totals and methods change nothing on the server.
LEMMA AnswerQuestionKeeps == ASSUME ShopInv, NEW s \in Wires, answerQuestion(s) PROVE ShopInv'
<1> DEFINE ok == wire[s].kind = "quote" => Possible(wire[s].form)
<1>1. ok \in BOOLEAN /\ Answer(s, ok, << >>) /\ wire[s].kind \in {"quote", "methods"}
      /\ UNCHANGED << serverVars, clientVars >>
  BY DEF answerQuestion
<1> HIDE DEF ok
<1> QED
  BY <1>1, Nothings, QuietAnswerKeeps

\* A change that found its row is not answered yet.
LEMMA FindRowKeeps == ASSUME ShopInv, NEW s \in Wires, findRow(s) PROVE ShopInv'
<1> DEFINE c == wire[s]
<1>1. c \in CallRecords /\ CallShaped(c) /\ RowsOf(c.ans) \subseteq used /\ c.form.sel \subseteq used
      /\ WireTypes
  BY CallOf
<1>2. c.op \in {"add", "update", "remove"} /\ c.state = "sent" /\ UNCHANGED << serverVars, clientVars >>
  BY DEF findRow
<1>3. c.kind \notin {"idle", "checkout", "quote"}
  BY <1>1, <1>2 DEF CallShaped
<1>4. CASE Answer(s, FALSE, << >>)
  BY <1>2, <1>3, <1>4, Nothings, QuietAnswerKeeps
<1>5. CASE wire' = [wire EXCEPT ![s].row = Target(c), ![s].state = "found"]
  <2> DEFINE d == [c EXCEPT !.row = Target(c), !.state = "found"]
  <2>1. Target(c) \subseteq Rows
    BY <1>1 DEF Target, CallRecords, ShopInv, ServerInv, ServerTypes
  <2>2. wire' = [wire EXCEPT ![s] = d]
    BY <1>1, <1>5 DEF WireTypes
  <2>3. /\ d \in CallRecords /\ d.kind = c.kind /\ d.key = c.key /\ d.form = c.form /\ d.op = c.op
        /\ d.state = "found" /\ d.ok = c.ok /\ d.ans = c.ans
    BY <1>1, <2>1 DEF CallRecords
  <2> HIDE DEF c, d
  <2>4. New(d) /\ Same(c, d) /\ ~FreshQuote(c) /\ ~FreshQuote(d)
    BY <1>1, <1>2, <1>3, <2>3 DEF New, CallShaped, FreshQuote, Same
  <2>5. wire' \in [Wires -> CallRecords] /\ wire'[s] = d /\ \A t \in Wires \ {s} : wire'[t] = wire[t]
    BY <1>1, <2>2, <2>3 DEF WireTypes
  <2>6. WiresStep
    <3> SUFFICES ASSUME NEW t \in Wires PROVE Kept(wire[t], wire'[t]) \/ New(wire'[t])
      BY <2>5 DEF WiresStep
    <3>1. CallShaped(wire[t])
      BY CallOf
    <3> QED
      BY <2>4, <2>5, <3>1, SelfKept
  <2>7. ServerInv' /\ WireInv'
    BY <1>2, <2>6, WiresKept DEF ShopInv
  <2>8. UNCHANGED << shared, route, cartPage, form, quote, presses, used, orders >>
    BY <1>2 DEF clientVars, contextVars, serverVars
  <2>9. PageInv' /\ Wanted' = Wanted
    BY <2>8 DEF ShopInv, PageInv, PageTypes, PagesUsed, RowsOf, Wanted
  <2>10. KeyInv'
    <3>1. presses' \in Nat /\ presses <= presses'
      BY <2>8 DEF ShopInv, PageInv, PageTypes
    <3>2. \A t \in Wires : wire'[t].key = 0 \/ \E u \in Wires : Same(wire[u], wire'[t])
      BY <2>4, <2>5 DEF Same, c
    <3> QED
      BY <2>8, <3>1, <3>2, KeysOfPages DEF ShopInv, WireInv, ServerInv, PageInv
  <2>11. QuotesAreCurrent'
    <3>1. Calm(wire')
      BY <2>4, <2>5 DEF Calm, c
    <3>2. \A t \in Wires : FreshQuote(wire'[t]) => wire'[t].form = wire[t].form
      BY <2>4, <2>5
    <3> QED
      BY <2>8, <2>9, <3>1, <3>2, CalmKeepsQuote DEF ShopInv
  <2> QED
    BY <2>7, <2>9, <2>10, <2>11 DEF ShopInv
<1> QED
  BY <1>4, <1>5 DEF findRow

\* The cart gains only a row with a new number, which no form has.
LEMMA WriteRowKeeps == ASSUME ShopInv, NEW s \in Wires, writeRow(s) PROVE ShopInv'
<1> DEFINE c == wire[s]
           ans == << [r \in Rows |-> IF r \in cart' THEN amount'[r] ELSE 0] >>
           new == {r \in Rows : of[r] \in c.product /\ r \notin used}
<1>1. c \in CallRecords /\ CallShaped(c) /\ c.qty \in Nat /\ c.row \subseteq Rows
  BY CallOf DEF CallRecords
<1>2. c.state = "found" /\ UNCHANGED << orders, clientVars >> /\ Answer(s, TRUE, ans)
      /\ IF c.row = {}
         THEN /\ new # {}
              /\ cart' = cart \cup {Min(new)} /\ used' = used \cup {Min(new)}
              /\ amount' = [amount EXCEPT ![Min(new)] = c.qty]
         ELSE \E r \in c.row :
                /\ cart' = IF c.op = "remove" THEN cart \ {r} ELSE cart
                /\ used' = used
                /\ amount' = [amount EXCEPT ![r] = IF c.op = "remove" \/ @ = 0 THEN 0 ELSE c.qty]
  BY DEF writeRow
<1>3. c.kind \notin {"idle", "checkout"}
  BY <1>1, <1>2 DEF CallShaped
<1>4. /\ cart \subseteq used /\ used \subseteq Rows /\ amount \in [Rows -> Nat]
      /\ \A o \in orders : o.key \in Nat /\ o.form \in Forms /\ o.rows \subseteq used
      /\ RowsOrderedOnce
  BY DEF ShopInv, ServerInv, ServerTypes
<1> HIDE DEF c, ans
<1>5. /\ cart' \subseteq used' /\ used \subseteq used' /\ used' \subseteq Rows
      /\ amount' \in [Rows -> Nat]
      /\ cart' \cap used \subseteq cart
  <2>1. CASE c.row = {}
    <3>1. new \in SUBSET Nat /\ new # {}
      BY <1>2, <2>1, ShopAssumption
    <3>2. Min(new) \in new
      <4> HIDE DEF new
      <4> QED
        BY <3>1, MinIn
    <3> DEFINE m == Min(new)
    <3>3. m \in Rows /\ m \notin used
      BY <3>2
    <3>4. cart' = cart \cup {m} /\ used' = used \cup {m} /\ amount' = [amount EXCEPT ![m] = c.qty]
      BY <1>2, <2>1
    <3> HIDE DEF m
    <3> QED
      BY <1>1, <1>4, <3>3, <3>4
  <2>2. CASE c.row # {}
    <3>1. PICK r \in c.row :
            /\ cart' = IF c.op = "remove" THEN cart \ {r} ELSE cart
            /\ used' = used
            /\ amount' = [amount EXCEPT ![r] = IF c.op = "remove" \/ @ = 0 THEN 0 ELSE c.qty]
      BY <1>2, <2>2
    <3>2. cart' \subseteq cart
      BY <3>1
    <3>3. amount' \in [Rows -> Nat]
      BY <1>1, <1>4, <3>1
    <3> QED
      BY <1>4, <3>1, <3>2, <3>3
  <2> QED
    BY <2>1, <2>2
<1>6. UNCHANGED orders
  BY <1>2
<1>7. ServerInv'
  <2>1. ServerTypes'
    BY <1>4, <1>5, <1>6 DEF ServerTypes
  <2>2. Ordered' = Ordered /\ Ordered \subseteq used
    BY <1>4, <1>6 DEF Ordered
  <2>3. RowsOrderedOnce'
    <3>1. cart \cap Ordered = {}
      BY <1>4 DEF RowsOrderedOnce
    <3>2. cart' \cap Ordered' = {}
      BY <1>5, <2>2, <3>1
    <3> QED
      BY <1>4, <1>6, <3>2 DEF RowsOrderedOnce
  <2> QED
    BY <2>1, <2>3 DEF ServerInv
<1>8. ans \in Snapshots /\ RowsOf(ans) \subseteq used'
  BY <1>5, SnapshotIs DEF ans
<1> QED
  BY <1>2, <1>3, <1>5, <1>6, <1>7, <1>8, AnswerKeeps DEF c

\* An order is made of rows of the cart, and under a key that no order has.
LEMMA CheckoutKeeps == ASSUME ShopInv, NEW s \in Wires, checkout(s) PROVE ShopInv'
<1> DEFINE c == wire[s]
           f == c.form
           ok == Known(c.key) \/ Possible(f)
           new == [key |-> c.key, form |-> f, rows |-> f.sel, reserved |-> [r \in f.sel |-> amount[r]]]
<1>1. CallShaped(c) /\ c.key \in Nat /\ f \in Forms /\ f.sel \subseteq used
  BY CallOf DEF CallRecords
<1>2. c.key > 0 /\ Answer(s, ok, << >>) /\ UNCHANGED clientVars /\ ok \in BOOLEAN
  BY DEF checkout
<1>3. c.kind # "idle"
  BY <1>1, <1>2 DEF CallShaped
<1>4. /\ cart \subseteq used /\ used \subseteq Rows /\ amount \in [Rows -> Nat]
      /\ \A o \in orders : o.key \in Nat /\ o.form \in Forms /\ o.rows \subseteq used
      /\ RowsOrderedOnce
  BY DEF ShopInv, ServerInv, ServerTypes
<1>5. /\ [key |-> c.key, form |-> f] \in Submitted
      /\ \A o \in orders : [key |-> o.key, form |-> o.form] \in Submitted
  BY <1>2 DEF Submitted
<1>6. \A o \in orders : o.key = c.key => o.form = f
  BY <1>5 DEF ShopInv, KeyInv, KeysAgree
<1>7. CASE Known(c.key) \/ ~Possible(f)
  <2>1. UNCHANGED << cart, amount, orders, used >>
    BY <1>7 DEF checkout, serverVars
  <2>2. ServerInv'
    BY <2>1 DEF ShopInv, ServerInv, ServerTypes, RowsOrderedOnce, Ordered
  <2>3. IF ok THEN \E o \in orders' : o.key = c.key /\ o.form = f
        ELSE ~(\E o \in orders' : o.key = c.key) /\ ~Possible(f)
    BY <1>6, <1>7, <2>1 DEF Known
  <2> HIDE DEF c, f, ok
  <2> QED
    BY <1>2, <1>3, <2>1, <2>2, <2>3, Nothings, AnswerKeeps DEF c, f
<1>8. CASE ~Known(c.key) /\ Possible(f)
  <2>1. cart' = cart \ f.sel /\ orders' = orders \cup {new} /\ UNCHANGED << amount, used >>
    BY <1>8 DEF checkout
  <2>2. new.key = c.key /\ new.form = f /\ new.rows = f.sel
    OBVIOUS
  <2>3. f.sel \subseteq cart
    BY <1>8 DEF Possible
  <2>4. \A o \in orders : o.key # c.key
    BY <1>8 DEF Known
  <2>5. \A o \in orders : o.rows \cap cart = {}
    BY <1>4 DEF RowsOrderedOnce, Ordered
  <2> HIDE DEF new, c, f, ok
  <2>6. ServerTypes'
    BY <1>1, <1>4, <2>1, <2>2 DEF ServerTypes
  <2>7. RowsOrderedOnce'
    <3>1. cart' \cap Ordered' = {}
      BY <2>1, <2>2, <2>5 DEF Ordered
    <3>2. ASSUME NEW o1 \in orders', NEW o2 \in orders', o1 # o2
          PROVE  o1.rows \cap o2.rows = {} /\ o1.key # o2.key
      <4>1. CASE o1 \in orders /\ o2 \in orders
        BY <1>4, <3>2, <4>1 DEF RowsOrderedOnce
      <4>2. CASE o1 = new /\ o2 \in orders
        BY <2>2, <2>3, <2>4, <2>5, <4>2
      <4>3. CASE o2 = new /\ o1 \in orders
        BY <2>2, <2>3, <2>4, <2>5, <4>3
      <4> QED
        BY <2>1, <3>2, <4>1, <4>2, <4>3
    <3> QED
      BY <3>1, <3>2 DEF RowsOrderedOnce
  <2>8. ok
    BY <1>8 DEF ok
  <2>9. \E o \in orders' : o.key = c.key /\ o.form = f
    BY <2>1, <2>2
  <2>10. \A o \in orders' \ orders : c.key > 0 /\ o.key = c.key /\ o.form = f /\ Possible(f)
    BY <1>2, <1>8, <2>1, <2>2
  <2> QED
    BY <1>2, <1>3, <2>1, <2>6, <2>7, <2>8, <2>9, <2>10, Nothings, AnswerKeeps DEF c, f, ServerInv
<1> QED
  BY <1>7, <1>8

------------------------------------------------------------------------------
(* The shop. *)

\* The shop begins with it.
LEMMA ShopBegins == ASSUME ShopInit PROVE ShopInv
<1>1. /\ cart \subseteq Rows /\ used = cart /\ orders = {}
      /\ amount = [r \in Rows |-> IF r \in cart THEN 1 ELSE 0]
      /\ wire = [s \in Wires |-> Idle] /\ presses = 0 /\ cartPage = NoCartPage /\ quote = NoTotal
      /\ route \in {"catalog", "checkout"}
  BY DEF ShopInit
<1>2. amount \in [Rows -> Nat]
  BY <1>1
<1>3. \A s \in Wires : wire[s] = Idle
  BY <1>1
<1>4. shared \in Snapshots /\ RowsOf(shared) \subseteq used
  <2>1. Snapshot \in Snapshots /\ RowsOf(Snapshot) \subseteq cart
    BY <1>2, SnapshotIs DEF Snapshot
  <2>2. shared = << >> \/ shared = Snapshot
    BY Zenon DEF ShopInit
  <2>3. used = cart
    BY <1>1
  <2> QED
    BY <2>1, <2>2, <2>3, Nothings
<1>5. /\ form \in CheckoutPages
      /\ form.sel \subseteq used /\ (form.asks => form.addr \in Addresses)
      /\ form.key = 0 /\ form.signature = NoForm
  <2>1. CASE form = NoCheckout
    BY <2>1, NothingOpen
  <2>2. CASE \E sel \in SUBSET cart, a \in Addresses : form = Checkout(sel, a)
    <3>1. PICK sel \in SUBSET cart, a \in Addresses : form = Checkout(sel, a)
      BY <2>2
    <3>2. sel \in SUBSET Rows
      BY <1>1
    <3>3. used = cart
      BY <1>1
    <3> QED
      BY <3>1, <3>2, <3>3, CheckoutOpens
  <2>3. form = NoCheckout \/ \E sel \in (SUBSET cart) \ {{}}, a \in Addresses : form = Checkout(sel, a)
    BY Zenon DEF ShopInit
  <2> QED
    BY <2>1, <2>2, <2>3
<1>6. ServerInv
  BY <1>1, <1>2 DEF ServerInv, ServerTypes, RowsOrderedOnce, Ordered
<1>7. WireInv
  <2>1. wire \in [Wires -> CallRecords]
    BY <1>1, IdleIs DEF CallShaped
  <2> QED
    BY <2>1, <1>3, IdleIs, Nothings DEF WireInv, WireTypes, CallsUsed, AnswersAgree
<1>8. PageInv
  BY <1>1, <1>4, <1>5, NothingOpen DEF PageInv, PageTypes, PagesUsed
<1>9. KeyInv
  <2>1. Submitted = {[key |-> 0, form |-> NoForm]}
    BY <1>1, <1>3, <1>5, IdleIs DEF Submitted
  <2>2. KeysAgree
    BY <1>1, <2>1 DEF KeysAgree
  <2> QED
    BY <1>1, <2>2 DEF KeyInv, SubmittedIsShown
<1>10. QuotesAreCurrent
  BY <1>1, <1>3, IdleKept, NothingOpen DEF QuotesAreCurrent
<1> QED
  BY <1>6, <1>7, <1>8, <1>9, <1>10 DEF ShopInv

\* The handlers of the server.
LEMMA ServedKeeps == ASSUME ShopInv, NEW s \in Wires, Served(s) PROVE ShopInv'
  BY GetCartKeeps, AnswerQuestionKeeps, FindRowKeeps, WriteRowKeeps, CheckoutKeeps DEF Served

\* The answers that reach the device.
LEMMA AppliedKeeps == ASSUME ShopInv, NEW s \in Wires, Applied(s) PROVE ShopInv'
  BY ReceiveActionKeeps, ReceiveSharedKeeps, ReceiveCartKeeps, ReceiveUpdateKeeps,
     ReceiveQuoteKeeps,
     ReceiveMethodsKeeps, ReceiveCheckoutKeeps DEF Applied

\* The header and the mini cart load the cart.
LEMMA LoadsKeep ==
  ASSUME ShopInv, NEW s \in Wires, headerLoads(s) \/ handleCartClick(s) PROVE ShopInv'
<1>1. presses' \in Nat /\ presses <= presses'
  BY Pressed DEF headerLoads, handleCartClick, ShopInv, PageInv, PageTypes
<1> QED
  BY <1>1, RefreshKeeps DEF headerLoads, handleCartClick

\* The effects of the pages.
LEMMA EffectsKeep == ASSUME ShopInv, NEW s \in Wires, Effects(s) PROVE ShopInv'
  BY LoadsKeep, FetchCartKeeps, AskQuoteKeeps, AskMethodsKeeps DEF Effects

\* The buttons of a row.
LEMMA RowsKeep ==
  ASSUME ShopInv, NEW s \in Wires, NEW r \in Rows,
         \/ miniRemove(s, r) \/ runUpdate(s, r, "remove", 0)
         \/ \E n \in 1..MaxAmount : miniUpdate(s, r, n) \/ runUpdate(s, r, "update", n)
  PROVE  ShopInv'
<1>1. 1 \in 1..MaxAmount /\ \A n \in 1..MaxAmount : n \in Nat
  BY ShopAssumption
<1>2. CASE miniRemove(s, r)
  BY <1>1, <1>2, ShopActionsKeep
<1>3. CASE runUpdate(s, r, "remove", 0)
  BY <1>3, RunUpdateKeeps
<1>4. ASSUME NEW n \in 1..MaxAmount, miniUpdate(s, r, n) PROVE ShopInv'
  BY <1>4, ShopActionsKeep
<1>5. ASSUME NEW n \in 1..MaxAmount, runUpdate(s, r, "update", n) PROVE ShopInv'
  BY <1>1, <1>5, RunUpdateKeeps
<1> QED
  BY <1>2, <1>3, <1>4, <1>5

\* Every step of the shop keeps it.
LEMMA ShopStep == ASSUME ShopInv, ShopNext PROVE ShopInv'
<1>1. ASSUME NEW s \in Wires, Served(s) \/ Applied(s) \/ Effects(s) \/ lose(s) PROVE ShopInv'
  BY <1>1, ServedKeeps, AppliedKeeps, EffectsKeep, LoseKeeps
<1>2. ASSUME NEW s \in Wires, handleCartClick(s) \/ submit(s) PROVE ShopInv'
  BY <1>2, LoadsKeep, SubmitKeeps
<1>3. ASSUME NEW s \in Wires, NEW p \in Products, NEW n \in 1..MaxAmount, addProduct(s, p, n)
      PROVE  ShopInv'
  BY <1>3, ShopActionsKeep
<1>4. ASSUME NEW s \in Wires, NEW r \in Rows,
             \/ miniRemove(s, r) \/ runUpdate(s, r, "remove", 0)
             \/ \E n \in 1..MaxAmount : miniUpdate(s, r, n) \/ runUpdate(s, r, "update", n)
      PROVE  ShopInv'
  BY <1>4, RowsKeep
<1>5. CASE openCart \/ retryCart \/ goCheckout \/ openCatalog \/ reload
  BY <1>5, OpenCartKeeps, RetryCartKeeps, GoCheckoutKeeps, OpenCatalogKeeps, ReloadKeeps
<1>6. ASSUME NEW rows \in SUBSET Rows, select(rows) PROVE ShopInv'
  BY <1>6, SelectKeeps
<1>7. ASSUME NEW a \in Addresses, chooseAddress(a) PROVE ShopInv'
  BY <1>7, ChooseAddressKeeps
<1>8. ASSUME NEW m \in Methods, chooseMethod(m) PROVE ShopInv'
  BY <1>8, ChooseMethodKeeps
<1> QED
  BY <1>1, <1>2, <1>3, <1>4, <1>5, <1>6, <1>7, <1>8 DEF ShopNext

\* So does no step.
LEMMA ShopRests == ASSUME ShopInv, UNCHANGED shopVars PROVE ShopInv'
<1>1. UNCHANGED << cart, amount, orders, used, shared, route, cartPage, form, quote, wire, presses >>
  BY DEF shopVars
<1>2. ServerInv'
  BY <1>1 DEF ShopInv, ServerInv, ServerTypes, RowsOrderedOnce, Ordered
<1>3. WiresFrom(wire') /\ Calm(wire') /\ Wanted' = Wanted
  BY <1>1, WireItself DEF ShopInv, WireInv, WiresFrom, Calm, Wanted
<1>4. PageInv' /\ presses' \in Nat /\ presses <= presses'
  BY <1>1 DEF ShopInv, PageInv, PageTypes, PagesUsed, RowsOf
<1>5. UNCHANGED serverVars
  BY <1>1 DEF serverVars
<1> QED
  BY <1>1, <1>3, <1>4, <1>5, PagesMove

\* Of the tab only the shop is open, or the shop rests.
LEMMA TabKeepsShop == TabSpec => []ShopInv
<1>1. TabInit => ShopInv
  BY ShopBegins DEF TabInit
<1>2. ShopInv /\ [TabNext]_tabVars => ShopInv'
  BY ShopStep, ShopRests DEF TabNext, tabVars, InShop, InAccount
<1> QED
  BY <1>1, <1>2, PTL DEF TabSpec

\* The shop on its own keeps it as well.
LEMMA ShopKeepsItself == ShopSpec => []ShopInv
<1>1. ShopInv /\ [ShopNext]_shopVars => ShopInv'
  BY ShopStep, ShopRests
<1> QED
  BY <1>1, ShopBegins, PTL DEF ShopSpec

\* The invariant says what is to be shown.
LEMMA ShopPromises ==
  ShopInv => RowsOrderedOnce /\ RetryIsAnswered /\ SubmittedIsShown
<1>1. ShopInv => RetryIsAnswered
  BY DEF ShopInv, WireInv, AnswersAgree, RetryIsAnswered, Known
<1> QED
  BY <1>1 DEF ShopInv, ServerInv, KeyInv

\* Whatever is pressed, retried, lost or reloaded, a row of the cart goes into one order
\* (CheckoutService, key and locks).
THEOREM RowsAreOrderedOnce == TabSpec => []RowsOrderedOnce
  BY TabKeepsShop, ShopPromises, PTL

\* A checkout that was carried out is never refused to a retry (CheckoutService, the
\* lookup of the key before and after the lock).
THEOREM RetriesAreAnswered == TabSpec => []RetryIsAnswered
  BY TabKeepsShop, ShopPromises, PTL

\* What a step brings onto the page is nothing, or of what is wanted there by then.
TotalKept == quote'.of = quote.of \/ quote'.of = NoForm \/ quote'.of = Wanted'

\* The effect of the total brings none.
LEMMA AgainBringsNone == ASSUME PageTypes, NEW b \in BOOLEAN, QuoteAgain(b) PROVE TotalKept
  BY DEF QuoteAgain, PageTypes, Totals, TotalKept

\* An answer brings one only if the page listens, and then it is of what is wanted.
LEMMA AnswerBringsTheWanted ==
  ASSUME ShopInv, NEW s \in Wires, receiveQuote(s) PROVE TotalKept
<1>1. UNCHANGED << route, cartPage, form >> /\ wire[s].kind = "quote" /\ quote' = QuoteAfter(wire[s])
  BY DEF receiveQuote
<1>2. wire[s].fresh \in BOOLEAN /\ wire[s].ok \in BOOLEAN /\ quote \in Totals
  BY CallOf DEF ShopInv, PageInv, PageTypes
<1>3. Wanted' = Wanted
  BY <1>1 DEF Wanted
<1>4. CASE wire[s].fresh /\ wire[s].ok
  <2>1. wire[s].form = Wanted
    BY <1>1, <1>4 DEF ShopInv, QuotesAreCurrent, FreshQuote
  <2>2. quote'.of = wire[s].form
    BY <1>1, <1>2, <1>4 DEF QuoteAfter, Totals
  <2> QED
    BY <1>3, <2>1, <2>2 DEF TotalKept
<1>5. CASE ~(wire[s].fresh /\ wire[s].ok)
  BY <1>1, <1>2, <1>5 DEF QuoteAfter, Totals, TotalKept
<1> QED
  BY <1>4, <1>5

\* The other answers bring none.
LEMMA AppliedBringsNone ==
  ASSUME ShopInv, NEW s \in Wires, Applied(s), ~receiveQuote(s) PROVE TotalKept
<1>1. PageTypes
  BY DEF ShopInv, PageInv
<1>2. CASE receiveAction(s) \/ receiveShared(s)
  BY <1>2 DEF receiveAction, receiveShared, TotalKept
<1>3. CASE receiveCart(s)
  <2>1. UNCHANGED quote \/ QuoteAgain(RowsOf(wire[s].ans) # {})
    BY <1>3 DEF receiveCart
  <2> QED
    BY <1>1, <2>1, AgainBringsNone DEF TotalKept
<1>4. CASE receiveUpdate(s)
  <2>1. UNCHANGED quote \/ QuoteAgain((cartPage.selected \cap RowsOf(wire[s].ans)) # {})
    BY <1>4 DEF receiveUpdate
  <2> QED
    BY <1>1, <2>1, AgainBringsNone DEF TotalKept
<1>5. CASE receiveMethods(s)
  <2>1. UNCHANGED quote \/ \E b \in BOOLEAN : QuoteAgain(b)
    BY <1>5 DEF receiveMethods
  <2> QED
    BY <1>1, <2>1, AgainBringsNone DEF TotalKept
<1>6. CASE receiveCheckout(s)
  BY <1>6, NothingOpen DEF receiveCheckout, TotalKept
<1> QED
  BY <1>2, <1>3, <1>4, <1>5, <1>6 DEF Applied

\* Neither do the customer, the server and the network.
LEMMA OthersBringNone ==
  ASSUME ShopInv, ShopNext, \A s \in Wires : ~Applied(s) PROVE TotalKept
<1>1. PageTypes
  BY DEF ShopInv, PageInv
<1>2. ASSUME NEW s \in Wires, Served(s) PROVE TotalKept
  BY <1>2 DEF Served, getCart, answerQuestion, findRow, writeRow, checkout, clientVars, TotalKept
<1>3. ASSUME NEW s \in Wires, Effects(s) PROVE TotalKept
  BY <1>1, <1>3 DEF Effects, headerLoads, fetchCart, askQuote, askMethods, PageTypes, Totals, TotalKept
<1>4. ASSUME NEW s \in Wires, lose(s) \/ handleCartClick(s) \/ submit(s) PROVE TotalKept
  BY <1>4 DEF lose, handleCartClick, submit, TotalKept
<1>5. ASSUME NEW s \in Wires, NEW p \in Products, NEW n \in 1..MaxAmount, addProduct(s, p, n)
      PROVE  TotalKept
  BY <1>5 DEF addProduct, runAction, TotalKept
<1>6. ASSUME NEW s \in Wires, NEW r \in Rows,
             \/ miniRemove(s, r) \/ runUpdate(s, r, "remove", 0)
             \/ \E n \in 1..MaxAmount : miniUpdate(s, r, n) \/ runUpdate(s, r, "update", n)
      PROVE  TotalKept
  BY <1>6 DEF miniRemove, miniUpdate, runUpdate, runAction, TotalKept
<1>7. CASE openCart \/ retryCart \/ goCheckout \/ openCatalog \/ reload
  BY <1>7, NothingOpen DEF openCart, retryCart, goCheckout, openCatalog, reload, TotalKept
<1>8. ASSUME NEW rows \in SUBSET Rows, select(rows) PROVE TotalKept
  BY <1>1, <1>8, AgainBringsNone DEF select
<1>9. ASSUME NEW a \in Addresses, chooseAddress(a) PROVE TotalKept
  BY <1>1, <1>9, AgainBringsNone DEF chooseAddress
<1>10. ASSUME NEW m \in Methods, chooseMethod(m) PROVE TotalKept
  BY <1>1, <1>10, AgainBringsNone DEF chooseMethod
<1> QED
  BY <1>2, <1>3, <1>4, <1>5, <1>6, <1>7, <1>8, <1>9, <1>10 DEF ShopNext

\* A total that comes onto the page is of what is selected there by then, however late the
\* answers of older quotes come (CartPage and CheckoutPage, the effects of the total); the
\* theorem does not say that the total shown goes when the selection changes.
THEOREM TotalsAreOfTheForm == TabSpec => TotalIsOfForm
<1>1. ASSUME ShopInv, [ShopNext]_shopVars
      PROVE  [quote'.of # quote.of => quote'.of \in {NoForm, Wanted'}]_shopVars
  <2>1. CASE ShopNext
    <3>1. TotalKept
      BY <1>1, <2>1, AnswerBringsTheWanted, AppliedBringsNone, OthersBringNone
    <3> QED
      BY <3>1 DEF TotalKept
  <2> QED
    BY <1>1, <2>1
<1>2. [TabNext]_tabVars => [ShopNext]_shopVars
  BY DEF TabNext, tabVars, InShop, InAccount
<1>3. ShopInv /\ [TabNext]_tabVars => [quote'.of # quote.of => quote'.of \in {NoForm, Wanted'}]_shopVars
  BY <1>1, <1>2
<1> QED
  BY <1>3, TabKeepsShop, PTL DEF TabSpec, TotalIsOfForm

\* The order that the customer is led to is of the form submitted last (CheckoutPage,
\* one key for one payload).
THEOREM ShownIsSubmitted == ShopSpec => []SubmittedIsShown
  BY ShopKeepsItself, ShopPromises, PTL

------------------------------------------------------------------------------
(* The account of the tab, for any users, staff, calls in flight, clicks   *)
(* and calls that fail.                                                    *)

\* The fields of a call.
CallFields == {"kind", "of", "token", "state", "ans", "clearUnknown", "p", "add", "generation", "own"}

\* Every call has its fields.
CallsFit == call = [s \in Calls |-> call[s]] /\ \A s \in Calls : CallFields \subseteq DOMAIN call[s]

\* d is c, sent as call s.
SentAs(s, c, d) ==
  /\ call' = [call EXCEPT ![s] = d] /\ d.state = "sent" /\ CallFields \subseteq DOMAIN d
  /\ d.kind = c.kind /\ d.p = c.p /\ call[s].kind = "free"

\* Sending is that.
LEMMA SentAsIs ==
  ASSUME NEW s \in Calls, NEW c, CallFields \subseteq DOMAIN c, Account!Send(s, call, c)
  PROVE  \E d : SentAs(s, c, d)
  <1>1. PICK d : d = [c EXCEPT !.state = "sent"]
    OBVIOUS
  <1>2. call' = [call EXCEPT ![s] = d] /\ call[s].kind = "free"
    BY <1>1 DEF Account!Send
  <1>3. SentAs(s, c, d)
    BY <1>1, <1>2 DEF CallFields, SentAs
  <1> QED
    BY <1>3

\* A call that is over is free.
LEMMA EndedIs ==
  ASSUME NEW s \in Calls, Account!Ended(s)
  PROVE  /\ call' = [call EXCEPT ![s] = Account!Free] /\ CallFields \subseteq DOMAIN Account!Free
         /\ Account!Free.kind = "free" /\ Account!Free.state = "none"
  BY DEF Account!Ended, Account!Free, CallFields

\* The calls after a step at s.
LEMMA OthersStay ==
  ASSUME CallsFit, NEW s \in Calls, NEW c, call' = [call EXCEPT ![s] = c]
  PROVE  /\ \A r \in Calls : r # s => call'[r] = call[r]
         /\ call'[s] = c /\ call' = [r \in Calls |-> call'[r]]
  BY DEF CallsFit

\* The state of call s becomes that of c, which is of its kind.
StateOnly(s, c) ==
  /\ call' = [call EXCEPT ![s] = c] /\ CallFields \subseteq DOMAIN c
  /\ c.kind = call[s].kind /\ c.p = call[s].p

\* A step that sets the state of a call does that.
LEMMA StateIs ==
  ASSUME CallsFit, NEW s \in Calls, NEW v, call' = [call EXCEPT ![s].state = v]
  PROVE  \E c : StateOnly(s, c) /\ c.state = v
  <1>1. PICK c : c = [call[s] EXCEPT !.state = v]
    OBVIOUS
  <1>2. CallFields \subseteq DOMAIN call[s] /\ call = [r \in Calls |-> call[r]]
    BY DEF CallsFit
  <1>3. call' = [call EXCEPT ![s] = c]
    BY <1>1, <1>2
  <1>4. StateOnly(s, c) /\ c.state = v
    BY <1>1, <1>2, <1>3 DEF StateOnly, CallFields
  <1> QED
    BY <1>4

\* An answer: c is what call s becomes.
Answered(s, c) == StateOnly(s, c) /\ c.state \in {"done", "refused"}

\* The server gives such an answer.
LEMMA AnswerIs ==
  ASSUME CallsFit, NEW s \in Calls, Account!answer(s)
  PROVE  \E c : Answered(s, c)
  <1>1. CallFields \subseteq DOMAIN call[s] /\ call = [r \in Calls |-> call[r]]
    BY DEF CallsFit
  <1>2. CASE call[s].kind = "token"
    <2>1. PICK t : call' = [call EXCEPT ![s].state = "done", ![s].token = t]
      BY <1>2 DEF Account!answer
    <2>2. PICK c : c = [call[s] EXCEPT !.state = "done", !.token = t]
      OBVIOUS
    <2>3. call' = [call EXCEPT ![s] = c]
      BY <1>1, <2>1, <2>2
    <2>4. CallFields \subseteq DOMAIN c /\ c.state = "done" /\ c.kind = call[s].kind /\ c.p = call[s].p
      BY <1>1, <2>2 DEF CallFields
    <2> QED
      BY <2>3, <2>4 DEF Answered, StateOnly
  <1>3. CASE call' = [call EXCEPT ![s].state = "refused"]
    BY <1>3, StateIs DEF Answered
  <1>4. CASE \E n, u : call' = [call EXCEPT ![s].state = "done", ![s].of = u, ![s].ans = n]
    <2>1. PICK n, u : call' = [call EXCEPT ![s].state = "done", ![s].of = u, ![s].ans = n]
      BY <1>4
    <2>2. PICK c : c = [call[s] EXCEPT !.state = "done", !.of = u, !.ans = n]
      OBVIOUS
    <2>3. call' = [call EXCEPT ![s] = c]
      BY <1>1, <2>1, <2>2
    <2>4. CallFields \subseteq DOMAIN c /\ c.state = "done" /\ c.kind = call[s].kind /\ c.p = call[s].p
      BY <1>1, <2>2 DEF CallFields
    <2> QED
      BY <2>3, <2>4 DEF Answered, StateOnly
  <1> QED
    BY <1>2, <1>3, <1>4 DEF Account!answer

\* The toggle of a heart clears nothing, nor does a call that is free.
ClearsAsUser(c) == c.state \in {"clearing", "cleared"} => c.kind \notin {"heart", "free"}

\* What the theorems on the account rest on: the fields of calls and of the store, and the
\* property itself.
HeartInv ==
  /\ CallsFit /\ {"pending", "owner"} \subseteq DOMAIN wish
  /\ \A s \in Calls : ClearsAsUser(call[s])
  /\ \A p \in wish.pending : \E s \in Calls : call[s].kind = "heart" /\ p \in call[s].p

\* Hearts that wait go on waiting, unless the page has stopped waiting for them.
HeartsWait ==
  /\ CallsFit' /\ {"pending", "owner"} \subseteq DOMAIN wish'
  /\ \A s \in Calls : ClearsAsUser(call'[s])
  /\ wish'.pending \subseteq wish.pending
  /\ \A s \in Calls : call[s].kind = "heart" =>
       \/ call'[s].kind = "heart" /\ call'[s].p = call[s].p
       \/ wish'.pending \cap call[s].p = {}

\* Then every heart that is disabled has its call.
LEMMA HeartsWaiting == ASSUME HeartInv, HeartsWait PROVE HeartInv'
  <1>1. ASSUME NEW p \in wish'.pending
        PROVE  \E s \in Calls : call'[s].kind = "heart" /\ p \in call'[s].p
    <2>1. PICK s \in Calls : call[s].kind = "heart" /\ p \in call[s].p
      BY <1>1 DEF HeartInv, HeartsWait
    <2> QED
      BY <1>1, <2>1 DEF HeartsWait
  <1> QED
    BY <1>1 DEF HeartInv, HeartsWait, ClearsAsUser

\* A step of one call that leaves the store.
LEMMA OneCallWaits ==
  ASSUME HeartInv, NEW s \in Calls, NEW c, call' = [call EXCEPT ![s] = c],
         CallFields \subseteq DOMAIN c, ClearsAsUser(c), wish' = wish,
         call[s].kind = "heart" => c.kind = "heart" /\ c.p = call[s].p
  PROVE  HeartInv'
  <1>1. /\ \A r \in Calls : r # s => call'[r] = call[r]
        /\ call'[s] = c /\ call' = [r \in Calls |-> call'[r]]
    BY OthersStay DEF HeartInv
  <1>2. HeartsWait
    BY <1>1 DEF HeartInv, HeartsWait, CallsFit, ClearsAsUser
  <1> QED
    BY <1>2, HeartsWaiting

\* ... or the store as well, which waits for no more than before.
LEMMA OneCallEnds ==
  ASSUME HeartInv, NEW s \in Calls, NEW c, call' = [call EXCEPT ![s] = c],
         CallFields \subseteq DOMAIN c, ClearsAsUser(c), {"pending", "owner"} \subseteq DOMAIN wish',
         wish'.pending \subseteq wish.pending,
         call[s].kind = "heart" => wish'.pending \cap call[s].p = {}
  PROVE  HeartInv'
  <1>1. /\ \A r \in Calls : r # s => call'[r] = call[r]
        /\ call'[s] = c /\ call' = [r \in Calls |-> call'[r]]
    BY OthersStay DEF HeartInv
  <1>2. HeartsWait
    BY <1>1 DEF HeartInv, HeartsWait, CallsFit, ClearsAsUser
  <1> QED
    BY <1>2, HeartsWaiting

\* Only the network changes a call of a heart that goes on, and it leaves the heart.
LEMMA NetworkKeepsHearts ==
  ASSUME HeartInv, NEW s \in Calls,
         \/ Account!answer(s) \/ Account!cutOff(s) \/ Account!clearScoped(s)
         \/ Account!receiveLogout(s)
         \/ Account!receiveUser(s) \/ Account!cleared(s) \/ Account!loggedOut(s)
         \/ Account!receiveToken(s) \/ Account!receiveSave(s) \/ Account!clearFails(s)
  PROVE  HeartInv'
  <1>0. CallsFit
    BY DEF HeartInv
  <1>1. CASE Account!answer(s)
    <2>1. PICK c : Answered(s, c)
      BY <1>0, <1>1, AnswerIs
    <2>2. wish' = wish
      BY <1>1 DEF Account!answer, Account!wishVars
    <2> QED
      BY <2>1, <2>2, OneCallWaits DEF Answered, StateOnly, ClearsAsUser
  <1>2. ASSUME NEW v, call' = [call EXCEPT ![s].state = v], wish' = wish,
               v = "lost" \/ call[s].kind \notin {"heart", "free"}
        PROVE  HeartInv'
    <2>1. PICK c : StateOnly(s, c) /\ c.state = v
      BY <1>0, <1>2, StateIs
    <2> QED
      BY <1>2, <2>1, OneCallWaits DEF StateOnly, ClearsAsUser
  <1>3. CASE Account!cutOff(s)
    <2>1. call' = [call EXCEPT ![s].state = "lost"] /\ wish' = wish
      BY <1>3 DEF Account!cutOff, Account!wishVars
    <2> QED
      BY <1>2, <2>1
  <1>4. CASE Account!clearScoped(s)
    <2>1. call' = [call EXCEPT ![s].state = "cleared"] /\ wish' = wish
          /\ call[s].kind \notin {"heart", "free"}
      BY <1>4 DEF Account!clearScoped, Account!wishVars, HeartInv, ClearsAsUser
    <2> QED
      BY <1>2, <2>1
  <1>5. CASE Account!receiveLogout(s)
    <2>1. call' = [call EXCEPT ![s].state = "clearing"] /\ wish' = wish
          /\ call[s].kind \notin {"heart", "free"}
      BY <1>5 DEF Account!receiveLogout, Account!wishVars
    <2> QED
      BY <1>2, <2>1
  <1>6. ASSUME call[s].kind # "heart", Account!Ended(s), wish' = wish PROVE HeartInv'
    BY <1>6, EndedIs, OneCallWaits DEF ClearsAsUser
  <1>7. CASE Account!receiveUser(s)
    <2>1. call[s].kind \notin {"heart", "free"} /\ wish' = wish
      BY <1>7 DEF Account!receiveUser
    <2>2. CASE call' = [call EXCEPT ![s].state = "clearing"]
      BY <1>2, <2>1, <2>2
    <2>3. CASE Account!Ended(s)
      BY <1>6, <2>1, <2>3
    <2> QED
      BY <1>7, <2>2, <2>3 DEF Account!receiveUser, Account!AcceptUser, Account!Caught
  <1>8. CASE Account!cleared(s)
    <2>1. Account!Ended(s) /\ wish' = wish
      BY <1>8 DEF Account!cleared, Account!AcceptUser
    <2>2. call[s].kind # "heart"
      BY <1>8 DEF Account!cleared, HeartInv, ClearsAsUser
    <2> QED
      BY <1>6, <2>1, <2>2
  <1>9. CASE Account!loggedOut(s)
    <2>1. Account!Ended(s) /\ wish' = wish /\ call[s].kind # "heart"
      BY <1>9 DEF Account!loggedOut, Account!LogOut
    <2> QED
      BY <1>6, <2>1
  <1>10. CASE Account!receiveToken(s)
    <2>1. call[s].kind # "heart" /\ wish' = wish /\ CallFields \subseteq DOMAIN call[s]
      BY <1>0, <1>10 DEF Account!receiveToken, Account!wishVars, CallsFit
    <2>2. ASSUME NEW n, call' = [call EXCEPT ![s] = [call[s] EXCEPT !.kind = "enter", !.state = "sent",
                                                                !.clearUnknown = n]]
          PROVE  HeartInv'
      <3>1. PICK c : c = [call[s] EXCEPT !.kind = "enter", !.state = "sent", !.clearUnknown = n]
        OBVIOUS
      <3>2. CallFields \subseteq DOMAIN c /\ ClearsAsUser(c) /\ call' = [call EXCEPT ![s] = c]
        BY <2>1, <2>2, <3>1 DEF CallFields, ClearsAsUser
      <3> QED
        BY <2>1, <3>2, OneCallWaits
    <2> QED
      BY <1>6, <1>10, <2>1, <2>2 DEF Account!receiveToken
  <1>11. CASE Account!receiveSave(s)
    <2>1. call[s].kind # "heart" /\ wish' = wish
      BY <1>11 DEF Account!receiveSave
    <2>2. ASSUME NEW n, call' = [call EXCEPT ![s] = [Account!Free EXCEPT !.kind = "user", !.token = token,
                                                       !.state = "sent", !.own = n]]
          PROVE  HeartInv'
      <3>1. PICK c : c = [Account!Free EXCEPT !.kind = "user", !.token = token, !.state = "sent", !.own = n]
        OBVIOUS
      <3>2. CallFields \subseteq DOMAIN c /\ ClearsAsUser(c) /\ call' = [call EXCEPT ![s] = c]
        BY <2>2, <3>1 DEF CallFields, ClearsAsUser, Account!Free
      <3> QED
        BY <2>1, <3>2, OneCallWaits
    <2> QED
      BY <1>6, <1>11, <2>1, <2>2 DEF Account!receiveSave
  <1>12. CASE Account!clearFails(s)
    <2>1. call[s].kind # "heart" /\ wish' = wish
      BY <1>12 DEF Account!clearFails, HeartInv, ClearsAsUser
    <2>2. Account!Ended(s)
      BY <1>12 DEF Account!clearFails, Account!LogOut, Account!Caught
    <2> QED
      BY <1>6, <2>1, <2>2
  <1> QED
    BY <1>1, <1>3, <1>4, <1>5, <1>7, <1>8, <1>9, <1>10, <1>11, <1>12

\* A call that is sent disturbs no heart.
LEMMA SentWaits ==
  ASSUME HeartInv, NEW s \in Calls, NEW c, CallFields \subseteq DOMAIN c, Account!Send(s, call, c),
         {"pending", "owner"} \subseteq DOMAIN wish', wish'.pending \subseteq wish.pending
  PROVE  HeartInv'
  <1>1. PICK d : SentAs(s, c, d)
    BY SentAsIs
  <1> QED
    BY <1>1, OneCallEnds DEF SentAs, ClearsAsUser

\* A store that is reset waits for nothing.
LEMMA ResetIs ==
  ASSUME NEW w, NEW u
  PROVE  /\ {"pending", "owner"} \subseteq DOMAIN Account!ResetFor(w, u)
         /\ Account!ResetFor(w, u).pending = {}
  BY DEF Account!ResetFor, Account!NoWish

\* The store of a user waits for no more than the store.
LEMMA OwnedIs ==
  ASSUME HeartInv, NEW u
  PROVE  /\ {"pending", "owner"} \subseteq DOMAIN Account!OwnedBy(u)
         /\ Account!OwnedBy(u).pending \subseteq wish.pending
  BY ResetIs DEF HeartInv, Account!OwnedBy

\* After an addition the list is asked for anew.
ListsAgain(s, stored) ==
  \E w \in {stored, Account!ResetFor(stored, call[s].of)} :
    /\ wish' = [w EXCEPT !.loading = TRUE, !.generation = w.generation + 1]
    /\ call' = [call EXCEPT ![s] = [Account!Free EXCEPT !.kind = "list", !.of = call[s].of,
                 !.token = token, !.generation = w.generation + 1, !.state = "sent"]]

\* The wishlist.
LEMMA WishlistKeepsHearts ==
  ASSUME HeartInv, NEW s \in Calls,
         \/ Account!useWishlist(s) \/ Account!receiveList(s) \/ Account!receiveToggle(s)
         \/ \E p \in Products : Account!toggle(s, p)
  PROVE  HeartInv'
  <1>0. CallsFit
    BY DEF HeartInv
  <1>1. CASE Account!useWishlist(s)
    <2>1. PICK w : /\ w = Account!OwnedBy(user) /\ {"pending", "owner"} \subseteq DOMAIN w
                   /\ w.pending \subseteq wish.pending
      BY OwnedIs
    <2>2. CASE wish' = w /\ UNCHANGED call
      <3>1. HeartsWait
        BY <2>1, <2>2 DEF HeartsWait, HeartInv, CallsFit
      <3> QED
        BY <3>1, HeartsWaiting
    <2>3. CASE Account!Load(s, call, w, user)
      <3>1. PICK c : c = [Account!Free EXCEPT !.kind = "list", !.of = user, !.token = token,
                                              !.generation = w.generation + 1]
        OBVIOUS
      <3>2. CallFields \subseteq DOMAIN c /\ Account!Send(s, call, c)
        BY <2>3, <3>1 DEF Account!Load, CallFields, Account!Free
      <3>3. wish' = [w EXCEPT !.loading = TRUE, !.generation = w.generation + 1]
        BY <2>3 DEF Account!Load
      <3>4. {"pending", "owner"} \subseteq DOMAIN wish' /\ wish'.pending = w.pending
        BY <2>1, <3>3
      <3> QED
        BY <2>1, <3>2, <3>4, SentWaits
    <2> QED
      BY <1>1, <2>1, <2>2, <2>3 DEF Account!useWishlist
  <1>2. CASE Account!receiveList(s)
    <2>1. call[s].kind # "heart" /\ Account!Ended(s)
      BY <1>2 DEF Account!receiveList
    <2>2. PICK x : wish' \in {wish, [wish EXCEPT !.products = x, !.loading = FALSE, !.loaded = TRUE]}
      BY <1>2 DEF Account!receiveList
    <2>3. {"pending", "owner"} \subseteq DOMAIN wish' /\ wish'.pending = wish.pending
      BY <2>2 DEF HeartInv
    <2> QED
      BY <2>1, <2>3, EndedIs, OneCallEnds DEF ClearsAsUser
  <1>3. CASE Account!receiveToggle(s)
    <2>1. PICK stored :
            /\ \/ stored = [wish EXCEPT !.pending = wish.pending \ call[s].p]
               \/ \E x : stored = [wish EXCEPT !.pending = wish.pending \ call[s].p, !.products = x]
            /\ (wish' = stored /\ Account!Ended(s)) \/ ListsAgain(s, stored)
      <3>1. PICK stored : stored =
              IF call[s].state # "done" THEN [wish EXCEPT !.pending = wish.pending \ call[s].p]
              ELSE [wish EXCEPT !.pending = wish.pending \ call[s].p,
                                !.products = IF call[s].add THEN wish.products \cup call[s].p
                                             ELSE wish.products \ call[s].p]
        OBVIOUS
      <3>2. CASE call[s].add /\ call[s].state = "done"
        <4>1. PICK w : /\ w \in {stored, Account!ResetFor(stored, call[s].of)}
                       /\ call' = [call EXCEPT ![s] = [Account!Free EXCEPT !.kind = "list",
                            !.of = call[s].of, !.token = token, !.generation = w.generation + 1,
                            !.state = "sent"]]
                       /\ wish' = [w EXCEPT !.loading = TRUE, !.generation = w.generation + 1]
          BY <1>3, <3>1, <3>2 DEF Account!receiveToggle, Account!PendingAfter
        <4>2. ListsAgain(s, stored)
          BY <4>1 DEF ListsAgain
        <4> QED
          BY <3>1, <4>2
      <3>3. CASE ~(call[s].add /\ call[s].state = "done")
        <4>1. wish' = stored /\ Account!Ended(s)
          BY <1>3, <3>1, <3>3 DEF Account!receiveToggle, Account!PendingAfter
        <4> QED
          BY <3>1, <4>1
      <3> QED
        BY <3>2, <3>3
    <2>2. /\ {"pending", "owner"} \subseteq DOMAIN stored
          /\ stored.pending = wish.pending \ call[s].p
      BY <2>1 DEF HeartInv
    <2>3. CASE wish' = stored /\ Account!Ended(s)
      BY <2>2, <2>3, EndedIs, OneCallEnds DEF ClearsAsUser
    <2>4. ASSUME NEW w \in {stored, Account!ResetFor(stored, call[s].of)},
                 wish' = [w EXCEPT !.loading = TRUE, !.generation = w.generation + 1],
                 call' = [call EXCEPT ![s] = [Account!Free EXCEPT !.kind = "list",
                   !.of = call[s].of, !.token = token, !.generation = w.generation + 1, !.state = "sent"]]
          PROVE  HeartInv'
      <3>1. /\ {"pending", "owner"} \subseteq DOMAIN w
            /\ w.pending \subseteq wish.pending \ call[s].p
        BY <2>2, <2>4, ResetIs
      <3>2. {"pending", "owner"} \subseteq DOMAIN wish' /\ wish'.pending = w.pending
        BY <2>4, <3>1
      <3>3. PICK c : c = [Account!Free EXCEPT !.kind = "list", !.of = call[s].of, !.token = token,
                                              !.generation = w.generation + 1, !.state = "sent"]
        OBVIOUS
      <3>4. CallFields \subseteq DOMAIN c /\ ClearsAsUser(c) /\ call' = [call EXCEPT ![s] = c]
        BY <2>4, <3>3 DEF CallFields, Account!Free, ClearsAsUser
      <3> QED
        BY <3>1, <3>2, <3>4, OneCallEnds
    <2> QED
      BY <2>1, <2>3, <2>4 DEF ListsAgain
  <1>4. ASSUME NEW p \in Products, Account!toggle(s, p) PROVE HeartInv'
    <2>1. PICK w : /\ w = Account!OwnedBy(user) /\ {"pending", "owner"} \subseteq DOMAIN w
                   /\ w.pending \subseteq wish.pending
      BY OwnedIs
    <2>2. PICK n : Account!Send(s, call, [Account!Free EXCEPT !.kind = "heart", !.of = user,
                                            !.token = token, !.p = {p}, !.add = n])
      BY <1>4 DEF Account!toggle
    <2>3. PICK c : c = [Account!Free EXCEPT !.kind = "heart", !.of = user,
                                            !.token = token, !.p = {p}, !.add = n]
      OBVIOUS
    <2>4. CallFields \subseteq DOMAIN c /\ c.kind = "heart" /\ c.p = {p} /\ Account!Send(s, call, c)
      BY <2>2, <2>3 DEF CallFields, Account!Free
    <2>5. PICK d : SentAs(s, c, d)
      BY <2>4, SentAsIs
    <2>6. /\ \A r \in Calls : call'[r] = IF r = s THEN d ELSE call[r]
          /\ call' = [r \in Calls |-> call'[r]]
      BY <1>0, <2>5, OthersStay DEF SentAs
    <2>7. wish' = [w EXCEPT !.pending = w.pending \cup {p}]
      BY <1>4, <2>1 DEF Account!toggle
    <2>8. {"pending", "owner"} \subseteq DOMAIN wish' /\ wish'.pending = w.pending \cup {p}
      BY <2>1, <2>7
    <2>9. d.kind = "heart" /\ d.p = {p} /\ d.state = "sent" /\ call[s].kind = "free"
          /\ CallFields \subseteq DOMAIN d
      BY <2>4, <2>5 DEF SentAs
    <2>10. ASSUME NEW q \in wish'.pending
           PROVE  \E r \in Calls : call'[r].kind = "heart" /\ q \in call'[r].p
      <3>1. CASE q = p
        BY <2>6, <2>9, <3>1
      <3>2. CASE q # p
        <4>1. PICK r \in Calls : call[r].kind = "heart" /\ q \in call[r].p
          BY <2>1, <2>8, <2>10, <3>2 DEF HeartInv
        <4> QED
          BY <2>6, <2>9, <4>1
      <3> QED
        BY <3>1, <3>2
    <2>11. CallsFit' /\ \A r \in Calls : ClearsAsUser(call'[r])
      BY <1>0, <2>6, <2>9 DEF CallsFit, HeartInv, ClearsAsUser
    <2> QED
      BY <2>8, <2>10, <2>11 DEF HeartInv, ClearsAsUser
  <1> QED
    BY <1>1, <1>2, <1>3, <1>4

\* The pages that ask the server for something else.
LEMMA PagesKeepHearts ==
  ASSUME HeartInv, NEW s \in Calls,
         \/ Account!mount(s) \/ Account!handleSaveChanges(s) \/ Account!logout(s)
         \/ \E u \in Users : Account!handleSubmit(s, u)
  PROVE  HeartInv'
  <1>1. wish' = wish
    BY DEF Account!mount, Account!handleSaveChanges, Account!logout, Account!handleSubmit,
           Account!wishVars
  <1>2. {"pending", "owner"} \subseteq DOMAIN wish
    BY DEF HeartInv
  <1>3. ASSUME NEW c, CallFields \subseteq DOMAIN c, Account!Send(s, call, c) PROVE HeartInv'
    BY <1>1, <1>2, <1>3, SentWaits
  <1>4. CASE Account!mount(s)
    <2>1. CASE UNCHANGED call
      BY <1>1, <2>1 DEF HeartInv, CallsFit, ClearsAsUser
    <2>2. CASE Account!Send(s, call, [Account!Free EXCEPT !.kind = "user", !.token = token])
      BY <1>3, <2>2 DEF CallFields, Account!Free
    <2> QED
      BY <1>4, <2>1, <2>2 DEF Account!mount
  <1>5. CASE Account!handleSaveChanges(s)
    BY <1>3, <1>5 DEF CallFields, Account!Free, Account!handleSaveChanges
  <1>6. CASE Account!logout(s)
    BY <1>3, <1>6 DEF CallFields, Account!Free, Account!logout
  <1>7. ASSUME NEW u \in Users, Account!handleSubmit(s, u) PROVE HeartInv'
    BY <1>3, <1>7 DEF CallFields, Account!Free, Account!handleSubmit
  <1> QED
    BY <1>4, <1>5, <1>6, <1>7

\* At first no heart waits.
LEMMA HeartsBegin == ASSUME TabInit PROVE HeartInv
  <1>1. call = [s \in Calls |-> Account!Free] /\ wish = Account!NoWish
    BY DEF TabInit, Account!AccountInit
  <1> QED
    BY <1>1 DEF HeartInv, CallsFit, CallFields, ClearsAsUser, Account!Free, Account!NoWish

\* Every step keeps the hearts that wait.
LEMMA HeartsKept == ASSUME HeartInv, [TabNext]_tabVars PROVE HeartInv'
  <1>1. CASE UNCHANGED << call, wish >>
    BY <1>1 DEF HeartInv, CallsFit, ClearsAsUser
  <1>2. CASE UNCHANGED tabVars
    BY <1>1, <1>2 DEF tabVars, accountVars
  <1>3. CASE InShop /\ ShopNext
    BY <1>1, <1>3 DEF InShop, accountVars
  <1>4. CASE InAccount /\ Account!AccountNext
    <2>1. ASSUME NEW s \in Calls, Account!Applied(s) PROVE HeartInv'
      BY <2>1, NetworkKeepsHearts, WishlistKeepsHearts DEF Account!Applied
    <2>2. ASSUME NEW s \in Calls,
                 \/ Account!mount(s) \/ Account!answer(s) \/ Account!cutOff(s) \/ Account!clearFails(s)
                 \/ Account!useWishlist(s) \/ Account!handleSaveChanges(s) \/ Account!logout(s)
                 \/ \E u \in Users : Account!handleSubmit(s, u)
                 \/ \E p \in Products : Account!toggle(s, p)
          PROVE  HeartInv'
      BY <2>2, NetworkKeepsHearts, WishlistKeepsHearts, PagesKeepHearts
    <2>3. CASE Account!sectionWrites
      BY <1>1, <2>3 DEF Account!sectionWrites, Account!wishVars
    <2>4. CASE Account!reload
      <3>1. call' = [s \in Calls |-> Account!Free] /\ wish' = Account!NoWish
        BY <2>4 DEF Account!reload
      <3> QED
        BY <3>1 DEF HeartInv, CallsFit, CallFields, ClearsAsUser, Account!Free, Account!NoWish
    <2>5. ASSUME NEW place, Account!goTo(place) PROVE HeartInv'
      <3>1. wish' = wish /\ call' = [s \in Calls |-> [call[s] EXCEPT !.own = FALSE]]
        BY <2>5 DEF Account!goTo
      <3>2. \A s \in Calls : /\ CallFields \subseteq DOMAIN call'[s] /\ call'[s].kind = call[s].kind
                             /\ call'[s].p = call[s].p /\ call'[s].state = call[s].state
        BY <3>1 DEF HeartInv, CallsFit, CallFields
      <3>3. HeartsWait
        BY <3>1, <3>2 DEF HeartsWait, HeartInv, CallsFit, ClearsAsUser
      <3> QED
        BY <3>3, HeartsWaiting
    <2> QED
      BY <1>4, <2>1, <2>2, <2>3, <2>4, <2>5 DEF Account!AccountNext
  <1> QED
    BY <1>2, <1>3, <1>4 DEF TabNext

\* A heart is disabled only for a toggle that is under way: whatever comes back late, for
\* another user or never, the store forgets what it no longer waits for (useWishlist.ts).
THEOREM HeartsWaitForToggles == TabSpec => []Account!HeartsAreReal
  <1>1. HeartInv => Account!HeartsAreReal
    BY DEF HeartInv, Account!HeartsAreReal
  <1> QED
    BY <1>1, HeartsBegin, HeartsKept, PTL DEF TabSpec

\* Data of a user are being cleared.
Clearing == \E s \in Calls : call[s].state = "cleared"

\* A step leaves who is shown and cached, and ends no clearing.
Rests == UNCHANGED << user, cache >> /\ (Clearing => Clearing')

\* Then it keeps the property.
LEMMA RestsKeeps == ASSUME ShownIsCached, Rests PROVE ShownIsCached'
  BY DEF ShownIsCached, Account!ShownIsCached, Rests, Clearing

\* A step of a call that is not clearing ends no clearing.
LEMMA OneCallRests ==
  ASSUME HeartInv, NEW s \in Calls, call[s].state # "cleared", NEW c, call' = [call EXCEPT ![s] = c]
  PROVE  Clearing => Clearing'
  <1>1. \A r \in Calls : r # s => call'[r] = call[r]
    BY OthersStay DEF HeartInv
  <1> QED
    BY <1>1 DEF Clearing

\* Neither does one that is sent, for it was free.
LEMMA SentRests ==
  ASSUME HeartInv, NEW s \in Calls, NEW c, Account!Send(s, call, c)
  PROVE  Clearing => Clearing'
  <1>1. call[s].state # "cleared"
    BY DEF Account!Send, HeartInv, ClearsAsUser
  <1> QED
    BY <1>1, OneCallRests DEF Account!Send

\* An answer of GET /api/user, a login and a logout that end, also by a clearing that fails.
LEMMA EndsShown ==
  ASSUME HeartInv, ShownIsCached, NEW s \in Calls,
         \/ Account!receiveUser(s) \/ Account!cleared(s) \/ Account!loggedOut(s) \/ Account!clearFails(s)
  PROVE  ShownIsCached'
  <1>1. ASSUME NEW c, Account!AcceptUser(s, c) PROVE ShownIsCached'
    BY <1>1 DEF Account!AcceptUser, Account!SetUser, ShownIsCached, Account!ShownIsCached
  <1>2. ASSUME NEW gone, Account!Caught(s, gone) PROVE ShownIsCached'
    BY <1>2 DEF Account!Caught, Account!SetUser, Account!UserAfter, ShownIsCached, Account!ShownIsCached
  <1>3. ASSUME Account!LogOut(s) PROVE ShownIsCached'
    BY <1>3 DEF Account!LogOut, Account!SetUser, ShownIsCached, Account!ShownIsCached
  <1>4. CASE Account!receiveUser(s)
    <2>1. CASE call' = [call EXCEPT ![s].state = "clearing"] /\ UNCHANGED << user, cache >>
      <3>1. call[s].state # "cleared"
        BY <1>4 DEF Account!receiveUser, Account!Settled
      <3>2. PICK c : StateOnly(s, c)
        BY <2>1, StateIs DEF HeartInv
      <3>3. Rests
        BY <2>1, <3>1, <3>2, OneCallRests DEF StateOnly, Rests
      <3> QED
        BY <3>3, RestsKeeps
    <2>2. CASE Account!AcceptUser(s, call[s]) \/ \E gone : Account!Caught(s, gone)
      BY <1>1, <1>2, <2>2
    <2> QED
      BY <1>4, <2>1, <2>2 DEF Account!receiveUser, Account!storageVars
  <1>5. CASE Account!cleared(s)
    BY <1>1, <1>5 DEF Account!cleared
  <1>6. CASE Account!loggedOut(s)
    BY <1>3, <1>6 DEF Account!loggedOut
  <1>7. CASE Account!clearFails(s)
    <2>1. Account!LogOut(s) \/ \E gone : Account!Caught(s, gone)
      BY <1>7 DEF Account!clearFails
    <2> QED
      BY <1>2, <1>3, <2>1
  <1> QED
    BY <1>4, <1>5, <1>6, <1>7

\* What else answers bring.
LEMMA AnswersShown ==
  ASSUME HeartInv, ShownIsCached, NEW s \in Calls,
         \/ Account!clearScoped(s) \/ Account!receiveToken(s) \/ Account!receiveSave(s)
         \/ Account!receiveLogout(s) \/ Account!receiveList(s) \/ Account!receiveToggle(s)
         \/ Account!answer(s) \/ Account!cutOff(s)
  PROVE  ShownIsCached'
  <1>1. ASSUME call[s].state # "cleared", NEW c, call' = [call EXCEPT ![s] = c], UNCHANGED << user, cache >>
        PROVE  ShownIsCached'
    BY <1>1, OneCallRests, RestsKeeps DEF Rests
  <1>2. ASSUME NEW v, call' = [call EXCEPT ![s].state = v], v = "cleared" \/ call[s].state # "cleared",
               v = "cleared" \/ UNCHANGED << user, cache >>
        PROVE  ShownIsCached'
    <2>1. PICK c : StateOnly(s, c) /\ c.state = v
      BY <1>2, StateIs DEF HeartInv
    <2>2. CASE v = "cleared"
      <3>1. call'[s] = c
        BY <2>1, OthersStay DEF StateOnly, HeartInv
      <3> QED
        BY <2>1, <2>2, <3>1 DEF ShownIsCached, Account!ShownIsCached
    <2>3. CASE v # "cleared"
      BY <1>1, <1>2, <2>1, <2>3 DEF StateOnly
    <2> QED
      BY <2>2, <2>3
  <1>3. CASE Account!clearScoped(s)
    BY <1>2, <1>3 DEF Account!clearScoped
  <1>4. CASE Account!receiveToken(s)
    <2>1. call[s].state # "cleared" /\ UNCHANGED << user, cache >>
      BY <1>4 DEF Account!receiveToken, Account!Settled
    <2>2. \E c : call' = [call EXCEPT ![s] = c]
      BY <1>4 DEF Account!receiveToken, Account!Ended
    <2> QED
      BY <1>1, <2>1, <2>2
  <1>5. CASE Account!receiveSave(s)
    <2>1. call[s].state # "cleared" /\ UNCHANGED cache
      BY <1>5 DEF Account!receiveSave, Account!Settled, Account!storageVars
    <2>2. \E c : call' = [call EXCEPT ![s] = c]
      BY <1>5 DEF Account!receiveSave, Account!Ended
    <2>3. UNCHANGED user \/ user' = NoUser
      BY <1>5 DEF Account!receiveSave, Account!SetUser
    <2>4. CASE user' = NoUser
      BY <2>4 DEF ShownIsCached, Account!ShownIsCached
    <2> QED
      BY <1>1, <2>1, <2>2, <2>3, <2>4
  <1>6. CASE Account!receiveLogout(s)
    BY <1>2, <1>6 DEF Account!receiveLogout, Account!Settled, Account!storageVars
  <1>7. CASE Account!receiveList(s)
    BY <1>1, <1>7 DEF Account!receiveList, Account!Settled, Account!storageVars, Account!Ended
  <1>8. CASE Account!receiveToggle(s)
    <2>1. call[s].state # "cleared" /\ UNCHANGED << user, cache >>
      BY <1>8 DEF Account!receiveToggle, Account!Settled, Account!storageVars
    <2>2. \E c : call' = [call EXCEPT ![s] = c]
      BY <1>8 DEF Account!receiveToggle, Account!Ended
    <2> QED
      BY <1>1, <2>1, <2>2
  <1>9. CASE Account!answer(s)
    <2>1. PICK c : Answered(s, c)
      BY <1>9, AnswerIs DEF HeartInv
    <2>2. call[s].state # "cleared" /\ UNCHANGED << user, cache >>
      BY <1>9 DEF Account!answer, Account!storageVars
    <2> QED
      BY <1>1, <2>1, <2>2 DEF Answered, StateOnly
  <1>10. CASE Account!cutOff(s)
    BY <1>2, <1>10 DEF Account!cutOff, Account!storageVars
  <1> QED
    BY <1>3, <1>4, <1>5, <1>6, <1>7, <1>8, <1>9, <1>10

\* The pages and the hook of the wishlist.
LEMMA PagesShown ==
  ASSUME HeartInv, ShownIsCached, NEW s \in Calls,
         \/ Account!mount(s) \/ Account!handleSaveChanges(s) \/ Account!logout(s)
         \/ Account!useWishlist(s)
         \/ \E u \in Users : Account!handleSubmit(s, u)
         \/ \E p \in Products : Account!toggle(s, p)
  PROVE  ShownIsCached'
  <1>1. ASSUME NEW c, Account!Send(s, call, c), UNCHANGED << user, cache >> PROVE ShownIsCached'
    BY <1>1, SentRests, RestsKeeps DEF Rests
  <1>2. ASSUME UNCHANGED << user, cache, call >> PROVE ShownIsCached'
    BY <1>2 DEF ShownIsCached, Account!ShownIsCached
  <1>3. CASE Account!mount(s)
    <2>1. CASE token = Account!NoToken
      BY <1>3, <2>1 DEF Account!mount, Account!SetUser, ShownIsCached, Account!ShownIsCached
    <2>2. CASE token # Account!NoToken
      <3>1. UNCHANGED << user, cache >>
            /\ Account!Send(s, call, [Account!Free EXCEPT !.kind = "user", !.token = token])
        BY <1>3, <2>2 DEF Account!mount, Account!storageVars
      <3> QED
        BY <1>1, <3>1
    <2> QED
      BY <2>1, <2>2
  <1>4. CASE Account!handleSaveChanges(s)
    BY <1>1, <1>4 DEF Account!handleSaveChanges, Account!storageVars
  <1>5. CASE Account!logout(s)
    BY <1>1, <1>5 DEF Account!logout, Account!storageVars
  <1>6. CASE Account!useWishlist(s)
    <2>1. UNCHANGED << user, cache >> /\ (UNCHANGED call \/ \E c : Account!Send(s, call, c))
      BY <1>6 DEF Account!useWishlist, Account!Load, Account!storageVars
    <2> QED
      BY <1>1, <1>2, <2>1
  <1>7. ASSUME NEW u \in Users, Account!handleSubmit(s, u) PROVE ShownIsCached'
    BY <1>1, <1>7 DEF Account!handleSubmit, Account!storageVars
  <1>8. ASSUME NEW p \in Products, Account!toggle(s, p) PROVE ShownIsCached'
    BY <1>1, <1>8 DEF Account!toggle, Account!storageVars
  <1> QED
    BY <1>3, <1>4, <1>5, <1>6, <1>7, <1>8

\* Every step of the tab.
LEMMA ShownKept == ASSUME HeartInv, ShownIsCached, [TabNext]_tabVars PROVE ShownIsCached'
  <1>1. CASE UNCHANGED << user, cache, call >>
    BY <1>1 DEF ShownIsCached, Account!ShownIsCached
  <1>2. CASE UNCHANGED tabVars
    BY <1>1, <1>2 DEF tabVars, accountVars
  <1>3. CASE InShop /\ ShopNext
    BY <1>1, <1>3 DEF InShop, accountVars
  <1>4. CASE InAccount /\ Account!AccountNext
    <2>1. ASSUME NEW s \in Calls, Account!Applied(s) PROVE ShownIsCached'
      BY <2>1, EndsShown, AnswersShown DEF Account!Applied
    <2>2. ASSUME NEW s \in Calls,
                 \/ Account!mount(s) \/ Account!answer(s) \/ Account!cutOff(s) \/ Account!clearFails(s)
                 \/ Account!useWishlist(s) \/ Account!handleSaveChanges(s) \/ Account!logout(s)
                 \/ \E u \in Users : Account!handleSubmit(s, u)
                 \/ \E p \in Products : Account!toggle(s, p)
          PROVE  ShownIsCached'
      BY <2>2, EndsShown, AnswersShown, PagesShown
    <2>3. CASE Account!sectionWrites
      BY <1>1, <2>3 DEF Account!sectionWrites
    <2>4. CASE Account!reload
      BY <2>4 DEF Account!reload, ShownIsCached, Account!ShownIsCached
    <2>5. ASSUME NEW place, Account!goTo(place) PROVE ShownIsCached'
      <3>1. call' = [s \in Calls |-> [call[s] EXCEPT !.own = FALSE]] /\ UNCHANGED << user, cache >>
        BY <2>5 DEF Account!goTo, Account!storageVars
      <3>2. \A s \in Calls : call'[s].state = call[s].state
        BY <3>1 DEF HeartInv, CallsFit, CallFields
      <3> QED
        BY <3>1, <3>2, RestsKeeps DEF Rests, Clearing
    <2> QED
      BY <1>4, <2>1, <2>2, <2>3, <2>4, <2>5 DEF Account!AccountNext
  <1> QED
    BY <1>2, <1>3, <1>4 DEF TabNext

\* Who is shown is who is cached, but while a user's data are being cleared: answers of two
\* users that cross, pages that are left with calls under way, a logout between them and a
\* clearing that fails leave nobody else (AuthContext.tsx, acceptUser and the catches).
THEOREM ShownIsTheCached == TabSpec => []ShownIsCached
  <1>1. TabInit => ShownIsCached
    BY DEF TabInit, Account!AccountInit, ShownIsCached, Account!ShownIsCached
  <1> QED
    BY <1>1, HeartsBegin, HeartsKept, ShownKept, PTL DEF TabSpec
===============================================================================
