--------------------------- MODULE GiftConstructor ---------------------------
(***************************************************************************)
(* A customer composes a gift in the constructor and puts it into the cart. *)
(*                                                                         *)
(* The browser keeps two drafts of one box, a simple and an advanced one,  *)
(* and asks the server for the boxes, the products of the box, the quote   *)
(* of the simple draft and the quote of the draft to be confirmed.  Each   *)
(* of these calls is aborted when what it was made for has changed, and an *)
(* aborted call does nothing any more.  A confirmation creates the gift    *)
(* and then adds it to the cart: two calls, each of which may be lost      *)
(* before or after the server has done its part.  The server locks the     *)
(* cart while it adds, but not the gift, of which it reads the row and     *)
(* then the items: another page may change the gift between the two reads. *)
(***************************************************************************)
EXTENDS GiftLayout

CONSTANTS
  Stock,          \* of each product, when the run starts
  NoBox,
  MaxEdits,       \* changes of the drafts, returns to the page
  MaxFailures,    \* calls that fail, losses of the network, changes elsewhere
  MaxVisits       \* confirmations that are opened

Products == {ProductOf[f] : f \in Formats}

ASSUME ConstructorAssumption ==
  NoBox \notin Boxes /\ \A p \in Products : Stock[p] \in Nat

VARIABLES
  view,           \* Workspace: [step, mode, box]
  draft,          \* ConstructorEditor: [teas, sweets, items]
  confirming,     \* the number of the open confirmation, 0 if none is open
  boxes, products, simple,  \* useConstructorResource
  quote,          \* the quote of the confirmation
  send,           \* GiftConfirmation: [busy, gift, instance, done, unknown]
  online,
  calls,          \* reads on their way
  posts,          \* creations and additions on their way
  stock, gifts, cart,       \* the server
  adding,         \* the addition that holds the lock of the cart, if there is one
  visits, made,   \* confirmations opened, identifiers drawn
  edits, failures

server == << stock, gifts, cart, adding >>
vars == << view, draft, confirming, boxes, products, simple, quote, send, online,
           calls, posts, stock, gifts, cart, adding, visits, made, edits, failures >>

------------------------------------------------------------------------------
(* The draft. *)

NoDraft == [teas |-> << >>, sweets |-> << >>, items |-> {}]

\* The draft of one mode, as it is sent.
Draft ==
  IF view.mode = "simple"
  THEN [mode |-> "simple", box |-> view.box, teas |-> draft.teas, sweets |-> draft.sweets, items |-> {}]
  ELSE [mode |-> view.mode, box |-> view.box, teas |-> << >>, sweets |-> << >>, items |-> draft.items]

\* How often a draft holds a format.
Holds(d, f) == Cardinality({i \in DOMAIN (d.teas \o d.sweets) : (d.teas \o d.sweets)[i] = f})
               + Cardinality({p \in d.items : p.format = f})

Required(d, product) ==
  Total(Formats, LAMBDA f : IF ProductOf[f] = product THEN Holds(d, f) * Portion[f] ELSE 0)

------------------------------------------------------------------------------
(* useConstructorResource: what was loaded is kept together with its key. *)

Nothing == << >>
NoResource == [key |-> << >>, data |-> Nothing, loading |-> TRUE, failed |-> FALSE]

\* What the components see of a resource.
Shown(r, key) == IF r.key = key THEN r.data ELSE Nothing
LoadingShown(r, key) == r.key # key \/ r.loading

Kept(r, key) == IF r.key = key THEN r.data ELSE Nothing

ProductsShown == Shown(products, << view.box >>)
Active == /\ view.step = "editor" /\ view.mode # "none"
          /\ ProductsShown # Nothing

SimpleKey == << view.box, draft.teas, draft.sweets >>
SimpleOn == /\ Active /\ view.mode = "simple" /\ confirming = 0
            /\ Complete(view.box, draft.teas, draft.sweets)
            /\ NoSelectionError(view.box, draft.teas, draft.sweets)

\* The dependencies of the effects, and whether they have something to load.
Deps(key, on, of) == [key |-> key, on |-> on, online |-> online, of |-> of]
BoxesDeps == Deps(<< "boxes" >>, TRUE, Nothing)
ProductsDeps == Deps(<< view.box >>, view.box # NoBox, Nothing)
SimpleDeps == Deps(SimpleKey, SimpleOn, products.data)
QuoteDeps == Deps(<< confirming >>, confirming # 0 /\ ~send.done, Nothing)

Runs(again, now) == again /\ now.on /\ now.online

\* The effect of a resource, after a step that has left r.
Loaded(r, again, now) ==
  IF Runs(again, now)
  THEN [key |-> now.key, data |-> Kept(r, now.key), loading |-> TRUE, failed |-> FALSE] ELSE r

\* The effect of the confirmation.
Quoted(q, again, now) ==
  CASE ~again -> q
    [] Runs(again, now) -> [data |-> Nothing, loading |-> TRUE]
    [] OTHER -> [data |-> Nothing, loading |-> FALSE]

Call(of, for) == [of |-> of, for |-> for, stage |-> "first"]

\* An aborted call is not answered.
Surviving(cs, of) == {c \in cs : c.of # of}

\* The cleanup of an effect and its next run.
Recalled(cs, of, again, now, for) ==
  IF again THEN Surviving(cs, of) \cup IF Runs(again, now) THEN {Call(of, for)} ELSE {}
  ELSE cs

\* A step leaves b, p, s, q and cs, and presses one retry button or none; then the effects
\* run whose dependencies have changed.
Effects(b, p, s, q, cs, retried) ==
  LET boxesAgain == BoxesDeps # BoxesDeps' \/ retried = "boxes"
      productsAgain == ProductsDeps # ProductsDeps' \/ retried = "products"
      simpleAgain == SimpleDeps # SimpleDeps' \/ retried = "simple"
      quoteAgain == QuoteDeps # QuoteDeps' \/ retried = "quote"
  IN /\ boxes' = Loaded(b, boxesAgain, BoxesDeps')
     /\ products' = Loaded(p, productsAgain, ProductsDeps')
     /\ simple' = Loaded(s, simpleAgain, SimpleDeps')
     /\ quote' = Quoted(q, quoteAgain, QuoteDeps')
     /\ LET one == Recalled(cs, "boxes", boxesAgain, BoxesDeps', << "boxes" >>)
            two == Recalled(one, "products", productsAgain, ProductsDeps', << view'.box >>)
            three == Recalled(two, "simple", simpleAgain, SimpleDeps', SimpleKey')
        IN calls' = Recalled(three, "quote", quoteAgain, QuoteDeps', << Draft' >>)

Rerun == Effects(boxes, products, simple, quote, calls, "none")

\* The quote by which a simple draft may be confirmed.
Approved == IF SimpleOn /\ online /\ ~LoadingShown(simple, SimpleKey) /\ ~simple.failed
            THEN Shown(simple, SimpleKey) ELSE Nothing

Ready == IF view.mode = "simple" THEN Approved # Nothing
         ELSE draft.items # {} /\ NoLayoutError(view.box, draft.items)

------------------------------------------------------------------------------
(* The reads of the server. *)

\* prepareSimple, prepareAdvanced.
Prepared(d) ==
  IF d.mode = "simple"
  THEN /\ supportsSimple(d.box) /\ Complete(d.box, d.teas, d.sweets)
       /\ Layouts[d.box][d.teas \o d.sweets] # NoLayout
  ELSE validate(d.box, d.items)

InStock(d) == \A p \in Products : Required(d, p) <= stock[p]

Fail == failures < MaxFailures /\ failures' = failures + 1

\* What the server says to a call of a resource.
Served(c) ==
  CASE c.of = "boxes" -> << Boxes >>
    [] c.of = "products" -> << [of |-> c.for, shelf |-> stock] >>
    [] OTHER -> LET formats == c.for[2] \o c.for[3]
                    layout == Layouts[c.for[1]][formats]
                IN IF layout # NoLayout /\ InStock([NoDraft EXCEPT !.teas = formats]) /\ Verified(c.for[1], formats, layout)
                   THEN << [of |-> c.for, layout |-> layout] >> ELSE Nothing

\* then, catch: an answer with no data is a refusal.
Settled(r, c, data) ==
  IF data # Nothing THEN [key |-> c.for, data |-> data, loading |-> FALSE, failed |-> FALSE]
  ELSE [key |-> c.for, data |-> Kept(r, c.for), loading |-> FALSE, failed |-> TRUE]

receive(c, data) ==
  /\ c.of # "quote"
  /\ UNCHANGED << view, draft, confirming, send, online, posts, server, visits, made, edits >>
  /\ LET After(name, r) == IF c.of = name THEN Settled(r, c, data) ELSE r
     IN Effects(After("boxes", boxes), After("products", products), After("simple", simple),
                quote, calls \ {c}, "none")

answer(c) == c.of # "quote" /\ receive(c, Served(c)) /\ UNCHANGED failures

fail(c) == Fail /\ receive(c, Nothing)

QuoteAfter(c, ok) == [data |-> IF ok THEN c.for ELSE Nothing, loading |-> FALSE]

\* An advanced draft is validated before it is quoted.
answerValidation(c) ==
  /\ c.of = "quote" /\ c.for[1].mode = "advanced" /\ c.stage = "first"
  /\ UNCHANGED << view, draft, confirming, send, online, posts, server, visits, made, edits, failures >>
  /\ LET ok == Prepared(c.for[1])
         next == IF ok THEN {[c EXCEPT !.stage = "second"]} ELSE {}
     IN Effects(boxes, products, simple, IF ok THEN quote ELSE QuoteAfter(c, FALSE), (calls \ {c}) \cup next, "none")

answerQuote(c) ==
  /\ c.of = "quote" /\ (c.for[1].mode = "advanced" => c.stage = "second")
  /\ UNCHANGED << view, draft, confirming, send, online, posts, server, visits, made, edits, failures >>
  /\ Effects(boxes, products, simple,
             QuoteAfter(c, Prepared(c.for[1]) /\ InStock(c.for[1])), calls \ {c}, "none")

failQuote(c) ==
  /\ c.of = "quote" /\ Fail
  /\ UNCHANGED << view, draft, confirming, send, online, posts, server, visits, made, edits >>
  /\ Effects(boxes, products, simple, QuoteAfter(c, FALSE), calls \ {c}, "none")

------------------------------------------------------------------------------
(* Workspace: the steps, the retry buttons and the network. *)

chooseBox(b) ==
  /\ view.step = "box" /\ Shown(boxes, << "boxes" >>) # Nothing
  /\ view' = [step |-> "mode", box |-> b, mode |-> IF b = view.box THEN view.mode ELSE "none"]
  /\ draft' = IF b = view.box THEN draft ELSE NoDraft
  /\ UNCHANGED << confirming, send, online, posts, server, visits, made, edits, failures >>
  /\ Effects(boxes, products, IF b = view.box THEN simple ELSE NoResource, quote, calls, "none")

chooseMode(m) ==
  /\ view.step = "mode" /\ (m = "simple" => supportsSimple(view.box))
  /\ view' = [view EXCEPT !.mode = m, !.step = "editor"]
  /\ UNCHANGED << draft, confirming, send, online, posts, server, visits, made, edits, failures >>
  /\ Rerun

\* The steps above the editor; both drafts stay.
goBack(step) ==
  /\ confirming = 0
  /\ \/ view.step = "editor" /\ step \in {"box", "mode"}
     \/ view.step = "mode" /\ step = "box"
  /\ view' = [view EXCEPT !.step = step]
  /\ UNCHANGED << draft, confirming, send, online, posts, server, visits, made, edits, failures >>
  /\ Rerun

Retry(name) ==
  /\ online
  /\ UNCHANGED << view, draft, confirming, send, online, posts, server, visits, made, edits, failures >>
  /\ Effects(boxes, products, simple, quote, calls, name)

retryBoxes == boxes.failed /\ ~send.busy /\ Retry("boxes")
retryProducts == products.failed /\ ~LoadingShown(products, << view.box >>) /\ Retry("products")
retrySimple == SimpleOn /\ simple.failed /\ ~LoadingShown(simple, SimpleKey) /\ Retry("simple")
retryQuote ==
  /\ confirming # 0 /\ quote.data = Nothing /\ ~quote.loading
  /\ send.gift = Nothing /\ ~send.unknown /\ ~send.done
  /\ Retry("quote")

goOffline ==
  /\ online /\ Fail /\ online' = FALSE
  /\ UNCHANGED << view, draft, confirming, send, posts, server, visits, made, edits >>
  /\ Rerun

goOnline ==
  /\ ~online /\ online' = TRUE
  /\ UNCHANGED << view, draft, confirming, send, posts, server, visits, made, edits, failures >>
  /\ Rerun

------------------------------------------------------------------------------
(* ConstructorEditor. *)

Edit == Active /\ confirming = 0 /\ edits < MaxEdits /\ edits' = edits + 1

Edited(d) ==
  /\ Edit /\ draft' = d
  /\ UNCHANGED << view, confirming, send, online, posts, server, visits, made, failures >>
  /\ Rerun

\* constructorHasStock: the portions of every format of the product are counted.
constructorHasStock(f) ==
  /\ ProductsShown # Nothing
  /\ Required(Draft, ProductOf[f]) + Portion[f] <= ProductsShown[1].shelf[ProductOf[f]]

Offered(f) == canPlaceSingleItem(view.box, f) /\ constructorHasStock(f)

Laid(p, others) == p \notin others /\ NoLayoutError(view.box, others \cup {p})

addAdvanced(f) ==
  /\ view.mode = "advanced" /\ Offered(f)
  /\ \E p \in {firstFreePlacement(view.box, draft.items, f)} \ {NoPlace} :
       Edited([draft EXCEPT !.items = @ \cup {p}])

\* catalogPlacement: a format that does not lie in the box is turned from the start.
Turned(f) == f \in CanRotate /\ ~Inside(view.box, At(f, 0, 0, FALSE))

\* A cell is pressed after a format, or a format is dragged onto it.
place(f, x, y, r) ==
  LET p == At(f, x, y, r) IN
  /\ view.mode = "advanced" /\ Offered(f) /\ (r => Turned(f))
  /\ Laid(p, draft.items)
  /\ Edited([draft EXCEPT !.items = @ \cup {p}])

changeItem(p, q) ==
  /\ view.mode = "advanced" /\ Laid(q, draft.items \ {p})
  /\ Edited([draft EXCEPT !.items = (@ \ {p}) \cup {q}])

moveItem(p, x, y) == changeItem(p, [p EXCEPT !.x = x, !.y = y])

rotateSelected(p) == p.format \in CanRotate /\ changeItem(p, [p EXCEPT !.rotated = ~@])

removeItem(p) ==
  view.mode = "advanced" /\ Edited([draft EXCEPT !.items = @ \ {p}])

addSimple(f) ==
  /\ view.mode = "simple" /\ Offered(f)
  /\ \/ /\ Role[f] = "tea" /\ Len(draft.teas) < TeaCount[view.box]
        /\ Edited([draft EXCEPT !.teas = Append(@, f)])
     \/ /\ Role[f] = "sweet" /\ Len(draft.sweets) < SweetCount[view.box]
        /\ Edited([draft EXCEPT !.sweets = Append(@, f)])

removeOne(list, f) ==
  LET last == CHOOSE i \in DOMAIN list : list[i] = f /\ \A j \in DOMAIN list : j > i => list[j] # f
  IN RemoveAt(list, last)

removeSimple(f) ==
  /\ view.mode = "simple"
  /\ \/ /\ f \in ToSet(draft.teas)
        /\ Edited([draft EXCEPT !.teas = removeOne(@, f)])
     \/ /\ f \in ToSet(draft.sweets)
        /\ Edited([draft EXCEPT !.sweets = removeOne(@, f)])

\* The draft of this mode is emptied, the other stays.
Cleared == IF view.mode = "simple" THEN [draft EXCEPT !.teas = << >>, !.sweets = << >>]
           ELSE [draft EXCEPT !.items = {}]

reset == (\E f \in Formats : Holds(Draft, f) > 0) /\ Edited(Cleared)

NotSent == [busy |-> FALSE, gift |-> Nothing, instance |-> 0, done |-> FALSE, unknown |-> FALSE]

confirm ==
  /\ Active /\ confirming = 0 /\ Ready
  /\ visits < MaxVisits /\ visits' = visits + 1
  /\ confirming' = visits + 1 /\ send' = NotSent
  /\ UNCHANGED << view, draft, online, posts, server, made, edits, failures >>
  /\ Rerun

------------------------------------------------------------------------------
(* GiftConfirmation. *)

instanceId(s) == IF s.instance # 0 THEN s.instance ELSE made + 1

Post(kind, gift, instance) ==
  [kind |-> kind, visit |-> confirming, draft |-> Draft, gift |-> gift, instance |-> instance,
   stage |-> "sent"]

submit ==
  LET id == instanceId(send) IN
  /\ confirming # 0 /\ online
  /\ ~send.busy /\ ~send.done /\ ~send.unknown
  /\ send.gift # Nothing \/ (quote.data # Nothing /\ ~quote.loading)
  /\ send' = [send EXCEPT !.busy = TRUE, !.instance = id]
  /\ made' = IF id > made THEN id ELSE made
  /\ posts' = posts \cup {Post(IF send.gift = Nothing THEN "create" ELSE "add", send.gift, id)}
  /\ UNCHANGED << view, draft, confirming, online, server, visits, edits, failures >>
  /\ Rerun

\* Mutant: an answer that did not come is taken for a refusal.
CertainAlways(p) == FALSE

uncertain(p) == p.kind = "create" /\ p.stage = "failed"

BusyAfter(p) == FALSE

\* The post has been answered, and the confirmation is still open.
Current(p) == p.visit = confirming

Answered(p, s, more) ==
  /\ send' = IF Current(p) THEN s ELSE send
  /\ posts' = (posts \ {p}) \cup (IF Current(p) THEN more ELSE {})
  /\ UNCHANGED << view, draft, confirming, online, server, visits, made, edits, failures >>
  /\ Rerun

\* The gift is kept at once; it is added while the network is there.
receiveCreated(p) ==
  /\ p.kind = "create" /\ p.stage = "done"
  /\ Answered(p, [send EXCEPT !.gift = p.gift, !.busy = online],
              IF online THEN {Post("add", p.gift, p.instance)} ELSE {})

receiveAdded(p) ==
  /\ p.kind = "add" /\ p.stage = "done"
  /\ Answered(p, [send EXCEPT !.done = TRUE, !.busy = BusyAfter(p)], {})

receiveRefusal(p) ==
  /\ p.stage \in {"refused", "failed"}
  /\ Answered(p, [send EXCEPT !.unknown = uncertain(p), !.busy = BusyAfter(p)], {})

\* The steps above the confirmation; nothing may have been sent.
leaveConfirmation(step) ==
  /\ confirming # 0 /\ ~send.busy /\ ~send.done /\ ~send.unknown /\ send.gift = Nothing
  /\ view' = [view EXCEPT !.step = step]
  /\ confirming' = 0 /\ send' = NotSent
  /\ UNCHANGED << draft, online, posts, server, visits, made, edits, failures >>
  /\ Rerun

createMore ==
  /\ confirming # 0 /\ send.done
  /\ confirming' = 0 /\ send' = NotSent /\ draft' = Cleared
  /\ UNCHANGED << view, online, posts, server, visits, made, edits, failures >>
  /\ Rerun

\* The page is left and opened again.
reopen ==
  /\ view.box # NoBox /\ edits < MaxEdits /\ edits' = edits + 1
  /\ view' = [step |-> "box", mode |-> "none", box |-> NoBox] /\ draft' = NoDraft
  /\ confirming' = 0 /\ send' = NotSent
  /\ boxes' = NoResource /\ products' = NoResource /\ simple' = NoResource
  /\ quote' = [data |-> Nothing, loading |-> FALSE]
  /\ calls' = IF online THEN {Call("boxes", << "boxes" >>)} ELSE {}
  /\ UNCHANGED << online, posts, server, visits, made, failures >>

------------------------------------------------------------------------------
(* The server: creations, additions, and what happens elsewhere. *)

browserIdle == UNCHANGED << view, draft, confirming, boxes, products, simple, quote, send,
                            online, calls, visits, made, edits >>

Handled(p, stage, gift) == posts' = (posts \ {p}) \cup {[p EXCEPT !.stage = stage, !.gift = gift]}

create(p) ==
  /\ p.kind = "create" /\ p.stage = "sent"
  /\ IF Prepared(p.draft)
     THEN /\ gifts' = Append(gifts, [content |-> p.draft, first |-> p.draft, version |-> 1,
                                     active |-> TRUE, visit |-> p.visit])
          /\ Handled(p, "done", << [id |-> Len(gifts) + 1, version |-> 1] >>)
     ELSE gifts' = gifts /\ Handled(p, "refused", Nothing)
  /\ UNCHANGED << stock, cart, adding, failures >> /\ browserIdle

\* The goods of all rows together are there.
CartInStock(rows) ==
  \A product \in Products :
    Total(rows, LAMBDA r : r.quantity * Required(r.content, product)) <= stock[product]

\* Mutant: the version is not compared.
VersionAny(g) == TRUE

VersionHolds(g) == gifts[g.id].version = g.version

\* The cart is locked.  A row with this instance answers; otherwise the row of the gift is
\* read: its version, and the layout that the cart will show.
readGift(p) ==
  LET g == p.gift[1]
      existing == {r \in cart : r.instance = p.instance}
      same == \A r \in existing : r.gift = g.id /\ r.version = g.version /\ r.quantity = 1
      found == gifts[g.id].active /\ VersionHolds(g)
  IN /\ p.kind = "add" /\ p.stage = "sent" /\ adding = {}
     /\ IF existing = {} /\ found
        THEN adding' = {[post |-> p, layout |-> gifts[g.id].content]} /\ UNCHANGED posts
        ELSE /\ Handled(p, IF existing # {} /\ same THEN "done" ELSE "refused", p.gift)
             /\ UNCHANGED adding
     /\ UNCHANGED << stock, gifts, cart, failures >> /\ browserIdle

\* Its items are read, as they are by now, and the row is put into the cart if everything
\* is there; the lock is released.
putGift(p) ==
  \E a \in adding :
    LET g == p.gift[1]
        row == [instance |-> p.instance, gift |-> g.id, version |-> g.version, layout |-> a.layout,
                content |-> gifts[g.id].content, quantity |-> 1]
        good == CartInStock(cart \cup {row})
    IN /\ a.post = p /\ adding' = {}
       /\ cart' = IF good THEN cart \cup {row} ELSE cart
       /\ Handled(p, IF good THEN "done" ELSE "refused", p.gift)
       /\ UNCHANGED << stock, gifts, failures >> /\ browserIdle

\* The request is lost, or its answer.
lose(p) ==
  /\ p.stage # "failed" /\ (\A a \in adding : a.post # p) /\ Fail
  /\ Handled(p, "failed", p.gift)
  /\ UNCHANGED server /\ browserIdle

Elsewhere == Fail /\ UNCHANGED posts /\ browserIdle

\* Another page of the same customer.
update(g, f) ==
  LET content == [mode |-> "advanced", box |-> gifts[g].first.box, teas |-> << >>, sweets |-> << >>,
                  items |-> {At(f, 0, 0, FALSE)}]
  IN /\ Elsewhere /\ Prepared(content)
     /\ gifts' = [gifts EXCEPT ![g].version = @ + 1, ![g].content = content, ![g].active = TRUE]
     /\ UNCHANGED << stock, cart, adding >>

archive(g) == Elsewhere /\ gifts' = [gifts EXCEPT ![g].active = FALSE] /\ UNCHANGED << stock, cart, adding >>

\* The cart is locked for its other changes, too.
updateQuantity(r) ==
  LET rows == (cart \ {r}) \cup {[r EXCEPT !.quantity = 3 - @]} IN
  /\ adding = {} /\ Elsewhere /\ CartInStock(rows)
  /\ cart' = rows /\ UNCHANGED << stock, gifts, adding >>

remove(r) ==
  /\ adding = {} /\ Elsewhere
  /\ cart' = cart \ {r} /\ UNCHANGED << stock, gifts, adding >>

sold(p) ==
  /\ stock[p] > 0 /\ Elsewhere
  /\ stock' = [stock EXCEPT ![p] = @ - 1] /\ UNCHANGED << gifts, cart, adding >>

------------------------------------------------------------------------------
Init ==
  /\ view = [step |-> "box", mode |-> "none", box |-> NoBox]
  /\ draft = NoDraft /\ confirming = 0
  /\ boxes = NoResource /\ products = NoResource /\ simple = NoResource
  /\ quote = [data |-> Nothing, loading |-> FALSE]
  /\ send = NotSent /\ online = TRUE
  /\ calls = {Call("boxes", << "boxes" >>)} /\ posts = {}
  /\ stock = Stock /\ gifts = << >> /\ cart = {} /\ adding = {}
  /\ visits = 0 /\ made = 0 /\ edits = 0 /\ failures = 0

PostStep(p) ==
  \/ create(p) \/ readGift(p) \/ putGift(p)
  \/ receiveCreated(p) \/ receiveAdded(p) \/ receiveRefusal(p)

Next ==
  \/ \E c \in calls : answer(c) \/ fail(c) \/ answerValidation(c) \/ answerQuote(c) \/ failQuote(c)
  \/ \E b \in Boxes : chooseBox(b)
  \/ \E m \in {"simple", "advanced"} : chooseMode(m)
  \/ \E s \in {"box", "mode"} : goBack(s)
  \/ retryBoxes \/ retryProducts \/ retrySimple \/ retryQuote \/ goOffline \/ goOnline
  \/ \E f \in Formats : addAdvanced(f) \/ addSimple(f) \/ removeSimple(f)
  \/ \E f \in Formats, r \in BOOLEAN : view.box # NoBox
       /\ \E x \in 0 .. Width[view.box] - 1, y \in 0 .. Height[view.box] - 1 : place(f, x, y, r)
  \/ \E p \in draft.items : \/ rotateSelected(p) \/ removeItem(p)
                            \/ \E x \in 0 .. Width[view.box] - 1, y \in 0 .. Height[view.box] - 1 : moveItem(p, x, y)
  \/ reset \/ confirm \/ submit \/ createMore \/ reopen
  \/ \E s \in {"box", "mode", "editor"} : leaveConfirmation(s)
  \/ \E p \in posts : PostStep(p) \/ lose(p)
  \/ \E g \in DOMAIN gifts : archive(g) \/ \E f \in Formats : update(g, f)
  \/ \E r \in cart : updateQuantity(r) \/ remove(r)
  \/ \E p \in Products : sold(p)

\* The server answers; a press is never owed.
GiftFairness ==
  /\ WF_vars(\E c \in calls : c.of = "products" /\ answer(c))
  /\ WF_vars(\E p \in posts : PostStep(p))

GiftSpec == Init /\ [][Next]_vars /\ GiftFairness

------------------------------------------------------------------------------
(* Properties. *)

\* A draft that may be confirmed is one the server takes, but for its weight, which the
\* browser does not know; a simple one is shown as the server will lay it.
ReadyIsAccepted ==
  /\ confirming = 0 /\ view.mode = "advanced" /\ Ready =>
       validate(view.box, draft.items) \/ WeightOf(draft.items) > MaxWeight[view.box]
  /\ confirming = 0 /\ view.mode = "simple" /\ Ready =>
       /\ Prepared(Draft)
       /\ \E q \in ToSet(Approved) : q.layout = Layouts[view.box][draft.teas \o draft.sweets]

\* When the constructor says that there is no place for a format, there is none, turned or
\* not, at any cell of the box (the candidates of firstFreePlacement are enough).
NoPlaceMeansNone ==
  confirming = 0 /\ view.mode = "advanced" /\ Cardinality(draft.items) < MaxItems =>
    \A f \in Formats :
      firstFreePlacement(view.box, draft.items, f) = NoPlace =>
        \A x \in 0 .. Width[view.box] - 1, y \in 0 .. Height[view.box] - 1, r \in Orientations(f) :
          ~Laid(At(f, x, y, r), draft.items)

\* A simple selection that the browser refuses cannot be packed in any way; one that can be
\* packed within the weight is laid by the server, and the browser accepts its layout.
PackingIsDecided ==
  LET formats == draft.teas \o draft.sweets
  IN confirming = 0 /\ view.mode = "simple" /\ formats # << >> =>
       /\ ~NoSelectionError(view.box, draft.teas, draft.sweets) => formats \notin PackableSelections[view.box]
       /\ Complete(view.box, draft.teas, draft.sweets) /\ formats \in PackableSelections[view.box]
            /\ Total(DOMAIN formats, LAMBDA i : Weight[formats[i]]) <= MaxWeight[view.box]
          => Layouts[view.box][formats] # NoLayout
               /\ Verified(view.box, formats, Layouts[view.box][formats])

\* What is shown was loaded for what is chosen: the goods are those of the box, the approved
\* quote that of the selection, the total of the confirmation that of its draft.
ShownIsAsked ==
  /\ \A d \in ToSet(ProductsShown) : d.of = << view.box >>
  /\ \A q \in ToSet(Approved) : q.of = SimpleKey
  /\ confirming # 0 /\ quote.data # Nothing => quote.data = << Draft >>

\* However often a confirmation is sent, and whichever answers are lost, it makes one gift.
OneGiftPerConfirmation ==
  \A g, h \in DOMAIN gifts : gifts[g].visit = gifts[h].visit => g = h

\* ... and the gift lies in the cart once.
OnceInCart == \A q, r \in cart : q.gift = r.gift => q = r

\* What the cart shows of a gift (its name, its layout, its mark-up) is what its customer has
\* confirmed, whatever other pages have made of the gift in between; and as long as the gift
\* has not been changed, the goods in the cart are those that are shown.
CartShowsWhatWasConfirmed ==
  \A r \in cart :
    /\ r.layout = gifts[r.gift].first
    /\ gifts[r.gift].version = r.version => r.content = r.layout

\* GiftCartService.php:60-61 refuses a gift that has been changed since it was confirmed, so
\* that the goods in the cart would always be those confirmed.  They are not: the items are
\* read after the row whose version is compared.
CartHoldsWhatWasConfirmed == \A r \in cart : r.content = gifts[r.gift].first

\* A confirmation does not work for ever.
BusyEnds == send.busy ~> ~send.busy
===============================================================================
