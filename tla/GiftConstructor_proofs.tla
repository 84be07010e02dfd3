------------------------- MODULE GiftConstructor_proofs -------------------------
(***************************************************************************)
(* What holds of the gift constructor for every box, format, product and   *)
(* number of steps: the two geometries agree (GiftLayout), a confirmation  *)
(* makes one gift, which lies in the cart once and is shown there as it    *)
(* was confirmed,                                                          *)
(* and a draft that may be confirmed is one the server takes.              *)
(***************************************************************************)
EXTENDS GiftConstructor, FiniteSetTheorems, FunctionTheorems, NaturalsInduction, WellFoundedInduction, TLAPS

------------------------------------------------------------------------------
(* The geometry. *)

\* The sides of an item are positive, whichever way it lies.
LEMMA SidesArePositive ==
  ASSUME NEW p \in Places
  PROVE  /\ footprint(p.format, p.rotated)[1] \in Nat \ {0}
         /\ footprint(p.format, p.rotated)[2] \in Nat \ {0}
<1>1. /\ CellsWide[p.format] \in Nat \ {0}
      /\ CellsHigh[p.format] \in Nat \ {0}
  BY LayoutAssumption DEF Places
<1>2. CASE p.rotated
  BY <1>1, <1>2 DEF footprint
<1>3. CASE ~p.rotated
  BY <1>1, <1>3 DEF footprint
<1> QED
  BY <1>2, <1>3

\* Two stretches of the line overlap exactly when they have a point in common.
LEMMA StretchesMeet ==
  ASSUME NEW x \in Nat, NEW a \in Nat \ {0}, NEW y \in Nat, NEW c \in Nat \ {0}
  PROVE  x < y + c /\ x + a > y <=> \E z \in Nat : z \in x .. x + a - 1 /\ z \in y .. y + c - 1
<1>1. ASSUME x < y + c, x + a > y
      PROVE  \E z \in Nat : z \in x .. x + a - 1 /\ z \in y .. y + c - 1
  <2>1. CASE x <= y
    BY <1>1, <2>1
  <2>2. CASE x > y
    BY <1>1, <2>2
  <2> QED
    BY <2>1, <2>2
<1>2. ASSUME NEW z \in Nat, z \in x .. x + a - 1, z \in y .. y + c - 1
      PROVE  x < y + c /\ x + a > y
  BY <1>2
<1> QED
  BY <1>1, <1>2

\* Items overlap for the browser (layoutError) exactly when they share a cell for the
\* server (GiftLayoutService::validate).
THEOREM OverlapIsSharedCell ==
  \A p, q \in Places : Overlap(p, q) <=> Cells(p) \cap Cells(q) # {}
<1> SUFFICES ASSUME NEW p \in Places, NEW q \in Places
             PROVE  Overlap(p, q) <=> Cells(p) \cap Cells(q) # {}
  OBVIOUS
<1> DEFINE a == footprint(p.format, p.rotated)
           c == footprint(q.format, q.rotated)
           MeetX(z) == z \in p.x .. p.x + a[1] - 1 /\ z \in q.x .. q.x + c[1] - 1
           MeetY(z) == z \in p.y .. p.y + a[2] - 1 /\ z \in q.y .. q.y + c[2] - 1
<1>1. /\ p.x \in Nat /\ p.y \in Nat /\ q.x \in Nat /\ q.y \in Nat
      /\ a[1] \in Nat \ {0} /\ a[2] \in Nat \ {0} /\ c[1] \in Nat \ {0} /\ c[2] \in Nat \ {0}
  BY SidesArePositive DEF Places
<1>2. p.x < q.x + c[1] /\ p.x + a[1] > q.x <=> \E z \in Nat : MeetX(z)
  <2> HIDE DEF a, c
  <2> QED
    BY <1>1, StretchesMeet
<1>3. p.y < q.y + c[2] /\ p.y + a[2] > q.y <=> \E z \in Nat : MeetY(z)
  <2> HIDE DEF a, c
  <2> QED
    BY <1>1, StretchesMeet
<1>4. Overlap(p, q) <=> (\E z \in Nat : MeetX(z)) /\ (\E z \in Nat : MeetY(z))
  BY <1>2, <1>3 DEF Overlap
<1>5. Cells(p) = (p.x .. p.x + a[1] - 1) \X (p.y .. p.y + a[2] - 1)
  BY DEF Cells
<1>6. Cells(q) = (q.x .. q.x + c[1] - 1) \X (q.y .. q.y + c[2] - 1)
  BY DEF Cells
<1>7. ASSUME NEW z \in Nat, MeetX(z), NEW w \in Nat, MeetY(w)
      PROVE  Cells(p) \cap Cells(q) # {}
  <2>1. << z, w >> \in Cells(p)
    BY <1>5, <1>7
  <2>2. << z, w >> \in Cells(q)
    BY <1>6, <1>7
  <2> QED
    BY <2>1, <2>2
<1>8. ASSUME Cells(p) \cap Cells(q) # {}
      PROVE  (\E z \in Nat : MeetX(z)) /\ (\E z \in Nat : MeetY(z))
  <2>1. PICK cell : cell \in Cells(p) /\ cell \in Cells(q)
    BY <1>8
  <2>2. MeetX(cell[1]) /\ MeetY(cell[2])
    BY <2>1, <1>5, <1>6
  <2>3. cell[1] \in Nat /\ cell[2] \in Nat
    <3> HIDE DEF a, c
    <3> QED
      BY <2>2, <1>1
  <2> QED
    BY <2>2, <2>3
<1> QED
  BY <1>4, <1>7, <1>8

\* An item lies inside for the browser exactly when all its cells are cells of the box.
LEMMA InsideIsCellsOfBox ==
  ASSUME NEW b \in Boxes, NEW p \in Places
  PROVE  Inside(b, p) <=> Cells(p) \subseteq (0 .. Width[b] - 1) \X (0 .. Height[b] - 1)
<1> DEFINE a == footprint(p.format, p.rotated)
           Box == (0 .. Width[b] - 1) \X (0 .. Height[b] - 1)
<1>1. /\ p.x \in Nat /\ p.y \in Nat /\ a[1] \in Nat \ {0} /\ a[2] \in Nat \ {0}
      /\ Width[b] \in Nat \ {0} /\ Height[b] \in Nat \ {0}
  BY SidesArePositive, LayoutAssumption DEF Places
<1>2. Inside(b, p) <=> p.x + a[1] <= Width[b] /\ p.y + a[2] <= Height[b]
  BY DEF Inside
<1>3. Cells(p) = (p.x .. p.x + a[1] - 1) \X (p.y .. p.y + a[2] - 1)
  BY DEF Cells
<1> HIDE DEF a
<1>4. ASSUME p.x + a[1] <= Width[b], p.y + a[2] <= Height[b]
      PROVE  Cells(p) \subseteq Box
  <2>1. p.x .. p.x + a[1] - 1 \subseteq 0 .. Width[b] - 1
    BY <1>1, <1>4
  <2>2. p.y .. p.y + a[2] - 1 \subseteq 0 .. Height[b] - 1
    BY <1>1, <1>4
  <2> QED
    BY <1>3, <2>1, <2>2
<1>5. ASSUME Cells(p) \subseteq Box
      PROVE  p.x + a[1] <= Width[b] /\ p.y + a[2] <= Height[b]
  <2>1. /\ p.x + a[1] - 1 \in p.x .. p.x + a[1] - 1
        /\ p.y + a[2] - 1 \in p.y .. p.y + a[2] - 1
    BY <1>1
  <2>2. << p.x + a[1] - 1, p.y + a[2] - 1 >> \in Box
    BY <1>3, <1>5, <2>1
  <2>3. p.x + a[1] - 1 \in 0 .. Width[b] - 1 /\ p.y + a[2] - 1 \in 0 .. Height[b] - 1
    BY <2>2
  <2> QED
    BY <1>1, <2>3
<1> QED
  BY <1>2, <1>4, <1>5

\* A layout is good for the browser (layoutError) exactly when the server takes it
\* (validate), as soon as it is not empty and not too heavy: a customer is never told
\* that a gift is ready which is then refused for its layout, nor the other way round.
THEOREM GeometriesAgree ==
  \A b \in Boxes : \A items \in SUBSET Places :
    items # {} /\ WeightOf(items) <= MaxWeight[b] =>
      (NoLayoutError(b, items) <=> validate(b, items))
<1> SUFFICES ASSUME NEW b \in Boxes, NEW items \in SUBSET Places,
                    items # {}, WeightOf(items) <= MaxWeight[b]
             PROVE  NoLayoutError(b, items) <=> validate(b, items)
  OBVIOUS
<1>1. \A p \in items : p.rotated \in Orientations(p.format) <=> (p.rotated => p.format \in CanRotate)
  BY DEF Orientations, Places
<1>2. \A p \in items : Inside(b, p) <=> Cells(p) \subseteq (0 .. Width[b] - 1) \X (0 .. Height[b] - 1)
  BY InsideIsCellsOfBox
<1>3. \A p, q \in items : ~Overlap(p, q) <=> Cells(p) \cap Cells(q) = {}
  BY OverlapIsSharedCell
<1> QED
  BY <1>1, <1>2, <1>3 DEF NoLayoutError, validate

------------------------------------------------------------------------------
(* Types. *)

\* The items of a draft: finitely many places.
FinitePlaces == {S \in SUBSET Places : IsFiniteSet(S)}

\* The steps and modes of the editor.
Steps == {"box", "mode", "editor"}
\* ... and its modes.
Modes == {"none", "simple", "advanced"}

\* What the editor keeps while a gift is made.
Drafts == [teas : Seq(Formats), sweets : Seq(Formats), items : FinitePlaces]

\* What is sent of it.
SentDrafts == [mode : Modes, box : Boxes \cup {NoBox}, teas : Seq(Formats), sweets : Seq(Formats),
               items : FinitePlaces]

\* A gift as the browser knows it: none, or an id with a version.
GiftRefs == {Nothing} \cup {<< g >> : g \in [id : Nat, version : Nat]}

\* Creations and additions under way.
Posts == [kind : {"create", "add"}, visit : Nat, draft : SentDrafts, gift : GiftRefs, instance : Nat,
          stage : {"sent", "done", "refused", "failed"}]

\* The gifts at the server, with what their customers confirmed first.
Gifts == [content : SentDrafts, first : SentDrafts, version : Nat, active : BOOLEAN, visit : Nat]

\* The rows of the cart.
Rows == [instance : Nat, gift : Nat, version : Nat, layout : SentDrafts, content : SentDrafts,
         quantity : 0 .. 3]

\* Additions that hold the lock of the cart.
Additions == [post : Posts, layout : SentDrafts]

\* The editor has its types; a mode is chosen for a box, and no more pieces than the box takes.
DraftOK ==
  /\ view \in [step : Steps, mode : Modes, box : Boxes \cup {NoBox}]
  /\ view.mode # "none" \/ view.step # "box" => view.box \in Boxes
  /\ view.mode = "simple" => supportsSimple(view.box)
  /\ confirming # 0 => view.step = "editor" /\ view.mode # "none"
  /\ draft \in Drafts
  /\ view.box \in Boxes => /\ Len(draft.teas) <= TeaCount[view.box]
                           /\ Len(draft.sweets) <= SweetCount[view.box]

\* The confirmation, its calls and the server have theirs.
SendOK ==
  /\ confirming \in Nat /\ visits \in Nat /\ made \in Nat
  /\ send \in [busy : BOOLEAN, gift : GiftRefs, instance : Nat, done : BOOLEAN, unknown : BOOLEAN]
  /\ posts \in SUBSET Posts
  /\ gifts \in Seq(Gifts)
  /\ cart \in SUBSET Rows
  /\ adding \in SUBSET Additions

\* The type of the state, but for what was loaded.
GiftTypeOK == DraftOK /\ SendOK /\ online \in BOOLEAN

\* What belongs to the confirmation and the server.
sendVars == << confirming, send, posts, gifts, cart, adding, visits, made >>

\* A draft of one mode has the type of what is sent.
LEMMA DraftIsSent == ASSUME DraftOK PROVE Draft \in SentDrafts
  <1>1. << >> \in Seq(Formats) /\ {} \in FinitePlaces
    BY FS_EmptySet DEF FinitePlaces
  <1> QED
    BY <1>1 DEF DraftOK, Draft, SentDrafts, Drafts, Modes

\* A set of numbers that has a member has a least one.
LEMMA Smallest == ASSUME NEW S \in SUBSET Nat, S # {}
                  PROVE  \E n \in S : \A m \in S : n <= m
  <1> DEFINE Less == {ss \in Nat \X Nat : ss[1] < ss[2]}
  <1>1. IsWellFoundedOn(Less, Nat)
    BY NatLessThanWellFounded DEF OpToRel
  <1> HIDE DEF Less
  <1>2. PICK n \in S : \A m \in S : ~(<< m, n >> \in Less)
    BY <1>1, WFMin
  <1>3. ASSUME NEW m \in S PROVE n <= m
    <2>1. m \in Nat /\ n \in Nat /\ ~(<< m, n >> \in Less)
      BY <1>2
    <2>2. ~(m < n)
      BY <2>1 DEF Less
    <2> QED
      BY <2>1, <2>2
  <1> QED
    BY <1>3

------------------------------------------------------------------------------
(* The steps by what they are about. *)

\* Resources are loaded and quotes answered.
LoadStep ==
  \/ \E c \in calls :
       answer(c) \/ fail(c) \/ answerValidation(c) \/ answerQuote(c) \/ failQuote(c)
  \/ retryBoxes \/ retryProducts \/ retrySimple \/ retryQuote \/ goOffline \/ goOnline

\* The steps of the constructor.
PageStep ==
  \/ \E b \in Boxes : chooseBox(b)
  \/ \E m \in {"simple", "advanced"} : chooseMode(m)
  \/ \E s \in {"box", "mode"} : goBack(s)

\* The draft is edited.
EditStep ==
  \/ \E f \in Formats : addAdvanced(f) \/ addSimple(f) \/ removeSimple(f)
  \/ \E f \in Formats, r \in BOOLEAN : view.box # NoBox
       /\ \E x \in 0 .. Width[view.box] - 1, y \in 0 .. Height[view.box] - 1 :
            place(f, x, y, r)
  \/ \E p \in draft.items :
       \/ rotateSelected(p) \/ removeItem(p)
       \/ \E x \in 0 .. Width[view.box] - 1, y \in 0 .. Height[view.box] - 1 :
            moveItem(p, x, y)
  \/ reset

\* A confirmation is opened or closed.
ConfirmStep ==
  \/ confirm \/ createMore \/ reopen
  \/ \E s \in {"box", "mode", "editor"} : leaveConfirmation(s)

\* Other pages and other customers.
OtherStep ==
  \/ \E g \in DOMAIN gifts : archive(g) \/ \E f \in Formats : update(g, f)
  \/ \E r \in cart : updateQuantity(r) \/ remove(r)
  \/ \E p \in Products : sold(p)

\* A gift is sent and the server handles it, and what happens elsewhere.
SendStep == submit \/ (\E p \in posts : PostStep(p) \/ lose(p)) \/ OtherStep

\* The actions, in five groups.
LEMMA NextIsStep == Next => LoadStep \/ PageStep \/ EditStep \/ ConfirmStep \/ SendStep
  BY DEF Next, LoadStep, PageStep, EditStep, ConfirmStep, SendStep, OtherStep

\* Whatever edits the draft does it while no confirmation is open.
LEMMA EditIsEdited == ASSUME EditStep PROVE \E d : Edited(d)
  <1>1. ASSUME NEW f \in Formats, addAdvanced(f) \/ addSimple(f) \/ removeSimple(f)
        PROVE  \E d : Edited(d)
    BY <1>1 DEF addAdvanced, addSimple, removeSimple
  <1>2. ASSUME NEW f, NEW x, NEW y, NEW r, place(f, x, y, r) PROVE \E d : Edited(d)
    BY <1>2 DEF place
  <1>3. ASSUME NEW p, NEW q, changeItem(p, q) PROVE \E d : Edited(d)
    BY <1>3 DEF changeItem
  <1>4. ASSUME NEW p, removeItem(p) PROVE \E d : Edited(d)
    BY <1>4 DEF removeItem
  <1> QED
    BY <1>1, <1>2, <1>3, <1>4 DEF EditStep, rotateSelected, moveItem, reset

------------------------------------------------------------------------------
(* Places of the browser, and the lists of a simple draft. *)

\* Among places of one format there is a first one.
LEMMA FirstIsFirst ==
  ASSUME NEW f, NEW spots \in SUBSET Places, spots # {}, \A p \in spots : p.format = f
  PROVE  First[spots] \in spots /\ \A q \in spots \ {First[spots]} : Before(First[spots], q)
  <1>1. PICK lying \in SUBSET spots :
          /\ lying # {} /\ \A p, q \in lying : p.rotated = q.rotated
          /\ \A p \in lying, q \in spots \ lying : ~p.rotated /\ q.rotated
    <2> DEFINE flat == {p \in spots : ~p.rotated}
    <2>1. CASE flat = {}
      <3>1. \A p \in spots : p.rotated = TRUE
        BY <2>1 DEF Places
      <3> QED
        BY <3>1
    <2>2. CASE flat # {}
      <3>1. \A p \in flat : p.rotated = FALSE
        BY DEF Places
      <3>2. \A q \in spots \ flat : q.rotated
        OBVIOUS
      <3> QED
        BY <2>2, <3>1, <3>2
    <2> QED
      BY <2>1, <2>2
  <1>2. PICK y \in {p.y : p \in lying} : \A z \in {p.y : p \in lying} : y <= z
    <2> DEFINE Ys == {p.y : p \in lying}
    <2>1. Ys \in SUBSET Nat /\ Ys # {}
      BY <1>1 DEF Places
    <2> HIDE DEF Ys
    <2>2. \E y \in Ys : \A z \in Ys : y <= z
      BY <2>1, Smallest
    <2> QED
      BY <2>2 DEF Ys
  <1> DEFINE row == {p \in lying : p.y = y}
  <1>3. PICK x \in {p.x : p \in row} : \A z \in {p.x : p \in row} : x <= z
    <2> DEFINE Xs == {p.x : p \in row}
    <2>1. Xs \in SUBSET Nat /\ Xs # {}
      BY <1>1, <1>2 DEF Places
    <2> HIDE DEF Xs
    <2>2. \E x \in Xs : \A z \in Xs : x <= z
      BY <2>1, Smallest
    <2> QED
      BY <2>2 DEF Xs
  <1>4. PICK p \in row : p.x = x
    BY <1>3
  <1>5. ASSUME NEW q \in spots \ {p} PROVE Before(p, q)
    <2>1. p \in Places /\ q \in Places /\ p.format = q.format /\ p.y = y /\ p.x = x /\ p \in lying
      BY <1>4
    <2>2. CASE q \notin lying
      BY <1>1, <2>1, <2>2 DEF Before
    <2>3. CASE q \in lying
      <3>1. p.rotated = q.rotated /\ p.y <= q.y
        BY <1>1, <1>2, <2>1, <2>3
      <3>2. CASE p.y = q.y
        <4>1. p.x <= q.x
          BY <1>3, <2>1, <2>3, <3>2
        <4>2. p.x # q.x
          BY <2>1, <3>1, <3>2 DEF Places
        <4> QED
          BY <2>1, <3>1, <3>2, <4>1, <4>2 DEF Before, Places
      <3>3. CASE p.y # q.y
        BY <2>1, <3>1, <3>3 DEF Before, Places
      <3> QED
        BY <3>2, <3>3
    <2> QED
      BY <2>2, <2>3
  <1>6. First[spots] = CHOOSE s \in spots : \A q \in spots \ {s} : Before(s, q)
    BY DEF First
  <1> QED
    BY <1>4, <1>5, <1>6

\* A corner that firstFreePlacement tries is a place.
LEMMA CornersArePlaces ==
  ASSUME NEW items \in FinitePlaces, NEW f \in Formats, NEW c \in Edges(items),
         NEW r \in Orientations(f)
  PROVE  At(f, c[1], c[2], r) \in Places
  <1>1. \A p \in items : /\ p.x + footprint(p.format, p.rotated)[1] \in Nat
                         /\ p.y + footprint(p.format, p.rotated)[2] \in Nat
    BY SidesArePositive DEF FinitePlaces, Places
  <1>2. c[1] \in Nat /\ c[2] \in Nat
    BY <1>1 DEF Edges
  <1> QED
    BY <1>2 DEF At, Places, Orientations

\* What firstFreePlacement looks through.
SpotsOf(b, items, f) ==
  {p \in {At(f, c[1], c[2], r) : c \in Edges(items), r \in Orientations(f)} :
     NoLayoutError(b, items \cup {p}) /\ p \notin items}

\* The place that is found is one that was looked at; none is found only when none fits.
LEMMA FoundIsSpot ==
  ASSUME NEW b, NEW items \in FinitePlaces, NEW f \in Formats
  PROVE  /\ SpotsOf(b, items, f) \in SUBSET Places
         /\ firstFreePlacement(b, items, f) # NoPlace =>
              firstFreePlacement(b, items, f) \in SpotsOf(b, items, f)
         /\ firstFreePlacement(b, items, f) = NoPlace /\ f # "none" =>
              \/ Cardinality(items) >= MaxItems \/ ~NoLayoutError(b, items)
              \/ SpotsOf(b, items, f) = {}
  <1> DEFINE spots == SpotsOf(b, items, f)
  <1>1. spots \in SUBSET Places /\ \A p \in spots : p.format = f
    BY CornersArePlaces DEF SpotsOf, At
  <1>2. firstFreePlacement(b, items, f) =
          IF Cardinality(items) >= MaxItems \/ ~NoLayoutError(b, items) \/ spots = {}
          THEN NoPlace ELSE First[spots]
    BY DEF firstFreePlacement, SpotsOf
  <1> HIDE DEF spots
  <1>3. spots # {} => First[spots] \in spots
    BY <1>1, FirstIsFirst
  <1>4. NoPlace.format = "none"
    BY DEF NoPlace
  <1> QED
    BY <1>1, <1>2, <1>3, <1>4 DEF spots

\* A list without one of its goods is a list.
LEMMA OneRemoved ==
  ASSUME NEW list \in Seq(Formats), NEW f \in ToSet(list)
  PROVE  removeOne(list, f) \in Seq(Formats) /\ Len(removeOne(list, f)) <= Len(list)
  <1> DEFINE IsLast(i) == list[i] = f /\ \A j \in DOMAIN list : j > i => list[j] # f
             last == CHOOSE i \in DOMAIN list : IsLast(i)
  <1>1. DOMAIN list = 1..Len(list) /\ Len(list) \in Nat
    OBVIOUS
  <1>2. \E i \in DOMAIN list : IsLast(i)
    <2> DEFINE S == {Len(list) - i : i \in {i \in DOMAIN list : list[i] = f}}
    <2>1. S \in SUBSET Nat /\ S # {}
      BY <1>1 DEF ToSet
    <2>2. PICK n \in S : \A m \in S : n <= m
      BY <2>1, Smallest
    <2>3. PICK i \in DOMAIN list : list[i] = f /\ n = Len(list) - i
      BY <2>2
    <2>4. ASSUME NEW j \in DOMAIN list, j > i, list[j] = f PROVE FALSE
      <3>1. n <= Len(list) - j
        BY <2>2, <2>4
      <3> QED
        BY <1>1, <2>3, <2>4, <3>1
    <2> QED
      BY <2>3, <2>4
  <1>3. last \in DOMAIN list
    BY <1>2
  <1>4. removeOne(list, f) = RemoveAt(list, last)
    BY DEF removeOne
  <1> HIDE DEF last
  <1>5. RemoveAt(list, last) = SubSeq(list, 1, last - 1) \o SubSeq(list, last + 1, Len(list))
    BY DEF RemoveAt
  <1>6. /\ SubSeq(list, 1, last - 1) \in Seq(Formats) /\ Len(SubSeq(list, 1, last - 1)) = last - 1
        /\ SubSeq(list, last + 1, Len(list)) \in Seq(Formats)
        /\ Len(SubSeq(list, last + 1, Len(list))) = Len(list) - last
    BY <1>1, <1>3
  <1> QED
    BY <1>1, <1>3, <1>4, <1>5, <1>6

------------------------------------------------------------------------------
(* What the customer does keeps the type of the draft. *)

\* An empty draft is one.
LEMMA NoDraftIsDraft == NoDraft \in Drafts /\ Len(NoDraft.teas) = 0 /\ Len(NoDraft.sweets) = 0
  <1>1. << >> \in Seq(Formats) /\ Len(<< >>) = 0 /\ {} \in FinitePlaces
    BY FS_EmptySet DEF FinitePlaces
  <1> QED
    BY <1>1 DEF NoDraft, Drafts

\* A step that leaves the editor keeps its types.
LEMMA DraftKept == ASSUME DraftOK, UNCHANGED << view, confirming, draft >> PROVE DraftOK'
  BY DEF DraftOK

\* An edit of the draft keeps them when what it makes is a draft.
LEMMA EditKept ==
  ASSUME DraftOK, NEW d \in Drafts, Edited(d),
         view.box \in Boxes => /\ Len(d.teas) <= TeaCount[view.box]
                               /\ Len(d.sweets) <= SweetCount[view.box]
  PROVE  DraftOK'
  <1>1. UNCHANGED << view, confirming >> /\ draft' = d
    BY DEF Edited
  <1> QED
    BY <1>1 DEF DraftOK

\* The draft of the advanced mode gets other items.
LEMMA ItemsKept ==
  ASSUME DraftOK, NEW items \in FinitePlaces, Edited([draft EXCEPT !.items = items])
  PROVE  DraftOK'
  <1> DEFINE d == [draft EXCEPT !.items = items]
  <1>1. d \in Drafts /\ d.teas = draft.teas /\ d.sweets = draft.sweets
    BY DEF DraftOK, Drafts
  <1> HIDE DEF d
  <1>2. Edited(d)
    BY DEF d
  <1> QED
    BY <1>1, <1>2, EditKept DEF DraftOK

\* Finitely many places, and one more or less.
LEMMA PlaceAdded == ASSUME NEW items \in FinitePlaces, NEW p \in Places
                    PROVE  items \cup {p} \in FinitePlaces /\ items \ {p} \in FinitePlaces
  BY FS_AddElement, FS_RemoveElement DEF FinitePlaces

\* In an open editor a box is chosen.
LEMMA EditsABox == ASSUME DraftOK, Edit PROVE view.box \in Boxes /\ view.mode # "none"
  BY DEF DraftOK, Edit, Active

\* The edits of an advanced draft.
LEMMA ItemsEdited ==
  ASSUME DraftOK,
         \/ \E f \in Formats : addAdvanced(f)
         \/ \E f \in Formats, r \in BOOLEAN :
              view.box # NoBox /\ \E x \in 0 .. Width[view.box] - 1,
                                     y \in 0 .. Height[view.box] - 1 : place(f, x, y, r)
         \/ \E p \in draft.items :
              \/ rotateSelected(p) \/ removeItem(p)
              \/ \E x \in 0 .. Width[view.box] - 1, y \in 0 .. Height[view.box] - 1 : moveItem(p, x, y)
  PROVE  DraftOK'
  <1>1. draft.items \in FinitePlaces /\ \A p \in draft.items : p \in Places
    BY DEF DraftOK, Drafts, FinitePlaces
  <1>2. ASSUME NEW f \in Formats, addAdvanced(f) PROVE DraftOK'
    <2>1. PICK p \in {firstFreePlacement(view.box, draft.items, f)} \ {NoPlace} :
            Edited([draft EXCEPT !.items = @ \cup {p}])
      BY <1>2 DEF addAdvanced
    <2>2. p \in Places
      BY <1>1, FoundIsSpot
    <2> QED
      BY <1>1, <2>1, <2>2, PlaceAdded, ItemsKept
  <1>3. ASSUME NEW f \in Formats, NEW r \in BOOLEAN, NEW x \in 0 .. Width[view.box] - 1,
               NEW y \in 0 .. Height[view.box] - 1, place(f, x, y, r)
        PROVE  DraftOK'
    <2>1. Edited([draft EXCEPT !.items = @ \cup {At(f, x, y, r)}])
      BY <1>3 DEF place
    <2>2. At(f, x, y, r) \in Places
      BY DEF At, Places
    <2> QED
      BY <1>1, <2>1, <2>2, PlaceAdded, ItemsKept
  <1>4. ASSUME NEW p \in draft.items, NEW q \in Places, changeItem(p, q) PROVE DraftOK'
    <2>1. Edited([draft EXCEPT !.items = (@ \ {p}) \cup {q}])
      BY <1>4 DEF changeItem
    <2> QED
      BY <1>1, <2>1, PlaceAdded, ItemsKept
  <1>5. ASSUME NEW p \in draft.items, rotateSelected(p) PROVE DraftOK'
    <2>1. [p EXCEPT !.rotated = ~@] \in Places
      BY <1>1 DEF Places
    <2> QED
      BY <1>4, <1>5, <2>1 DEF rotateSelected
  <1>6. ASSUME NEW p \in draft.items, NEW x \in 0 .. Width[view.box] - 1,
               NEW y \in 0 .. Height[view.box] - 1, moveItem(p, x, y)
        PROVE  DraftOK'
    <2>1. x \in Nat /\ y \in Nat
      OBVIOUS
    <2>2. p \in [format : Formats, x : Nat, y : Nat, rotated : BOOLEAN]
      BY <1>1 DEF Places
    <2>3. [p EXCEPT !.x = x, !.y = y] \in [format : Formats, x : Nat, y : Nat, rotated : BOOLEAN]
      BY <2>1, <2>2
    <2> QED
      BY <1>4, <1>6, <2>3 DEF moveItem, Places
  <1>7. ASSUME NEW p \in draft.items, removeItem(p) PROVE DraftOK'
    <2>1. Edited([draft EXCEPT !.items = @ \ {p}])
      BY <1>7 DEF removeItem
    <2> QED
      BY <1>1, <2>1, PlaceAdded, ItemsKept
  <1> QED
    BY <1>2, <1>3, <1>5, <1>6, <1>7

\* The edits of a simple draft.
LEMMA ListsEdited ==
  ASSUME DraftOK, NEW f \in Formats, addSimple(f) \/ removeSimple(f)
  PROVE  DraftOK'
  <1> DEFINE more == [draft EXCEPT !.teas = Append(@, f)]
             sweeter == [draft EXCEPT !.sweets = Append(@, f)]
             fewer == [draft EXCEPT !.teas = removeOne(@, f)]
             barer == [draft EXCEPT !.sweets = removeOne(@, f)]
  <1>1. draft \in Drafts /\ draft.teas \in Seq(Formats) /\ draft.sweets \in Seq(Formats)
    BY DEF DraftOK, Drafts
  <1>2. /\ Len(Append(draft.teas, f)) = Len(draft.teas) + 1
        /\ Len(Append(draft.sweets, f)) = Len(draft.sweets) + 1
        /\ Append(draft.teas, f) \in Seq(Formats) /\ Append(draft.sweets, f) \in Seq(Formats)
    BY <1>1
  <1>3. CASE addSimple(f)
    <2>1. view.box \in Boxes
      <3>1. Edit
        BY <1>3 DEF addSimple, Edited
      <3> QED
        BY <3>1, EditsABox
    <2>2. \/ Len(draft.teas) < TeaCount[view.box] /\ Edited(more)
          \/ Len(draft.sweets) < SweetCount[view.box] /\ Edited(sweeter)
      BY <1>3 DEF addSimple
    <2>3. more \in Drafts /\ more.teas = Append(draft.teas, f) /\ more.sweets = draft.sweets
      BY <1>1, <1>2 DEF Drafts
    <2>4. sweeter \in Drafts /\ sweeter.sweets = Append(draft.sweets, f) /\ sweeter.teas = draft.teas
      BY <1>1, <1>2 DEF Drafts
    <2> HIDE DEF more, sweeter
    <2>5. TeaCount[view.box] \in Nat /\ SweetCount[view.box] \in Nat
      BY <2>1, LayoutAssumption
    <2>6. Len(draft.teas) \in Nat /\ Len(draft.sweets) \in Nat
      BY <1>1
    <2>7. CASE Len(draft.teas) < TeaCount[view.box] /\ Edited(more)
      <3>1. Len(more.teas) <= TeaCount[view.box] /\ Len(more.sweets) <= SweetCount[view.box]
        BY <1>2, <2>1, <2>3, <2>5, <2>6, <2>7 DEF DraftOK
      <3> QED
        BY <2>3, <2>7, <3>1, EditKept
    <2>8. CASE Len(draft.sweets) < SweetCount[view.box] /\ Edited(sweeter)
      <3>1. Len(sweeter.teas) <= TeaCount[view.box] /\ Len(sweeter.sweets) <= SweetCount[view.box]
        BY <1>2, <2>1, <2>4, <2>5, <2>6, <2>8 DEF DraftOK
      <3> QED
        BY <2>4, <2>8, <3>1, EditKept
    <2> QED
      BY <2>2, <2>7, <2>8
  <1>4. CASE removeSimple(f)
    <2>1. \/ f \in ToSet(draft.teas) /\ Edited(fewer)
          \/ f \in ToSet(draft.sweets) /\ Edited(barer)
      BY <1>4 DEF removeSimple
    <2>2. CASE f \in ToSet(draft.teas) /\ Edited(fewer)
      <3>1. removeOne(draft.teas, f) \in Seq(Formats)
            /\ Len(removeOne(draft.teas, f)) <= Len(draft.teas)
        BY <1>1, <2>2, OneRemoved
      <3>2. fewer \in Drafts /\ fewer.teas = removeOne(draft.teas, f) /\ fewer.sweets = draft.sweets
        BY <1>1, <3>1 DEF Drafts
      <3> HIDE DEF fewer
      <3>3. view.box \in Boxes => /\ Len(fewer.teas) <= TeaCount[view.box]
                                 /\ Len(fewer.sweets) <= SweetCount[view.box]
        BY <1>1, <3>1, <3>2, LayoutAssumption DEF DraftOK
      <3> QED
        BY <2>2, <3>2, <3>3, EditKept
    <2>3. CASE f \in ToSet(draft.sweets) /\ Edited(barer)
      <3>1. removeOne(draft.sweets, f) \in Seq(Formats)
            /\ Len(removeOne(draft.sweets, f)) <= Len(draft.sweets)
        BY <1>1, <2>3, OneRemoved
      <3>2. barer \in Drafts /\ barer.sweets = removeOne(draft.sweets, f) /\ barer.teas = draft.teas
        BY <1>1, <3>1 DEF Drafts
      <3> HIDE DEF barer
      <3>3. view.box \in Boxes => /\ Len(barer.teas) <= TeaCount[view.box]
                                 /\ Len(barer.sweets) <= SweetCount[view.box]
        BY <1>1, <3>1, <3>2, LayoutAssumption DEF DraftOK
      <3> QED
        BY <2>3, <3>2, <3>3, EditKept
    <2> QED
      BY <2>1, <2>2, <2>3
  <1> QED
    BY <1>3, <1>4

\* A cleared draft is a draft for any box.
LEMMA ClearedIsDraft ==
  ASSUME DraftOK
  PROVE  /\ Cleared \in Drafts
         /\ view.box \in Boxes => /\ Len(Cleared.teas) <= TeaCount[view.box]
                                  /\ Len(Cleared.sweets) <= SweetCount[view.box]
  <1>1. << >> \in Seq(Formats) /\ Len(<< >>) = 0 /\ {} \in FinitePlaces
    BY FS_EmptySet DEF FinitePlaces
  <1>2. view.box \in Boxes => TeaCount[view.box] \in Nat /\ SweetCount[view.box] \in Nat
    BY LayoutAssumption
  <1>3. CASE view.mode = "simple"
    <2>1. Cleared = [draft EXCEPT !.teas = << >>, !.sweets = << >>]
      BY <1>3 DEF Cleared
    <2>2. Cleared \in Drafts /\ Cleared.teas = << >> /\ Cleared.sweets = << >>
      BY <1>1, <2>1 DEF DraftOK, Drafts
    <2> QED
      BY <1>1, <1>2, <2>2
  <1>4. CASE view.mode # "simple"
    <2>1. Cleared = [draft EXCEPT !.items = {}]
      BY <1>4 DEF Cleared
    <2>2. Cleared \in Drafts /\ Cleared.teas = draft.teas /\ Cleared.sweets = draft.sweets
      BY <1>1, <2>1 DEF DraftOK, Drafts
    <2> QED
      BY <2>2 DEF DraftOK
  <1> QED
    BY <1>3, <1>4

\* The steps of the workspace and of the confirmation.
LEMMA PagesKeepDraft ==
  ASSUME DraftOK,
         \/ \E b \in Boxes : chooseBox(b)
         \/ \E m \in {"simple", "advanced"} : chooseMode(m)
         \/ \E s \in {"box", "mode"} : goBack(s)
         \/ \E s \in Steps : leaveConfirmation(s)
         \/ reset \/ confirm \/ createMore \/ reopen
  PROVE  DraftOK'
  <1>1. ASSUME NEW b \in Boxes, chooseBox(b) PROVE DraftOK'
    <2>1. /\ view' = [step |-> "mode", box |-> b, mode |-> IF b = view.box THEN view.mode ELSE "none"]
          /\ draft' = IF b = view.box THEN draft ELSE NoDraft
          /\ UNCHANGED confirming /\ view.step = "box"
      BY <1>1 DEF chooseBox
    <2>2. confirming = 0
      BY <2>1 DEF DraftOK
    <2>3. TeaCount[b] \in Nat /\ SweetCount[b] \in Nat
      BY LayoutAssumption
    <2> QED
      BY <2>1, <2>2, <2>3, NoDraftIsDraft DEF DraftOK, Steps, Modes
  <1>2. ASSUME NEW m \in {"simple", "advanced"}, chooseMode(m) PROVE DraftOK'
    <2>1. view' = [view EXCEPT !.mode = m, !.step = "editor"] /\ UNCHANGED << draft, confirming >>
          /\ view.step = "mode" /\ (m = "simple" => supportsSimple(view.box))
      BY <1>2 DEF chooseMode
    <2> QED
      BY <2>1 DEF DraftOK, Steps, Modes
  <1>3. ASSUME NEW s \in {"box", "mode"}, goBack(s) PROVE DraftOK'
    <2>1. view' = [view EXCEPT !.step = s] /\ UNCHANGED << draft, confirming >>
          /\ view.step \in {"editor", "mode"} /\ confirming = 0
      BY <1>3 DEF goBack
    <2> QED
      BY <2>1 DEF DraftOK, Steps, Modes
  <1>4. ASSUME NEW s \in Steps, leaveConfirmation(s) PROVE DraftOK'
    <2>1. view' = [view EXCEPT !.step = s] /\ UNCHANGED draft /\ confirming # 0 /\ confirming' = 0
      BY <1>4 DEF leaveConfirmation
    <2> QED
      BY <2>1 DEF DraftOK, Steps, Modes
  <1>5. CASE reset
    BY <1>5, ClearedIsDraft, EditKept DEF reset
  <1>6. CASE confirm
    BY <1>6 DEF confirm, Active, DraftOK
  <1>7. CASE createMore
    BY <1>7, ClearedIsDraft DEF createMore, DraftOK
  <1>8. CASE reopen
    <2>1. /\ view' = [step |-> "box", mode |-> "none", box |-> NoBox] /\ draft' = NoDraft
          /\ confirming' = 0
      BY <1>8 DEF reopen
    <2> QED
      BY <2>1, NoDraftIsDraft, ConstructorAssumption DEF DraftOK, Steps, Modes
  <1> QED
    BY <1>1, <1>2, <1>3, <1>4, <1>5, <1>6, <1>7, <1>8

------------------------------------------------------------------------------
(* The confirmation and the server: types, and what every action does to them. *)

\* What does not touch the confirmation, its calls, the gifts and the cart.
LEMMA SendKept == ASSUME SendOK, UNCHANGED sendVars PROVE SendOK'
  BY DEF SendOK, sendVars

\* Pages and loads send nothing.
LEMMA BrowsingKeepsSend == ASSUME LoadStep \/ PageStep PROVE UNCHANGED sendVars
  <1>1. ASSUME NEW c \in calls,
               answer(c) \/ fail(c) \/ answerValidation(c) \/ answerQuote(c) \/ failQuote(c)
        PROVE  UNCHANGED sendVars
    BY <1>1 DEF answer, fail, receive, answerValidation, answerQuote, failQuote, sendVars, server
  <1>2. CASE PageStep
    BY <1>2 DEF PageStep, chooseBox, chooseMode, goBack, sendVars, server
  <1>3. CASE retryBoxes \/ retryProducts \/ retrySimple \/ retryQuote \/ goOffline \/ goOnline
    BY <1>3 DEF retryBoxes, retryProducts, retrySimple, retryQuote, Retry, goOffline, goOnline,
                sendVars, server
  <1> QED
    BY <1>1, <1>2, <1>3 DEF LoadStep

\* ... nor do edits.
LEMMA EditingKeepsSend == ASSUME EditStep PROVE UNCHANGED sendVars
  BY EditIsEdited DEF Edited, sendVars, server

\* What a confirmation posts is a post.
LEMMA PostIsPost ==
  ASSUME DraftOK, SendOK, NEW kind \in {"create", "add"}, NEW ref \in GiftRefs, NEW id \in Nat
  PROVE  Post(kind, ref, id) \in Posts
  BY DraftIsSent DEF SendOK, Post, Posts

\* A confirmation that has sent nothing.
LEMMA NotSentIsSend ==
  NotSent \in [busy : BOOLEAN, gift : GiftRefs, instance : Nat, done : BOOLEAN, unknown : BOOLEAN]
  BY DEF NotSent, GiftRefs

\* The server handles a post.
LEMMA HandledKeepsPosts ==
  ASSUME SendOK, NEW p \in posts, NEW stage \in {"sent", "done", "refused", "failed"},
         NEW ref \in GiftRefs, Handled(p, stage, ref)
  PROVE  posts' \in SUBSET Posts
  <1>1. p \in [kind : {"create", "add"}, visit : Nat, draft : SentDrafts, gift : GiftRefs,
               instance : Nat, stage : {"sent", "done", "refused", "failed"}]
    BY DEF SendOK, Posts
  <1>2. [p EXCEPT !.stage = stage, !.gift = ref]
          \in [kind : {"create", "add"}, visit : Nat, draft : SentDrafts, gift : GiftRefs,
               instance : Nat, stage : {"sent", "done", "refused", "failed"}]
    BY <1>1
  <1> QED
    BY <1>2 DEF Handled, SendOK, Posts

\* The confirmation is opened.
LEMMA ConfirmationOpens == ASSUME SendOK, confirm PROVE SendOK'
  BY NotSentIsSend DEF SendOK, confirm, server

\* The confirmation is closed.
LEMMA ConfirmationCloses ==
  ASSUME SendOK, createMore \/ reopen \/ \E s \in Steps : leaveConfirmation(s)
  PROVE  /\ SendOK' /\ confirming' = 0 /\ send' = NotSent
         /\ UNCHANGED << posts, gifts, cart, adding, visits, made >>
  <1>1. confirming' = 0 /\ send' = NotSent /\ UNCHANGED << posts, gifts, cart, adding, visits, made >>
    BY DEF createMore, reopen, leaveConfirmation, server
  <1> QED
    BY <1>1, NotSentIsSend DEF SendOK

\* What a submission draws and sends.
LEMMA Submitted ==
  ASSUME DraftOK, SendOK, submit
  PROVE  /\ SendOK'
         /\ confirming # 0 /\ ~send.busy /\ ~send.done /\ ~send.unknown
         /\ instanceId(send) \in Nat \ {0}
         /\ send.instance # 0 => instanceId(send) = send.instance
         /\ send' = [send EXCEPT !.busy = TRUE, !.instance = instanceId(send)]
         /\ posts' = posts \cup {Post(IF send.gift = Nothing THEN "create" ELSE "add", send.gift,
                                      instanceId(send))}
         /\ UNCHANGED << confirming, gifts, cart, adding, visits >>
  <1> DEFINE id == instanceId(send)
             post == Post(IF send.gift = Nothing THEN "create" ELSE "add", send.gift, id)
  <1>1. /\ confirming # 0 /\ ~send.busy /\ ~send.done /\ ~send.unknown
        /\ send' = [send EXCEPT !.busy = TRUE, !.instance = id]
        /\ made' = IF id > made THEN id ELSE made
        /\ posts' = posts \cup {post} /\ UNCHANGED << confirming, gifts, cart, adding, visits >>
    BY DEF submit, server
  <1>2. id \in Nat \ {0} /\ (send.instance # 0 => id = send.instance)
    BY DEF SendOK, instanceId
  <1>3. send.gift \in GiftRefs
    BY DEF SendOK
  <1> HIDE DEF id
  <1>4. post \in Posts
    BY <1>2, <1>3, PostIsPost
  <1> HIDE DEF post
  <1>5. SendOK'
    BY <1>1, <1>2, <1>4 DEF SendOK
  <1> QED
    BY <1>1, <1>2, <1>5 DEF id, post

\* What the server does with a creation.
LEMMA Created ==
  ASSUME SendOK, NEW p \in posts, create(p)
  PROVE  /\ SendOK' /\ p.kind = "create" /\ p.stage = "sent" /\ p \in Posts
         /\ UNCHANGED << confirming, send, cart, adding, visits, made >>
         /\ \/ /\ gifts' = Append(gifts, [content |-> p.draft, first |-> p.draft, version |-> 1,
                                          active |-> TRUE, visit |-> p.visit])
               /\ Handled(p, "done", << [id |-> Len(gifts) + 1, version |-> 1] >>)
            \/ UNCHANGED gifts /\ Handled(p, "refused", Nothing)
  <1> DEFINE gift == [content |-> p.draft, first |-> p.draft, version |-> 1, active |-> TRUE,
                      visit |-> p.visit]
             ref == << [id |-> Len(gifts) + 1, version |-> 1] >>
  <1>1. /\ p.kind = "create" /\ p.stage = "sent"
        /\ UNCHANGED << confirming, send, cart, adding, visits, made >>
        /\ \/ gifts' = Append(gifts, gift) /\ Handled(p, "done", ref)
           \/ UNCHANGED gifts /\ Handled(p, "refused", Nothing)
    BY DEF create, browserIdle
  <1>2. p \in Posts /\ gift \in Gifts /\ Len(gifts) + 1 \in Nat
    BY DEF SendOK, Posts, Gifts
  <1>3. ref \in GiftRefs /\ Nothing \in GiftRefs
    BY <1>2 DEF GiftRefs
  <1> HIDE DEF gift, ref
  <1>4. posts' \in SUBSET Posts
    BY <1>1, <1>2, <1>3, HandledKeepsPosts DEF SendOK
  <1>5. gifts' \in Seq(Gifts)
    BY <1>1, <1>2 DEF SendOK
  <1>6. SendOK'
    BY <1>1, <1>4, <1>5 DEF SendOK
  <1> QED
    BY <1>1, <1>2, <1>6 DEF gift, ref

\* What the server does with an addition of a gift that there is: it answers at once, or it
\* keeps the lock and the layout of the gift.
LEMMA GiftRead ==
  ASSUME SendOK, NEW p \in posts, readGift(p), p.gift # Nothing, p.gift[1].id \in DOMAIN gifts
  PROVE  /\ SendOK' /\ p.kind = "add" /\ p.stage = "sent" /\ adding = {}
         /\ UNCHANGED << confirming, send, gifts, cart, visits, made >>
         /\ \/ /\ UNCHANGED adding
               /\ \E stage \in {"done", "refused"} : Handled(p, stage, p.gift)
            \/ /\ UNCHANGED posts
               /\ \A r \in cart : r.instance # p.instance
               /\ VersionHolds(p.gift[1])
               /\ adding' = {[post |-> p, layout |-> gifts[p.gift[1].id].content]}
  <1> DEFINE addition == [post |-> p, layout |-> gifts[p.gift[1].id].content]
  <1>1. /\ p.kind = "add" /\ p.stage = "sent" /\ adding = {}
        /\ UNCHANGED << confirming, send, gifts, cart, visits, made >>
        /\ \/ /\ UNCHANGED adding
              /\ \E stage \in {"done", "refused"} : Handled(p, stage, p.gift)
           \/ /\ UNCHANGED posts /\ \A r \in cart : r.instance # p.instance
              /\ VersionHolds(p.gift[1]) /\ adding' = {addition}
    BY DEF readGift, browserIdle
  <1>2. p \in Posts /\ p.gift \in GiftRefs /\ gifts[p.gift[1].id] \in Gifts
    BY DEF SendOK, Posts
  <1>3. addition \in Additions
    BY <1>2 DEF Additions, Gifts
  <1> HIDE DEF addition
  <1>4. posts' \in SUBSET Posts
    BY <1>1, <1>2, HandledKeepsPosts DEF SendOK
  <1>5. SendOK'
    BY <1>1, <1>3, <1>4 DEF SendOK
  <1> QED
    BY <1>1, <1>5 DEF addition

\* ... and then puts the row into the cart or refuses it, and releases the lock.
LEMMA GiftPut ==
  ASSUME SendOK, NEW p \in posts, putGift(p), p.gift # Nothing, p.gift[1].id \in DOMAIN gifts
  PROVE  /\ SendOK' /\ adding' = {}
         /\ UNCHANGED << confirming, send, gifts, visits, made >>
         /\ \E stage \in {"done", "refused"} : Handled(p, stage, p.gift)
         /\ \E a \in adding :
              /\ a.post = p
              /\ \/ UNCHANGED cart
                 \/ cart' = cart \cup
                      {[instance |-> p.instance, gift |-> p.gift[1].id, version |-> p.gift[1].version,
                        layout |-> a.layout, content |-> gifts[p.gift[1].id].content,
                        quantity |-> 1]}
  <1> DEFINE g == p.gift[1]
             row(a) == [instance |-> p.instance, gift |-> g.id, version |-> g.version,
                        layout |-> a.layout, content |-> gifts[g.id].content, quantity |-> 1]
  <1>1. /\ UNCHANGED << confirming, send, gifts, visits, made >> /\ adding' = {}
        /\ \E stage \in {"done", "refused"} : Handled(p, stage, p.gift)
    BY DEF putGift, browserIdle
  <1>2. PICK a \in adding : a.post = p /\ (UNCHANGED cart \/ cart' = cart \cup {row(a)})
    BY DEF putGift
  <1>3. p.instance \in Nat /\ p.gift \in GiftRefs
    BY DEF SendOK, Posts
  <1>4. g \in [id : Nat, version : Nat]
    BY <1>3 DEF GiftRefs, Nothing
  <1>5. gifts[g.id] \in Gifts /\ a.layout \in SentDrafts
    BY DEF SendOK, Additions
  <1>6. row(a) \in Rows
    BY <1>3, <1>4, <1>5 DEF Rows, Gifts
  <1> HIDE DEF row, g
  <1>7. posts' \in SUBSET Posts
    BY <1>1, <1>3, HandledKeepsPosts
  <1>8. SendOK'
    BY <1>1, <1>2, <1>6, <1>7 DEF SendOK
  <1> QED
    BY <1>1, <1>2, <1>8 DEF row, g

\* A post, or its answer, is lost.
LEMMA PostLost ==
  ASSUME SendOK, NEW p \in posts, lose(p)
  PROVE  /\ SendOK' /\ Handled(p, "failed", p.gift)
         /\ UNCHANGED << confirming, send, gifts, cart, adding, visits, made >>
  <1>1. Handled(p, "failed", p.gift) /\ UNCHANGED << confirming, send, gifts, cart, adding, visits, made >>
    BY DEF lose, server, browserIdle
  <1>2. p.gift \in GiftRefs
    BY DEF SendOK, Posts
  <1> QED
    BY <1>1, <1>2, HandledKeepsPosts DEF SendOK

\* An answer is heard: by the confirmation it was for, or by nobody.
LEMMA AnswerHeard ==
  ASSUME GiftTypeOK, NEW p \in posts, receiveCreated(p) \/ receiveAdded(p) \/ receiveRefusal(p)
  PROVE  /\ SendOK' /\ UNCHANGED << confirming, gifts, cart, adding, visits, made >>
         /\ \/ /\ ~Current(p) /\ UNCHANGED send /\ posts' = posts \ {p}
            \/ /\ Current(p) /\ p.kind = "create" /\ p.stage = "done"
               /\ send' = [send EXCEPT !.gift = p.gift, !.busy = online]
               /\ \/ posts' = posts \ {p}
                  \/ posts' = (posts \ {p}) \cup {Post("add", p.gift, p.instance)}
            \/ /\ Current(p) /\ p.kind = "add" /\ p.stage = "done"
               /\ send' = [send EXCEPT !.done = TRUE, !.busy = FALSE]
               /\ posts' = posts \ {p}
            \/ /\ Current(p) /\ p.stage \in {"refused", "failed"}
               /\ send' = [send EXCEPT !.unknown = uncertain(p), !.busy = FALSE]
               /\ posts' = posts \ {p}
  <1>1. p.instance \in Nat /\ p.gift \in GiftRefs
    BY DEF GiftTypeOK, SendOK, Posts
  <1>2. Post("add", p.gift, p.instance) \in Posts
    BY <1>1, PostIsPost DEF GiftTypeOK
  <1>3. UNCHANGED << confirming, gifts, cart, adding, visits, made >>
    BY DEF receiveCreated, receiveAdded, receiveRefusal, Answered, server
  <1>4. \/ /\ ~Current(p) /\ UNCHANGED send /\ posts' = posts \ {p}
        \/ /\ Current(p) /\ p.kind = "create" /\ p.stage = "done"
           /\ send' = [send EXCEPT !.gift = p.gift, !.busy = online]
           /\ \/ posts' = posts \ {p}
              \/ posts' = (posts \ {p}) \cup {Post("add", p.gift, p.instance)}
        \/ /\ Current(p) /\ p.kind = "add" /\ p.stage = "done"
           /\ send' = [send EXCEPT !.done = TRUE, !.busy = FALSE]
           /\ posts' = posts \ {p}
        \/ /\ Current(p) /\ p.stage \in {"refused", "failed"}
           /\ send' = [send EXCEPT !.unknown = uncertain(p), !.busy = FALSE]
           /\ posts' = posts \ {p}
    BY DEF receiveCreated, receiveAdded, receiveRefusal, Answered, BusyAfter
  <1>5. posts' \in SUBSET Posts
    BY <1>2, <1>4 DEF GiftTypeOK, SendOK
  <1>6. uncertain(p) \in BOOLEAN
    BY DEF uncertain
  <1>7. send' \in [busy : BOOLEAN, gift : GiftRefs, instance : Nat, done : BOOLEAN, unknown : BOOLEAN]
    <2>1. send \in [busy : BOOLEAN, gift : GiftRefs, instance : Nat, done : BOOLEAN,
                    unknown : BOOLEAN]
      BY DEF GiftTypeOK, SendOK
    <2>2. /\ online \in BOOLEAN
          /\ [send EXCEPT !.gift = p.gift, !.busy = online]
               \in [busy : BOOLEAN, gift : GiftRefs, instance : Nat, done : BOOLEAN, unknown : BOOLEAN]
      BY <1>1, <2>1 DEF GiftTypeOK
    <2>3. [send EXCEPT !.done = TRUE, !.busy = FALSE]
            \in [busy : BOOLEAN, gift : GiftRefs, instance : Nat, done : BOOLEAN, unknown : BOOLEAN]
      BY <2>1
    <2>4. [send EXCEPT !.unknown = uncertain(p), !.busy = FALSE]
            \in [busy : BOOLEAN, gift : GiftRefs, instance : Nat, done : BOOLEAN, unknown : BOOLEAN]
      BY <1>6, <2>1
    <2> QED
      BY <1>4, <2>1, <2>2, <2>3, <2>4
  <1>8. SendOK'
    BY <1>3, <1>5, <1>7 DEF GiftTypeOK, SendOK
  <1> QED
    BY <1>3, <1>4, <1>8

\* What other pages of the customer do with a gift: it changes its content, and counts that.
LEMMA GiftsElsewhere ==
  ASSUME SendOK, NEW g \in DOMAIN gifts, archive(g) \/ \E f \in Formats : update(g, f)
  PROVE  /\ SendOK' /\ UNCHANGED << confirming, send, posts, cart, adding, visits, made >>
         /\ DOMAIN gifts' = DOMAIN gifts
         /\ \A i \in DOMAIN gifts :
              /\ gifts'[i].visit = gifts[i].visit /\ gifts'[i].first = gifts[i].first
              /\ \/ gifts'[i].version = gifts[i].version /\ gifts'[i].content = gifts[i].content
                 \/ gifts'[i].version = gifts[i].version + 1
  <1>1. UNCHANGED << confirming, send, posts, cart, adding, visits, made >>
    BY DEF archive, update, Elsewhere, browserIdle
  <1>2. gifts \in Seq(Gifts) /\ gifts[g] \in Gifts
    BY DEF SendOK
  <1>3. CASE archive(g)
    <2> DEFINE gift == [gifts[g] EXCEPT !.active = FALSE]
    <2>1. gifts' = [gifts EXCEPT ![g] = gift]
      BY <1>3 DEF archive
    <2>2. /\ gift \in Gifts /\ gift.visit = gifts[g].visit /\ gift.first = gifts[g].first
          /\ gift.version = gifts[g].version /\ gift.content = gifts[g].content
      BY <1>2 DEF Gifts
    <2> HIDE DEF gift
    <2> QED
      BY <1>1, <1>2, <2>1, <2>2 DEF SendOK
  <1>4. ASSUME NEW f \in Formats, update(g, f)
        PROVE  /\ SendOK' /\ DOMAIN gifts' = DOMAIN gifts
               /\ \A i \in DOMAIN gifts :
                    /\ gifts'[i].visit = gifts[i].visit /\ gifts'[i].first = gifts[i].first
                    /\ \/ gifts'[i].version = gifts[i].version /\ gifts'[i].content = gifts[i].content
                       \/ gifts'[i].version = gifts[i].version + 1
    <2> DEFINE content == [mode |-> "advanced", box |-> gifts[g].first.box, teas |-> << >>,
                           sweets |-> << >>, items |-> {At(f, 0, 0, FALSE)}]
               gift == [gifts[g] EXCEPT !.version = @ + 1, !.content = content, !.active = TRUE]
    <2>1. gifts' = [gifts EXCEPT ![g] = gift]
      BY <1>4 DEF update
    <2>2. At(f, 0, 0, FALSE) \in Places /\ {At(f, 0, 0, FALSE)} \in FinitePlaces
      <3>1. At(f, 0, 0, FALSE) \in Places
        BY DEF At, Places
      <3> QED
        BY <3>1, FS_Singleton DEF FinitePlaces
    <2>3. gifts[g].first \in SentDrafts /\ << >> \in Seq(Formats)
      BY <1>2 DEF Gifts
    <2>4. content \in SentDrafts
      BY <2>2, <2>3 DEF SentDrafts, Modes
    <2> HIDE DEF content
    <2>5. /\ gift \in Gifts /\ gift.visit = gifts[g].visit /\ gift.first = gifts[g].first
          /\ gift.version = gifts[g].version + 1
      <3>1. gifts[g] \in [content : SentDrafts, first : SentDrafts, version : Nat, active : BOOLEAN,
                         visit : Nat]
        BY <1>2 DEF Gifts
      <3>2. gifts[g].version + 1 \in Nat
        BY <3>1
      <3> QED
        BY <2>4, <3>1, <3>2 DEF Gifts
    <2> HIDE DEF gift
    <2> QED
      BY <1>1, <1>2, <2>1, <2>5 DEF SendOK
  <1> QED
    BY <1>1, <1>2, <1>3, <1>4

\* What other pages of the customer do with the cart, and what is sold to others.
LEMMA CartElsewhere ==
  ASSUME SendOK, (\E r \in cart : updateQuantity(r) \/ remove(r)) \/ \E p \in Products : sold(p)
  PROVE  /\ SendOK' /\ UNCHANGED << confirming, send, posts, gifts, adding, visits, made >>
         /\ \/ cart' \subseteq cart
            \/ \E r \in cart, n \in 0 .. 3 : cart' = (cart \ {r}) \cup {[r EXCEPT !.quantity = n]}
  <1>1. UNCHANGED << confirming, send, posts, gifts, adding, visits, made >>
    BY DEF updateQuantity, remove, sold, Elsewhere, browserIdle
  <1>2. \/ cart' \subseteq cart
        \/ \E r \in cart, n \in 0 .. 3 : cart' = (cart \ {r}) \cup {[r EXCEPT !.quantity = n]}
    <2>1. ASSUME NEW r \in cart, updateQuantity(r)
          PROVE  \E n \in 0 .. 3 : cart' = (cart \ {r}) \cup {[r EXCEPT !.quantity = n]}
      <3>1. cart' = (cart \ {r}) \cup {[r EXCEPT !.quantity = 3 - r.quantity]}
        BY <2>1 DEF updateQuantity
      <3>2. r.quantity \in 0 .. 3
        BY DEF SendOK, Rows
      <3>3. 3 - r.quantity \in 0 .. 3
        BY <3>2
      <3> QED
        BY <3>1, <3>3
    <2> QED
      BY <2>1 DEF remove, sold
  <1>3. cart' \in SUBSET Rows
    BY SMTT(30), <1>2 DEF SendOK, Rows
  <1> QED
    BY <1>1, <1>2, <1>3 DEF SendOK

------------------------------------------------------------------------------
(* One gift per confirmation, one row per gift. *)

\* Confirmations are counted; what was sent or made belongs to one that was opened.
VisitsKnown ==
  /\ confirming <= visits
  /\ \A p \in posts : p.visit \in 1 .. visits
  /\ \A i \in DOMAIN gifts : gifts[i].visit \in 1 .. visits

\* No gift was made by this confirmation.
MadeNothing(visit) == \A i \in DOMAIN gifts : gifts[i].visit # visit

\* A confirmation has one creation on its way at most; one that is still to come, or was
\* refused, has made nothing; a confirmation that may create has none and has made nothing.
Creations ==
  /\ \A p, q \in posts : p.kind = "create" /\ q.kind = "create" /\ p.visit = q.visit => p = q
  /\ \A p \in posts : p.kind = "create" /\ p.stage \in {"sent", "refused"} => MadeNothing(p.visit)
  /\ confirming # 0 /\ ~send.busy /\ ~send.unknown /\ send.gift = Nothing =>
       MadeNothing(confirming) /\ \A p \in posts : Current(p) => p.kind # "create"
  /\ \A p \in posts : Current(p) /\ p.kind = "add" => send.gift # Nothing

\* The browser knows gifts as they were made.
RefOK(ref) == ref # Nothing => ref[1].id \in DOMAIN gifts /\ ref[1].version = 1

\* Whatever names a gift names one that exists.
RefsHold ==
  /\ RefOK(send.gift)
  /\ \A p \in posts : RefOK(p.gift) /\ (p.kind = "add" \/ p.stage = "done" => p.gift # Nothing)

\* A gift that was not changed is as it was confirmed; a row shows what was confirmed, and
\* holds it as long as the gift is of its version.
Contents ==
  /\ \A i \in DOMAIN gifts : /\ gifts[i].version >= 1
                             /\ gifts[i].version = 1 => gifts[i].content = gifts[i].first
  /\ \A r \in cart : /\ r.gift \in DOMAIN gifts /\ r.version = 1 /\ r.layout = gifts[r.gift].first
                     /\ gifts[r.gift].version = 1 => r.content = r.layout

\* The addition that holds the lock has read the layout that was confirmed, and there is no
\* row with its instance.
AddingHolds ==
  \A a \in adding : /\ a.post.kind = "add" /\ a.post.gift # Nothing
                    /\ a.post.gift[1].id \in DOMAIN gifts
                    /\ a.layout = gifts[a.post.gift[1].id].first
                    /\ \A r \in cart : r.instance # a.post.instance

\* A gift has one instance wherever it is on its way, and in the cart.
InstancesAre(inst) ==
  /\ \A p \in posts : p.gift # Nothing => p.instance = inst[p.gift[1].id]
  /\ send.gift # Nothing => send.instance = inst[send.gift[1].id]
  /\ \A r \in cart : r.instance = inst[r.gift]

\* Rows, posts and the confirmation agree on the instance of a gift.
Instances ==
  /\ \E inst \in [DOMAIN gifts -> Nat \ {0}] : InstancesAre(inst)
  /\ \A p \in posts : p.instance # 0
  /\ \A p \in posts : Current(p) /\ p.kind = "create" => p.instance = send.instance

\* The inductive invariant of gifts and cart.
GiftsInv ==
  /\ VisitsKnown /\ Creations /\ OneGiftPerConfirmation
  /\ RefsHold /\ Contents /\ AddingHolds
  /\ Instances /\ OnceInCart

\* A step that sends nothing keeps it.
LEMMA GiftsKept == ASSUME GiftsInv, UNCHANGED sendVars PROVE GiftsInv'
  <1>1. UNCHANGED << confirming, send, posts, gifts, cart, adding, visits, made >>
    BY DEF sendVars
  <1>2. VisitsKnown' /\ Creations' /\ OneGiftPerConfirmation'
    BY <1>1 DEF GiftsInv, VisitsKnown, Creations, OneGiftPerConfirmation, MadeNothing, Current
  <1>3. RefsHold' /\ Contents' /\ AddingHolds' /\ OnceInCart'
    BY <1>1 DEF GiftsInv, RefsHold, RefOK, Contents, AddingHolds, OnceInCart
  <1>4. Instances'
    BY <1>1 DEF GiftsInv, Instances, InstancesAre, Current
  <1> QED
    BY <1>2, <1>3, <1>4 DEF GiftsInv

\* A confirmation that opens is one more; one that closes is forgotten by the browser.
LEMMA GiftsOpened ==
  ASSUME GiftTypeOK, GiftsInv, confirm
  PROVE  GiftsInv'
  <1>1. /\ visits' = visits + 1 /\ confirming' = visits + 1 /\ send' = NotSent
        /\ UNCHANGED << posts, gifts, cart, adding >> /\ visits \in Nat
    BY DEF confirm, server, GiftTypeOK, SendOK
  <1>2. send'.gift = Nothing
    BY <1>1 DEF NotSent
  <1>3. VisitsKnown'
    BY <1>1 DEF GiftsInv, VisitsKnown
  <1>4. MadeNothing(confirming)' /\ \A p \in posts' : ~Current(p)'
    BY <1>1 DEF GiftsInv, VisitsKnown, MadeNothing, Current
  <1>5. Creations'
    BY <1>1, <1>4 DEF GiftsInv, Creations, MadeNothing
  <1>6. OneGiftPerConfirmation' /\ OnceInCart' /\ Contents' /\ AddingHolds'
    BY <1>1 DEF GiftsInv, OneGiftPerConfirmation, OnceInCart, Contents, AddingHolds
  <1>7. RefsHold'
    BY <1>1, <1>2 DEF GiftsInv, RefsHold, RefOK
  <1>8. Instances'
    BY <1>1, <1>2, <1>4 DEF GiftsInv, Instances, InstancesAre
  <1> QED
    BY <1>3, <1>5, <1>6, <1>7, <1>8 DEF GiftsInv

\* A confirmation that is closed, or begun anew, keeps it.
LEMMA GiftsClosed ==
  ASSUME GiftTypeOK, GiftsInv, confirming' = 0, send' = NotSent,
         UNCHANGED << posts, gifts, cart, adding, visits >>
  PROVE  GiftsInv'
  <1>1. send'.gift = Nothing /\ visits \in Nat
    BY DEF NotSent, GiftTypeOK, SendOK
  <1>2. VisitsKnown'
    BY <1>1 DEF GiftsInv, VisitsKnown
  <1>3. \A p \in posts' : ~Current(p)'
    BY DEF GiftsInv, VisitsKnown, Current
  <1>4. Creations'
    BY <1>3 DEF GiftsInv, Creations, MadeNothing
  <1>5. OneGiftPerConfirmation' /\ OnceInCart' /\ Contents' /\ AddingHolds'
    BY DEF GiftsInv, OneGiftPerConfirmation, OnceInCart, Contents, AddingHolds
  <1>6. RefsHold'
    BY <1>1 DEF GiftsInv, RefsHold, RefOK
  <1>7. Instances'
    BY <1>1, <1>3 DEF GiftsInv, Instances, InstancesAre
  <1> QED
    BY <1>2, <1>4, <1>5, <1>6, <1>7 DEF GiftsInv

\* A submission creates only when the confirmation has made nothing.
LEMMA GiftsSubmitted ==
  ASSUME GiftTypeOK, GiftsInv, submit
  PROVE  GiftsInv'
  <1> DEFINE id == instanceId(send)
             kind == IF send.gift = Nothing THEN "create" ELSE "add"
             new == Post(kind, send.gift, id)
  <1>1. /\ confirming # 0 /\ ~send.busy /\ ~send.unknown
        /\ id \in Nat \ {0} /\ (send.instance # 0 => id = send.instance)
        /\ send' = [send EXCEPT !.busy = TRUE, !.instance = id]
        /\ posts' = posts \cup {new}
        /\ UNCHANGED << confirming, gifts, cart, adding, visits >>
    BY Submitted DEF GiftTypeOK
  <1>2. /\ new.kind = kind /\ new.visit = confirming /\ new.gift = send.gift /\ new.instance = id
        /\ new.stage = "sent"
    BY DEF Post
  <1>3. send'.busy = TRUE /\ send'.instance = id /\ send'.gift = send.gift
    BY <1>1 DEF GiftTypeOK, SendOK
  <1>4. confirming \in Nat /\ visits \in Nat
    BY DEF GiftTypeOK, SendOK
  <1>5. kind = "create" => send.gift = Nothing
    OBVIOUS
  <1>6. kind = "add" => send.gift # Nothing
    OBVIOUS
  <1> HIDE DEF id, kind, new
  <1>7. VisitsKnown'
    BY <1>1, <1>2, <1>4 DEF GiftsInv, VisitsKnown
  <1>8. Creations'
    <2>1. kind = "create" => MadeNothing(confirming) /\ \A p \in posts : Current(p) => p.kind # "create"
      BY <1>1, <1>5 DEF GiftsInv, Creations
    <2>2. \A p, q \in posts' : p.kind = "create" /\ q.kind = "create" /\ p.visit = q.visit => p = q
      BY <1>1, <1>2, <2>1 DEF GiftsInv, Creations, Current
    <2>3. \A p \in posts' : p.kind = "create" /\ p.stage \in {"sent", "refused"} =>
                              MadeNothing(p.visit)'
      BY <1>1, <1>2, <2>1 DEF GiftsInv, Creations, MadeNothing
    <2>4. \A p \in posts' : Current(p)' /\ p.kind = "add" => send'.gift # Nothing
      BY <1>1, <1>2, <1>3, <1>6 DEF GiftsInv, Creations, Current
    <2> QED
      BY <1>3, <2>2, <2>3, <2>4 DEF Creations
  <1>9. OneGiftPerConfirmation' /\ OnceInCart' /\ Contents' /\ AddingHolds'
    BY <1>1 DEF GiftsInv, OneGiftPerConfirmation, OnceInCart, Contents, AddingHolds
  <1>10. RefsHold'
    BY <1>1, <1>2, <1>3, <1>6 DEF GiftsInv, RefsHold, RefOK
  <1>11. Instances'
    <2>1. PICK inst \in [DOMAIN gifts -> Nat \ {0}] : InstancesAre(inst)
      BY DEF GiftsInv, Instances
    <2>2. send.gift # Nothing => send.instance # 0 /\ send.instance = inst[send.gift[1].id]
      BY <2>1 DEF InstancesAre, GiftsInv, RefsHold, RefOK
    <2>3. InstancesAre(inst)'
      BY <1>1, <1>2, <1>3, <2>1, <2>2 DEF InstancesAre
    <2>4. \A p \in posts : Current(p) /\ p.kind = "create" => p.instance = id
      BY <1>1 DEF GiftsInv, Instances
    <2> QED
      BY <1>1, <1>2, <1>3, <2>3, <2>4 DEF GiftsInv, Instances, Current
  <1> QED
    BY <1>7, <1>8, <1>9, <1>10, <1>11 DEF GiftsInv

\* The fields of a post that the server has handled.
LEMMA HandledFields ==
  ASSUME GiftTypeOK, NEW p \in posts, NEW stage, NEW ref
  PROVE  LET q == [p EXCEPT !.stage = stage, !.gift = ref]
         IN /\ q.kind = p.kind /\ q.visit = p.visit /\ q.instance = p.instance
            /\ q.stage = stage /\ q.gift = ref
  BY DEF GiftTypeOK, SendOK, Posts

\* The post r comes from one that was on its way: with its instance, and its gift or none.
WasPost(r) ==
  \E q \in posts : /\ r.instance = q.instance /\ r.kind = q.kind /\ r.visit = q.visit
                   /\ r.gift # Nothing => r.gift = q.gift

\* A post goes on without a new gift: an addition with its gift, a creation that fails.
LEMMA GiftsHandled ==
  ASSUME GiftTypeOK, GiftsInv, NEW p \in posts,
         NEW stage \in {"done", "refused", "failed"}, NEW ref, Handled(p, stage, ref),
         ref = p.gift \/ (ref = Nothing /\ p.kind = "create"),
         p.kind = "create" => stage # "done" /\ (stage = "refused" => p.stage = "sent"),
         UNCHANGED << confirming, send, gifts, visits >>
  PROVE  /\ VisitsKnown' /\ Creations' /\ OneGiftPerConfirmation' /\ RefsHold'
         /\ \A r \in posts' : WasPost(r)
  <1> DEFINE new == [p EXCEPT !.stage = stage, !.gift = ref]
  <1>1. posts' = (posts \ {p}) \cup {new}
    BY DEF Handled
  <1>2. /\ new.kind = p.kind /\ new.visit = p.visit /\ new.instance = p.instance
        /\ new.stage = stage /\ new.gift = ref
    BY HandledFields
  <1> HIDE DEF new
  <1>3. VisitsKnown' /\ OneGiftPerConfirmation'
    BY <1>1, <1>2 DEF GiftsInv, VisitsKnown, OneGiftPerConfirmation
  <1>4. Creations'
    <2>1. \A r, q \in posts' : r.kind = "create" /\ q.kind = "create" /\ r.visit = q.visit => r = q
      BY <1>1, <1>2 DEF GiftsInv, Creations
    <2>2. \A q \in posts' : q.kind = "create" /\ q.stage \in {"sent", "refused"} =>
                              MadeNothing(q.visit)'
      BY <1>1, <1>2 DEF GiftsInv, Creations, MadeNothing
    <2>3. \A q \in posts' : Current(q)' /\ q.kind = "add" => send'.gift # Nothing
      BY <1>1, <1>2 DEF GiftsInv, Creations, Current
    <2>4. confirming' # 0 /\ ~send'.busy /\ ~send'.unknown /\ send'.gift = Nothing =>
            MadeNothing(confirming)' /\ \A q \in posts' : Current(q)' => q.kind # "create"
      BY <1>1, <1>2 DEF GiftsInv, Creations, Current, MadeNothing
    <2> QED
      BY <2>1, <2>2, <2>3, <2>4 DEF Creations
  <1>5. RefsHold'
    <2>1. RefOK(p.gift)' /\ RefOK(Nothing)' /\ RefOK(send.gift)'
      BY DEF GiftsInv, RefsHold, RefOK
    <2>2. p.kind \in {"create", "add"} /\ (p.kind = "add" => ref # Nothing)
      BY DEF GiftsInv, RefsHold, GiftTypeOK, SendOK, Posts
    <2>3. RefOK(new.gift)' /\ (new.kind = "add" \/ new.stage = "done" => new.gift # Nothing)
      BY <1>2, <2>1, <2>2
    <2>4. ASSUME NEW q \in posts PROVE RefOK(q.gift)' /\ (q.kind = "add" \/ q.stage = "done" => q.gift # Nothing)
      BY DEF GiftsInv, RefsHold, RefOK
    <2> QED
      BY <1>1, <2>1, <2>3, <2>4 DEF RefsHold
  <1> QED
    BY <1>1, <1>2, <1>3, <1>4, <1>5 DEF WasPost

\* What a post becomes keeps its instance.
LEMMA InstancesHandled ==
  ASSUME GiftTypeOK, GiftsInv, UNCHANGED << confirming, send, gifts >>,
         \A r \in posts' : WasPost(r),
         NEW inst \in [DOMAIN gifts -> Nat \ {0}], InstancesAre(inst),
         \A r \in cart' : r.instance = inst[r.gift]
  PROVE  Instances'
  <1>1. InstancesAre(inst)'
    BY DEF InstancesAre, WasPost
  <1> QED
    BY <1>1 DEF GiftsInv, Instances, Current, WasPost

\* A request or its answer is lost.
LEMMA GiftsLost == ASSUME GiftTypeOK, GiftsInv, NEW p \in posts, lose(p) PROVE GiftsInv'
  <1>1. Handled(p, "failed", p.gift) /\ UNCHANGED << confirming, send, gifts, cart, adding, visits, made >>
    BY PostLost DEF GiftTypeOK
  <1>2. /\ VisitsKnown' /\ Creations' /\ OneGiftPerConfirmation' /\ RefsHold'
        /\ \A r \in posts' : WasPost(r)
    BY <1>1, GiftsHandled
  <1>3. PICK inst \in [DOMAIN gifts -> Nat \ {0}] : InstancesAre(inst)
    BY DEF GiftsInv, Instances
  <1>4. Instances'
    BY <1>1, <1>2, <1>3, InstancesHandled DEF InstancesAre
  <1>5. Contents' /\ AddingHolds' /\ OnceInCart'
    BY <1>1 DEF GiftsInv, Contents, AddingHolds, OnceInCart
  <1> QED
    BY <1>2, <1>4, <1>5 DEF GiftsInv

\* An addition is answered from the cart, refused, or reads the gift as it was made.
LEMMA GiftsRead == ASSUME GiftTypeOK, GiftsInv, NEW p \in posts, readGift(p) PROVE GiftsInv'
  <1>1. p.gift # Nothing /\ p.gift[1].id \in DOMAIN gifts /\ p.gift[1].version = 1
    BY DEF readGift, GiftsInv, RefsHold, RefOK
  <1>2. /\ p.kind = "add" /\ UNCHANGED << confirming, send, gifts, cart, visits, made >>
        /\ \/ /\ UNCHANGED adding
              /\ \E stage \in {"done", "refused"} : Handled(p, stage, p.gift)
           \/ /\ UNCHANGED posts
              /\ \A r \in cart : r.instance # p.instance
              /\ VersionHolds(p.gift[1])
              /\ adding' = {[post |-> p, layout |-> gifts[p.gift[1].id].content]}
    BY <1>1, GiftRead DEF GiftTypeOK
  <1>3. Contents' /\ OnceInCart'
    BY <1>2 DEF GiftsInv, Contents, OnceInCart
  <1>4. CASE UNCHANGED adding /\ \E stage \in {"done", "refused"} : Handled(p, stage, p.gift)
    <2>1. /\ VisitsKnown' /\ Creations' /\ OneGiftPerConfirmation' /\ RefsHold'
          /\ \A r \in posts' : WasPost(r)
      BY <1>2, <1>4, GiftsHandled
    <2>2. PICK inst \in [DOMAIN gifts -> Nat \ {0}] : InstancesAre(inst)
      BY DEF GiftsInv, Instances
    <2>3. Instances'
      BY <1>2, <2>1, <2>2, InstancesHandled DEF InstancesAre
    <2>4. AddingHolds'
      BY <1>2, <1>4 DEF GiftsInv, AddingHolds
    <2> QED
      BY <1>3, <2>1, <2>3, <2>4 DEF GiftsInv
  <1>5. CASE /\ UNCHANGED posts
             /\ \A r \in cart : r.instance # p.instance
             /\ VersionHolds(p.gift[1])
             /\ adding' = {[post |-> p, layout |-> gifts[p.gift[1].id].content]}
    <2>1. VisitsKnown' /\ Creations' /\ OneGiftPerConfirmation' /\ RefsHold'
      BY <1>2, <1>5 DEF GiftsInv, VisitsKnown, Creations, OneGiftPerConfirmation, RefsHold, RefOK, Current,
                        MadeNothing
    <2>2. Instances'
      BY <1>2, <1>5 DEF GiftsInv, Instances, InstancesAre, Current
    <2>3. gifts[p.gift[1].id].content = gifts[p.gift[1].id].first
      BY <1>1, <1>5 DEF VersionHolds, GiftsInv, Contents
    <2>4. AddingHolds'
      BY <1>1, <1>2, <1>5, <2>3 DEF AddingHolds
    <2> QED
      BY <1>3, <2>1, <2>2, <2>4 DEF GiftsInv
  <1> QED
    BY <1>2, <1>4, <1>5

\* It then puts one row, which shows what the gift was made as.
LEMMA GiftsPut == ASSUME GiftTypeOK, GiftsInv, NEW p \in posts, putGift(p) PROVE GiftsInv'
  <1> DEFINE g == p.gift[1]
             row(a) == [instance |-> p.instance, gift |-> g.id, version |-> g.version,
                        layout |-> a.layout, content |-> gifts[g.id].content, quantity |-> 1]
  <1>1. \E a \in adding : a.post = p
    BY DEF putGift
  <1>2. p.gift # Nothing /\ g.id \in DOMAIN gifts /\ g.version = 1
    BY <1>1 DEF GiftsInv, AddingHolds, RefsHold, RefOK
  <1>3. /\ UNCHANGED << confirming, send, gifts, visits, made >> /\ adding' = {}
        /\ \E stage \in {"done", "refused"} : Handled(p, stage, p.gift)
        /\ \E a \in adding : /\ a.post = p
                             /\ UNCHANGED cart \/ cart' = cart \cup {row(a)}
    BY <1>2, GiftPut DEF GiftTypeOK
  <1>4. PICK a \in adding : a.post = p /\ (UNCHANGED cart \/ cart' = cart \cup {row(a)})
    BY <1>3
  <1>5. a.layout = gifts[g.id].first /\ \A r \in cart : r.instance # p.instance
    BY <1>4 DEF GiftsInv, AddingHolds
  <1>6. p.kind = "add"
    BY <1>4 DEF GiftsInv, AddingHolds
  <1>7. /\ VisitsKnown' /\ Creations' /\ OneGiftPerConfirmation' /\ RefsHold'
        /\ \A r \in posts' : WasPost(r)
    BY <1>3, <1>6, GiftsHandled
  <1>8. PICK inst \in [DOMAIN gifts -> Nat \ {0}] : InstancesAre(inst)
    BY DEF GiftsInv, Instances
  <1>9. /\ row(a).instance = p.instance /\ row(a).gift = g.id /\ row(a).version = 1
        /\ row(a).layout = a.layout /\ row(a).content = gifts[g.id].content
    BY <1>2
  <1>10. p.instance = inst[g.id] /\ \A r \in cart : r.instance = inst[r.gift]
    BY <1>2, <1>8 DEF InstancesAre
  <1>11. gifts[g.id].version = 1 => gifts[g.id].content = gifts[g.id].first
    BY <1>2 DEF GiftsInv, Contents
  <1> HIDE DEF row, g
  <1>12. \A r \in cart' : r.instance = inst[r.gift]
    BY <1>4, <1>9, <1>10
  <1>13. Instances'
    BY <1>3, <1>7, <1>8, <1>12, InstancesHandled
  <1>14. Contents'
    BY <1>2, <1>3, <1>4, <1>5, <1>9, <1>11 DEF GiftsInv, Contents, g
  <1>15. OnceInCart'
    BY <1>4, <1>5, <1>9, <1>10 DEF GiftsInv, OnceInCart
  <1>16. AddingHolds'
    BY <1>3 DEF AddingHolds
  <1> QED
    BY SMTT(30), <1>7, <1>13, <1>14, <1>15, <1>16 DEF GiftsInv

\* A creation makes the one gift of its confirmation.
LEMMA GiftsCreated == ASSUME GiftTypeOK, GiftsInv, NEW p \in posts, create(p) PROVE GiftsInv'
  <1>11. PICK gift : gift = [content |-> p.draft, first |-> p.draft, version |-> 1, active |-> TRUE,
                            visit |-> p.visit]
    OBVIOUS
  <1>12. PICK n : n = Len(gifts) + 1
    OBVIOUS
  <1>13. PICK ref : ref = << [id |-> n, version |-> 1] >>
    OBVIOUS
  <1>14. PICK new : new = [p EXCEPT !.stage = "done", !.gift = ref]
    OBVIOUS
  <1>1. /\ p.kind = "create" /\ p.stage = "sent"
        /\ UNCHANGED << confirming, send, cart, adding, visits >>
        /\ \/ gifts' = Append(gifts, gift) /\ Handled(p, "done", ref)
           \/ UNCHANGED gifts /\ Handled(p, "refused", Nothing)
    BY <1>11, <1>12, <1>13, Created DEF GiftTypeOK
  <1>2. PICK inst \in [DOMAIN gifts -> Nat \ {0}] : InstancesAre(inst)
    BY DEF GiftsInv, Instances
  <1>3. CASE UNCHANGED gifts /\ Handled(p, "refused", Nothing)
    <2>1. /\ VisitsKnown' /\ Creations' /\ OneGiftPerConfirmation' /\ RefsHold'
          /\ \A r \in posts' : WasPost(r)
      BY <1>1, <1>3, GiftsHandled
    <2>2. Instances'
      BY <1>1, <1>2, <1>3, <2>1, InstancesHandled DEF InstancesAre
    <2>3. Contents' /\ AddingHolds' /\ OnceInCart'
      BY <1>1, <1>3 DEF GiftsInv, Contents, AddingHolds, OnceInCart
    <2> QED
      BY <2>1, <2>2, <2>3 DEF GiftsInv
  <1>4. CASE gifts' = Append(gifts, gift) /\ Handled(p, "done", ref)
    <2>1. /\ gifts \in Seq(Gifts) /\ p.visit \in Nat /\ gift \in Gifts /\ Len(gifts) \in Nat
          /\ p.instance \in Nat \ {0}
      BY <1>11 DEF GiftTypeOK, SendOK, Posts, Gifts, GiftsInv, Instances
    <2>2. /\ gift.visit = p.visit /\ gift.version = 1 /\ gift.content = gift.first
          /\ ref[1].id = n /\ ref[1].version = 1 /\ ref # Nothing
      BY <1>11, <1>13 DEF Nothing
    <2>3. posts' = (posts \ {p}) \cup {new}
      BY <1>4, <1>14 DEF Handled
    <2>4. /\ new.kind = p.kind /\ new.visit = p.visit /\ new.instance = p.instance
          /\ new.stage = "done" /\ new.gift = ref
      BY <1>14, HandledFields
    <2>5. /\ DOMAIN gifts = 1 .. Len(gifts) /\ DOMAIN gifts' = 1 .. n /\ n \notin DOMAIN gifts
          /\ gifts'[n] = gift /\ \A i \in DOMAIN gifts : gifts'[i] = gifts[i]
          /\ DOMAIN gifts' = DOMAIN gifts \cup {n}
      BY <1>4, <1>12, <2>1
    <2>51. \A i \in DOMAIN gifts' : \/ i \in DOMAIN gifts /\ gifts'[i] = gifts[i]
                                    \/ i = n /\ gifts'[i] = gift
      BY <2>5
    <2>52. n \notin DOMAIN gifts /\ \A i \in DOMAIN gifts : i \in DOMAIN gifts'
      BY <2>5
    <2>6. MadeNothing(p.visit) /\ p.visit \in 1 .. visits
      BY <1>1 DEF GiftsInv, Creations, VisitsKnown
    <2>7. VisitsKnown'
      BY <1>1, <2>2, <2>3, <2>4, <2>5, <2>6 DEF GiftsInv, VisitsKnown
    <2>8. OneGiftPerConfirmation'
      <3> SUFFICES ASSUME NEW g \in DOMAIN gifts', NEW h \in DOMAIN gifts',
                          gifts'[g].visit = gifts'[h].visit
                   PROVE  g = h
        BY DEF OneGiftPerConfirmation
      <3>1. \A i \in DOMAIN gifts : gifts[i].visit # gift.visit
        BY <2>2, <2>6 DEF MadeNothing
      <3>2. CASE g \in DOMAIN gifts /\ h \in DOMAIN gifts
        BY <2>51, <2>52, <3>2 DEF GiftsInv, OneGiftPerConfirmation
      <3> QED
        BY <2>51, <3>1, <3>2
    <2>9. Creations'
      <3>1. \A r, q \in posts' : r.kind = "create" /\ q.kind = "create" /\ r.visit = q.visit => r = q
        BY <1>1, <2>3, <2>4 DEF GiftsInv, Creations
      <3>2. \A q \in posts' : q.kind = "create" /\ q.stage \in {"sent", "refused"} =>
                                MadeNothing(q.visit)'
        <4> SUFFICES ASSUME NEW q \in posts', q.kind = "create", q.stage \in {"sent", "refused"},
                            NEW i \in DOMAIN gifts'
                     PROVE  gifts'[i].visit # q.visit
          BY DEF MadeNothing
        <4>1. q \in posts /\ q # p
          BY <2>3, <2>4
        <4>2. MadeNothing(q.visit) /\ q.visit # p.visit
          BY <1>1, <4>1 DEF GiftsInv, Creations
        <4> QED
          BY <2>2, <2>51, <4>2 DEF MadeNothing
      <3>3. \A q \in posts' : Current(q)' /\ q.kind = "add" => send'.gift # Nothing
        BY <1>1, <2>3, <2>4 DEF GiftsInv, Creations, Current
      <3>4. ASSUME confirming # 0, ~send.busy, ~send.unknown, send.gift = Nothing
            PROVE  MadeNothing(confirming)' /\ \A q \in posts' : Current(q)' => q.kind # "create"
        <4>1. p.visit # confirming /\ MadeNothing(confirming)
          BY <1>1, <3>4 DEF GiftsInv, Creations, Current
        <4> QED
          BY ZenonT(60), <1>1, <2>2, <2>3, <2>4, <2>5, <3>4, <4>1 DEF GiftsInv, Creations, Current, MadeNothing
      <3> QED
        BY <1>1, <3>1, <3>2, <3>3, <3>4 DEF Creations
    <2>10. RefsHold'
      <3>1. RefOK(send.gift)' /\ \A q \in posts : RefOK(q.gift)'
        BY <1>1, <2>5 DEF GiftsInv, RefsHold, RefOK
      <3>2. RefOK(ref)'
        BY <2>2, <2>5 DEF RefOK
      <3> QED
        BY <1>1, <2>2, <2>3, <2>4, <3>1, <3>2 DEF GiftsInv, RefsHold
    <2>11. Contents'
      <3>1. \A r \in cart : /\ r.gift \in DOMAIN gifts' /\ r.version = 1
                            /\ r.layout = gifts'[r.gift].first
                            /\ gifts'[r.gift].version = 1 => r.content = r.layout
        BY <2>51, <2>52 DEF GiftsInv, Contents
      <3>2. ASSUME NEW i \in DOMAIN gifts'
            PROVE  /\ gifts'[i].version >= 1
                   /\ gifts'[i].version = 1 => gifts'[i].content = gifts'[i].first
        <4>1. CASE i \in DOMAIN gifts /\ gifts'[i] = gifts[i]
          BY <4>1 DEF GiftsInv, Contents
        <4>2. CASE gifts'[i] = gift
          BY <2>2, <4>2
        <4> QED
          BY <2>51, <4>1, <4>2
      <3> QED
        BY <1>1, <3>1, <3>2 DEF Contents
    <2>12. OnceInCart' /\ AddingHolds'
      BY <1>1, <2>51, <2>52 DEF GiftsInv, OnceInCart, AddingHolds
    <2>13. Instances'
      <3> DEFINE more == [i \in DOMAIN gifts' |-> IF i = n THEN p.instance ELSE inst[i]]
      <3>1. more \in [DOMAIN gifts' -> Nat \ {0}]
        BY <2>1, <2>5
      <3>2. more[n] = p.instance /\ \A i \in DOMAIN gifts : more[i] = inst[i]
        BY <2>5
      <3>3. PICK k : k = more
        OBVIOUS
      <3> HIDE DEF more
      <3>4. \A q \in posts' : q.gift # Nothing => q.instance = k[q.gift[1].id]
        BY <1>2, <2>2, <2>3, <2>4, <3>2, <3>3 DEF InstancesAre, GiftsInv, RefsHold, RefOK
      <3>5. send'.gift # Nothing => send'.instance = k[send'.gift[1].id]
        BY <1>1, <1>2, <3>2, <3>3 DEF InstancesAre, GiftsInv, RefsHold, RefOK
      <3>6. \A r \in cart' : r.instance = k[r.gift]
        BY <1>1, <1>2, <3>2, <3>3 DEF InstancesAre, GiftsInv, Contents
      <3>7. InstancesAre(k)'
        BY <3>4, <3>5, <3>6 DEF InstancesAre
      <3> QED
        BY <1>1, <2>3, <2>4, <3>1, <3>3, <3>7 DEF GiftsInv, Instances, Current
    <2> QED
      BY <2>7, <2>8, <2>9, <2>10, <2>11, <2>12, <2>13 DEF GiftsInv
  <1> QED
    BY <1>1, <1>3, <1>4

\* An answer is heard.
LEMMA GiftsHeard ==
  ASSUME GiftTypeOK, GiftsInv, NEW p \in posts,
         receiveCreated(p) \/ receiveAdded(p) \/ receiveRefusal(p)
  PROVE  GiftsInv'
  <1> DEFINE new == Post("add", p.gift, p.instance)
  <1>1. /\ UNCHANGED << confirming, gifts, cart, adding, visits, made >>
        /\ \/ /\ ~Current(p) /\ UNCHANGED send /\ posts' = posts \ {p}
           \/ /\ Current(p) /\ p.kind = "create" /\ p.stage = "done"
              /\ send' = [send EXCEPT !.gift = p.gift, !.busy = online]
              /\ posts' = posts \ {p} \/ posts' = (posts \ {p}) \cup {new}
           \/ /\ Current(p) /\ p.kind = "add" /\ p.stage = "done"
              /\ send' = [send EXCEPT !.done = TRUE, !.busy = FALSE]
              /\ posts' = posts \ {p}
           \/ /\ Current(p) /\ p.stage \in {"refused", "failed"}
              /\ send' = [send EXCEPT !.unknown = uncertain(p), !.busy = FALSE]
              /\ posts' = posts \ {p}
    BY AnswerHeard
  <1>2. new.kind = "add" /\ new.visit = confirming /\ new.gift = p.gift /\ new.instance = p.instance
    BY DEF Post
  <1> HIDE DEF new
  <1>3. VisitsKnown' /\ OneGiftPerConfirmation' /\ Contents' /\ AddingHolds' /\ OnceInCart'
    BY <1>1, <1>2 DEF GiftsInv, VisitsKnown, OneGiftPerConfirmation, Contents, AddingHolds, OnceInCart,
                      Current
  <1>4. p.kind \in {"create", "add"} /\ RefOK(p.gift) /\ (p.kind = "add" \/ p.stage = "done" => p.gift # Nothing)
    BY DEF GiftTypeOK, SendOK, Posts, GiftsInv, RefsHold
  <1>5. PICK inst \in [DOMAIN gifts -> Nat \ {0}] : InstancesAre(inst)
    BY DEF GiftsInv, Instances
  <1>6. CASE UNCHANGED send /\ posts' = posts \ {p} /\ ~Current(p)
    <2>1. Creations'
      BY <1>1, <1>6 DEF GiftsInv, Creations, Current, MadeNothing
    <2>2. RefsHold'
      BY <1>1, <1>6 DEF GiftsInv, RefsHold, RefOK
    <2>3. InstancesAre(inst)'
      BY <1>1, <1>5, <1>6 DEF InstancesAre
    <2>4. Instances'
      BY <1>1, <1>6, <2>3 DEF GiftsInv, Instances, Current
    <2> QED
      BY <1>3, <2>1, <2>2, <2>4 DEF GiftsInv
  <1>7. CASE /\ Current(p) /\ p.kind = "create" /\ p.stage = "done"
             /\ send' = [send EXCEPT !.gift = p.gift, !.busy = online]
             /\ posts' = posts \ {p} \/ posts' = (posts \ {p}) \cup {new}
    <2>1. send'.gift = p.gift /\ send'.instance = send.instance
      BY <1>7 DEF GiftTypeOK, SendOK
    <2>2. p.gift # Nothing /\ send.instance = p.instance /\ p.instance # 0
      BY <1>4, <1>7 DEF GiftsInv, Instances
    <2>3. \A r, q \in posts' : r.kind = "create" /\ q.kind = "create" /\ r.visit = q.visit => r = q
      BY <1>2, <1>7 DEF GiftsInv, Creations
    <2>4. \A q \in posts' : q.kind = "create" /\ q.stage \in {"sent", "refused"} =>
                              MadeNothing(q.visit)'
      BY <1>1, <1>2, <1>7 DEF GiftsInv, Creations, MadeNothing
    <2>5. Creations'
      BY <2>1, <2>2, <2>3, <2>4 DEF Creations
    <2>6. RefsHold'
      <3>1. RefOK(p.gift)' /\ \A q \in posts : RefOK(q.gift)'
        BY <1>1, <1>4 DEF GiftsInv, RefsHold, RefOK
      <3> QED
        BY <1>2, <1>7, <2>1, <2>2, <3>1 DEF GiftsInv, RefsHold
    <2>7. InstancesAre(inst)'
      BY <1>1, <1>2, <1>5, <1>7, <2>1, <2>2 DEF InstancesAre
    <2>8. Instances'
      BY <1>1, <1>2, <1>7, <2>1, <2>2, <2>7 DEF GiftsInv, Instances, Current
    <2> QED
      BY <1>3, <2>5, <2>6, <2>8 DEF GiftsInv
  <1>8. CASE /\ Current(p) /\ p.kind = "add" /\ p.stage = "done"
             /\ send' = [send EXCEPT !.done = TRUE, !.busy = FALSE]
             /\ posts' = posts \ {p}
    <2>1. send'.gift = send.gift /\ send'.instance = send.instance
      BY <1>8 DEF GiftTypeOK, SendOK
    <2>2. send.gift # Nothing
      BY <1>8 DEF GiftsInv, Creations
    <2>3. Creations'
      BY <1>1, <1>8, <2>1, <2>2 DEF GiftsInv, Creations, Current, MadeNothing
    <2>4. RefsHold'
      BY <1>1, <1>8, <2>1 DEF GiftsInv, RefsHold, RefOK
    <2>5. InstancesAre(inst)'
      BY <1>1, <1>5, <1>8, <2>1 DEF InstancesAre
    <2>6. Instances'
      BY <1>1, <1>8, <2>1, <2>5 DEF GiftsInv, Instances, Current
    <2> QED
      BY <1>3, <2>3, <2>4, <2>6 DEF GiftsInv
  <1>9. CASE /\ Current(p) /\ p.stage \in {"refused", "failed"}
             /\ send' = [send EXCEPT !.unknown = uncertain(p), !.busy = FALSE]
             /\ posts' = posts \ {p}
    <2>1. send'.gift = send.gift /\ send'.instance = send.instance /\ send'.unknown = uncertain(p)
      BY <1>9 DEF GiftTypeOK, SendOK
    <2>2. ASSUME ~send'.unknown, send.gift = Nothing
          PROVE  MadeNothing(confirming) /\ \A q \in posts' : Current(q) => q.kind # "create"
      <3>1. p.kind = "create" /\ p.stage = "refused"
        BY <1>4, <1>9, <2>1, <2>2 DEF uncertain, GiftsInv, Creations
      <3> QED
        BY <1>9, <3>1 DEF GiftsInv, Creations, Current
    <2>3. Creations'
      BY <1>1, <1>9, <2>1, <2>2 DEF GiftsInv, Creations, Current, MadeNothing
    <2>4. RefsHold'
      BY <1>1, <1>9, <2>1 DEF GiftsInv, RefsHold, RefOK
    <2>5. InstancesAre(inst)'
      BY <1>1, <1>5, <1>9, <2>1 DEF InstancesAre
    <2>6. Instances'
      BY <1>1, <1>9, <2>1, <2>5 DEF GiftsInv, Instances, Current
    <2> QED
      BY <1>3, <2>3, <2>4, <2>6 DEF GiftsInv
  <1> QED
    BY <1>1, <1>6, <1>7, <1>8, <1>9

\* Other pages change a gift or the cart.
LEMMA GiftsChangedElsewhere ==
  ASSUME GiftTypeOK, GiftsInv,
         NEW g \in DOMAIN gifts, archive(g) \/ \E f \in Formats : update(g, f)
  PROVE  GiftsInv'
  <1>1. /\ UNCHANGED << confirming, send, posts, cart, adding, visits, made >>
        /\ DOMAIN gifts' = DOMAIN gifts
        /\ \A i \in DOMAIN gifts :
             /\ gifts'[i].visit = gifts[i].visit /\ gifts'[i].first = gifts[i].first
             /\ \/ gifts'[i].version = gifts[i].version /\ gifts'[i].content = gifts[i].content
                \/ gifts'[i].version = gifts[i].version + 1
    BY GiftsElsewhere DEF GiftTypeOK
  <1>2. VisitsKnown' /\ OneGiftPerConfirmation' /\ OnceInCart' /\ AddingHolds'
    BY <1>1 DEF GiftsInv, VisitsKnown, OneGiftPerConfirmation, OnceInCart, AddingHolds
  <1>3. Creations'
    BY <1>1 DEF GiftsInv, Creations, Current, MadeNothing
  <1>4. RefsHold'
    BY <1>1 DEF GiftsInv, RefsHold, RefOK
  <1>5. Contents'
    <2>1. \A i \in DOMAIN gifts : gifts[i].version \in Nat
      <3>1. gifts \in Seq(Gifts)
        BY DEF GiftTypeOK, SendOK
      <3>2. \A i \in DOMAIN gifts : gifts[i] \in Gifts
        BY <3>1
      <3> QED
        BY <3>2 DEF Gifts
    <2>2. ASSUME NEW i \in DOMAIN gifts
          PROVE  gifts'[i].version >= 1 /\ (gifts'[i].version = 1 => gifts'[i].content = gifts'[i].first)
      <3>1. gifts[i].version >= 1 /\ (gifts[i].version = 1 => gifts[i].content = gifts[i].first)
        BY DEF GiftsInv, Contents
      <3> QED
        BY <1>1, <2>1, <3>1
    <2>3. \A i \in DOMAIN gifts : gifts[i].version >= 1
      BY DEF GiftsInv, Contents
    <2>4. \A i \in DOMAIN gifts : gifts'[i].version = 1 => gifts[i].version = 1
      BY <1>1, <2>1, <2>3
    <2> QED
      BY <1>1, <2>2, <2>4 DEF GiftsInv, Contents
  <1>6. PICK inst \in [DOMAIN gifts -> Nat \ {0}] : InstancesAre(inst)
    BY DEF GiftsInv, Instances
  <1>7. InstancesAre(inst)'
    BY <1>1, <1>6 DEF InstancesAre
  <1>8. Instances'
    BY <1>1, <1>6, <1>7 DEF GiftsInv, Instances, Current
  <1> QED
    BY <1>2, <1>3, <1>4, <1>5, <1>8 DEF GiftsInv

\* Other pages change the cart.
LEMMA CartChangedElsewhere ==
  ASSUME GiftTypeOK, GiftsInv,
         (\E r \in cart : updateQuantity(r) \/ remove(r)) \/ \E p \in Products : sold(p)
  PROVE  GiftsInv'
  <1>1. /\ UNCHANGED << confirming, send, posts, gifts, adding, visits, made >>
        /\ \/ cart' \subseteq cart
           \/ \E r \in cart, n \in 0 .. 3 : cart' = (cart \ {r}) \cup {[r EXCEPT !.quantity = n]}
    BY CartElsewhere DEF GiftTypeOK
  <1>2. \A q \in cart' : \E r \in cart : /\ q.gift = r.gift /\ q.version = r.version
                                       /\ q.layout = r.layout /\ q.content = r.content
                                       /\ q.instance = r.instance
    <2>1. ASSUME NEW r \in cart, NEW n \in 0 .. 3
          PROVE  LET q == [r EXCEPT !.quantity = n]
                 IN /\ q.gift = r.gift /\ q.version = r.version
                    /\ q.layout = r.layout /\ q.content = r.content
                    /\ q.instance = r.instance
      BY DEF GiftTypeOK, SendOK, Rows
    <2> QED
      BY ZenonT(60), <1>1, <2>1
  <1>3. OnceInCart'
    <2>1. CASE cart' \subseteq cart
      BY <2>1 DEF GiftsInv, OnceInCart
    <2>2. ASSUME NEW r \in cart, NEW n \in 0 .. 3, cart' = (cart \ {r}) \cup {[r EXCEPT !.quantity = n]}
          PROVE  OnceInCart'
      <3>1. [r EXCEPT !.quantity = n].gift = r.gift
        BY DEF GiftTypeOK, SendOK, Rows
      <3> QED
        BY <2>2, <3>1 DEF GiftsInv, OnceInCart
    <2> QED
      BY <1>1, <2>1, <2>2
  <1>4. VisitsKnown' /\ OneGiftPerConfirmation' /\ Creations' /\ RefsHold'
    BY <1>1 DEF GiftsInv, VisitsKnown, OneGiftPerConfirmation, Creations, RefsHold, RefOK, Current,
                MadeNothing
  <1>5. Contents' /\ AddingHolds'
    BY <1>1, <1>2 DEF GiftsInv, Contents, AddingHolds
  <1>6. PICK inst \in [DOMAIN gifts -> Nat \ {0}] : InstancesAre(inst)
    BY DEF GiftsInv, Instances
  <1>7. InstancesAre(inst)'
    BY <1>1, <1>2, <1>6 DEF InstancesAre
  <1>8. Instances'
    BY <1>1, <1>6, <1>7 DEF GiftsInv, Instances, Current
  <1> QED
    BY <1>3, <1>4, <1>5, <1>8 DEF GiftsInv

------------------------------------------------------------------------------
(* The theorems of the confirmation. *)

\* The network is there, or not.
LEMMA OnlineIsBoolean == ASSUME online \in BOOLEAN, [Next]_vars PROVE online' \in BOOLEAN
  <1>1. CASE LoadStep
    BY <1>1 DEF LoadStep, answer, fail, receive, answerValidation, answerQuote, failQuote, retryBoxes,
                retryProducts, retrySimple, retryQuote, Retry, goOffline, goOnline
  <1>2. CASE EditStep
    BY <1>2, EditIsEdited DEF Edited
  <1>3. CASE PageStep \/ ConfirmStep
    BY <1>3 DEF PageStep, ConfirmStep, chooseBox, chooseMode, goBack, leaveConfirmation, confirm,
                createMore, reopen
  <1>4. ASSUME NEW p \in posts, PostStep(p) \/ lose(p) PROVE UNCHANGED online
    BY <1>4 DEF PostStep, create, readGift, putGift, receiveCreated, receiveAdded, receiveRefusal, Answered, lose,
                browserIdle
  <1>5. CASE SendStep
    BY <1>4, <1>5 DEF SendStep, OtherStep, submit, archive, update, updateQuantity, remove, sold,
                      Elsewhere, browserIdle
  <1> QED
    BY <1>1, <1>2, <1>3, <1>5, NextIsStep DEF vars

\* At first there are no gifts.
LEMMA GiftStart == Init => GiftTypeOK /\ GiftsInv
  <1> SUFFICES ASSUME Init PROVE GiftTypeOK /\ GiftsInv
    OBVIOUS
  <1>1. GiftTypeOK
    <2>1. << >> \in Seq(Gifts)
      OBVIOUS
    <2>2. DraftOK
      BY NoDraftIsDraft, ConstructorAssumption DEF Init, DraftOK, Steps, Modes
    <2>3. SendOK
      BY NotSentIsSend, <2>1 DEF Init, SendOK
    <2> QED
      BY <2>2, <2>3 DEF Init, GiftTypeOK
  <1>2. send.gift = Nothing /\ send.busy = FALSE
    BY DEF Init, NotSent
  <1>3. DOMAIN gifts = {}
    BY DEF Init
  <1>4. VisitsKnown /\ Creations /\ OneGiftPerConfirmation
    BY <1>3 DEF Init, VisitsKnown, Creations, OneGiftPerConfirmation
  <1>5. RefsHold /\ Contents /\ AddingHolds /\ OnceInCart
    BY <1>2, <1>3 DEF Init, RefsHold, RefOK, Contents, AddingHolds, OnceInCart
  <1>6. Instances
    <2> DEFINE none == [i \in DOMAIN gifts |-> 1]
    <2>1. none \in [DOMAIN gifts -> Nat \ {0}]
      OBVIOUS
    <2>2. InstancesAre(none)
      BY <1>2 DEF Init, InstancesAre
    <2> QED
      BY <2>1, <2>2 DEF Init, Instances
  <1> QED
    BY <1>1, <1>4, <1>5, <1>6 DEF GiftsInv

\* Every step keeps the types ...
LEMMA TypesKept == ASSUME GiftTypeOK, GiftsInv, [Next]_vars PROVE GiftTypeOK'
  <1>1. online' \in BOOLEAN
    BY OnlineIsBoolean DEF GiftTypeOK
  <1> SUFFICES DraftOK' /\ SendOK'
    BY <1>1 DEF GiftTypeOK
  <1>2. DraftOK /\ SendOK
    BY DEF GiftTypeOK
  <1>3. CASE LoadStep
    <2>1. UNCHANGED << view, confirming, draft >>
      BY <1>3 DEF LoadStep, answer, fail, receive, answerValidation, answerQuote, failQuote, retryBoxes,
                  retryProducts, retrySimple, retryQuote, Retry, goOffline, goOnline
    <2> QED
      BY <1>2, <1>3, <2>1, DraftKept, BrowsingKeepsSend, SendKept
  <1>4. CASE PageStep
    BY <1>2, <1>4, PagesKeepDraft, BrowsingKeepsSend, SendKept DEF PageStep
  <1>5. CASE EditStep
    <2>1. SendOK'
      BY <1>2, <1>5, EditingKeepsSend, SendKept
    <2>2. DraftOK'
      BY <1>2, <1>5, ItemsEdited, ListsEdited, PagesKeepDraft DEF EditStep
    <2> QED
      BY <2>1, <2>2
  <1>6. CASE ConfirmStep
    BY <1>2, <1>6, PagesKeepDraft, ConfirmationOpens, ConfirmationCloses DEF ConfirmStep, Steps
  <1>7. CASE SendStep
    <2>1. UNCHANGED << view, confirming, draft >>
      <3>1. ASSUME NEW p \in posts, PostStep(p) \/ lose(p) PROVE UNCHANGED << view, confirming, draft >>
        BY <3>1 DEF PostStep, create, readGift, putGift, receiveCreated, receiveAdded, receiveRefusal, Answered,
                    lose, browserIdle
      <3> QED
        BY <1>7, <3>1 DEF SendStep, OtherStep, submit, archive, update, updateQuantity, remove, sold, Elsewhere, browserIdle
    <2>2. ASSUME NEW p \in posts, PostStep(p) \/ lose(p) PROVE SendOK'
      <3>1. ASSUME readGift(p) \/ putGift(p) PROVE p.gift # Nothing /\ p.gift[1].id \in DOMAIN gifts
        BY <3>1 DEF readGift, putGift, GiftsInv, AddingHolds, RefsHold, RefOK
      <3> QED
        BY <1>2, <2>2, <3>1, Created, GiftRead, GiftPut, AnswerHeard, PostLost DEF PostStep
    <2>3. SendOK'
      BY <1>2, <1>7, <2>2, Submitted, GiftsElsewhere, CartElsewhere DEF SendStep, OtherStep
    <2> QED
      BY <1>2, <2>1, <2>3, DraftKept
  <1>8. CASE UNCHANGED vars
    BY <1>2, <1>8, DraftKept, SendKept DEF vars, sendVars
  <1> QED
    BY <1>3, <1>4, <1>5, <1>6, <1>7, <1>8, NextIsStep

\* ... and the invariant.
LEMMA GiftStep == GiftTypeOK /\ GiftsInv /\ [Next]_vars => GiftTypeOK' /\ GiftsInv'
  <1> SUFFICES ASSUME GiftTypeOK, GiftsInv, [Next]_vars PROVE GiftsInv'
    BY TypesKept
  <1>1. CASE LoadStep \/ PageStep
    BY <1>1, BrowsingKeepsSend, GiftsKept
  <1>2. CASE EditStep
    BY <1>2, EditingKeepsSend, GiftsKept
  <1>3. CASE ConfirmStep
    BY <1>3, GiftsOpened, ConfirmationCloses, GiftsClosed DEF ConfirmStep, Steps, GiftTypeOK
  <1>4. ASSUME NEW p \in posts, PostStep(p) \/ lose(p) PROVE GiftsInv'
    BY <1>4, GiftsCreated, GiftsRead, GiftsPut, GiftsHeard, GiftsLost DEF PostStep
  <1>5. CASE OtherStep
    BY <1>5, GiftsChangedElsewhere, CartChangedElsewhere DEF OtherStep
  <1>6. CASE SendStep
    BY <1>4, <1>5, <1>6, GiftsSubmitted DEF SendStep
  <1>7. CASE UNCHANGED vars
    BY <1>7, GiftsKept DEF vars, sendVars
  <1> QED
    BY <1>1, <1>2, <1>3, <1>6, <1>7, NextIsStep

\* So both always hold.
LEMMA GiftInvariant == GiftSpec => [](GiftTypeOK /\ GiftsInv)
  BY GiftStart, GiftStep, PTL DEF GiftSpec

\* Drafts, confirmations, calls, gifts and rows are what the code takes them for (the types of
\* the constructor and of its API), for every box, format and number of steps.
THEOREM GiftTypes == GiftSpec => []GiftTypeOK
  BY GiftInvariant, PTL

\* However often a confirmation is sent, and whichever requests and answers are lost, it makes
\* one gift (GiftConfirmation: an answer that did not come is not taken for a refusal).
THEOREM OneGift == GiftSpec => []OneGiftPerConfirmation
  BY GiftInvariant, PTL DEF GiftsInv

\* ... and the gift lies in the cart once: every addition of it repeats its instance id.
THEOREM OneRow == GiftSpec => []OnceInCart
  BY GiftInvariant, PTL DEF GiftsInv

\* What the cart shows of a gift is what its customer has confirmed, whatever other pages have
\* made of the gift in between (the version of the gift is compared when it is added), and
\* until they change it the goods in the cart are those confirmed.  When a page changes the
\* gift between the two reads of GiftCartService, the goods are not: the theorem does not
\* say so, and a run shows it.
THEOREM CartShowsTheConfirmed == GiftSpec => []CartShowsWhatWasConfirmed
  <1>1. GiftsInv => CartShowsWhatWasConfirmed
    BY DEF GiftsInv, Contents, CartShowsWhatWasConfirmed
  <1> QED
    BY <1>1, GiftInvariant, PTL

------------------------------------------------------------------------------
(* What was loaded. *)

\* What the server lays for a selection.
Lay(key) == Layouts[key[1]][key[2] \o key[3]]

\* A quote of a simple draft is the quote of its key, with a layout.
QuoteIsOfKey(r) ==
  r.data # Nothing => r.data = << [of |-> r.key, layout |-> Lay(r.key)] >> /\ Lay(r.key) # NoLayout

\* The goods shown are those of the box they were asked for.
GoodsAreOfKey(r) == r.data # Nothing => \E shelf : r.data = << [of |-> r.key, shelf |-> shelf] >>

\* The total of a confirmation is of its draft.
TotalIsOfDraft(q, cs) ==
  /\ q.data # Nothing => q.data = << Draft >>
  /\ \A c \in cs : c.of = "quote" => "for" \in DOMAIN c /\ c.for = << Draft >>

\* What is kept of the answers belongs to what it was asked for.
LoadsInv ==
  /\ QuoteIsOfKey(simple) /\ GoodsAreOfKey(products)
  /\ confirming # 0 => TotalIsOfDraft(quote, calls)

\* What a resource takes up is of its key.
LEMMA LoadedIsOfKey ==
  ASSUME NEW r, NEW again, NEW now
  PROVE  /\ QuoteIsOfKey(r) => QuoteIsOfKey(Loaded(r, again, now))
         /\ GoodsAreOfKey(r) => GoodsAreOfKey(Loaded(r, again, now))
  <1>1. CASE Runs(again, now)
    <2> DEFINE l == [key |-> now.key, data |-> Kept(r, now.key), loading |-> TRUE, failed |-> FALSE]
    <2>1. Loaded(r, again, now) = l
      BY <1>1 DEF Loaded
    <2>2. l.key = now.key /\ (l.data # Nothing => l.data = r.data /\ r.key = now.key)
      BY DEF Kept
    <2> HIDE DEF l
    <2> QED
      BY <2>1, <2>2 DEF QuoteIsOfKey, GoodsAreOfKey
  <1>2. CASE ~Runs(again, now)
    BY <1>2 DEF Loaded
  <1> QED
    BY <1>1, <1>2

\* An answer is kept with the key of its call.
LEMMA SettledIsOfKey ==
  ASSUME NEW r, NEW c, NEW data, data = Nothing \/ data = Served(c)
  PROVE  /\ c.of = "simple" /\ QuoteIsOfKey(r) => QuoteIsOfKey(Settled(r, c, data))
         /\ c.of = "products" /\ GoodsAreOfKey(r) => GoodsAreOfKey(Settled(r, c, data))
  <1> DEFINE full == [key |-> c.for, data |-> data, loading |-> FALSE, failed |-> FALSE]
             bare == [key |-> c.for, data |-> Kept(r, c.for), loading |-> FALSE, failed |-> TRUE]
  <1>1. CASE data = Nothing
    <2>1. Settled(r, c, data) = bare
      BY <1>1 DEF Settled
    <2>2. bare.key = c.for /\ (bare.data # Nothing => bare.data = r.data /\ r.key = c.for)
      BY DEF Kept
    <2> HIDE DEF bare
    <2> QED
      BY <2>1, <2>2 DEF QuoteIsOfKey, GoodsAreOfKey
  <1>2. CASE data # Nothing
    <2>1. Settled(r, c, data) = full /\ full.key = c.for /\ full.data = data /\ data = Served(c)
      BY <1>2 DEF Settled
    <2>2. ASSUME c.of = "simple"
          PROVE  data = << [of |-> c.for, layout |-> Lay(c.for)] >> /\ Lay(c.for) # NoLayout
      <3> DEFINE formats == c.for[2] \o c.for[3]
                 layout == Layouts[c.for[1]][formats]
                 good == layout # NoLayout /\ InStock([NoDraft EXCEPT !.teas = formats])
                         /\ Verified(c.for[1], formats, layout)
      <3>1. Served(c) = IF good THEN << [of |-> c.for, layout |-> layout] >> ELSE Nothing
        BY SMTT(30), <2>2 DEF Served
      <3>2. good
        BY <1>2, <2>1, <3>1
      <3> QED
        BY <2>1, <3>1, <3>2 DEF Lay
    <2>3. ASSUME c.of = "products" PROVE data = << [of |-> c.for, shelf |-> stock] >>
      BY <2>1, <2>3 DEF Served
    <2> HIDE DEF full
    <2> QED
      BY <2>1, <2>2, <2>3 DEF QuoteIsOfKey, GoodsAreOfKey
  <1> QED
    BY <1>1, <1>2

\* A resource with nothing is of any key.
LEMMA NoResourceIsOfKey == QuoteIsOfKey(NoResource) /\ GoodsAreOfKey(NoResource)
  BY DEF QuoteIsOfKey, GoodsAreOfKey, NoResource

\* The effects keep what a step leaves, and start the quote of a new confirmation.
LEMMA EffectsKeep ==
  ASSUME NEW b, NEW p, NEW s, NEW q, NEW cs, NEW retried, Effects(b, p, s, q, cs, retried),
         QuoteIsOfKey(s), GoodsAreOfKey(p),
         confirming' # 0 /\ confirming' = confirming => TotalIsOfDraft(q, cs) /\ Draft' = Draft
  PROVE  LoadsInv'
  <1> DEFINE boxesAgain == BoxesDeps # BoxesDeps' \/ retried = "boxes"
             productsAgain == ProductsDeps # ProductsDeps' \/ retried = "products"
             simpleAgain == SimpleDeps # SimpleDeps' \/ retried = "simple"
             quoteAgain == QuoteDeps # QuoteDeps' \/ retried = "quote"
             one == Recalled(cs, "boxes", boxesAgain, BoxesDeps', << "boxes" >>)
             two == Recalled(one, "products", productsAgain, ProductsDeps', << view'.box >>)
             three == Recalled(two, "simple", simpleAgain, SimpleDeps', SimpleKey')
  <1>1. /\ products' = Loaded(p, productsAgain, ProductsDeps')
        /\ simple' = Loaded(s, simpleAgain, SimpleDeps')
        /\ quote' = Quoted(q, quoteAgain, QuoteDeps')
        /\ calls' = Recalled(three, "quote", quoteAgain, QuoteDeps', << Draft' >>)
    BY DEF Effects
  <1>2. (QuoteIsOfKey(simple) /\ GoodsAreOfKey(products))'
    <2>1. QuoteIsOfKey(Loaded(s, simpleAgain, SimpleDeps')) /\ GoodsAreOfKey(Loaded(p, productsAgain, ProductsDeps'))
      BY LoadedIsOfKey
    <2> QED
      BY <1>1, <2>1 DEF QuoteIsOfKey, GoodsAreOfKey
  <1>3. ASSUME NEW c \in three, c.of = "quote" PROVE c \in cs
    BY <1>3 DEF Recalled, Surviving, Call
  <1>4. ASSUME confirming' # 0 PROVE TotalIsOfDraft(quote, calls)'
    <2>1. CASE quoteAgain
      <3>1. quote'.data = Nothing
        BY <1>1, <2>1 DEF Quoted
      <3>2. ASSUME NEW c \in calls', c.of = "quote" PROVE "for" \in DOMAIN c /\ c.for = << Draft' >>
        BY <1>1, <2>1, <3>2 DEF Recalled, Surviving, Call
      <3> QED
        BY <3>1, <3>2 DEF TotalIsOfDraft
    <2>2. CASE ~quoteAgain
      <3>1. confirming' = confirming
        <4>1. QuoteDeps.key = << confirming >> /\ QuoteDeps'.key = << confirming' >>
          BY DEF QuoteDeps, Deps
        <4> QED
          BY <2>2, <4>1
      <3>2. quote' = q
        BY <1>1, <2>2 DEF Quoted, Runs
      <3>3. calls' = three
        BY <1>1, <2>2 DEF Recalled
      <3>4. TotalIsOfDraft(q, cs) /\ Draft' = Draft
        BY <1>4, <3>1
      <3> HIDE DEF three
      <3> QED
        BY <1>3, <3>2, <3>3, <3>4 DEF TotalIsOfDraft
    <2> QED
      BY <2>1, <2>2
  <1> QED
    BY <1>2, <1>4 DEF LoadsInv

\* What the browser has loaded stays as it is while nothing runs in it.
LEMMA LoadsKept ==
  ASSUME LoadsInv, UNCHANGED << view, draft, confirming, products, simple, quote, calls >>
  PROVE  LoadsInv'
  BY DEF LoadsInv, QuoteIsOfKey, GoodsAreOfKey, TotalIsOfDraft, Draft

\* Every step but a return to the page ends with the effects.
LEMMA LoadsStart == Init => LoadsInv
  BY NoResourceIsOfKey DEF Init, LoadsInv

\* Answers come.
LEMMA AnswersKeepLoads ==
  ASSUME LoadsInv, NEW c \in calls,
         answer(c) \/ fail(c) \/ answerValidation(c) \/ answerQuote(c) \/ failQuote(c)
  PROVE  LoadsInv'
  <1>1. UNCHANGED << view, confirming, draft >> /\ Draft' = Draft
    BY DEF answer, fail, receive, answerValidation, answerQuote, failQuote, Draft
  <1>2. ASSUME NEW data, receive(c, data), data = Nothing \/ data = Served(c) PROVE LoadsInv'
    <2> DEFINE p == IF c.of = "products" THEN Settled(products, c, data) ELSE products
               s == IF c.of = "simple" THEN Settled(simple, c, data) ELSE simple
    <2>1. \E b : Effects(b, p, s, quote, calls \ {c}, "none")
      BY <1>2 DEF receive
    <2>2. QuoteIsOfKey(s) /\ GoodsAreOfKey(p)
      BY <1>2, SettledIsOfKey DEF LoadsInv
    <2>3. confirming' # 0 => TotalIsOfDraft(quote, calls \ {c})
      BY <1>1 DEF LoadsInv, TotalIsOfDraft
    <2> HIDE DEF p, s
    <2> QED
      BY <1>1, <2>1, <2>2, <2>3, EffectsKeep
  <1>3. CASE answer(c) \/ fail(c)
    BY <1>2, <1>3 DEF answer, fail
  <1>4. ASSUME NEW ok \in BOOLEAN, NEW more, more = {} \/ more = {[c EXCEPT !.stage = "second"]},
               NEW q, q = quote \/ q = QuoteAfter(c, ok), c.of = "quote",
               Effects(boxes, products, simple, q, (calls \ {c}) \cup more, "none")
        PROVE  LoadsInv'
    <2>1. ASSUME confirming' # 0 PROVE TotalIsOfDraft(q, (calls \ {c}) \cup more)
      <3>1. TotalIsOfDraft(quote, calls) /\ c.for = << Draft >> /\ "for" \in DOMAIN c
        BY <1>1, <1>4, <2>1 DEF LoadsInv, TotalIsOfDraft
      <3>2. q.data # Nothing => q.data = << Draft >>
        BY <1>4, <3>1 DEF TotalIsOfDraft, QuoteAfter
      <3>3. ASSUME NEW d \in (calls \ {c}) \cup more, d.of = "quote"
            PROVE  "for" \in DOMAIN d /\ d.for = << Draft >>
        <4> DEFINE again == [c EXCEPT !.stage = "second"]
        <4>1. "for" \in DOMAIN again /\ again.for = c.for
          BY <3>1
        <4> HIDE DEF again
        <4> QED
          BY <1>4, <3>1, <3>3, <4>1 DEF TotalIsOfDraft, again
      <3> QED
        BY <3>2, <3>3 DEF TotalIsOfDraft
    <2> QED
      BY <1>1, <1>4, <2>1, EffectsKeep DEF LoadsInv
  <1>5. CASE answerValidation(c)
    <2>1. Prepared(c.for[1]) \in BOOLEAN
      BY DEF Prepared, validate
    <2> QED
      BY <1>4, <1>5, <2>1 DEF answerValidation
  <1>6. CASE answerQuote(c) \/ failQuote(c)
    <2>1. (Prepared(c.for[1]) /\ InStock(c.for[1])) \in BOOLEAN
      OBVIOUS
    <2>2. calls \ {c} = (calls \ {c}) \cup {}
      OBVIOUS
    <2> QED
      BY <1>4, <1>6, <2>1, <2>2 DEF answerQuote, failQuote
  <1> QED
    BY <1>3, <1>5, <1>6

\* What is not an answer leaves the resources to the effects.
LEMMA BrowsingKeepsLoads ==
  ASSUME DraftOK, LoadsInv, LoadStep \/ PageStep
  PROVE  LoadsInv'
  <1>1. ASSUME NEW retried, NEW s, s = simple \/ s = NoResource,
               Effects(boxes, products, s, quote, calls, retried),
               confirming' # 0 /\ confirming' = confirming => UNCHANGED << view, draft >>
        PROVE  LoadsInv'
    <2>1. UNCHANGED << view, draft >> => Draft' = Draft
      BY DEF Draft
    <2>2. QuoteIsOfKey(s)
      BY <1>1, NoResourceIsOfKey DEF LoadsInv
    <2> QED
      BY <1>1, <2>1, <2>2, EffectsKeep DEF LoadsInv
  <1>2. CASE retryBoxes \/ retryProducts \/ retrySimple \/ retryQuote \/ goOffline \/ goOnline
    BY <1>1, <1>2 DEF retryBoxes, retryProducts, retrySimple, retryQuote, goOffline, goOnline, Retry, Rerun
  <1>3. CASE LoadStep
    BY <1>2, <1>3, AnswersKeepLoads DEF LoadStep
  <1>4. ASSUME NEW b \in Boxes, chooseBox(b) PROVE LoadsInv'
    <2>1. view.step = "box" /\ confirming' = confirming
      BY <1>4 DEF chooseBox
    <2>2. confirming' = 0
      BY <2>1 DEF DraftOK
    <2>3. \E s : (s = simple \/ s = NoResource) /\ Effects(boxes, products, s, quote, calls, "none")
      BY <1>4 DEF chooseBox
    <2> QED
      BY <1>1, <2>2, <2>3
  <1>5. ASSUME NEW m \in {"simple", "advanced"}, chooseMode(m) PROVE LoadsInv'
    <2>1. view.step = "mode" /\ confirming' = confirming /\ Rerun
      BY <1>5 DEF chooseMode
    <2>2. confirming' = 0
      BY <2>1 DEF DraftOK
    <2> QED
      BY <1>1, <2>1, <2>2 DEF Rerun
  <1>6. ASSUME NEW s \in {"box", "mode"}, goBack(s) PROVE LoadsInv'
    BY <1>1, <1>6 DEF goBack, Rerun
  <1> QED
    BY <1>3, <1>4, <1>5, <1>6 DEF PageStep

\* The draft is edited only while no confirmation is open.
LEMMA EditsKeepLoads == ASSUME LoadsInv, NEW d, Edited(d) PROVE LoadsInv'
  <1>1. confirming' = 0 /\ Rerun
    BY DEF Edited, Edit
  <1> QED
    BY <1>1, EffectsKeep DEF Rerun, LoadsInv

\* The confirmation is opened and closed.
LEMMA ConfirmationKeepsLoads ==
  ASSUME SendOK, LoadsInv, ConfirmStep
  PROVE  LoadsInv'
  <1>1. ASSUME reopen PROVE LoadsInv'
    <2>1. confirming' = 0 /\ simple' = NoResource /\ products' = NoResource
      BY <1>1 DEF reopen
    <2> QED
      BY <2>1, NoResourceIsOfKey DEF LoadsInv, QuoteIsOfKey, GoodsAreOfKey
  <1>2. ASSUME confirm PROVE LoadsInv'
    <2>1. confirming' # confirming /\ Rerun
      BY <1>2 DEF confirm, SendOK
    <2> QED
      BY <2>1, EffectsKeep DEF Rerun, LoadsInv
  <1>3. ASSUME createMore \/ \E s \in {"box", "mode", "editor"} : leaveConfirmation(s) PROVE LoadsInv'
    <2>1. confirming' = 0 /\ Rerun
      BY <1>3 DEF createMore, leaveConfirmation
    <2> QED
      BY <2>1, EffectsKeep DEF Rerun, LoadsInv
  <1> QED
    BY <1>1, <1>2, <1>3 DEF ConfirmStep

\* Posts go and come.
LEMMA SendingKeepsLoads == ASSUME LoadsInv, SendStep PROVE LoadsInv'
  <1>1. ASSUME UNCHANGED << view, draft, confirming >>, Rerun PROVE LoadsInv'
    <2>1. Draft' = Draft
      BY <1>1 DEF Draft
    <2> QED
      BY <1>1, <2>1, EffectsKeep DEF Rerun, LoadsInv
  <1>2. ASSUME browserIdle PROVE LoadsInv'
    BY SMTT(30), <1>2, LoadsKept DEF browserIdle
  <1>3. ASSUME NEW p \in posts, PostStep(p) \/ lose(p) PROVE LoadsInv'
    BY <1>1, <1>2, <1>3 DEF PostStep, create, readGift, putGift, receiveCreated, receiveAdded, receiveRefusal,
                            Answered, lose
  <1>4. CASE submit
    BY <1>1, <1>4 DEF submit
  <1>5. CASE OtherStep
    BY <1>2, <1>5 DEF OtherStep, archive, update, updateQuantity, remove, sold, Elsewhere
  <1> QED
    BY <1>3, <1>4, <1>5 DEF SendStep

\* Every step keeps what is loaded of its key.
LEMMA LoadsStep == DraftOK /\ SendOK /\ LoadsInv /\ [Next]_vars => LoadsInv'
  <1> SUFFICES ASSUME DraftOK, SendOK, LoadsInv, [Next]_vars PROVE LoadsInv'
    OBVIOUS
  <1>1. CASE EditStep
    <2>1. \E d : Edited(d)
      BY <1>1, EditIsEdited DEF EditStep
    <2> QED
      BY <2>1, EditsKeepLoads
  <1>2. CASE UNCHANGED vars
    BY <1>2, LoadsKept DEF vars
  <1> QED
    BY <1>1, <1>2, NextIsStep, BrowsingKeepsLoads, ConfirmationKeepsLoads, SendingKeepsLoads

------------------------------------------------------------------------------
(* Sums over finite sets: Total takes the elements in an order of its own. *)

\* The element of a set that is taken first.
Taken(s) == CHOOSE x \in s : TRUE

\* g[s] is the sum of f over s, for every subset s of S.
IsSum(g, f, S) ==
  g = [s \in SUBSET S |-> IF s = {} THEN 0 ELSE f[Taken(s)] + g[s \ {Taken(s)}]]

\* The element that is taken is one of the set.
LEMMA TakenIn == ASSUME NEW s, s # {} PROVE Taken(s) \in s
  BY DEF Taken

\* Among some subsets of a finite set there is one that contains no other.
LEMMA SmallestSet ==
  ASSUME NEW S, IsFiniteSet(S), NEW T \in SUBSET SUBSET S, T # {}
  PROVE  \E s \in T : \A t \in T : t \subseteq s => t = s
  <1> DEFINE R == StrictSubsetOrdering(S)
             U == SUBSET S
  <1>1. IsWellFoundedOn(R, U)
    BY FS_StrictSubsetOrderingWellFounded, FS_FiniteSubsetsOfFinite
  <1> HIDE DEF R, U
  <1>2. PICK s \in T : \A t \in T : ~ (<< t, s >> \in R)
    BY <1>1, WFMin DEF U
  <1>3. ASSUME NEW t \in T, t \subseteq s PROVE t = s
    BY <1>2, <1>3 DEF R, StrictSubsetOrdering
  <1> QED
    BY <1>3

\* Two sums would differ on a smallest set first.
LEMMA SumUnique ==
  ASSUME NEW S, IsFiniteSet(S), NEW f, NEW g, NEW h, IsSum(g, f, S), IsSum(h, f, S)
  PROVE  g = h
  <1> DEFINE D == {s \in SUBSET S : g[s] # h[s]}
  <1>1. D = {}
    <2> SUFFICES ASSUME D # {} PROVE FALSE
      OBVIOUS
    <2>1. PICK s \in D : \A t \in D : t \subseteq s => t = s
      <3>1. D \in SUBSET SUBSET S
        OBVIOUS
      <3> HIDE DEF D
      <3> QED
        BY <3>1, SmallestSet
    <2>2. s # {}
      BY <2>1 DEF IsSum
    <2>3. Taken(s) \in s /\ s \in SUBSET S
      BY <2>1, <2>2, TakenIn
    <2>4. s \ {Taken(s)} \notin D
      BY <2>1, <2>3
    <2>5. g[s \ {Taken(s)}] = h[s \ {Taken(s)}]
      BY <2>3, <2>4
    <2>6. g[s] = f[Taken(s)] + g[s \ {Taken(s)}] /\ h[s] = f[Taken(s)] + h[s \ {Taken(s)}]
      BY <2>2, <2>3 DEF IsSum
    <2> QED
      BY <2>1, <2>5, <2>6
  <1>2. g = [s \in SUBSET S |-> g[s]] /\ h = [s \in SUBSET S |-> h[s]]
    BY DEF IsSum
  <1> QED
    BY <1>1, <1>2

\* A sum over a set gives the sums over its subsets.
LEMMA SumRestricts ==
  ASSUME NEW S, NEW f, NEW g, IsSum(g, f, S), NEW T \in SUBSET S
  PROVE  IsSum([s \in SUBSET T |-> g[s]], f, T)
  <1> DEFINE h == [s \in SUBSET T |-> g[s]]
  <1>1. ASSUME NEW s \in SUBSET T
        PROVE  h[s] = IF s = {} THEN 0 ELSE f[Taken(s)] + h[s \ {Taken(s)}]
    <2>1. s \in SUBSET S /\ s \ {Taken(s)} \in SUBSET T
      OBVIOUS
    <2>2. g[s] = IF s = {} THEN 0 ELSE f[Taken(s)] + g[s \ {Taken(s)}]
      BY <2>1 DEF IsSum
    <2> QED
      BY <2>1, <2>2
  <1>2. h = [s \in SUBSET T |-> IF s = {} THEN 0 ELSE f[Taken(s)] + h[s \ {Taken(s)}]]
    BY <1>1
  <1> QED
    BY <1>2 DEF IsSum

\* On a smallest set without a sum, one is put together from those of its parts.
LEMMA SumExists ==
  ASSUME NEW S, IsFiniteSet(S), NEW f
  PROVE  \E g : IsSum(g, f, S)
  <1> DEFINE Bad == {T \in SUBSET S : ~ \E g : IsSum(g, f, T)}
  <1> SUFFICES ASSUME Bad # {} PROVE FALSE
    OBVIOUS
  <1>1. PICK T \in Bad : \A t \in Bad : t \subseteq T => t = T
    <2>1. Bad \in SUBSET SUBSET S
      OBVIOUS
    <2> HIDE DEF Bad
    <2> QED
      BY <2>1, SmallestSet
  <1> DEFINE sum(s) == CHOOSE g : IsSum(g, f, s)
             value(s) == IF s = {} THEN 0 ELSE f[Taken(s)] + sum(s \ {Taken(s)})[s \ {Taken(s)}]
             all == [s \in SUBSET T |-> value(s)]
  <1>2. \A s \in SUBSET T : s # T => IsSum(sum(s), f, s)
    BY <1>1
  <1>3. ASSUME NEW s \in SUBSET T, s # T PROVE value(s) = sum(s)[s]
    <2>1. PICK g : g = sum(s)
      OBVIOUS
    <2>2. IsSum(g, f, s)
      BY <1>2, <1>3, <2>1
    <2>3. g[s] = IF s = {} THEN 0 ELSE f[Taken(s)] + g[s \ {Taken(s)}]
      BY <2>2 DEF IsSum
    <2>4. CASE s = {}
      BY <2>1, <2>3, <2>4
    <2>5. CASE s # {}
      <3>1. PICK r : r = s \ {Taken(s)}
        OBVIOUS
      <3>2. Taken(s) \in s /\ r \in SUBSET T /\ r # T /\ r \in SUBSET s
        BY <1>3, <2>5, <3>1, TakenIn
      <3>3. PICK h : h = sum(r)
        OBVIOUS
      <3>4. IsSum(h, f, r) /\ IsFiniteSet(r)
        BY <1>1, <1>2, <3>2, <3>3, FS_Subset
      <3>5. IsSum([t \in SUBSET r |-> g[t]], f, r)
        BY ZenonT(60), <2>2, <3>2, SumRestricts
      <3>7. [t \in SUBSET r |-> g[t]] = h
        BY <3>4, <3>5, SumUnique
      <3>6. g[r] = h[r]
        BY <3>7
      <3> QED
        BY <2>1, <2>3, <2>5, <3>1, <3>3, <3>6
    <2> QED
      BY <2>4, <2>5
  <1>4. ASSUME NEW s \in SUBSET T
        PROVE  all[s] = IF s = {} THEN 0 ELSE f[Taken(s)] + all[s \ {Taken(s)}]
    <2>1. CASE s # {}
      <3>1. PICK r : r = s \ {Taken(s)}
        OBVIOUS
      <3>2. r \in SUBSET T /\ r # T
        BY <2>1, <3>1, TakenIn
      <3>3. all[s] = f[Taken(s)] + sum(r)[r]
        BY <2>1, <3>1
      <3>4. all[r] = sum(r)[r]
        BY <1>3, <3>2
      <3> QED
        BY <2>1, <3>1, <3>3, <3>4
    <2> QED
      BY <2>1
  <1>5. IsSum(all, f, T)
    <2> HIDE DEF value
    <2>1. all = [s \in SUBSET T |-> all[s]]
      OBVIOUS
    <2> QED
      BY <1>4, <2>1 DEF IsSum
  <1> QED
    BY <1>1, <1>5

\* Weights sum up to a number.
LEMMA SumIsNat ==
  ASSUME NEW S, IsFiniteSet(S), NEW f, \A x \in S : f[x] \in Nat, NEW g, IsSum(g, f, S)
  PROVE  \A T \in SUBSET S : g[T] \in Nat
  <1> DEFINE Bad == {T \in SUBSET S : g[T] \notin Nat}
  <1> SUFFICES ASSUME Bad # {} PROVE FALSE
    OBVIOUS
  <1>1. PICK T \in Bad : \A t \in Bad : t \subseteq T => t = T
    <2>1. Bad \in SUBSET SUBSET S
      OBVIOUS
    <2> HIDE DEF Bad
    <2> QED
      BY <2>1, SmallestSet
  <1>2. g[T] = IF T = {} THEN 0 ELSE f[Taken(T)] + g[T \ {Taken(T)}]
    BY <1>1 DEF IsSum
  <1>3. T # {}
    BY <1>1, <1>2
  <1>4. Taken(T) \in T
    BY <1>3, TakenIn
  <1>5. g[T \ {Taken(T)}] \in Nat /\ f[Taken(T)] \in Nat
    BY <1>1, <1>4
  <1> QED
    BY <1>1, <1>2, <1>3, <1>5

\* v is the sum of f over S.
SumsTo(v, f, S) == \E g : IsSum(g, f, S) /\ v = g[S]

\* The weight of a layout is the sum of its items.
LEMMA LayoutWeighs ==
  ASSUME NEW items \in FinitePlaces
  PROVE  SumsTo(WeightOf(items), [p \in items |-> Weight[p.format]], items)
  <1> DEFINE f == [p \in items |-> Weight[p.format]]
             A(s) == s = [T \in SUBSET items |->
                            IF T = {} THEN 0
                            ELSE LET t == CHOOSE t \in T : TRUE IN Weight[t.format] + s[T \ {t}]]
             g == CHOOSE s : A(s)
  <1>1. WeightOf(items) = g[items]
    BY DEF WeightOf, Total
  <1>2. IsFiniteSet(items)
    BY DEF FinitePlaces
  <1>3. ASSUME NEW s PROVE A(s) <=> IsSum(s, f, items)
    <2>1. \A T \in SUBSET items : T # {} => f[Taken(T)] = Weight[Taken(T).format]
      BY TakenIn
    <2> HIDE DEF f
    <2> QED
      BY <2>1 DEF IsSum, Taken
  <1>4. \E s : A(s)
    <2>1. \E s : IsSum(s, f, items)
      <3> HIDE DEF f
      <3> QED
        BY <1>2, SumExists
    <2> HIDE DEF A, f
    <2> QED
      BY <1>3, <2>1
  <1>5. A(g)
    <2> HIDE DEF A
    <2> QED
      BY <1>4
  <1>6. IsSum(g, f, items)
    BY <1>3, <1>5
  <1> HIDE DEF f, g
  <1>7. SumsTo(WeightOf(items), f, items)
    BY <1>1, <1>6 DEF SumsTo
  <1> QED
    BY <1>7 DEF f

\* ... and a number.
LEMMA WeightIsNat == ASSUME NEW items \in FinitePlaces PROVE WeightOf(items) \in Nat
  <1> DEFINE f == [p \in items |-> Weight[p.format]]
  <1>1. PICK g : IsSum(g, f, items) /\ WeightOf(items) = g[items]
    BY LayoutWeighs DEF SumsTo
  <1>2. IsFiniteSet(items) /\ \A p \in items : f[p] \in Nat
    BY LayoutAssumption DEF FinitePlaces, Places
  <1> HIDE DEF f
  <1> QED
    BY <1>1, <1>2, SumIsNat

------------------------------------------------------------------------------
(* The theorems of what is shown. *)

\* What is loaded is always of its key.
LEMMA LoadsInvariant == GiftSpec => []LoadsInv
  <1>1. GiftTypeOK => DraftOK /\ SendOK
    BY DEF GiftTypeOK
  <1> QED
    BY <1>1, GiftInvariant, LoadsStart, LoadsStep, PTL DEF GiftSpec

\* An advanced draft that may be confirmed is one the server takes, but for its weight.
LEMMA AdvancedIsAccepted ==
  ASSUME DraftOK, view.mode = "advanced", Ready
  PROVE  validate(view.box, draft.items) \/ WeightOf(draft.items) > MaxWeight[view.box]
  <1>1. view.box \in Boxes /\ draft.items \in FinitePlaces
    BY DEF DraftOK, Drafts
  <1>2. draft.items # {} /\ NoLayoutError(view.box, draft.items)
    BY DEF Ready
  <1>3. WeightOf(draft.items) \in Nat /\ MaxWeight[view.box] \in Nat
    BY <1>1, WeightIsNat, LayoutAssumption
  <1>4. draft.items \in SUBSET Places
    BY <1>1 DEF FinitePlaces
  <1>5. CASE WeightOf(draft.items) <= MaxWeight[view.box]
    BY <1>1, <1>2, <1>4, <1>5, GeometriesAgree
  <1>6. CASE ~ (WeightOf(draft.items) <= MaxWeight[view.box])
    BY <1>3, <1>6
  <1> QED
    BY <1>5, <1>6

\* A simple draft that may be confirmed is one the server takes, and it is shown as the server
\* lays it.
LEMMA SimpleIsAccepted ==
  ASSUME DraftOK, LoadsInv, view.mode = "simple", Ready
  PROVE  /\ Prepared(Draft)
         /\ \E q \in ToSet(Approved) : q.layout = Layouts[view.box][draft.teas \o draft.sweets]
  <1>1. Approved # Nothing
    BY DEF Ready
  <1>2. SimpleOn /\ Approved = simple.data /\ simple.key = SimpleKey
    BY <1>1 DEF Approved, Shown
  <1>3. PICK q : q = [of |-> SimpleKey, layout |-> Lay(SimpleKey)]
    OBVIOUS
  <1>4. Approved = << q >> /\ Lay(SimpleKey) # NoLayout
    BY <1>1, <1>2, <1>3 DEF LoadsInv, QuoteIsOfKey
  <1>5. Lay(SimpleKey) = Layouts[view.box][draft.teas \o draft.sweets]
    BY DEF Lay, SimpleKey
  <1>6. ToSet(Approved) = {q}
    BY <1>4 DEF ToSet
  <1>7. Prepared(Draft)
    BY <1>2, <1>4, <1>5 DEF DraftOK, Prepared, Draft, SimpleOn
  <1>8. q.layout = Lay(SimpleKey)
    BY <1>3
  <1> QED
    BY <1>5, <1>6, <1>7, <1>8

\* A draft that the constructor lets a customer confirm (GiftConfirmation is opened) is one the
\* server takes, but for the weight of an advanced one; a simple one is shown as the server
\* will lay it.
THEOREM ConfirmedIsAccepted == GiftSpec => []ReadyIsAccepted
  <1>1. GiftTypeOK /\ LoadsInv => ReadyIsAccepted
    BY AdvancedIsAccepted, SimpleIsAccepted DEF ReadyIsAccepted, GiftTypeOK
  <1> QED
    BY <1>1, GiftInvariant, LoadsInvariant, PTL

\* What is shown was loaded for what is chosen (useConstructorResource keeps an answer with its
\* key, and the confirmation throws its total away when it is opened anew).
THEOREM ShownWasAsked == GiftSpec => []ShownIsAsked
  <1>1. ASSUME LoadsInv
        PROVE  ShownIsAsked
    <2>1. ASSUME NEW d \in ToSet(ProductsShown) PROVE d.of = << view.box >>
      <3>1. ProductsShown # Nothing
        BY <2>1 DEF ToSet, Nothing
      <3>2. ProductsShown = products.data /\ products.key = << view.box >>
        BY <3>1 DEF ProductsShown, Shown
      <3>3. PICK shelf : products.data = << [of |-> << view.box >>, shelf |-> shelf] >>
        BY <1>1, <3>1, <3>2 DEF LoadsInv, GoodsAreOfKey
      <3> QED
        BY <2>1, <3>2, <3>3 DEF ToSet
    <2>2. ASSUME NEW q \in ToSet(Approved) PROVE q.of = SimpleKey
      <3>1. Approved # Nothing
        BY <2>2 DEF ToSet, Nothing
      <3>2. Approved = simple.data /\ simple.key = SimpleKey
        BY <3>1 DEF Approved, Shown
      <3>3. Approved = << [of |-> SimpleKey, layout |-> Lay(SimpleKey)] >>
        BY <1>1, <3>1, <3>2 DEF LoadsInv, QuoteIsOfKey
      <3> QED
        BY <2>2, <3>3 DEF ToSet
    <2>3. confirming # 0 /\ quote.data # Nothing => quote.data = << Draft >>
      BY <1>1 DEF LoadsInv, TotalIsOfDraft
    <2> QED
      BY <2>1, <2>2, <2>3 DEF ShownIsAsked
  <1> QED
    BY <1>1, LoadsInvariant, PTL

------------------------------------------------------------------------------
(* Looking for a free place. *)

\* An item can be laid among others.
Free(b, items, p) == p \notin items /\ NoLayoutError(b, items \cup {p})

\* The item meets none of the others, nor is it one of them.
LEMMA FreeIsApart ==
  ASSUME NEW b \in Boxes, NEW items \in FinitePlaces, Cardinality(items) < MaxItems,
         NoLayoutError(b, items), NEW p \in Places
  PROVE  Free(b, items, p) <=> /\ p.rotated \in Orientations(p.format) /\ Inside(b, p)
                               /\ \A q \in items : ~Overlap(p, q)
  <1>1. IsFiniteSet(items) /\ items \in SUBSET Places /\ Cardinality(items) \in Nat
    BY FS_CardinalityType DEF FinitePlaces
  <1>2. \A q \in Places : Overlap(p, q) <=> Overlap(q, p)
    BY OverlapIsSharedCell
  <1>3. Overlap(p, p)
    BY SidesArePositive DEF Overlap, Places
  <1>4. Cardinality(items \cup {p}) <= MaxItems
    <2>1. Cardinality(items \cup {p}) = Cardinality(items) \/ Cardinality(items \cup {p}) = Cardinality(items) + 1
      BY <1>1, FS_AddElement
    <2> QED
      BY <1>1, <2>1, LayoutAssumption
  <1>5. ASSUME Free(b, items, p)
        PROVE  /\ p.rotated \in Orientations(p.format) /\ Inside(b, p)
               /\ \A q \in items : ~Overlap(p, q)
    BY <1>5 DEF Free, NoLayoutError
  <1>6. ASSUME p.rotated \in Orientations(p.format), Inside(b, p), \A q \in items : ~Overlap(p, q)
        PROVE  Free(b, items, p)
    <2>1. p \notin items
      BY <1>3, <1>6
    <2>2. \A s, t \in items \cup {p} : s # t => ~Overlap(s, t)
      BY <1>1, <1>2, <1>6 DEF NoLayoutError
    <2> QED
      BY <1>4, <1>6, <2>1, <2>2 DEF Free, NoLayoutError
  <1> QED
    BY <1>5, <1>6

\* A free rectangle whose neighbour to the left is not free lies at an edge, and so upwards.
LEMMA StoppedAtEdge ==
  ASSUME NEW b \in Boxes, NEW items \in FinitePlaces, NEW f \in Formats, NEW r \in Orientations(f),
         NEW x \in Nat, NEW y \in Nat, Inside(b, At(f, x, y, r)),
         \A q \in items : ~Overlap(At(f, x, y, r), q)
  PROVE  /\ (x > 0 => \E q \in items : Overlap(At(f, x - 1, y, r), q)) =>
              x \in {0} \cup {p.x + footprint(p.format, p.rotated)[1] : p \in items}
         /\ (y > 0 => \E q \in items : Overlap(At(f, x, y - 1, r), q)) =>
              y \in {0} \cup {p.y + footprint(p.format, p.rotated)[2] : p \in items}
  <1>1. /\ At(f, x, y, r).format = f /\ At(f, x, y, r).rotated = r
        /\ At(f, x, y, r).x = x /\ At(f, x, y, r).y = y
    BY DEF At
  <1>2. r \in BOOLEAN /\ At(f, x, y, r) \in Places
    BY DEF Orientations, Places, At
  <1>3. PICK w, h : w = footprint(f, r)[1] /\ h = footprint(f, r)[2]
    OBVIOUS
  <1>4. w \in Nat \ {0} /\ h \in Nat \ {0}
    BY <1>1, <1>2, <1>3, SidesArePositive
  <1>5. ASSUME NEW q \in items
        PROVE  /\ q.x \in Nat /\ q.y \in Nat
               /\ footprint(q.format, q.rotated)[1] \in Nat /\ footprint(q.format, q.rotated)[2] \in Nat
    BY SidesArePositive DEF FinitePlaces, Places
  <1>6. ASSUME x > 0, NEW q \in items, Overlap(At(f, x - 1, y, r), q)
        PROVE  x = q.x + footprint(q.format, q.rotated)[1]
    <2> DEFINE side == footprint(q.format, q.rotated)
    <2>1. /\ x - 1 < q.x + side[1] /\ x - 1 + w > q.x
          /\ y < q.y + side[2] /\ y + h > q.y
      BY <1>3, <1>6 DEF Overlap, At
    <2>2. ~ (/\ x < q.x + side[1] /\ x + w > q.x
             /\ y < q.y + side[2] /\ y + h > q.y)
      BY <1>1, <1>3 DEF Overlap
    <2> HIDE DEF side
    <2>3. side[1] \in Nat /\ side[2] \in Nat
      BY <1>5 DEF side
    <2> QED
      BY <1>4, <1>5, <2>1, <2>2, <2>3 DEF side
  <1>7. ASSUME y > 0, NEW q \in items, Overlap(At(f, x, y - 1, r), q)
        PROVE  y = q.y + footprint(q.format, q.rotated)[2]
    <2> DEFINE side == footprint(q.format, q.rotated)
    <2>1. /\ x < q.x + side[1] /\ x + w > q.x
          /\ y - 1 < q.y + side[2] /\ y - 1 + h > q.y
      BY <1>3, <1>7 DEF Overlap, At
    <2>2. ~ (/\ x < q.x + side[1] /\ x + w > q.x
             /\ y < q.y + side[2] /\ y + h > q.y)
      BY <1>1, <1>3 DEF Overlap
    <2> HIDE DEF side
    <2>3. side[1] \in Nat /\ side[2] \in Nat
      BY <1>5 DEF side
    <2> QED
      BY <1>4, <1>5, <2>1, <2>2, <2>3 DEF side
  <1> QED
    BY <1>6, <1>7

\* When there is a free rectangle, there is one at the edges: the nearest to the corner.
LEMMA FreeAtEdges ==
  ASSUME NEW b \in Boxes, NEW items \in FinitePlaces, Cardinality(items) < MaxItems,
         NoLayoutError(b, items), NEW f \in Formats, NEW r \in Orientations(f),
         NEW x \in Nat, NEW y \in Nat, Free(b, items, At(f, x, y, r))
  PROVE  \E c \in Edges(items) : Free(b, items, At(f, c[1], c[2], r))
  <1> DEFINE S == {n \in Nat : \E i, j \in Nat : n = i + j /\ Free(b, items, At(f, i, j, r))}
  <1>1. \E n \in S : \A m \in S : n <= m
    <2>1. x + y \in S
      OBVIOUS
    <2>2. S \in SUBSET Nat /\ S # {}
      BY <2>1
    <2> HIDE DEF S
    <2> QED
      BY <2>2, Smallest
  <1>2. PICK n \in S : \A m \in S : n <= m
    BY <1>1
  <1>3. PICK i \in Nat, j \in Nat : n = i + j /\ Free(b, items, At(f, i, j, r))
    BY <1>2
  <1>4. ASSUME NEW k \in Nat, NEW l \in Nat, k + l < i + j PROVE ~Free(b, items, At(f, k, l, r))
    <2> SUFFICES ASSUME Free(b, items, At(f, k, l, r)) PROVE FALSE
      OBVIOUS
    <2>1. k + l \in S
      OBVIOUS
    <2>2. n <= k + l
      BY <1>2, <2>1
    <2> QED
      BY <1>4, <1>3, <2>2
  <1> HIDE DEF S
  <1>5. ASSUME NEW k \in Nat, NEW l \in Nat
        PROVE  /\ At(f, k, l, r) \in Places
               /\ At(f, k, l, r).format = f /\ At(f, k, l, r).rotated = r
               /\ At(f, k, l, r).x = k /\ At(f, k, l, r).y = l
    BY DEF At, Places, Orientations
  <1>6. Inside(b, At(f, i, j, r)) /\ \A q \in items : ~Overlap(At(f, i, j, r), q)
    BY <1>3, <1>5, FreeIsApart
  <1>7. /\ Width[b] \in Nat /\ Height[b] \in Nat
        /\ footprint(f, r)[1] \in Nat /\ footprint(f, r)[2] \in Nat
    <2>1. Width[b] \in Nat /\ Height[b] \in Nat
      BY LayoutAssumption
    <2>2. PICK p \in Places : p.format = f /\ p.rotated = r
      BY <1>5
    <2> QED
      BY <2>1, <2>2, SidesArePositive
  <1>8. ASSUME NEW k \in Nat, NEW l \in Nat, k <= i, l <= j PROVE Inside(b, At(f, k, l, r))
    <2>1. i + footprint(f, r)[1] <= Width[b] /\ j + footprint(f, r)[2] <= Height[b]
      BY <1>5, <1>6 DEF Inside
    <2> QED
      BY <1>5, <1>7, <1>8, <2>1 DEF Inside
  <1>9. i > 0 => \E q \in items : Overlap(At(f, i - 1, j, r), q)
    <2> SUFFICES ASSUME i > 0 PROVE \E q \in items : Overlap(At(f, i - 1, j, r), q)
      OBVIOUS
    <2>1. i - 1 \in Nat /\ i - 1 <= i /\ j <= j /\ i - 1 + j < i + j
      OBVIOUS
    <2> QED
      BY <1>4, <1>5, <1>8, <2>1, FreeIsApart
  <1>10. j > 0 => \E q \in items : Overlap(At(f, i, j - 1, r), q)
    <2> SUFFICES ASSUME j > 0 PROVE \E q \in items : Overlap(At(f, i, j - 1, r), q)
      OBVIOUS
    <2>1. j - 1 \in Nat /\ j - 1 <= j /\ i <= i /\ i + (j - 1) < i + j
      OBVIOUS
    <2> QED
      BY <1>4, <1>5, <1>8, <2>1, FreeIsApart
  <1>11. << i, j >> \in Edges(items)
    BY <1>6, <1>9, <1>10, StoppedAtEdge DEF Edges
  <1> QED
    BY <1>3, <1>11

\* What firstFreePlacement finds is not what it says when it finds nothing.
LEMMA NothingFound ==
  ASSUME NEW b \in Boxes, NEW items \in FinitePlaces, Cardinality(items) < MaxItems,
         NoLayoutError(b, items), NEW f \in Formats, firstFreePlacement(b, items, f) = NoPlace
  PROVE  SpotsOf(b, items, f) = {}
  <1>1. ~ (Cardinality(items) >= MaxItems)
    BY FS_CardinalityType, LayoutAssumption DEF FinitePlaces
  <1>2. f # "none"
    BY LayoutAssumption
  <1> QED
    BY <1>1, <1>2, FoundIsSpot

\* When the constructor says that there is no place for a format, there is none at any cell,
\* turned or not (firstFreePlacement tries only the corners of what lies there).
THEOREM NoPlaceIsNone == GiftSpec => []NoPlaceMeansNone
  <1>1. GiftTypeOK => NoPlaceMeansNone
    <2> SUFFICES ASSUME DraftOK, view.mode = "advanced", Cardinality(draft.items) < MaxItems,
                        NEW f \in Formats, firstFreePlacement(view.box, draft.items, f) = NoPlace,
                        NEW x \in 0 .. Width[view.box] - 1, NEW y \in 0 .. Height[view.box] - 1,
                        NEW r \in Orientations(f), Laid(At(f, x, y, r), draft.items)
                 PROVE  FALSE
      BY DEF NoPlaceMeansNone, GiftTypeOK
    <2>1. PICK b \in Boxes, items \in FinitePlaces : b = view.box /\ items = draft.items
      BY DEF DraftOK, Drafts
    <2>2. x \in Nat /\ y \in Nat
      BY <2>1, LayoutAssumption
    <2>3. Free(b, items, At(f, x, y, r))
      BY <2>1 DEF Laid, Free
    <2>4. NoLayoutError(b, items)
      BY <2>1, <2>3, FS_CardinalityType, LayoutAssumption DEF Free, NoLayoutError, FinitePlaces
    <2>5. PICK c \in Edges(items) : Free(b, items, At(f, c[1], c[2], r))
      BY <2>1, <2>2, <2>3, <2>4, FreeAtEdges
    <2>6. At(f, c[1], c[2], r) \in SpotsOf(b, items, f)
      BY <2>5 DEF Free, SpotsOf
    <2> QED
      BY <2>1, <2>4, <2>6, NothingFound
  <1> QED
    BY <1>1, GiftInvariant, PTL

------------------------------------------------------------------------------
(* Laying the pieces of a selection. *)

\* g is what placeRecursively finds from the k-th piece on.
IsLay(g, b, pieces, k) ==
  g = [i \in k .. Len(pieces) + 1 |->
        [placed \in SUBSET Places |->
           IF i > Len(pieces) THEN placed
           ELSE LET spots == Spots(b, pieces[i], placed)
                    chosen == Chosen(spots, {p \in spots : g[i + 1][placed \cup {p}] # NoLayout})
                IN IF chosen = {} THEN NoLayout ELSE g[i + 1][placed \cup {First[chosen]}]]]

\* The places from which the rest can be laid.
Chances(g, b, pieces, i, placed) ==
  {p \in Spots(b, pieces[i], placed) : g[i + 1][placed \cup {p}] # NoLayout}

\* One step of the search: the first chance, or none.
LayStep(g, b, pieces, i, placed) ==
  IF i > Len(pieces) THEN placed
  ELSE IF Chances(g, b, pieces, i, placed) = {} THEN NoLayout
  ELSE g[i + 1][placed \cup {First[Chances(g, b, pieces, i, placed)]}]

\* What placeRecursively gives is the value of such a function.
LEMMA PlacedIsLay ==
  ASSUME NEW b, NEW pieces
  PROVE  placeRecursively(b, pieces) = (CHOOSE g : IsLay(g, b, pieces, 1))[1][{}]
  BY DEF placeRecursively, IsLay

\* Such a function has the value of one step everywhere.
LEMMA LayIs ==
  ASSUME NEW g, NEW b, NEW pieces, NEW k
  PROVE  IsLay(g, b, pieces, k) <=>
           g = [i \in k .. Len(pieces) + 1 |->
                 [placed \in SUBSET Places |-> LayStep(g, b, pieces, i, placed)]]
  BY DEF IsLay, LayStep, Chances, Chosen

\* ... at each piece and whatever lies there.
LEMMA LayValue ==
  ASSUME NEW g, NEW b, NEW pieces, NEW k, IsLay(g, b, pieces, k),
         NEW i \in k .. Len(pieces) + 1, NEW placed \in SUBSET Places
  PROVE  g[i][placed] = LayStep(g, b, pieces, i, placed)
  <1>1. g[i] = [s \in SUBSET Places |-> LayStep(g, b, pieces, i, s)]
    BY LayIs
  <1> QED
    BY <1>1

\* A step looks only at the next piece.
LEMMA LayIsLocal ==
  ASSUME NEW g, NEW h, NEW b, NEW pieces, NEW i, g[i + 1] = h[i + 1] \/ i > Len(pieces), NEW placed
  PROVE  LayStep(g, b, pieces, i, placed) = LayStep(h, b, pieces, i, placed)
  BY DEF LayStep, Chances

\* The search is defined: from the last piece on, then from one piece more.
LEMMA LayExists ==
  ASSUME NEW b, NEW pieces \in Seq(Formats)
  PROVE  \E g : IsLay(g, b, pieces, 1)
  <1> DEFINE n == Len(pieces)
             Bad == {m \in Nat : m <= n /\ ~ \E g : IsLay(g, b, pieces, n + 1 - m)}
  <1>1. n \in Nat
    OBVIOUS
  <1>2. Bad = {}
    <2> SUFFICES ASSUME Bad # {} PROVE FALSE
      OBVIOUS
    <2>1. PICK m \in Bad : \A l \in Bad : m <= l
      <3>1. Bad \in SUBSET Nat
        OBVIOUS
      <3> HIDE DEF Bad
      <3> QED
        BY <3>1, Smallest
    <2>2. PICK k \in Nat : k = n + 1 - m
      BY <1>1, <2>1
    <2>3. ~ \E g : IsLay(g, b, pieces, k)
      BY <2>1, <2>2
    <2>4. CASE m = 0
      <3> DEFINE g == [i \in k .. n + 1 |-> [placed \in SUBSET Places |-> placed]]
      <3>1. k = n + 1
        BY <1>1, <2>2, <2>4
      <3>2. ASSUME NEW i \in k .. n + 1 PROVE i > n
        BY <1>1, <3>1
      <3>3. ASSUME NEW i \in k .. n + 1, NEW placed \in SUBSET Places
            PROVE  LayStep(g, b, pieces, i, placed) = placed
        BY <3>2 DEF LayStep
      <3>4. g = [i \in k .. n + 1 |-> [placed \in SUBSET Places |-> LayStep(g, b, pieces, i, placed)]]
        BY <3>3
      <3>5. IsLay(g, b, pieces, k)
        <4> HIDE DEF g
        <4> QED
          BY <3>4, LayIs
      <3> QED
        BY <2>3, <3>5
    <2>5. CASE m # 0
      <3>1. m - 1 \in Nat /\ m - 1 <= n /\ m - 1 < m /\ n + 1 - (m - 1) = k + 1 /\ k <= n
        BY <1>1, <2>1, <2>2, <2>5
      <3>2. m - 1 \notin Bad
        BY SMTT(30), <2>1, <3>1
      <3>3. PICK h : IsLay(h, b, pieces, k + 1)
        BY <3>1, <3>2
      <3> DEFINE g == [i \in k .. n + 1 |->
                         IF i = k THEN [placed \in SUBSET Places |-> LayStep(h, b, pieces, k, placed)]
                         ELSE h[i]]
      <3>4. ASSUME NEW i \in k .. n + 1, i <= n PROVE g[i + 1] = h[i + 1]
        BY <1>1, <2>2, <3>4
      <3>5. ASSUME NEW i \in k .. n + 1, NEW placed \in SUBSET Places
            PROVE  LayStep(g, b, pieces, i, placed) = LayStep(h, b, pieces, i, placed)
        <4>1. g[i + 1] = h[i + 1] \/ i > n
          BY <1>1, <2>2, <3>4
        <4> HIDE DEF g
        <4> QED
          BY <4>1, LayIsLocal
      <3>6. ASSUME NEW i \in k .. n + 1
            PROVE  g[i] = [placed \in SUBSET Places |-> LayStep(g, b, pieces, i, placed)]
        <4>1. CASE i = k
          <5>1. g[i] = [placed \in SUBSET Places |-> LayStep(h, b, pieces, i, placed)]
            BY <4>1
          <5> QED
            BY <3>5, <5>1
        <4>2. CASE i # k
          <5>1. i \in k + 1 .. n + 1
            BY <1>1, <2>2, <4>2
          <5>2. h = [j \in k + 1 .. n + 1 |-> [placed \in SUBSET Places |-> LayStep(h, b, pieces, j, placed)]]
            BY <3>3, LayIs
          <5>3. h[i] = [placed \in SUBSET Places |-> LayStep(h, b, pieces, i, placed)]
            BY <5>1, <5>2
          <5>4. g[i] = h[i]
            BY <4>2
          <5> QED
            BY <3>5, <5>3, <5>4
        <4> QED
          BY <4>1, <4>2
      <3>7. g = [i \in k .. n + 1 |-> g[i]]
        OBVIOUS
      <3> HIDE DEF g
      <3>8. g = [i \in k .. n + 1 |-> [placed \in SUBSET Places |-> LayStep(g, b, pieces, i, placed)]]
        BY <3>6, <3>7
      <3> QED
        BY <2>3, <3>8, LayIs
    <2> QED
      BY <2>4, <2>5
  <1>3. n \in Nat /\ n <= n /\ n + 1 - n = 1
    BY <1>1
  <1>4. n \notin Bad
    BY <1>2
  <1> QED
    BY <1>3, <1>4

\* Places of the pieces from the i-th on, among those that lie already.
Lays(w, b, pieces, i, placed) ==
  /\ w \in [i .. Len(pieces) -> Places]
  /\ \A j \in i .. Len(pieces) : /\ w[j].format = pieces[j]
                                 /\ w[j].rotated \in Orientations(pieces[j])
                                 /\ Inside(b, w[j])
                                 /\ \A q \in placed : Cells(w[j]) \cap Cells(q) = {}
  /\ \A j, l \in i .. Len(pieces) : j # l => Cells(w[j]) \cap Cells(w[l]) = {}

\* The layout consists of what lies there and of places of the pieces.
Completes(layout, w, b, pieces, i, placed) ==
  /\ Lays(w, b, pieces, i, placed)
  /\ layout = placed \cup {w[j] : j \in i .. Len(pieces)}

\* What is found are places of the pieces; it is found when there are any.
Right(g, b, pieces, i, placed) ==
  /\ g[i][placed] # NoLayout => \E w : Completes(g[i][placed], w, b, pieces, i, placed)
  /\ (\E w : Lays(w, b, pieces, i, placed)) => g[i][placed] # NoLayout

\* A spot lies in the box and apart from what lies there.
LEMMA SpotIs ==
  ASSUME NEW b \in Boxes, NEW f \in Formats, NEW placed
  PROVE  Spots(b, f, placed) = {p \in Places : /\ p.format = f /\ p.rotated \in Orientations(f)
                                               /\ Inside(b, p)
                                               /\ \A q \in placed : Cells(p) \cap Cells(q) = {}}
  <1>1. Width[b] \in Nat /\ Height[b] \in Nat
    BY LayoutAssumption
  <1>2. ASSUME NEW p \in Spots(b, f, placed)
        PROVE  /\ p \in Places /\ p.format = f /\ p.rotated \in Orientations(f) /\ Inside(b, p)
               /\ \A q \in placed : Cells(p) \cap Cells(q) = {}
    <2>1. PICK x \in 0 .. Width[b] - 1, y \in 0 .. Height[b] - 1, r \in Orientations(f) : p = At(f, x, y, r)
      BY DEF Spots
    <2>2. x \in Nat /\ y \in Nat
      BY <1>1
    <2>3. r \in BOOLEAN
      BY DEF Orientations
    <2> QED
      BY <2>1, <2>2, <2>3 DEF Spots, At, Places
  <1>3. ASSUME NEW p \in Places, p.format = f, p.rotated \in Orientations(f), Inside(b, p),
               \A q \in placed : Cells(p) \cap Cells(q) = {}
        PROVE  p \in Spots(b, f, placed)
    <2>1. p = At(f, p.x, p.y, p.rotated)
      BY <1>3 DEF At, Places
    <2>2. /\ p.x \in Nat /\ p.y \in Nat
          /\ footprint(p.format, p.rotated)[1] \in Nat \ {0}
          /\ footprint(p.format, p.rotated)[2] \in Nat \ {0}
      BY SidesArePositive DEF Places
    <2>3. p.x \in 0 .. Width[b] - 1 /\ p.y \in 0 .. Height[b] - 1
      BY <1>1, <1>3, <2>2 DEF Inside
    <2> QED
      BY <1>3, <2>1, <2>3 DEF Spots
  <1> QED
    BY <1>2, <1>3

\* No set of places is taken for "no layout".
LEMMA NoLayoutIsNone == ASSUME NEW placed \in SUBSET Places PROVE placed # NoLayout
  <1>1. NoPlace \notin Places
    BY LayoutAssumption DEF NoPlace, Places
  <1> QED
    BY <1>1 DEF NoLayout

\* The last step: nothing is left to lay.
LEMMA NothingLeft ==
  ASSUME NEW b, NEW pieces \in Seq(Formats), NEW g, IsLay(g, b, pieces, 1),
         NEW placed \in SUBSET Places
  PROVE  Right(g, b, pieces, Len(pieces) + 1, placed)
  <1> DEFINE w == [j \in Len(pieces) + 1 .. Len(pieces) |-> NoPlace]
  <1>1. Len(pieces) \in Nat /\ Len(pieces) + 1 .. Len(pieces) = {}
    OBVIOUS
  <1>2. g[Len(pieces) + 1][placed] = placed
    <2>1. Len(pieces) + 1 \in 1 .. Len(pieces) + 1 /\ Len(pieces) + 1 > Len(pieces)
      BY <1>1
    <2>2. g[Len(pieces) + 1][placed] = LayStep(g, b, pieces, Len(pieces) + 1, placed)
      BY <2>1, LayValue
    <2> QED
      BY <2>1, <2>2 DEF LayStep
  <1>3. Lays(w, b, pieces, Len(pieces) + 1, placed)
    BY <1>1 DEF Lays
  <1>4. Completes(placed, w, b, pieces, Len(pieces) + 1, placed)
    BY <1>1, <1>3 DEF Completes
  <1> HIDE DEF w
  <1> QED
    BY <1>2, <1>3, <1>4, NoLayoutIsNone DEF Right

\* One piece and the places of the rest.
LEMMA LaysMore ==
  ASSUME NEW b \in Boxes, NEW pieces \in Seq(Formats), NEW i \in 1 .. Len(pieces),
         NEW placed \in SUBSET Places, NEW p \in Spots(b, pieces[i], placed),
         NEW layout, NEW v, Completes(layout, v, b, pieces, i + 1, placed \cup {p})
  PROVE  \E w : Completes(layout, w, b, pieces, i, placed)
  <1> DEFINE n == Len(pieces)
             w == [j \in i .. n |-> IF j = i THEN p ELSE v[j]]
  <1>1. n \in Nat /\ i \in Nat /\ i .. n = {i} \cup (i + 1 .. n) /\ i \notin i + 1 .. n /\ i \in i .. n
    OBVIOUS
  <1>2. pieces[i] \in Formats
    OBVIOUS
  <1>0. Lays(v, b, pieces, i + 1, placed \cup {p})
    BY DEF Completes
  <1>3. /\ p \in Places /\ p.format = pieces[i] /\ p.rotated \in Orientations(pieces[i]) /\ Inside(b, p)
        /\ \A q \in placed : Cells(p) \cap Cells(q) = {}
    BY <1>2, SpotIs
  <1>4. w[i] = p /\ \A j \in i + 1 .. n : w[j] = v[j] /\ j \in i .. n
    BY <1>1
  <1>5. w \in [i .. n -> Places]
    BY <1>0, <1>1, <1>3 DEF Lays
  <1> HIDE DEF w
  <1>6. ASSUME NEW j \in i .. n
        PROVE  /\ w[j].format = pieces[j]
               /\ w[j].rotated \in Orientations(pieces[j])
               /\ Inside(b, w[j])
               /\ \A q \in placed : Cells(w[j]) \cap Cells(q) = {}
    BY <1>0, <1>1, <1>3, <1>4 DEF Lays
  <1>7. ASSUME NEW j \in i .. n, NEW l \in i .. n, j # l
        PROVE  Cells(w[j]) \cap Cells(w[l]) = {}
    <2>1. ASSUME NEW k \in i + 1 .. n PROVE Cells(w[k]) \cap Cells(p) = {}
      BY <1>0, <1>4 DEF Lays
    <2>2. CASE j = i \/ l = i
      BY <1>1, <1>4, <1>7, <2>1, <2>2
    <2>3. CASE j # i /\ l # i
      BY <1>0, <1>1, <1>4, <1>7, <2>3 DEF Lays
    <2> QED
      BY <2>2, <2>3
  <1>8. {w[j] : j \in i .. n} = {p} \cup {v[j] : j \in i + 1 .. n}
    <2>1. ASSUME NEW x \in {w[j] : j \in i .. n} PROVE x \in {p} \cup {v[j] : j \in i + 1 .. n}
      BY <1>1, <1>4
    <2>2. ASSUME NEW x \in {p} \cup {v[j] : j \in i + 1 .. n} PROVE x \in {w[j] : j \in i .. n}
      BY <1>1, <1>4
    <2> QED
      BY <2>1, <2>2
  <1>9. Lays(w, b, pieces, i, placed)
    BY <1>5, <1>6, <1>7 DEF Lays
  <1> QED
    BY <1>8, <1>9 DEF Completes

\* The places of all pieces give one of the first and those of the rest.
LEMMA LaysFewer ==
  ASSUME NEW b \in Boxes, NEW pieces \in Seq(Formats), NEW i \in 1 .. Len(pieces),
         NEW placed \in SUBSET Places, NEW w, Lays(w, b, pieces, i, placed)
  PROVE  /\ w[i] \in Spots(b, pieces[i], placed)
         /\ \E v : Lays(v, b, pieces, i + 1, placed \cup {w[i]})
  <1> DEFINE n == Len(pieces)
             v == [j \in i + 1 .. n |-> w[j]]
  <1>1. n \in Nat /\ i \in i .. n /\ i \notin i + 1 .. n /\ \A j \in i + 1 .. n : j \in i .. n
    OBVIOUS
  <1>2. pieces[i] \in Formats
    OBVIOUS
  <1>3. w[i] \in Spots(b, pieces[i], placed)
    BY <1>1, <1>2, SpotIs DEF Lays
  <1>4. \A j \in i + 1 .. n : v[j] = w[j]
    OBVIOUS
  <1>5. v \in [i + 1 .. n -> Places]
    BY <1>1 DEF Lays
  <1> HIDE DEF v
  <1>6. ASSUME NEW j \in i + 1 .. n
        PROVE  /\ v[j].format = pieces[j]
               /\ v[j].rotated \in Orientations(pieces[j])
               /\ Inside(b, v[j])
               /\ \A q \in placed \cup {w[i]} : Cells(v[j]) \cap Cells(q) = {}
    BY <1>1, <1>4 DEF Lays
  <1>7. ASSUME NEW j \in i + 1 .. n, NEW l \in i + 1 .. n, j # l
        PROVE  Cells(v[j]) \cap Cells(v[l]) = {}
    BY <1>1, <1>4, <1>7 DEF Lays
  <1>8. Lays(v, b, pieces, i + 1, placed \cup {w[i]})
    BY <1>5, <1>6, <1>7 DEF Lays
  <1> QED
    BY <1>3, <1>8

\* A search that is right from the next piece on is right from this one.
LEMMA OneMore ==
  ASSUME NEW b \in Boxes, NEW pieces \in Seq(Formats), NEW g, IsLay(g, b, pieces, 1),
         NEW i \in 1 .. Len(pieces),
         \A placed \in SUBSET Places : Right(g, b, pieces, i + 1, placed),
         NEW placed \in SUBSET Places
  PROVE  Right(g, b, pieces, i, placed)
  <1> DEFINE C == Chances(g, b, pieces, i, placed)
             p == First[C]
  <1>1. pieces[i] \in Formats /\ i \in 1 .. Len(pieces) + 1 /\ ~ (i > Len(pieces))
    OBVIOUS
  <1>2. g[i][placed] = IF C = {} THEN NoLayout ELSE g[i + 1][placed \cup {p}]
    <2>1. g[i][placed] = LayStep(g, b, pieces, i, placed)
      BY <1>1, LayValue
    <2> QED
      BY <1>1, <2>1 DEF LayStep
  <1>3. C \in SUBSET Places /\ \A q \in C : q.format = pieces[i]
    BY <1>1, SpotIs DEF Chances
  <1>4. C # {} => p \in C
    <2> HIDE DEF C
    <2> QED
      BY <1>3, FirstIsFirst
  <1>5. ASSUME g[i][placed] # NoLayout
        PROVE  \E w : Completes(g[i][placed], w, b, pieces, i, placed)
    <2>1. C # {} /\ p \in C
      BY <1>2, <1>4, <1>5
    <2>2. g[i][placed] = g[i + 1][placed \cup {p}]
      BY <1>2, <2>1
    <2>3. p \in Spots(b, pieces[i], placed) /\ p \in Places
      BY <1>3, <2>1 DEF Chances
    <2> HIDE DEF p
    <2>4. PICK v : Completes(g[i + 1][placed \cup {p}], v, b, pieces, i + 1, placed \cup {p})
      BY <1>5, <2>2, <2>3 DEF Right
    <2> QED
      BY <2>2, <2>3, <2>4, LaysMore
  <1>6. ASSUME NEW w, Lays(w, b, pieces, i, placed) PROVE g[i][placed] # NoLayout
    <2>1. /\ w[i] \in Spots(b, pieces[i], placed)
          /\ \E v : Lays(v, b, pieces, i + 1, placed \cup {w[i]})
      BY <1>6, LaysFewer
    <2>2. placed \cup {w[i]} \in SUBSET Places
      BY <1>1, <2>1, SpotIs
    <2>3. g[i + 1][placed \cup {w[i]}] # NoLayout
      BY <2>1, <2>2 DEF Right
    <2>4. w[i] \in C
      BY <2>1, <2>3 DEF Chances
    <2>5. p \in C
      BY <1>4, <2>4
    <2>6. g[i + 1][placed \cup {p}] # NoLayout
      BY <2>5 DEF Chances
    <2> HIDE DEF C, p
    <2> QED
      BY <1>2, <2>4, <2>6
  <1> HIDE DEF C, p
  <1> QED
    BY <1>5, <1>6 DEF Right

\* The search finds a layout exactly when there is one, and what it finds is one.
LEMMA SearchIsRight ==
  ASSUME NEW b \in Boxes, NEW pieces \in Seq(Formats), NEW g, IsLay(g, b, pieces, 1)
  PROVE  Right(g, b, pieces, 1, {})
  <1> DEFINE n == Len(pieces)
             Bad == {m \in Nat : m <= n /\ ~ \A placed \in SUBSET Places : Right(g, b, pieces, n + 1 - m, placed)}
  <1>1. n \in Nat
    OBVIOUS
  <1>2. Bad = {}
    <2> SUFFICES ASSUME Bad # {} PROVE FALSE
      OBVIOUS
    <2>1. PICK m \in Bad : \A l \in Bad : m <= l
      <3>1. Bad \in SUBSET Nat
        OBVIOUS
      <3> HIDE DEF Bad
      <3> QED
        BY <3>1, Smallest
    <2>2. PICK i \in Nat : i = n + 1 - m
      BY <1>1, <2>1
    <2>3. ~ \A placed \in SUBSET Places : Right(g, b, pieces, i, placed)
      BY <2>1, <2>2
    <2>4. CASE m = 0
      <3>1. i = n + 1
        BY <1>1, <2>2, <2>4
      <3> QED
        BY <2>3, <3>1, NothingLeft
    <2>5. CASE m # 0
      <3>1. m - 1 \in Nat /\ m - 1 <= n /\ m - 1 < m /\ n + 1 - (m - 1) = i + 1 /\ i \in 1 .. n
        BY <1>1, <2>1, <2>2, <2>5
      <3>2. m - 1 \notin Bad
        BY <2>1, <3>1
      <3>3. \A placed \in SUBSET Places : Right(g, b, pieces, i + 1, placed)
        BY <3>1, <3>2
      <3> QED
        BY <2>3, <3>1, <3>3, OneMore
    <2> QED
      BY <2>4, <2>5
  <1>3. n \in Nat /\ n <= n /\ n + 1 - n = 1
    BY <1>1
  <1>4. n \notin Bad
    BY <1>2
  <1> QED
    BY <1>3, <1>4

\* Strictly larger or earlier: two pieces are always in one of the two orders.
LEMMA LargerIsOrder ==
  ASSUME NEW formats \in Seq(Formats), NEW i \in DOMAIN formats, NEW j \in DOMAIN formats
  PROVE  /\ ~Larger(formats, i, i)
         /\ i # j => Larger(formats, i, j) \/ Larger(formats, j, i)
         /\ \A k \in DOMAIN formats :
              Larger(formats, k, i) /\ Larger(formats, i, j) => Larger(formats, k, j)
  <1>1. \A k \in DOMAIN formats : Area(formats[k]) \in Nat /\ k \in Nat
    <2>1. ASSUME NEW k \in DOMAIN formats PROVE Area(formats[k]) \in Nat /\ k \in Nat
      <3>1. formats[k] \in Formats /\ k \in Nat
        OBVIOUS
      <3>2. CellsWide[formats[k]] \in Nat /\ CellsHigh[formats[k]] \in Nat
        BY <3>1, LayoutAssumption
      <3> QED
        BY <3>1, <3>2 DEF Area
    <2> QED
      BY <2>1
  <1> QED
    BY <1>1 DEF Larger

\* The place of a piece in the order: how many are larger.
LEMMA PiecesAreOrdered ==
  ASSUME NEW formats \in Seq(Formats)
  PROVE  Ordered(formats) \in Bijection(DOMAIN formats, DOMAIN formats)
  <1> DEFINE D == DOMAIN formats
             n == Len(formats)
             above(i) == {j \in D : Larger(formats, j, i)}
             rank == [i \in D |-> Cardinality(above(i)) + 1]
  <1>1. n \in Nat /\ D = 1 .. n /\ IsFiniteSet(D) /\ Cardinality(D) = n
    <2>1. n \in Nat /\ D = 1 .. n
      OBVIOUS
    <2> QED
      BY SMTT(30), <2>1, FS_Interval
  <1>2. ASSUME NEW i \in D
        PROVE  IsFiniteSet(above(i)) /\ Cardinality(above(i)) \in Nat /\ Cardinality(above(i)) < n
    <2>1. above(i) \in SUBSET D /\ i \notin above(i)
      BY LargerIsOrder
    <2> HIDE DEF above
    <2>2. IsFiniteSet(above(i)) /\ Cardinality(above(i)) <= n /\ Cardinality(above(i)) # n
      BY <1>1, <2>1, FS_Subset
    <2> QED
      BY <1>1, <2>2, FS_CardinalityType
  <1>3. ASSUME NEW i \in D, NEW j \in D, Larger(formats, i, j) PROVE rank[i] < rank[j]
    <2>1. above(i) \in SUBSET above(j) /\ i \in above(j) /\ i \notin above(i)
      BY <1>3, LargerIsOrder
    <2> HIDE DEF above
    <2>2. Cardinality(above(i)) <= Cardinality(above(j)) /\ Cardinality(above(i)) # Cardinality(above(j))
      BY <1>2, <2>1, FS_Subset
    <2>3. Cardinality(above(i)) \in Nat /\ Cardinality(above(j)) \in Nat
      BY <1>2
    <2> QED
      BY <2>2, <2>3
  <1>4. rank \in [D -> D]
    <2> HIDE DEF above
    <2>1. ASSUME NEW i \in D PROVE Cardinality(above(i)) + 1 \in D
      <3>1. Cardinality(above(i)) \in Nat /\ Cardinality(above(i)) < n
        BY <1>2
      <3>2. Cardinality(above(i)) + 1 \in 1 .. n
        BY <1>1, <3>1
      <3> QED
        BY <1>1, <3>2
    <2> QED
      BY <2>1
  <1> HIDE DEF rank
  <1>5. ASSUME NEW i \in D, NEW j \in D, rank[i] < rank[j] PROVE Larger(formats, i, j)
    <2>1. rank[i] \in Nat /\ rank[j] \in Nat
      BY <1>1, <1>4
    <2> QED
      BY <1>3, <1>5, <2>1, LargerIsOrder
  <1>6. rank \in Injection(D, D)
    <2>1. ASSUME NEW i \in D, NEW j \in D, rank[i] = rank[j] PROVE i = j
      <3>1. rank[i] \in Nat /\ rank[j] \in Nat
        BY <1>1, <1>4
      <3>2. ~Larger(formats, i, j) /\ ~Larger(formats, j, i)
        BY <1>3, <2>1, <3>1
      <3> QED
        BY <3>2, LargerIsOrder
    <2> QED
      BY <1>4, <2>1, Fun_IsInj
  <1>7. rank \in Bijection(D, D)
    <2>1. rank \in Surjection(D, D)
      BY <1>1, <1>6, FS_Injection
    <2> QED
      BY <1>6, <2>1, Fun_IsBij
  <1>8. PICK order : order = Inverse(rank, D, D)
    OBVIOUS
  <1>9. order \in Bijection(D, D) /\ \A s \in D : order[rank[s]] = s
    BY <1>7, <1>8, Fun_BijInverse
  <1>10. order \in [D -> D] /\ \A s \in D : rank[order[s]] = s
    <2>1. order \in [D -> D]
      BY <1>9, Fun_BijectionProperties
    <2>2. \A s \in D : \E i \in D : rank[i] = s
      BY <1>7, Fun_BijectionProperties
    <2>3. ASSUME NEW s \in D PROVE rank[order[s]] = s
      <3>1. PICK i \in D : rank[i] = s
        BY <2>2
      <3> QED
        BY <1>9, <3>1
    <2> QED
      BY <2>1, <2>3
  <1>11. ASSUME NEW i \in D, NEW j \in D, i < j PROVE Larger(formats, order[i], order[j])
    BY <1>5, <1>10, <1>11
  <1> HIDE DEF D
  <1>12. \E o \in Bijection(D, D) : \A i, j \in D : i < j => Larger(formats, o[i], o[j])
    BY <1>9, <1>11
  <1> QED
    BY <1>12 DEF Ordered, D

------------------------------------------------------------------------------
(* What a selection takes up and weighs. *)

\* Whichever element is taken first, the sum is the same.
LEMMA SumAny ==
  ASSUME NEW S, IsFiniteSet(S), NEW f, \A x \in S : f[x] \in Nat, NEW g, IsSum(g, f, S)
  PROVE  \A T \in SUBSET S : \A x \in T : g[T] = f[x] + g[T \ {x}]
  <1> DEFINE Bad == {T \in SUBSET S : \E x \in T : g[T] # f[x] + g[T \ {x}]}
  <1> SUFFICES ASSUME Bad # {} PROVE FALSE
    OBVIOUS
  <1>1. PICK T \in Bad : \A t \in Bad : t \subseteq T => t = T
    <2>1. Bad \in SUBSET SUBSET S
      OBVIOUS
    <2> HIDE DEF Bad
    <2> QED
      BY <2>1, SmallestSet
  <1>2. PICK x \in T : g[T] # f[x] + g[T \ {x}]
    BY <1>1
  <1>3. PICK t : t = Taken(T)
    OBVIOUS
  <1>4. t \in T /\ T \in SUBSET S /\ g[T] = f[t] + g[T \ {t}]
    BY <1>1, <1>2, <1>3, TakenIn DEF IsSum
  <1>5. x # t
    BY <1>2, <1>4
  <1>6. T \ {t} \notin Bad /\ T \ {x} \notin Bad
    BY <1>1, <1>2, <1>4
  <1>7. g[T \ {t}] = f[x] + g[(T \ {t}) \ {x}]
    BY <1>2, <1>4, <1>5, <1>6
  <1>8. g[T \ {x}] = f[t] + g[(T \ {x}) \ {t}]
    BY <1>2, <1>4, <1>5, <1>6
  <1>9. (T \ {t}) \ {x} = (T \ {x}) \ {t}
    OBVIOUS
  <1>10. g[(T \ {x}) \ {t}] \in Nat /\ f[x] \in Nat /\ f[t] \in Nat
    BY <1>2, <1>4, SumIsNat
  <1>11. PICK u : u = g[(T \ {x}) \ {t}]
    OBVIOUS
  <1>12. /\ u \in Nat /\ g[T \ {t}] = f[x] + u /\ g[T \ {x}] = f[t] + u
         /\ f[x] \in Nat /\ f[t] \in Nat
    BY <1>7, <1>8, <1>9, <1>10, <1>11
  <1>13. g[T] = f[t] + (f[x] + u) /\ f[x] + g[T \ {x}] = f[x] + (f[t] + u)
    BY <1>4, <1>12
  <1>14. f[t] + (f[x] + u) = f[x] + (f[t] + u)
    BY <1>12
  <1> QED
    BY <1>2, <1>13, <1>14

\* ... for the sum of a part of the set.
LEMMA SumFirst ==
  ASSUME NEW S, IsFiniteSet(S), NEW f, \A x \in S : f[x] \in Nat, NEW g, IsSum(g, f, S),
         NEW T \in SUBSET S, NEW x \in T
  PROVE  g[T] = f[x] + g[T \ {x}]
  BY SumAny

\* Under other names the sum is the same.
LEMMA SumRenamed ==
  ASSUME NEW S, IsFiniteSet(S), NEW R, IsFiniteSet(R), NEW e \in Bijection(S, R),
         NEW f, NEW v, \A x \in R : v[x] \in Nat, \A x \in S : f[x] = v[e[x]],
         NEW a, SumsTo(a, f, S), NEW z, SumsTo(z, v, R)
  PROVE  a = z
  <1>1. PICK g : IsSum(g, f, S) /\ a = g[S]
    BY DEF SumsTo
  <1>2. PICK h : IsSum(h, v, R) /\ z = h[R]
    BY DEF SumsTo
  <1>0. ASSUME NEW U \in SUBSET R, NEW r \in U PROVE h[U] = v[r] + h[U \ {r}]
    BY <1>2, SumFirst
  <1>3. /\ e \in [S -> R] /\ \A x, y \in S : e[x] = e[y] => x = y
        /\ \A r \in R : \E x \in S : e[x] = r
    BY Fun_BijectionProperties
  <1> DEFINE under(T) == {e[x] : x \in T}
             Bad == {T \in SUBSET S : g[T] # h[under(T)]}
  <1>4. Bad = {}
    <2> SUFFICES ASSUME Bad # {} PROVE FALSE
      OBVIOUS
    <2>1. PICK T \in Bad : \A t \in Bad : t \subseteq T => t = T
      <3>1. Bad \in SUBSET SUBSET S
        OBVIOUS
      <3> HIDE DEF Bad
      <3> QED
        BY <3>1, SmallestSet
    <2>2. T # {}
      <3> SUFFICES ASSUME T = {} PROVE FALSE
        OBVIOUS
      <3>1. g[{}] = 0 /\ h[{}] = 0
        BY <1>1, <1>2 DEF IsSum
      <3>2. under({}) = {}
        OBVIOUS
      <3> QED
        BY <2>1, <3>1, <3>2
    <2>3. PICK t : t = Taken(T)
      OBVIOUS
    <2>4. t \in T /\ T \in SUBSET S /\ g[T] = f[t] + g[T \ {t}]
      BY <1>1, <2>1, <2>2, <2>3, TakenIn DEF IsSum
    <2>5. T \ {t} \notin Bad
      BY <2>1, <2>4
    <2>6. g[T \ {t}] = h[under(T \ {t})]
      BY <2>4, <2>5
    <2>7. under(T) \in SUBSET R /\ e[t] \in under(T)
      BY <1>3, <2>4
    <2>8. under(T) \ {e[t]} = under(T \ {t})
      BY <1>3, <2>4
    <2>9. h[under(T)] = v[e[t]] + h[under(T) \ {e[t]}]
      <3>2. PICK U, x : U = under(T) /\ x = e[t]
        OBVIOUS
      <3>3. U \in SUBSET R /\ x \in U
        BY <2>7, <3>2
      <3>4. h[U] = v[x] + h[U \ {x}]
        BY <1>0, <3>3
      <3> HIDE DEF under
      <3> QED
        BY <3>2, <3>4
    <2>10. g[T] # h[under(T)]
      BY <2>1
    <2> HIDE DEF under, Bad
    <2> QED
      BY <2>4, <2>6, <2>8, <2>9, <2>10
  <1>5. under(S) = R
    BY <1>3
  <1>6. S \notin Bad
    BY <1>4
  <1>7. g[S] = h[under(S)]
    BY <1>6
  <1> HIDE DEF under, Bad
  <1> QED
    BY <1>1, <1>2, <1>5, <1>7

\* The cells of rectangles that do not meet add up.
LEMMA SumCounts ==
  ASSUME NEW S, IsFiniteSet(S), NEW c, \A x \in S : IsFiniteSet(c[x]),
         \A x, y \in S : x # y => c[x] \cap c[y] = {},
         NEW f, \A x \in S : f[x] = Cardinality(c[x]),
         NEW a, SumsTo(a, f, S)
  PROVE  a = Cardinality(UNION {c[x] : x \in S})
  <1>1. PICK g : IsSum(g, f, S) /\ a = g[S]
    BY DEF SumsTo
  <1> DEFINE all(T) == UNION {c[x] : x \in T}
             Bad == {T \in SUBSET S : ~ (IsFiniteSet(all(T)) /\ g[T] = Cardinality(all(T)))}
  <1>2. Bad = {}
    <2> SUFFICES ASSUME Bad # {} PROVE FALSE
      OBVIOUS
    <2>1. PICK T \in Bad : \A t \in Bad : t \subseteq T => t = T
      <3>1. Bad \in SUBSET SUBSET S
        OBVIOUS
      <3> HIDE DEF Bad
      <3> QED
        BY <3>1, SmallestSet
    <2>2. T # {}
      <3> SUFFICES ASSUME T = {} PROVE FALSE
        OBVIOUS
      <3>1. g[{}] = 0
        BY <1>1 DEF IsSum
      <3>2. all({}) = {}
        OBVIOUS
      <3>3. IsFiniteSet({}) /\ Cardinality({}) = 0
        BY FS_EmptySet
      <3> QED
        BY <2>1, <3>1, <3>2, <3>3
    <2>3. PICK t : t = Taken(T)
      OBVIOUS
    <2>4. t \in T /\ T \in SUBSET S /\ g[T] = f[t] + g[T \ {t}]
      BY <1>1, <2>1, <2>2, <2>3, TakenIn DEF IsSum
    <2>5. T \ {t} \notin Bad
      BY <2>1, <2>4
    <2>6. IsFiniteSet(all(T \ {t})) /\ g[T \ {t}] = Cardinality(all(T \ {t}))
      BY <2>4, <2>5
    <2>7. all(T) = c[t] \cup all(T \ {t})
      <3>1. all(T) \subseteq c[t] \cup all(T \ {t})
        OBVIOUS
      <3>2. c[t] \cup all(T \ {t}) \subseteq all(T)
        BY <2>4
      <3> QED
        BY <3>1, <3>2
    <2>8. c[t] \cap all(T \ {t}) = {}
      BY <2>4
    <2>9. IsFiniteSet(c[t]) /\ f[t] = Cardinality(c[t])
      BY <2>4
    <2>10. ~ (IsFiniteSet(all(T)) /\ g[T] = Cardinality(all(T)))
      BY <2>1
    <2> HIDE DEF all, Bad
    <2>11. /\ IsFiniteSet(all(T))
           /\ Cardinality(all(T)) = Cardinality(c[t]) + Cardinality(all(T \ {t})) - Cardinality({})
      <3>1. PICK p, q : p = c[t] /\ q = all(T \ {t})
        OBVIOUS
      <3>2. IsFiniteSet(p) /\ IsFiniteSet(q) /\ p \cap q = {} /\ all(T) = p \cup q
        BY <2>6, <2>7, <2>8, <2>9, <3>1
      <3>3. /\ IsFiniteSet(p \cup q)
            /\ Cardinality(p \cup q) = Cardinality(p) + Cardinality(q) - Cardinality(p \cap q)
        BY <3>2, FS_Union
      <3> QED
        BY <3>1, <3>2, <3>3
    <2>12. Cardinality({}) = 0 /\ Cardinality(c[t]) \in Nat /\ Cardinality(all(T \ {t})) \in Nat
      BY <2>6, <2>9, FS_EmptySet, FS_CardinalityType
    <2> QED
      BY <2>4, <2>6, <2>9, <2>10, <2>11, <2>12
  <1>3. S \notin Bad
    BY <1>2
  <1>4. g[S] = Cardinality(all(S))
    BY <1>3
  <1> QED
    BY <1>1, <1>4

\* What a selection weighs.
SelectionWeight(formats) == Total(DOMAIN formats, LAMBDA i : Weight[formats[i]])

\* It is a sum over the pieces.
LEMMA SelectionWeighs ==
  ASSUME NEW formats \in Seq(Formats)
  PROVE  SumsTo(SelectionWeight(formats), [i \in DOMAIN formats |-> Weight[formats[i]]], DOMAIN formats)
  <1> DEFINE S == DOMAIN formats
             weight(i) == Weight[formats[i]]
             f == [i \in S |-> weight(i)]
             A(s) == s = [T \in SUBSET S |->
                            IF T = {} THEN 0
                            ELSE LET t == CHOOSE t \in T : TRUE IN weight(t) + s[T \ {t}]]
             g == CHOOSE s : A(s)
  <1>1. SelectionWeight(formats) = g[S]
    BY DEF SelectionWeight, Total
  <1>2. IsFiniteSet(S)
    BY FS_Interval
  <1>3. ASSUME NEW s PROVE A(s) <=> IsSum(s, f, S)
    <2>1. \A T \in SUBSET S : T # {} => f[Taken(T)] = weight(Taken(T))
      BY TakenIn
    <2> HIDE DEF f, S, weight
    <2> QED
      BY <2>1 DEF IsSum, Taken
  <1>4. \E s : A(s)
    <2>1. \E s : IsSum(s, f, S)
      <3> HIDE DEF f, S
      <3> QED
        BY <1>2, SumExists
    <2> HIDE DEF A, f, S
    <2> QED
      BY <1>3, <2>1
  <1>5. A(g)
    <2> HIDE DEF A
    <2> QED
      BY <1>4
  <1>6. IsSum(g, f, S)
    BY <1>3, <1>5
  <1> HIDE DEF f, g, S
  <1>7. SumsTo(SelectionWeight(formats), f, S)
    BY <1>1, <1>6 DEF SumsTo
  <1> QED
    BY <1>7 DEF f, S

\* The area of a selection is a sum over the pieces.
LEMMA SelectionCovers ==
  ASSUME NEW formats \in Seq(Formats)
  PROVE  SumsTo(AreaOf(formats), [i \in DOMAIN formats |-> Area(formats[i])], DOMAIN formats)
  <1> DEFINE S == DOMAIN formats
             f == [i \in S |-> Area(formats[i])]
             A(s) == s = [T \in SUBSET S |->
                            IF T = {} THEN 0
                            ELSE LET t == CHOOSE t \in T : TRUE IN Area(formats[t]) + s[T \ {t}]]
             g == CHOOSE s : A(s)
  <1>1. AreaOf(formats) = g[S]
    BY DEF AreaOf, Total
  <1>2. IsFiniteSet(S)
    BY FS_Interval
  <1>3. ASSUME NEW s PROVE A(s) <=> IsSum(s, f, S)
    <2>1. \A T \in SUBSET S : T # {} => f[Taken(T)] = Area(formats[Taken(T)])
      BY TakenIn
    <2> HIDE DEF f, S
    <2> QED
      BY SMTT(30), <2>1 DEF IsSum, Taken
  <1>4. \E s : A(s)
    <2>1. \E s : IsSum(s, f, S)
      <3> HIDE DEF f, S
      <3> QED
        BY <1>2, SumExists
    <2> HIDE DEF A, f, S
    <2> QED
      BY <1>3, <2>1
  <1>5. A(g)
    <2> HIDE DEF A
    <2> QED
      BY <1>4
  <1>6. IsSum(g, f, S)
    BY <1>3, <1>5
  <1> HIDE DEF f, g, S
  <1>7. SumsTo(AreaOf(formats), f, S)
    BY <1>1, <1>6 DEF SumsTo
  <1> QED
    BY <1>7 DEF f, S

\* A part of one side of a pairing has as many elements as its partners.
LEMMA ImageCounts ==
  ASSUME NEW S, IsFiniteSet(S), NEW R, NEW e \in Bijection(S, R), NEW T \in SUBSET S
  PROVE  Cardinality({e[x] : x \in T}) = Cardinality(T)
  <1> DEFINE image == {e[x] : x \in T}
             h == [x \in T |-> e[x]]
  <1>1. \A x, y \in S : e[x] = e[y] => x = y
    BY Fun_BijectionProperties
  <1>2. h \in [T -> image]
    OBVIOUS
  <1>3. \A x, y \in T : h[x] = h[y] => x = y
    BY <1>1
  <1>4. \A r \in image : \E x \in T : h[x] = r
    OBVIOUS
  <1> HIDE DEF h, image
  <1>5. h \in Injection(T, image) /\ h \in Surjection(T, image)
    BY <1>2, <1>3, <1>4, Fun_IsInj, Fun_IsSurj
  <1>6. ExistsBijection(T, image)
    BY <1>5, Fun_IsBij DEF ExistsBijection
  <1>7. IsFiniteSet(T)
    BY FS_Subset
  <1>8. Cardinality(image) = Cardinality(T)
    BY <1>6, <1>7, FS_Bijection
  <1> QED
    BY <1>8 DEF image

\* A packing gives each of the pieces a place of its own.
Packs(lay, b, formats) ==
  /\ lay \in [DOMAIN formats -> Places]
  /\ \A i \in DOMAIN formats : lay[i] \in Spots(b, formats[i], {})
  /\ \A i, j \in DOMAIN formats : i # j => Cells(lay[i]) \cap Cells(lay[j]) = {}

\* A selection that can be packed has a packing.
LEMMA PackableIsPacked ==
  ASSUME NEW b \in Boxes, NEW formats \in Seq(Formats), Packable(b, formats)
  PROVE  \E lay : Packs(lay, b, formats)
  <1> DEFINE D == DOMAIN formats
             of(i) == PlacesIn(b, formats[i])
  <1>1. PICK lay \in [D -> UNION {of(i) : i \in D}] :
          /\ \A i \in D : lay[i] \in of(i)
          /\ \A i, j \in D : i # j => Cells(lay[i]) \cap Cells(lay[j]) = {}
    BY DEF Packable
  <1>2. ASSUME NEW i \in D PROVE lay[i] \in Spots(b, formats[i], {}) /\ lay[i] \in Places
    <2>1. of(i) = Spots(b, formats[i], {})
      BY DEF Spots, PlacesIn
    <2>2. formats[i] \in Formats
      OBVIOUS
    <2>3. lay[i] \in Spots(b, formats[i], {})
      <3> HIDE DEF of
      <3> QED
        BY <1>1, <2>1
    <2> QED
      BY <2>2, <2>3, SpotIs
  <1>3. lay \in [D -> Places]
    <2> HIDE DEF of
    <2> QED
      BY <1>1, <1>2
  <1>4. Packs(lay, b, formats)
    BY <1>1, <1>2, <1>3 DEF Packs
  <1> QED
    BY <1>4

\* A side has as many cells as it is long.
LEMMA CellsOfSide ==
  ASSUME NEW a \in Nat, NEW n \in Nat
  PROVE  IsFiniteSet(a .. a + n - 1) /\ Cardinality(a .. a + n - 1) = n
  <1>1. PICK k \in Int : k = a + n - 1
    OBVIOUS
  <1>2. IsFiniteSet(a .. k) /\ Cardinality(a .. k) = IF a > k THEN 0 ELSE k - a + 1
    BY FS_Interval
  <1>3. (IF a > k THEN 0 ELSE k - a + 1) = n
    BY <1>1
  <1> QED
    BY <1>1, <1>2, <1>3

\* A place has as many cells as its format has area.
LEMMA CellsAreArea ==
  ASSUME NEW p \in Places
  PROVE  IsFiniteSet(Cells(p)) /\ Cardinality(Cells(p)) = Area(p.format) /\ Cells(p) # {}
  <1>1. PICK w, h : w = footprint(p.format, p.rotated)[1] /\ h = footprint(p.format, p.rotated)[2]
    OBVIOUS
  <1>2. w \in Nat \ {0} /\ h \in Nat \ {0} /\ p.x \in Nat /\ p.y \in Nat
    BY <1>1, SidesArePositive DEF Places
  <1>3. PICK X, Y : X = p.x .. p.x + w - 1 /\ Y = p.y .. p.y + h - 1
    OBVIOUS
  <1>4. Cells(p) = X \X Y
    BY <1>1, <1>3 DEF Cells
  <1>5. IsFiniteSet(X) /\ Cardinality(X) = w
    BY <1>2, <1>3, CellsOfSide
  <1>6. IsFiniteSet(Y) /\ Cardinality(Y) = h
    BY <1>2, <1>3, CellsOfSide
  <1>7. IsFiniteSet(X \X Y) /\ Cardinality(X \X Y) = w * h
    BY <1>5, <1>6, FS_Product
  <1>8. w * h = Area(p.format)
    <2>1. CellsWide[p.format] \in Nat /\ CellsHigh[p.format] \in Nat
      BY LayoutAssumption DEF Places
    <2>2. CellsWide[p.format] * CellsHigh[p.format] = CellsHigh[p.format] * CellsWide[p.format]
      BY <2>1
    <2> QED
      BY <1>1, <2>2 DEF footprint, Area
  <1>9. << p.x, p.y >> \in X \X Y
    BY <1>2, <1>3
  <1> QED
    BY <1>4, <1>7, <1>8, <1>9

\* A packing needs an orientation that fits for each piece, and the area of all of them.
LEMMA PackedFits ==
  ASSUME NEW b \in Boxes, NEW formats \in Seq(Formats), Packable(b, formats)
  PROVE  /\ \A i \in DOMAIN formats : FitsBox(b, formats[i])
         /\ AreaOf(formats) <= Width[b] * Height[b]
  <1> DEFINE D == DOMAIN formats
             box == (0 .. Width[b] - 1) \X (0 .. Height[b] - 1)
  <1>1. PICK lay : Packs(lay, b, formats)
    BY PackableIsPacked
  <1>2. Width[b] \in Nat /\ Height[b] \in Nat
    BY LayoutAssumption
  <1>3. ASSUME NEW i \in D
        PROVE  /\ lay[i] \in Places /\ lay[i].format = formats[i]
               /\ lay[i].rotated \in Orientations(formats[i]) /\ Inside(b, lay[i])
    <2>1. formats[i] \in Formats
      OBVIOUS
    <2> QED
      BY <1>1, <2>1, SpotIs DEF Packs
  <1>4. ASSUME NEW i \in D PROVE FitsBox(b, formats[i])
    <2>1. PICK p : p = lay[i]
      OBVIOUS
    <2>2. p \in Places /\ p.format = formats[i] /\ p.rotated \in Orientations(formats[i]) /\ Inside(b, p)
      BY <1>3, <2>1
    <2>3. PICK side : side = footprint(p.format, p.rotated)
      OBVIOUS
    <2>4. side[1] \in Nat /\ side[2] \in Nat /\ p.x \in Nat /\ p.y \in Nat
      BY <2>2, <2>3, SidesArePositive DEF Places
    <2>5. p.x + side[1] <= Width[b] /\ p.y + side[2] <= Height[b]
      BY <2>2, <2>3 DEF Inside
    <2>6. 0 + side[1] <= Width[b] /\ 0 + side[2] <= Height[b]
      BY SMTT(30), <1>2, <2>4, <2>5
    <2>7. Inside(b, At(formats[i], 0, 0, p.rotated))
      BY <2>2, <2>3, <2>6 DEF Inside, At
    <2> QED
      BY <2>2, <2>7 DEF FitsBox
  <1> DEFINE c == [i \in D |-> Cells(lay[i])]
             f == [i \in D |-> Area(formats[i])]
  <1>5. ASSUME NEW i \in D
        PROVE  IsFiniteSet(c[i]) /\ f[i] = Cardinality(c[i]) /\ c[i] \subseteq box
    <2>1. IsFiniteSet(Cells(lay[i])) /\ Cardinality(Cells(lay[i])) = Area(lay[i].format)
      BY <1>3, CellsAreArea
    <2>2. Cells(lay[i]) \subseteq box
      BY <1>3, InsideIsCellsOfBox
    <2> QED
      BY <1>3, <2>1, <2>2
  <1>6. \A i, j \in D : i # j => c[i] \cap c[j] = {}
    BY <1>1 DEF Packs
  <1>7. IsFiniteSet(D)
    BY FS_Interval
  <1>8. SumsTo(AreaOf(formats), f, D)
    BY SelectionCovers
  <1> HIDE DEF c, f, D
  <1>9. AreaOf(formats) = Cardinality(UNION {c[i] : i \in D})
    <2>1. \A i \in D : IsFiniteSet(c[i])
      BY <1>5
    <2>2. \A i \in D : f[i] = Cardinality(c[i])
      BY <1>5
    <2> QED
      BY <1>6, <1>7, <1>8, <2>1, <2>2, SumCounts
  <1>10. IsFiniteSet(box) /\ Cardinality(box) = Width[b] * Height[b]
    <2>1. PICK X, Y : X = 0 .. Width[b] - 1 /\ Y = 0 .. Height[b] - 1
      OBVIOUS
    <2>2. IsFiniteSet(X) /\ Cardinality(X) = Width[b]
      <3>1. IsFiniteSet(0 .. 0 + Width[b] - 1) /\ Cardinality(0 .. 0 + Width[b] - 1) = Width[b]
        BY <1>2, CellsOfSide
      <3>2. 0 + Width[b] - 1 = Width[b] - 1
        BY <1>2
      <3> QED
        BY <2>1, <3>1, <3>2
    <2>3. IsFiniteSet(Y) /\ Cardinality(Y) = Height[b]
      <3>1. IsFiniteSet(0 .. 0 + Height[b] - 1) /\ Cardinality(0 .. 0 + Height[b] - 1) = Height[b]
        BY <1>2, CellsOfSide
      <3>2. 0 + Height[b] - 1 = Height[b] - 1
        BY <1>2
      <3> QED
        BY <2>1, <3>1, <3>2
    <2> QED
      BY ZenonT(60), <2>1, <2>2, <2>3, FS_Product
  <1>11. UNION {c[i] : i \in D} \in SUBSET box
    BY <1>5
  <1>12. Cardinality(UNION {c[i] : i \in D}) <= Cardinality(box)
    <2>1. PICK U : U = UNION {c[i] : i \in D}
      OBVIOUS
    <2> HIDE DEF box
    <2>2. Cardinality(U) <= Cardinality(box)
      BY <1>10, <1>11, <2>1, FS_Subset
    <2> QED
      BY <2>1, <2>2
  <1> QED
    BY <1>4, <1>9, <1>10, <1>12 DEF D

\* What is laid pairs the pieces with the items of the layout.
LEMMA LaidPairs ==
  ASSUME NEW b \in Boxes, NEW pieces \in Seq(Formats), NEW layout, NEW w,
         Completes(layout, w, b, pieces, 1, {})
  PROVE  /\ w \in Bijection(DOMAIN pieces, layout)
         /\ layout \in FinitePlaces /\ Cardinality(layout) = Len(pieces)
         /\ \A j \in DOMAIN pieces : w[j].format = pieces[j]
         /\ \A p \in layout : p.rotated \in Orientations(p.format) /\ Inside(b, p)
         /\ \A p, q \in layout : p # q => ~Overlap(p, q)
  <1> DEFINE D == DOMAIN pieces
  <1>1. /\ w \in [D -> Places] /\ layout = {w[j] : j \in D}
        /\ \A j \in D : /\ w[j].format = pieces[j] /\ w[j].rotated \in Orientations(pieces[j])
                        /\ Inside(b, w[j])
        /\ \A j, l \in D : j # l => Cells(w[j]) \cap Cells(w[l]) = {}
    <2>1. D = 1 .. Len(pieces)
      OBVIOUS
    <2>2. layout = {} \cup {w[j] : j \in D}
      BY <2>1 DEF Completes
    <2> QED
      BY <2>1, <2>2 DEF Completes, Lays
  <1>2. IsFiniteSet(D) /\ Cardinality(D) = Len(pieces)
    <2>1. IsFiniteSet(1 .. Len(pieces)) /\ Cardinality(1 .. Len(pieces)) = Len(pieces)
      <3>1. Len(pieces) \in Nat
        OBVIOUS
      <3>2. IsFiniteSet(1 .. 1 + Len(pieces) - 1) /\ Cardinality(1 .. 1 + Len(pieces) - 1) = Len(pieces)
        BY <3>1, CellsOfSide
      <3>3. 1 + Len(pieces) - 1 = Len(pieces)
        BY <3>1
      <3> QED
        BY <3>2, <3>3
    <2> QED
      BY <2>1
  <1> HIDE DEF D
  <1>3. ASSUME NEW j \in D, NEW l \in D, w[j] = w[l] PROVE j = l
    <2>1. Cells(w[j]) # {}
      BY <1>1, CellsAreArea
    <2> QED
      BY <1>1, <1>3, <2>1
  <1>4. w \in [D -> layout] /\ \A p \in layout : \E j \in D : w[j] = p
    BY <1>1
  <1>5. w \in Bijection(D, layout)
    <2>1. w \in Injection(D, layout) /\ w \in Surjection(D, layout)
      BY <1>3, <1>4, Fun_IsInj, Fun_IsSurj
    <2> QED
      BY <2>1, Fun_IsBij
  <1>6. IsFiniteSet(layout) /\ Cardinality(layout) = Len(pieces)
    BY <1>2, <1>5, Fun_ExistsBij, FS_Bijection
  <1>7. layout \in FinitePlaces
    BY <1>1, <1>6 DEF FinitePlaces
  <1>8. ASSUME NEW p \in layout, NEW q \in layout, p # q PROVE ~Overlap(p, q)
    <2>1. PICK j \in D, l \in D : p = w[j] /\ q = w[l]
      BY <1>1
    <2>2. Cells(p) \cap Cells(q) = {}
      BY <1>1, <1>8, <2>1
    <2>3. p \in Places /\ q \in Places
      BY <1>1, <2>1
    <2> QED
      BY <2>2, <2>3, OverlapIsSharedCell
  <1>9. \A p \in layout : p.rotated \in Orientations(p.format) /\ Inside(b, p)
    BY <1>1
  <1> QED
    BY <1>1, <1>5, <1>6, <1>7, <1>8, <1>9 DEF D

\* The pieces in the order of their sizes are those of the selection.
SortedPieces(formats) == [i \in DOMAIN formats |-> formats[Ordered(formats)[i]]]

\* The sorted pieces are those of the selection, renumbered.
LEMMA SortedIsPaired ==
  ASSUME NEW formats \in Seq(Formats)
  PROVE  /\ SortedPieces(formats) \in Seq(Formats) /\ Len(SortedPieces(formats)) = Len(formats)
         /\ DOMAIN SortedPieces(formats) = DOMAIN formats
         /\ Ordered(formats) \in Bijection(DOMAIN formats, DOMAIN formats)
         /\ \A i \in DOMAIN formats : /\ Ordered(formats)[i] \in DOMAIN formats
                                      /\ SortedPieces(formats)[i] = formats[Ordered(formats)[i]]
  <1>1. PICK o : o = Ordered(formats)
    OBVIOUS
  <1>2. o \in Bijection(DOMAIN formats, DOMAIN formats)
    BY <1>1, PiecesAreOrdered
  <1>3. o \in [DOMAIN formats -> DOMAIN formats]
    BY <1>2, Fun_BijectionProperties
  <1>4. SortedPieces(formats) = [i \in DOMAIN formats |-> formats[o[i]]]
    BY <1>1 DEF SortedPieces
  <1>5. SortedPieces(formats) \in [1 .. Len(formats) -> Formats] /\ Len(formats) \in Nat
    BY <1>3, <1>4
  <1>6. SortedPieces(formats) \in Seq(Formats) /\ Len(SortedPieces(formats)) = Len(formats)
    BY <1>5
  <1> QED
    BY <1>1, <1>2, <1>3, <1>4, <1>6

\* A layout weighs what its selection weighs, and has the items of it.
LEMMA LaidIsSelection ==
  ASSUME NEW b \in Boxes, NEW formats \in Seq(Formats), NEW layout, NEW w,
         Completes(layout, w, b, SortedPieces(formats), 1, {})
  PROVE  /\ WeightOf(layout) = SelectionWeight(formats)
         /\ \A f \in Formats : Cardinality({p \in layout : p.format = f})
                               = Cardinality({i \in DOMAIN formats : formats[i] = f})
  <1> DEFINE D == DOMAIN formats
  <1>1. PICK o : o = Ordered(formats)
    OBVIOUS
  <1>2. PICK pieces : pieces = SortedPieces(formats)
    OBVIOUS
  <1>3. /\ pieces \in Seq(Formats) /\ DOMAIN pieces = D /\ o \in Bijection(D, D)
        /\ \A i \in D : o[i] \in D /\ pieces[i] = formats[o[i]]
    BY <1>1, <1>2, SortedIsPaired
  <1>4. /\ w \in Bijection(D, layout) /\ layout \in FinitePlaces
        /\ \A j \in D : w[j].format = pieces[j]
    BY <1>2, <1>3, LaidPairs
  <1>5. IsFiniteSet(D) /\ \A i \in D : formats[i] \in Formats
    BY FS_Interval
  <1>6. IsFiniteSet(layout) /\ layout \in SUBSET Places
    BY <1>4 DEF FinitePlaces
  <1> HIDE DEF D
  <1>7. WeightOf(layout) = SelectionWeight(formats)
    <2> DEFINE v == [p \in layout |-> Weight[p.format]]
               m == [j \in D |-> Weight[pieces[j]]]
               u == [i \in D |-> Weight[formats[i]]]
    <2>1. SumsTo(WeightOf(layout), v, layout)
      BY <1>4, LayoutWeighs
    <2>2. SumsTo(SelectionWeight(formats), u, D)
      BY SelectionWeighs DEF D
    <2>3. SumsTo(SelectionWeight(pieces), m, D)
      BY <1>3, SelectionWeighs
    <2>4. \A p \in layout : v[p] \in Nat
      BY <1>6, LayoutAssumption DEF Places
    <2>5. \A i \in D : u[i] \in Nat
      BY <1>5, LayoutAssumption
    <2>6. \A j \in D : m[j] = v[w[j]]
      <3>1. \A j \in D : w[j] \in layout
        BY <1>4, Fun_BijectionProperties
      <3> QED
        BY <1>4, <3>1
    <2>7. \A j \in D : m[j] = u[o[j]]
      BY <1>3
    <2> HIDE DEF v, m, u
    <2>8. SelectionWeight(pieces) = WeightOf(layout)
      <3>1. PICK a, z : a = SelectionWeight(pieces) /\ z = WeightOf(layout)
        OBVIOUS
      <3>2. SumsTo(a, m, D) /\ SumsTo(z, v, layout)
        BY <2>1, <2>3, <3>1
      <3>3. w \in Bijection(D, layout)
        BY <1>4
      <3>4. IsFiniteSet(D) /\ IsFiniteSet(layout)
        BY <1>5, <1>6
      <3>5. a = z
        BY <2>4, <2>6, <3>2, <3>3, <3>4, SumRenamed
      <3> QED
        BY <3>1, <3>5
    <2>9. SelectionWeight(pieces) = SelectionWeight(formats)
      <3>1. PICK a, z : a = SelectionWeight(pieces) /\ z = SelectionWeight(formats)
        OBVIOUS
      <3>2. SumsTo(a, m, D) /\ SumsTo(z, u, D)
        BY <2>2, <2>3, <3>1
      <3>3. o \in Bijection(D, D)
        BY <1>3
      <3>4. IsFiniteSet(D)
        BY <1>5
      <3>5. a = z
        BY <2>5, <2>7, <3>2, <3>3, <3>4, SumRenamed
      <3> QED
        BY <3>1, <3>5
    <2> QED
      BY <2>8, <2>9
  <1>8. ASSUME NEW f \in Formats
        PROVE  Cardinality({p \in layout : p.format = f}) = Cardinality({i \in D : formats[i] = f})
    <2> DEFINE T == {j \in D : pieces[j] = f}
    <2>1. T \in SUBSET D
      OBVIOUS
    <2>2. {w[j] : j \in T} = {p \in layout : p.format = f}
      <3>1. w \in [D -> layout] /\ \A p \in layout : \E j \in D : w[j] = p
        BY <1>4, Fun_BijectionProperties
      <3> QED
        BY <1>4, <3>1
    <2>3. {o[j] : j \in T} = {i \in D : formats[i] = f}
      <3>1. o \in [D -> D] /\ \A i \in D : \E j \in D : o[j] = i
        BY <1>3, Fun_BijectionProperties
      <3>2. ASSUME NEW i \in D, formats[i] = f PROVE i \in {o[j] : j \in T}
        BY <1>3, <3>1, <3>2
      <3>3. ASSUME NEW j \in T PROVE o[j] \in D /\ formats[o[j]] = f
        BY <1>3
      <3> HIDE DEF T
      <3> QED
        BY <3>2, <3>3
    <2> HIDE DEF T
    <2>4. Cardinality({w[j] : j \in T}) = Cardinality(T)
      BY <1>4, <1>5, <2>1, ImageCounts
    <2>5. Cardinality({o[j] : j \in T}) = Cardinality(T)
      BY <1>3, <1>5, <2>1, ImageCounts
    <2> QED
      BY <2>2, <2>3, <2>4, <2>5
  <1> QED
    BY <1>7, <1>8 DEF D

\* A selection that can be packed and is light enough is laid, and the browser accepts it.
LEMMA PackedIsLaid ==
  ASSUME NEW b \in Boxes, NEW formats \in Seq(Formats), formats # << >>,
         Len(formats) <= MaxItems, Packable(b, formats), SelectionWeight(formats) <= MaxWeight[b]
  PROVE  autoPlace(b, formats) # NoLayout /\ Verified(b, formats, autoPlace(b, formats))
  <1> DEFINE D == DOMAIN formats
  <1>1. PICK pieces : pieces = SortedPieces(formats)
    OBVIOUS
  <1>2. PICK o : o = Ordered(formats)
    OBVIOUS
  <1>3. /\ pieces \in Seq(Formats) /\ Len(pieces) = Len(formats) /\ DOMAIN pieces = D
        /\ o \in Bijection(D, D) /\ \A i \in D : o[i] \in D /\ pieces[i] = formats[o[i]]
    BY <1>1, <1>2, SortedIsPaired
  <1>4. Len(formats) \in Nat \ {0} /\ D = 1 .. Len(formats) /\ 1 \in D
    OBVIOUS
  <1>5. PICK g : g = CHOOSE h : IsLay(h, b, pieces, 1)
    OBVIOUS
  <1>6. IsLay(g, b, pieces, 1)
    BY <1>3, <1>5, LayExists
  <1>7. Right(g, b, pieces, 1, {})
    BY <1>3, <1>6, SearchIsRight
  <1>8. PICK layout : layout = placeRecursively(b, pieces)
    OBVIOUS
  <1>9. layout = g[1][{}]
    BY <1>5, <1>8, PlacedIsLay
  <1>10. \E w : Lays(w, b, pieces, 1, {})
    <2>1. PICK lay : Packs(lay, b, formats)
      BY PackableIsPacked
    <2> DEFINE w == [j \in D |-> lay[o[j]]]
    <2>2. \A j \in D : lay[o[j]] \in Spots(b, pieces[j], {}) /\ pieces[j] \in Formats
      BY <1>3, <2>1 DEF Packs
    <2>3. ASSUME NEW j \in D
          PROVE  /\ w[j] \in Places /\ w[j].format = pieces[j]
                 /\ w[j].rotated \in Orientations(pieces[j]) /\ Inside(b, w[j])
      BY <2>2, SpotIs
    <2>4. ASSUME NEW j \in D, NEW l \in D, j # l PROVE Cells(w[j]) \cap Cells(w[l]) = {}
      <3>1. o[j] # o[l] /\ o[j] \in D /\ o[l] \in D
        <4>1. \A x, y \in D : o[x] = o[y] => x = y
          BY ZenonT(60), <1>3, Fun_BijectionProperties
        <4> QED
          BY <1>3, <2>4, <4>1
      <3> QED
        BY <2>1, <3>1 DEF Packs
    <2>5. w \in [D -> Places]
      BY <2>3
    <2> HIDE DEF w
    <2>6. Lays(w, b, pieces, 1, {})
      BY <1>3, <1>4, <2>3, <2>4, <2>5 DEF Lays
    <2> QED
      BY <2>6
  <1>11. layout # NoLayout
    BY <1>7, <1>9, <1>10 DEF Right
  <1>12. PICK w : Completes(layout, w, b, pieces, 1, {})
    BY <1>7, <1>9, <1>11 DEF Right
  <1>13. /\ w \in Bijection(D, layout) /\ layout \in FinitePlaces /\ Cardinality(layout) = Len(formats)
         /\ \A p \in layout : p.rotated \in Orientations(p.format) /\ Inside(b, p)
         /\ \A p, q \in layout : p # q => ~Overlap(p, q)
    BY <1>3, <1>12, LaidPairs
  <1>14. NoLayoutError(b, layout)
    BY <1>13 DEF NoLayoutError
  <1>15. /\ WeightOf(layout) = SelectionWeight(formats)
         /\ \A f \in Formats : Cardinality({p \in layout : p.format = f})
                               = Cardinality({i \in DOMAIN formats : formats[i] = f})
    BY <1>1, <1>12, LaidIsSelection
  <1>16. layout # {}
    BY <1>4, <1>13, Fun_BijectionProperties
  <1>17. validate(b, layout)
    <2>1. layout \in SUBSET Places
      BY <1>13 DEF FinitePlaces
    <2> QED
      BY <1>14, <1>15, <1>16, <2>1, GeometriesAgree
  <1>18. autoPlace(b, formats) = layout
    BY <1>1, <1>8, <1>11, <1>17 DEF autoPlace, SortedPieces
  <1> QED
    BY <1>11, <1>14, <1>15, <1>18 DEF Verified

\* A selection of the browser that is refused cannot be packed.
LEMMA RefusedIsNotPackable ==
  ASSUME DraftOK, view.mode = "simple", Packable(view.box, draft.teas \o draft.sweets)
  PROVE  NoSelectionError(view.box, draft.teas, draft.sweets)
  <1>1. /\ view.box \in Boxes /\ supportsSimple(view.box)
        /\ Len(draft.teas) <= TeaCount[view.box] /\ Len(draft.sweets) <= SweetCount[view.box]
        /\ draft.teas \o draft.sweets \in Seq(Formats)
    BY DEF DraftOK, Drafts
  <1> QED
    BY <1>1, PackedFits DEF NoSelectionError

\* What the server answers for a complete selection.
LEMMA LayoutIsFound ==
  ASSUME NEW b \in Boxes, supportsSimple(b), NEW teas \in Seq(Formats), NEW sweets \in Seq(Formats),
         Complete(b, teas, sweets)
  PROVE  /\ Layouts[b][teas \o sweets] = autoPlace(b, teas \o sweets)
         /\ Len(teas \o sweets) <= MaxItems
  <1>1. TeaCount[b] \in Nat /\ SweetCount[b] \in Nat /\ MaxItems \in Nat
    BY LayoutAssumption
  <1>2. Len(teas \o sweets) = TeaCount[b] + SweetCount[b] /\ teas \o sweets \in Seq(Formats)
    BY DEF Complete
  <1>3. teas \o sweets \in [1 .. TeaCount[b] + SweetCount[b] -> Formats]
    <2>1. \A s \in Seq(Formats) : s \in [1 .. Len(s) -> Formats]
      OBVIOUS
    <2>2. PICK s : s = teas \o sweets
      OBVIOUS
    <2>3. s \in Seq(Formats) /\ Len(s) = TeaCount[b] + SweetCount[b]
      BY <1>2, <2>2
    <2>4. s \in [1 .. TeaCount[b] + SweetCount[b] -> Formats]
      BY <2>1, <2>3
    <2> QED
      BY <2>2, <2>4
  <1> QED
    BY <1>1, <1>2, <1>3 DEF Layouts, supportsSimple

\* Over every state: a simple selection that the browser refuses cannot be packed, and one that
\* can be packed within the weight is laid by the server (whose search misses nothing) in a way
\* that the browser accepts.
THEOREM PackingDecided == GiftSpec => []PackingIsDecided
  <1>1. ASSUME DraftOK PROVE PackingIsDecided
    <2> DEFINE formats == draft.teas \o draft.sweets
               b == view.box
    <2> SUFFICES ASSUME view.mode = "simple", formats # << >>, formats \in PackableSelections[b]
                 PROVE  /\ NoSelectionError(b, draft.teas, draft.sweets)
                        /\ Complete(b, draft.teas, draft.sweets) /\ SelectionWeight(formats) <= MaxWeight[b]
                             => Layouts[b][formats] # NoLayout /\ Verified(b, formats, Layouts[b][formats])
      BY DEF PackingIsDecided, SelectionWeight
    <2>1. b \in Boxes /\ supportsSimple(b) /\ draft.teas \in Seq(Formats) /\ draft.sweets \in Seq(Formats)
      BY <1>1 DEF DraftOK, Drafts
    <2>2. formats \in Seq(Formats)
      BY <2>1
    <2>3. Packable(b, formats)
      BY <2>1 DEF PackableSelections
    <2>4. NoSelectionError(b, draft.teas, draft.sweets)
      BY <1>1, <2>3, RefusedIsNotPackable
    <2>5. ASSUME Complete(b, draft.teas, draft.sweets), SelectionWeight(formats) <= MaxWeight[b]
          PROVE  Layouts[b][formats] # NoLayout /\ Verified(b, formats, Layouts[b][formats])
      <3>1. Layouts[b][formats] = autoPlace(b, formats) /\ Len(formats) <= MaxItems
        BY <2>1, <2>5, LayoutIsFound
      <3> HIDE DEF formats
      <3> QED
        BY <2>1, <2>2, <2>3, <2>5, <3>1, PackedIsLaid
    <2> QED
      BY <2>4, <2>5
  <1>2. GiftTypeOK => PackingIsDecided
    BY <1>1 DEF GiftTypeOK
  <1> QED
    BY <1>2, GiftTypes, PTL
================================================================================
