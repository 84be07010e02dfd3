------------------------------ MODULE GiftLayout ------------------------------
(***************************************************************************)
(* The geometry of a gift: what the constructor of the browser takes for a *)
(* good layout of a box, how it looks for a free place, and how the server *)
(* checks a layout and finds one by itself.                                *)
(*                                                                         *)
(* The browser compares rectangles, the server marks cells.                *)
(***************************************************************************)
EXTENDS Naturals, FiniteSets, Sequences, SequencesExt

CONSTANTS
  Boxes, Width, Height, MaxWeight,        \* GiftSizeProfile: cells and max_weight_grams
  TeaCount, SweetCount,                   \* its simple_requirements
  Formats, CellsWide, CellsHigh, CanRotate, \* ProductSize and its size
  Role, ProductOf, Portion, Weight,       \* constructor_role, product, product_quantity
  MaxItems                                \* max_layout_items

ASSUME LayoutAssumption ==
  /\ \A b \in Boxes : /\ Width[b] \in Nat \ {0} /\ Height[b] \in Nat \ {0} /\ MaxWeight[b] \in Nat
                      /\ TeaCount[b] \in Nat /\ SweetCount[b] \in Nat
  /\ \A f \in Formats : /\ CellsWide[f] \in Nat \ {0} /\ CellsHigh[f] \in Nat \ {0}
                        /\ Portion[f] \in Nat \ {0} /\ Weight[f] \in Nat
                        /\ Role[f] \in {"tea", "sweet"}
  /\ CanRotate \subseteq Formats /\ MaxItems \in Nat \ {0} /\ "none" \notin Formats

\* The sum of the values of a set.
Total(S, value(_)) ==
  LET sum[T \in SUBSET S] ==
        IF T = {} THEN 0 ELSE LET t == CHOOSE t \in T : TRUE IN value(t) + sum[T \ {t}]
  IN sum[S]

------------------------------------------------------------------------------
(* Both sides. *)

footprint(f, rotated) ==
  IF rotated THEN << CellsHigh[f], CellsWide[f] >> ELSE << CellsWide[f], CellsHigh[f] >>

At(f, x, y, rotated) == [format |-> f, x |-> x, y |-> y, rotated |-> rotated]

Orientations(f) == IF f \in CanRotate THEN BOOLEAN ELSE {FALSE}

Area(f) == CellsWide[f] * CellsHigh[f]

\* Lying first, then the upper row, then the left column.
Before(p, q) == \/ ~p.rotated /\ q.rotated
                \/ p.rotated = q.rotated /\ p.y < q.y
                \/ p.rotated = q.rotated /\ p.y = q.y /\ p.x < q.x

Places == [format : Formats, x : Nat, y : Nat, rotated : BOOLEAN]

First[spots \in SUBSET Places] == CHOOSE p \in spots : \A q \in spots \ {p} : Before(p, q)

------------------------------------------------------------------------------
(* The browser. *)

Inside(b, p) ==
  LET side == footprint(p.format, p.rotated) IN
  p.x + side[1] <= Width[b] /\ p.y + side[2] <= Height[b]

\* Mutant: only the corner of an item is looked for in the other.
OverlapAtCorner(p, q) ==
  LET c == footprint(q.format, q.rotated) IN
  p.x \in q.x .. q.x + c[1] - 1 /\ p.y \in q.y .. q.y + c[2] - 1

Overlap(p, q) ==
  LET a == footprint(p.format, p.rotated) c == footprint(q.format, q.rotated) IN
  /\ p.x < q.x + c[1] /\ p.x + a[1] > q.x
  /\ p.y < q.y + c[2] /\ p.y + a[2] > q.y

\* layoutError finds nothing.
NoLayoutError(b, items) ==
  /\ Cardinality(items) <= MaxItems
  /\ \A p \in items : p.rotated \in Orientations(p.format) /\ Inside(b, p)
  /\ \A p, q \in items : p # q => ~Overlap(p, q)

NoPlace == [format |-> "none", x |-> 0, y |-> 0, rotated |-> FALSE]

\* A free rectangle can be pushed to the side of the box or to the edge of an item.
Edges(items) ==
  ({0} \cup {p.x + footprint(p.format, p.rotated)[1] : p \in items})
  \X ({0} \cup {p.y + footprint(p.format, p.rotated)[2] : p \in items})

firstFreePlacement(b, items, f) ==
  LET spots == {p \in {At(f, c[1], c[2], r) : c \in Edges(items), r \in Orientations(f)} :
                  NoLayoutError(b, items \cup {p}) /\ p \notin items}
  IN IF Cardinality(items) >= MaxItems \/ ~NoLayoutError(b, items) \/ spots = {}
     THEN NoPlace ELSE First[spots]

AreaOf(formats) == Total(DOMAIN formats, LAMBDA i : Area(formats[i]))

FitsBox(b, f) == \E r \in Orientations(f) : Inside(b, At(f, 0, 0, r))

Complete(b, teas, sweets) == Len(teas) = TeaCount[b] /\ Len(sweets) = SweetCount[b]

supportsSimple(b) ==
  TeaCount[b] > 0 /\ SweetCount[b] > 0 /\ TeaCount[b] + SweetCount[b] <= MaxItems

\* simpleSelectionStatus finds nothing: what must hold for the selection to fit.
NoSelectionError(b, teas, sweets) ==
  /\ supportsSimple(b)
  /\ Len(teas) <= TeaCount[b] /\ Len(sweets) <= SweetCount[b]
  /\ \A i \in DOMAIN (teas \o sweets) : FitsBox(b, (teas \o sweets)[i])
  /\ AreaOf(teas \o sweets) <= Width[b] * Height[b]

------------------------------------------------------------------------------
(* The server. *)

Cells(p) ==
  LET side == footprint(p.format, p.rotated) IN
  (p.x .. p.x + side[1] - 1) \X (p.y .. p.y + side[2] - 1)

WeightOf(items) == Total(items, LAMBDA p : Weight[p.format])

validate(b, items) ==
  /\ items # {} /\ Cardinality(items) <= MaxItems
  /\ \A p \in items : /\ p.rotated => p.format \in CanRotate
                      /\ Cells(p) \subseteq (0 .. Width[b] - 1) \X (0 .. Height[b] - 1)
  /\ \A p, q \in items : p # q => Cells(p) \cap Cells(q) = {}
  /\ WeightOf(items) <= MaxWeight[b]

canPlaceSingleItem(b, f) ==
  Weight[f] <= MaxWeight[b] /\ \E r \in Orientations(f) : Inside(b, At(f, 0, 0, r))

NoLayout == {NoPlace}

\* Every place of a piece among the pieces that lie already.
Spots(b, f, placed) ==
  {p \in {At(f, x, y, r) : x \in 0 .. Width[b] - 1, y \in 0 .. Height[b] - 1, r \in Orientations(f)} :
     Inside(b, p) /\ \A q \in placed : Cells(p) \cap Cells(q) = {}}

\* Mutant: the first place is taken and never given up.
ChosenForGood(spots, good) == IF spots = {} THEN {} ELSE {First[spots]}

\* A place from which the rest cannot be laid is given up.
Chosen(spots, good) == good

\* The pieces from the i-th on are laid among those that lie already.
placeRecursively(b, pieces) ==
  LET lay[i \in 1 .. Len(pieces) + 1] ==
        [placed \in SUBSET Places |->
           IF i > Len(pieces) THEN placed
           ELSE LET spots == Spots(b, pieces[i], placed)
                    chosen == Chosen(spots, {p \in spots : lay[i + 1][placed \cup {p}] # NoLayout})
                IN IF chosen = {} THEN NoLayout ELSE lay[i + 1][placed \cup {First[chosen]}]]
  IN lay[1][{}]

\* The larger pieces first, those of one size as they were chosen.
Larger(formats, i, j) ==
  \/ Area(formats[i]) > Area(formats[j])
  \/ Area(formats[i]) = Area(formats[j]) /\ i < j

Ordered(formats) ==
  CHOOSE order \in Bijection(DOMAIN formats, DOMAIN formats) :
    \A i, j \in DOMAIN formats : i < j => Larger(formats, order[i], order[j])

\* The weight is looked at when all of them lie.
autoPlace(b, formats) ==
  LET layout == placeRecursively(b, [i \in DOMAIN formats |-> formats[Ordered(formats)[i]]])
  IN IF layout # NoLayout /\ validate(b, layout) THEN layout ELSE NoLayout

\* What autoPlace finds for every selection that prepareSimple lets pass.
Layouts == [b \in Boxes |-> [formats \in [1 .. TeaCount[b] + SweetCount[b] -> Formats] |->
                               autoPlace(b, formats)]]

\* verifiedSimpleQuote: the layout is of this selection, and good.
Verified(b, formats, layout) ==
  /\ \A f \in Formats : Cardinality({p \in layout : p.format = f})
                        = Cardinality({i \in DOMAIN formats : formats[i] = f})
  /\ NoLayoutError(b, layout)

------------------------------------------------------------------------------
(* Reference: the formats can be laid somehow. *)

PlacesIn(b, f) ==
  {p \in {At(f, x, y, r) : x \in 0 .. Width[b] - 1, y \in 0 .. Height[b] - 1, r \in Orientations(f)} :
     Inside(b, p)}

Packable(b, formats) ==
  \E lay \in [DOMAIN formats -> UNION {PlacesIn(b, formats[i]) : i \in DOMAIN formats}] :
    /\ \A i \in DOMAIN formats : lay[i] \in PlacesIn(b, formats[i])
    /\ \A i, j \in DOMAIN formats : i # j => Cells(lay[i]) \cap Cells(lay[j]) = {}

PackableSelections ==
  [b \in Boxes |-> {formats \in UNION {[1 .. n -> Formats] : n \in 1 .. TeaCount[b] + SweetCount[b]} :
                     Packable(b, formats)}]
===============================================================================
