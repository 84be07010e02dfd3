--------------------------- MODULE MCGiftConstructor ---------------------------
(* A square box, and a flat one in which a tin lies only when it is turned and a tube does
   not lie at all; two formats of one product, of which a tube is not turned; and a sweet
   that is not turned either, so that tube and bar have the area of the square box and
   cannot be packed. *)
EXTENDS GiftConstructor

CONSTANTS square, flat, tube, tin, bar, oolong, nougat

MCBoxes == {square, flat}
MCWidth == (square :> 2 @@ flat :> 4)
MCHeight == (square :> 2 @@ flat :> 1)
MCMaxWeight == (square :> 3 @@ flat :> 2)
MCTeaCount == (square :> 1 @@ flat :> 1)
MCSweetCount == (square :> 1 @@ flat :> 1)
MCFormats == {tube, tin, bar}
MCCellsWide == (tube :> 1 @@ tin :> 1 @@ bar :> 2)
MCCellsHigh == (tube :> 2 @@ tin :> 2 @@ bar :> 1)
MCCanRotate == {tin}
MCRole == (tube :> "tea" @@ tin :> "tea" @@ bar :> "sweet")
MCProductOf == (tube :> oolong @@ tin :> oolong @@ bar :> nougat)
MCPortion == (tube :> 1 @@ tin :> 2 @@ bar :> 1)
MCWeight == (tube :> 1 @@ tin :> 2 @@ bar :> 1)
MCStock == (oolong :> 3 @@ nougat :> 1)
===============================================================================
