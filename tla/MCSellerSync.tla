----------------------------- MODULE MCSellerSync -----------------------------
(* One sale of the day, two carts it may hold. *)
EXTENDS SellerSync, TLC

CONSTANTS sale, tea, cups

MCSales == {sale}
MCContents == {tea, cups}
CartSymmetry == Permutations(MCContents)
===============================================================================
