------------------------------ MODULE CustomerTab ------------------------------
(***************************************************************************)
(* A tab of a customer: the pages of the shop, or those of the account,     *)
(* with the contexts they use; the address decides which are open.  The     *)
(* shop is looked at for one user who stays: CustomerCartProvider begins    *)
(* anew with each other user, and forgets the answers of the one before.    *)
(***************************************************************************)
EXTENDS CustomerShop

CONSTANTS Users, NoUser, Staff, Calls, MaxClicks, MaxCuts

VARIABLES
  section,
  valid, favorites, token, cache, scoped, user, entering, starting, screen, busy, wish, wishDue,
  call, clicks, cuts

Account == INSTANCE CustomerAccount WITH loading <- entering, route <- screen

accountVars == << valid, favorites, token, cache, scoped, user, entering, starting, screen, busy,
                  wish, wishDue, call, clicks, cuts >>
tabVars == << section, shopVars, accountVars >>

ASSUME TabAssumption == Account!AccountAssumption

TabInit ==
  /\ section \in {"shop", "account"}
  /\ ShopInit /\ (section = "account" => cart = {})
  /\ Account!AccountInit /\ (section = "shop" => token = Account!NoToken)

InShop == section = "shop" /\ UNCHANGED << section, accountVars >>
InAccount == section = "account" /\ UNCHANGED << section, shopVars >>

TabNext ==
  \/ InShop /\ ShopNext
  \/ InAccount /\ Account!AccountNext

\* The fairness of the shop (ShopFairness) while it is open.
TabFairness ==
  /\ \A s \in Wires : /\ WF_shopVars(section = "shop" /\ Served(s))
                      /\ WF_shopVars(section = "shop" /\ Applied(s))
  /\ WF_shopVars(section = "shop" /\ \E s \in Wires : fetchCart(s))
  /\ WF_shopVars(section = "shop" /\ \E s \in Wires : askMethods(s))
  /\ WF_shopVars(section = "shop" /\ \E s \in Wires : askQuote(s))

TabSpec == TabInit /\ [][TabNext]_tabVars /\ TabFairness

------------------------------------------------------------------------------
(* Properties of the sections; each is stated in its module. *)

\* Who is shown is who is cached, unless data are being cleared.
ShownIsCached == Account!ShownIsCached

\* A customer who waits gets the total of what is selected, or an error.
TotalComes == section = "shop" => QuoteSettles
===============================================================================
