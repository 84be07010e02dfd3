--------------------------- MODULE CustomerAccount ---------------------------
(***************************************************************************)
(* The account of a tab: AuthProvider with the token and the cached user    *)
(* of the browser's storage, the pages that enter, save the profile and     *)
(* leave, and the wishlist, a store of its own outside React.               *)
(*                                                                         *)
(* Nothing ties an answer of GET /api/user to the token that is stored when *)
(* it comes, and a heart is toggled for the user it was pressed by.  A user *)
(* may leave a page, log out and log in again while it is on its way.       *)
(***************************************************************************)
EXTENDS Naturals, FiniteSets

CONSTANTS
  Users, NoUser, Products,
  Staff,           \* the users whose permissions open a staff section
  Calls,           \* bound: calls in flight at once, 1 .. their number
  MaxClicks, MaxCuts \* bounds: what the user does, calls and deletions that fail

VARIABLES
  valid, favorites,         \* the server: tokens, the wishlist of each user
  token, cache, scoped,     \* storage: auth_token, auth_user_cache, owners of sections' data
  user, loading, starting,  \* AuthProvider; its effect has to run
  route, busy,              \* the page, and its button that is disabled
  wish, wishDue,            \* the wishlist store; its hook has to run
  call,
  clicks, cuts

accountVars == << valid, favorites, token, cache, scoped, user, loading, starting, route, busy,
                  wish, wishDue, call, clicks, cuts >>
storageVars == << token, cache, scoped >>
wishVars == << wish, wishDue >>

AccountAssumption ==
  /\ NoUser \notin Users /\ Staff \subseteq Users
  /\ Calls \subseteq Nat /\ MaxClicks \in Nat /\ MaxCuts \in Nat

NoToken == [of |-> NoUser, n |-> 0]

NoWish == [owner |-> NoUser, products |-> {}, pending |-> {}, loading |-> FALSE, loaded |-> TRUE,
           generation |-> 0]

Free == [kind |-> "free", of |-> NoUser, token |-> NoToken, state |-> "none", ans |-> {},
         clearUnknown |-> FALSE, p |-> {}, add |-> FALSE, generation |-> 0, own |-> FALSE]

Click == clicks < MaxClicks /\ clicks' = clicks + 1

\* A new call takes the first that is free and the token stored now.
Send(s, calls, c) ==
  /\ calls[s].kind = "free" /\ \A r \in Calls : r < s => calls[r].kind # "free"
  /\ call' = [calls EXCEPT ![s] = [c EXCEPT !.state = "sent"]]

Settled(c) == c.state \in {"done", "refused", "lost"}

Ended(s) == call' = [call EXCEPT ![s] = Free]

------------------------------------------------------------------------------
(* AuthProvider. *)

SetUser(u) == user' = u /\ wishDue' = (wishDue \/ u # user)

\* fetchUser of the mounted provider; without a token nobody is asked.
mount(s) ==
  /\ starting /\ starting' = FALSE
  /\ IF token = NoToken
     THEN SetUser(NoUser) /\ loading' = FALSE /\ UNCHANGED call
     ELSE /\ Send(s, call, [Free EXCEPT !.kind = "user", !.token = token])
          /\ UNCHANGED << user, loading, wishDue >>
  /\ UNCHANGED << valid, favorites, storageVars, route, busy, wish, clicks, cuts >>

\* acceptUser: what another user, or nobody known, has left is cleared first.
MustClear(c) == \/ cache # NoUser /\ cache # c.of
                \/ cache = NoUser /\ c.clearUnknown

AcceptUser(s, c) ==
  /\ cache' = c.of /\ SetUser(c.of) /\ loading' = FALSE
  /\ Ended(s)
  /\ UNCHANGED << token, scoped >>

\* Mutants: who was shown stays when the answer fails; loading does not end then.
UserKept(gone) == IF gone THEN NoUser ELSE user

LoadingKept(c) == loading

UserAfter(gone) == IF gone THEN NoUser ELSE cache

LoadingAfter(c) == FALSE

\* The catch of fetchUser and of login: after a 401, and after any failure of login, nobody
\* is shown and the token is gone; otherwise the cached user is shown.
Caught(s, gone) ==
  /\ token' = IF gone THEN NoToken ELSE token
  /\ SetUser(UserAfter(gone))
  /\ loading' = LoadingAfter(call[s])
  /\ Ended(s) /\ UNCHANGED << cache, scoped >>

\* The answer of GET /api/user, for fetchUser ("user") and login ("enter").
receiveUser(s) ==
  LET c == call[s] IN
  /\ c.kind \in {"user", "enter"} /\ Settled(c)
  /\ IF c.state = "done"
     THEN IF MustClear(c)
          THEN /\ call' = [call EXCEPT ![s].state = "clearing"]
               /\ UNCHANGED << storageVars, user, loading, wishDue >>
          ELSE AcceptUser(s, c)
     ELSE Caught(s, c.state = "refused" \/ c.kind = "enter")
  /\ busy' = (busy /\ ~(c.own /\ call'[s] = Free))
  /\ UNCHANGED << valid, favorites, route, wish, clicks, cuts, starting >>

\* clearUserScopedState: the sections' data and the cached user, then the caches.
clearScoped(s) ==
  /\ call[s].state = "clearing"
  /\ scoped' = {} /\ cache' = NoUser
  /\ call' = [call EXCEPT ![s].state = "cleared"]
  /\ UNCHANGED << valid, favorites, token, user, loading, route, busy, wishVars, clicks, cuts, starting >>

cleared(s) ==
  LET c == call[s] IN
  /\ c.state = "cleared" /\ c.kind # "leave"
  /\ AcceptUser(s, c)
  /\ busy' = (busy /\ ~c.own)
  /\ UNCHANGED << valid, favorites, route, wish, clicks, cuts, starting >>

\* The end of logout.
LogOut(s) == token' = NoToken /\ SetUser(NoUser) /\ Ended(s) /\ UNCHANGED << cache, scoped, loading >>

loggedOut(s) ==
  /\ call[s].state = "cleared" /\ call[s].kind = "leave"
  /\ LogOut(s)
  /\ UNCHANGED << valid, favorites, route, busy, wish, clicks, cuts, starting >>

\* The database of the device cannot be emptied, and nothing else is; or, after the rest,
\* the caches cannot be deleted.  A logout is carried out all the same.
clearFails(s) ==
  LET c == call[s] IN
  /\ c.state \in {"clearing", "cleared"} /\ cuts < MaxCuts /\ cuts' = cuts + 1
  /\ IF c.kind = "leave" THEN LogOut(s) ELSE Caught(s, c.kind = "enter")
  /\ busy' = (busy /\ ~c.own)
  /\ UNCHANGED << valid, favorites, route, wish, clicks, starting >>

------------------------------------------------------------------------------
(* The pages. *)

\* LoginPage, and RegisterPage with a new account: the token comes first.
handleSubmit(s, u) ==
  /\ route = "login" /\ ~busy /\ Click
  /\ Send(s, call, [Free EXCEPT !.kind = "token", !.of = u, !.own = TRUE])
  /\ busy' = TRUE
  /\ UNCHANGED << valid, favorites, storageVars, user, loading, route, wishVars, cuts, starting >>

\* login: the new token is stored and the user asked for with it.
receiveToken(s) ==
  LET c == call[s] IN
  /\ c.kind = "token" /\ Settled(c)
  /\ IF c.state = "done"
     THEN /\ token' = c.token /\ loading' = TRUE
          /\ call' = [call EXCEPT ![s] = [c EXCEPT !.kind = "enter", !.state = "sent",
                        !.clearUnknown = token = NoToken /\ cache = NoUser]]
          /\ UNCHANGED busy
     ELSE /\ busy' = (busy /\ ~c.own)
          /\ Ended(s) /\ UNCHANGED << token, loading >>
  /\ UNCHANGED << valid, favorites, cache, scoped, user, route, wishVars, clicks, cuts, starting >>

\* The profile is saved, then the user is fetched again (refreshUser).
handleSaveChanges(s) ==
  /\ route = "profile" /\ user # NoUser /\ ~loading /\ ~busy /\ Click
  /\ Send(s, call, [Free EXCEPT !.kind = "save", !.token = token, !.own = TRUE])
  /\ busy' = TRUE
  /\ UNCHANGED << valid, favorites, storageVars, user, loading, route, wishVars, cuts, starting >>

receiveSave(s) ==
  LET c == call[s] IN
  /\ c.kind = "save" /\ Settled(c)
  /\ IF c.state = "done" /\ token # NoToken
     THEN /\ call' = [call EXCEPT ![s] = [Free EXCEPT !.kind = "user", !.token = token,
                                                      !.state = "sent", !.own = c.own]]
          /\ UNCHANGED << busy, user, wishDue, loading >>
     ELSE /\ busy' = (busy /\ ~c.own) /\ Ended(s)
          /\ IF c.state = "done" THEN SetUser(NoUser) /\ loading' = FALSE
             ELSE UNCHANGED << user, wishDue, loading >>
  /\ UNCHANGED << valid, favorites, storageVars, route, wish, clicks, cuts, starting >>

\* The button of the header and of the profile, which are not shown while loading.
logout(s) ==
  /\ route \in {"catalog", "profile"} /\ user # NoUser /\ ~loading /\ Click
  /\ Send(s, call, [Free EXCEPT !.kind = "leave", !.token = token])
  /\ UNCHANGED << valid, favorites, storageVars, user, loading, route, busy, wishVars, cuts, starting >>

\* Whatever the server says, the storage is cleared.
receiveLogout(s) ==
  /\ call[s].kind = "leave" /\ Settled(call[s])
  /\ call' = [call EXCEPT ![s].state = "clearing"]
  /\ UNCHANGED << valid, favorites, storageVars, user, loading, route, busy, wishVars, clicks, cuts, starting >>

\* RequirePermission lets a user into a staff section.  A page that is left takes its
\* disabled button with it; its calls go on.
goTo(place) ==
  /\ place # route /\ Click
  /\ place = "staff" => user \in Staff /\ ~loading
  /\ route' = place /\ busy' = FALSE /\ wishDue' = TRUE
  /\ call' = [s \in Calls |-> [call[s] EXCEPT !.own = FALSE]]
  /\ UNCHANGED << valid, favorites, storageVars, user, loading, wish, cuts, starting >>

\* The section keeps its data on the device while its user is shown.
sectionWrites ==
  /\ route = "staff" /\ user \in Staff /\ ~loading
  /\ user \notin scoped
  /\ scoped' = scoped \cup {user}
  /\ UNCHANGED << valid, favorites, token, cache, user, loading, route, busy, wishVars, call,
                  clicks, cuts, starting >>

\* The tab is loaded anew.
reload ==
  /\ Click
  /\ user' = NoUser /\ loading' = TRUE /\ starting' = TRUE /\ busy' = FALSE
  /\ wish' = NoWish /\ wishDue' = TRUE
  /\ call' = [s \in Calls |-> Free]
  /\ UNCHANGED << valid, favorites, storageVars, route, cuts >>

------------------------------------------------------------------------------
(* The wishlist. *)

ResetFor(w, u) == [NoWish EXCEPT !.owner = u, !.loaded = u = NoUser,
                                 !.generation = w.generation + 1]

OwnedBy(u) == IF wish.owner = u THEN wish ELSE ResetFor(wish, u)

\* load, unless it is loaded or under way.
Load(s, calls, w, u) ==
  /\ Send(s, calls, [Free EXCEPT !.kind = "list", !.of = u, !.token = token,
                                 !.generation = w.generation + 1])
  /\ wish' = [w EXCEPT !.loading = TRUE, !.generation = @ + 1]

\* The effect of the hook.
useWishlist(s) ==
  LET w == OwnedBy(user) IN
  /\ wishDue /\ wishDue' = FALSE
  /\ IF user = NoUser \/ w.loading \/ w.loaded THEN wish' = w /\ UNCHANGED call
     ELSE Load(s, call, w, user)
  /\ UNCHANGED << valid, favorites, storageVars, user, loading, route, busy, clicks, cuts, starting >>

receiveList(s) ==
  LET c == call[s] IN
  /\ c.kind = "list" /\ Settled(c)
  /\ wish' = IF c.generation # wish.generation \/ wish.owner # c.of THEN wish
             ELSE [wish EXCEPT !.products = IF c.state = "done" THEN c.ans ELSE @,
                               !.loading = FALSE, !.loaded = TRUE]
  /\ Ended(s)
  /\ UNCHANGED << valid, favorites, storageVars, user, loading, route, busy, wishDue, clicks, cuts, starting >>

\* The heart of a card; it is disabled while it is pending or the list is not loaded.
toggle(s, p) ==
  LET w == OwnedBy(user) IN
  /\ route \in {"catalog", "profile"} /\ user # NoUser /\ wish.loaded /\ p \notin wish.pending
  /\ Click
  /\ Send(s, call, [Free EXCEPT !.kind = "heart", !.of = user, !.token = token, !.p = {p},
                                !.add = p \notin w.products])
  /\ wish' = [w EXCEPT !.pending = @ \cup {p}]
  /\ UNCHANGED << valid, favorites, storageVars, user, loading, route, busy, wishDue, cuts, starting >>

PendingAfter(c) == wish.pending \ c.p

\* What is stored belongs to whoever the store is of by now; after an addition the
\* list of the user who pressed is asked for.
receiveToggle(s) ==
  LET c == call[s]
      stored == IF c.state # "done" THEN [wish EXCEPT !.pending = PendingAfter(c)]
                ELSE [wish EXCEPT !.pending = PendingAfter(c),
                                  !.products = IF c.add THEN @ \cup c.p ELSE @ \ c.p] IN
  /\ c.kind = "heart" /\ Settled(c)
  /\ IF c.add /\ c.state = "done"
     THEN LET w == IF stored.owner = c.of THEN stored ELSE ResetFor(stored, c.of) IN
          /\ call' = [call EXCEPT ![s] = [Free EXCEPT !.kind = "list", !.of = c.of, !.token = token,
                                            !.generation = w.generation + 1, !.state = "sent"]]
          /\ wish' = [w EXCEPT !.loading = TRUE, !.generation = @ + 1]
     ELSE wish' = stored /\ Ended(s)
  /\ UNCHANGED << valid, favorites, storageVars, user, loading, route, busy, wishDue, clicks, cuts, starting >>

------------------------------------------------------------------------------
(* The server and the network. *)

\* A token that was revoked, or none, is refused with a 401.
Known(c) == c.token \in valid

answer(s) ==
  LET c == call[s] u == c.token.of IN
  /\ c.state = "sent"
  /\ IF c.kind = "token"
     THEN LET t == [of |-> c.of, n |-> clicks] IN
          /\ valid' = valid \cup {t} /\ UNCHANGED favorites
          /\ call' = [call EXCEPT ![s].state = "done", ![s].token = t]
     ELSE IF ~Known(c)
     THEN call' = [call EXCEPT ![s].state = "refused"] /\ UNCHANGED << valid, favorites >>
     ELSE /\ valid' = IF c.kind = "leave" THEN valid \ {c.token} ELSE valid
          /\ favorites' = IF c.kind # "heart" THEN favorites
                          ELSE [favorites EXCEPT ![u] = IF c.add THEN @ \cup c.p ELSE @ \ c.p]
          /\ call' = [call EXCEPT ![s].state = "done",
                                  ![s].of = IF c.kind \in {"user", "enter"} THEN u ELSE c.of,
                                  ![s].ans = IF c.kind = "list" THEN favorites[u] ELSE {}]
  /\ UNCHANGED << storageVars, user, loading, route, busy, wishVars, clicks, cuts, starting >>

\* A password that is wrong, or an answer that does not come.
cutOff(s) ==
  /\ call[s].state \in {"sent", "done"} /\ cuts < MaxCuts /\ cuts' = cuts + 1
  /\ call' = [call EXCEPT ![s].state = "lost"]
  /\ UNCHANGED << valid, favorites, storageVars, user, loading, route, busy, wishVars, clicks, starting >>

------------------------------------------------------------------------------
AccountInit ==
  /\ \E u \in Staff \cup {NoUser} :
       /\ token = (IF u = NoUser THEN NoToken ELSE [of |-> u, n |-> 0])
       /\ valid \in SUBSET ({token} \ {NoToken})
       /\ cache = u /\ scoped = {u} \cap Staff
  /\ favorites = [u \in Users |-> {}]
  /\ user = NoUser /\ loading = TRUE /\ starting = TRUE /\ busy = FALSE
  /\ route = "profile"
  /\ wish = NoWish /\ wishDue = TRUE
  /\ call = [s \in Calls |-> Free] /\ clicks = 0 /\ cuts = 0

Applied(s) == \/ receiveUser(s) \/ clearScoped(s) \/ cleared(s) \/ loggedOut(s) \/ receiveToken(s)
              \/ receiveSave(s) \/ receiveLogout(s) \/ receiveList(s) \/ receiveToggle(s)

AccountNext ==
  \/ \E s \in Calls :
       \/ mount(s) \/ Applied(s) \/ answer(s) \/ cutOff(s) \/ clearFails(s) \/ useWishlist(s)
       \/ handleSaveChanges(s) \/ logout(s)
       \/ \E u \in Users : handleSubmit(s, u)
       \/ \E p \in Products : toggle(s, p)
  \/ \E place \in {"login", "profile", "catalog", "staff"} : goTo(place)
  \/ sectionWrites \/ reload

\* Calls are answered and what settles is applied; the provider's effect runs.
AccountFairness ==
  /\ \A s \in Calls : WF_accountVars(answer(s)) /\ WF_accountVars(Applied(s))
  /\ WF_accountVars(\E s \in Calls : mount(s))

AccountSpec == AccountInit /\ [][AccountNext]_accountVars /\ AccountFairness

------------------------------------------------------------------------------
(* Properties. *)

\* Who is shown is who a tab without a network would show when it is loaded anew (AuthContext,
\* readCachedUser), but for the time that the data of a user are being cleared: answers of
\* two users that cross, a logout between them and a clearing that fails leave no other.
ShownIsCached ==
  user # NoUser => cache = user \/ \E s \in Calls : call[s].state = "cleared"

\* AuthContext.tsx:71-72 says that the data kept on the device are deleted by a logout and by
\* a change of the account: whoever comes to be shown would find none that somebody has left
\* who is not shown any more.
OwnDataOnly ==
  [][user' \notin {user, NoUser} => scoped' \subseteq {user', user}]_accountVars

\* Hearts are disabled only for a toggle that is under way.
HeartsAreReal ==
  \A p \in wish.pending : \E s \in Calls : call[s].kind = "heart" /\ p \in call[s].p

\* The start of the tab and a login, however they fail, end.
LoadingEnds == loading ~> ~loading

\* The same comment says that the data kept of a user are deleted by a logout: once
\* the token is gone no user is put into the cache.
LogoutHolds == [][token' = NoToken => cache' \in {cache, NoUser}]_accountVars
===============================================================================
