--------------------------- MODULE CourierApp_proofs ---------------------------
(***************************************************************************)
(* A tap sends one command: the buttons of a delivery are disabled exactly *)
(* while one POST for it is under way (CourierApp).                        *)
(***************************************************************************)
EXTENDS CourierApp, FiniteSetTheorems, TLAPS

\* A call has a purpose and a delivery, among its other fields.
IsCall(c) == {"what", "d"} \subseteq DOMAIN c

\* The call s posts for the delivery d.
Posts(s, d) == sent[s].what = "post" /\ sent[s].d = d

\* The buttons of a delivery are disabled exactly when a call posts for it, and two
\* calls never post for the same one.
Paired ==
  /\ \A d \in All : Pending(d) <=> \E s \in Lines : Posts(s, d)
  /\ \A s, r \in Lines : sent[s].what = "post" /\ Posts(r, sent[s].d) => s = r

\* Calls and buttons are what they look like, and a post is for a delivery.
CallsAreCalls ==
  /\ sent = [s \in Lines |-> sent[s]]
  /\ commands = [d \in All |-> commands[d]]
  /\ \A s \in Lines : IsCall(sent[s]) /\ (sent[s].what = "post" => sent[s].d \in All)

\* A dialog belongs to the page of a delivery.
PageIsOfDelivery ==
  /\ "op" \in DOMAIN dialog /\ "id" \in DOMAIN detail
  /\ dialog.op # "none" => OnDetail
  /\ OnDetail => detail.id \in All

\* The inductive invariant.
CourierInv == CallsAreCalls /\ PageIsOfDelivery /\ Paired

\* The calls that post, and what they post for, are as they were.
SamePosts ==
  /\ sent' = [s \in Lines |-> sent'[s]]
  /\ \A s \in Lines : /\ IsCall(sent'[s])
                      /\ sent'[s].what = "post" <=> sent[s].what = "post"
                      /\ sent[s].what = "post" => sent'[s].d = sent[s].d

\* A step that posts nothing, settles no POST and leaves the buttons keeps the pairing.
LEMMA PostsKept == ASSUME CourierInv, SamePosts, UNCHANGED commands
                   PROVE  CallsAreCalls' /\ Paired'
  BY DEF CourierInv, CallsAreCalls, SamePosts, Paired, Posts, Pending

\* A call that is no post is put in the place of one that is none.
LEMMA PutKept ==
  ASSUME CourierInv, NEW s \in Lines, NEW c, Put(s, c), IsCall(c), c.what # "post"
  PROVE  SamePosts
  BY DEF CourierInv, CallsAreCalls, SamePosts, Put

\* A page that is left forgets its calls, but posts go on.
LEMMA DisownedKept == ASSUME CourierInv, sent' = Disowned PROVE SamePosts
  BY DEF CourierInv, CallsAreCalls, SamePosts, Disowned, IsCall

\* When nothing is sent, posts stay.
LEMMA NothingSent == ASSUME CourierInv, UNCHANGED sent PROVE SamePosts
  BY DEF CourierInv, CallsAreCalls, SamePosts

\* A list is asked for by a call of its own.
LEMMA ListAsked ==
  ASSUME CourierInv, NEW s \in Lines, NEW key, NEW scope, NEW page, NEW own, NEW again,
         RefreshList(s, key, scope, page, own, again)
  PROVE  SamePosts
  <1> DEFINE c == [Idle EXCEPT !.what = "list", !.key = key, !.scope = scope, !.page = page,
                               !.own = own, !.again = again]
  <1>1. IsCall(c) /\ c.what = "list"
    BY DEF IsCall, Idle
  <1>2. Put(s, c)
    BY DEF RefreshList
  <1> QED
    BY <1>1, <1>2, PutKept

\* A POST begins for a delivery whose buttons were enabled.
LEMMA PostBegins ==
  ASSUME CourierInv, NEW s \in Lines, NEW d \in All, NEW op, ~Pending(d), Post(s, d, op)
  PROVE  CallsAreCalls' /\ Paired'
  <1> DEFINE c == [Idle EXCEPT !.what = "post", !.d = d, !.op = op, !.scope = place]
  <1>1. IsCall(c) /\ c.what = "post" /\ c.d = d
    BY DEF IsCall, Idle
  <1>2. Put(s, c) /\ commands' = [commands EXCEPT ![d] = "pending"]
    BY DEF Post
  <1> HIDE DEF c
  <1>3. CallsAreCalls'
    BY <1>1, <1>2 DEF CourierInv, CallsAreCalls, Put
  <1>4. sent'[s] = c /\ \A r \in Lines \ {s} : sent'[r] = sent[r]
    BY <1>2 DEF CourierInv, CallsAreCalls, Put
  <1>5. \A e \in All : Pending(e)' <=> \E r \in Lines : Posts(r, e)'
    <2> SUFFICES ASSUME NEW e \in All PROVE Pending(e)' <=> \E r \in Lines : Posts(r, e)'
      OBVIOUS
    <2>1. CASE e = d
      BY <1>1, <1>2, <1>4, <2>1 DEF CourierInv, CallsAreCalls, Posts, Pending
    <2>2. CASE e # d
      <3>1. Pending(e)' <=> Pending(e)
        BY <1>2, <2>2 DEF CourierInv, CallsAreCalls, Pending
      <3>2. \A r \in Lines : Posts(r, e)' <=> Posts(r, e)
        BY <1>1, <1>2, <1>4, <2>2 DEF Posts, Put
      <3> QED
        BY <3>1, <3>2 DEF CourierInv, Paired
    <2> QED
      BY <2>1, <2>2
  <1>6. ~\E r \in Lines : Posts(r, d)
    BY DEF CourierInv, Paired
  <1>7. \A q, r \in Lines : sent'[q].what = "post" /\ Posts(r, sent[q].d)' => q = r
    <2> SUFFICES ASSUME NEW q \in Lines, NEW r \in Lines, sent'[q].what = "post",
                        sent'[r].what = "post", sent'[r].d = sent'[q].d
                 PROVE  q = r
      BY DEF Posts
    <2>1. CASE q = s \/ r = s
      BY <1>1, <1>4, <1>6, <2>1 DEF Posts
    <2>2. CASE q # s /\ r # s
      BY <1>4, <2>2 DEF CourierInv, Paired, Posts
    <2> QED
      BY <2>1, <2>2
  <1> QED
    BY <1>3, <1>5, <1>7 DEF Paired

\* A POST is over: its call posts no more and its buttons come back.
LEMMA PostSettles ==
  ASSUME CourierInv, NEW s \in Lines, sent[s].what = "post", NEW v, v # "pending",
         commands' = [commands EXCEPT ![sent[s].d] = v],
         sent' = [r \in Lines |-> sent'[r]],
         \A r \in Lines : IsCall(sent'[r]),
         sent'[s].what # "post",
         \A r \in Lines \ {s} : /\ sent'[r].what = "post" <=> sent[r].what = "post"
                                /\ sent[r].what = "post" => sent'[r].d = sent[r].d
  PROVE  CallsAreCalls' /\ Paired'
  BY DEF CourierInv, CallsAreCalls, Paired, Posts, Pending

------------------------------------------------------------------------------
(* The lists and the page of a delivery. *)

\* Asking for lists posts nothing.
LEMMA ListsKeepPosts ==
  ASSUME CourierInv, NEW s \in Lines,
         poll(s) \/ refresh(s) \/ loadNextPage(s) \/ reconcile(s)
  PROVE  CourierInv'
  <1>1. /\ SamePosts
        /\ UNCHANGED << commands, route, detail, dialog >>
    BY ListAsked DEF poll, refresh, loadNextPage, reconcile
  <1> QED
    BY <1>1, PostsKept DEF CourierInv, PageIsOfDelivery, OnDetail

\* A list comes.
LEMMA ListReceived == ASSUME CourierInv, NEW s \in Lines, receiveList(s) PROVE CourierInv'
  <1>1. sent' = [r \in Lines |-> IF r = s THEN Idle
                                 ELSE IF sent[r].what = "get" THEN [sent[r] EXCEPT !.own = FALSE]
                                 ELSE sent[r]]
        /\ sent[s].what = "list" /\ HookRuns(entries') /\ UNCHANGED << commands, route, dialog >>
    BY DEF receiveList
  <1>2. SamePosts
    BY <1>1 DEF CourierInv, CallsAreCalls, SamePosts, IsCall, Idle
  <1>3. PageIsOfDelivery'
    BY <1>1 DEF CourierInv, PageIsOfDelivery, OnDetail, HookRuns
  <1> QED
    BY <1>1, <1>2, <1>3, PostsKept DEF CourierInv

\* The page of a delivery asks for it.
LEMMA DeliveryAsked == ASSUME CourierInv, NEW s \in Lines, askDelivery(s) PROVE CourierInv'
  <1> DEFINE c == [Idle EXCEPT !.what = "get", !.d = detail.id, !.own = TRUE]
  <1>1. IsCall(c) /\ c.what = "get"
    BY DEF IsCall, Idle
  <1>2. Put(s, c) /\ detail' = [detail EXCEPT !.ask = FALSE, !.loading = TRUE]
        /\ UNCHANGED << commands, route, dialog >>
    BY DEF askDelivery
  <1> HIDE DEF c
  <1>3. SamePosts
    BY <1>1, <1>2, PutKept
  <1>4. PageIsOfDelivery'
    BY <1>2 DEF CourierInv, PageIsOfDelivery, OnDetail
  <1> QED
    BY <1>2, <1>3, <1>4, PostsKept DEF CourierInv

\* The delivery of a page comes.
LEMMA DeliveryReceived == ASSUME CourierInv, NEW s \in Lines, receiveDelivery(s) PROVE CourierInv'
  <1>1. /\ sent' = [r \in Lines |-> IF r = s THEN Idle
                     ELSE IF sent[s].ok /\ sent[r].what = "get" THEN [sent[r] EXCEPT !.own = FALSE]
                     ELSE sent[r]]
        /\ sent[s].what = "get" /\ UNCHANGED << commands, route, dialog >>
        /\ \/ detail' = [detail EXCEPT !.loading = FALSE, !.error = @ \/ ~sent[s].ok]
           \/ detail' = [detail EXCEPT !.ask = TRUE]
           \/ detail' = detail
    BY DEF receiveDelivery
  <1>2. SamePosts
    BY <1>1 DEF CourierInv, CallsAreCalls, SamePosts, IsCall, Idle
  <1>3. PageIsOfDelivery'
    BY <1>1 DEF CourierInv, PageIsOfDelivery, OnDetail
  <1> QED
    BY <1>1, <1>2, <1>3, PostsKept DEF CourierInv

------------------------------------------------------------------------------
(* The commands. *)

\* A claim posts, from a button that is enabled.
LEMMA Claimed == ASSUME CourierInv, NEW s \in Lines, NEW d \in All, claim(s, d) PROVE CourierInv'
  <1>1. PageIsOfDelivery'
    BY DEF claim, CourierInv, PageIsOfDelivery, OnDetail
  <1>2. CASE net
    BY <1>1, <1>2, PostBegins DEF claim, CourierInv
  <1>3. CASE ~net
    BY <1>1, <1>3 DEF claim, CourierInv, CallsAreCalls, Paired, Posts, Pending
  <1> QED
    BY <1>2, <1>3

\* ... and so does a dialog that is confirmed.
LEMMA Confirmed == ASSUME CourierInv, NEW s \in Lines, confirm(s) PROVE CourierInv'
  <1>1. PageIsOfDelivery' /\ detail.id \in All
    BY DEF confirm, CourierInv, PageIsOfDelivery, OnDetail
  <1> QED
    BY <1>1, PostBegins DEF confirm, CourierInv

\* The answer to a post enables the buttons again.
LEMMA PostReceived == ASSUME CourierInv, NEW s \in Lines, receivePost(s) PROVE CourierInv'
  <1> DEFINE c == sent[s]
             asks == [Idle EXCEPT !.what = "get", !.d = c.d]
  <1>1. /\ c.what = "post" /\ UNCHANGED route
        /\ commands' = [commands EXCEPT ![c.d] = IF c.ok THEN "none" ELSE "error"]
    BY DEF receivePost
  <1>2. CASE c.ok
    <2>1. /\ sent' = [r \in Lines |-> IF r = s THEN Idle
                        ELSE IF sent[r].what = "get" THEN [sent[r] EXCEPT !.own = FALSE] ELSE sent[r]]
          /\ dialog' = [dialog EXCEPT !.closing = OnDetail /\ c.op # "claim"]
          /\ HookRuns(entries')
      BY <1>2 DEF receivePost
    <2>2. CallsAreCalls' /\ Paired'
      BY <1>1, <1>2, <2>1, PostSettles DEF CourierInv, CallsAreCalls, IsCall, Idle
    <2>3. PageIsOfDelivery'
      BY <1>1, <2>1 DEF CourierInv, PageIsOfDelivery, OnDetail, HookRuns
    <2> QED
      BY <2>2, <2>3 DEF CourierInv
  <1>3. CASE ~c.ok
    <2>1. IsCall(asks) /\ asks.what = "get"
      BY DEF IsCall, Idle
    <2>2. sent' = [sent EXCEPT ![s] = asks] /\ UNCHANGED << dialog, detail >>
      BY <1>3 DEF receivePost
    <2> HIDE DEF asks
    <2>3. CallsAreCalls' /\ Paired'
      BY <1>1, <1>3, <2>1, <2>2, PostSettles DEF CourierInv, CallsAreCalls
    <2> QED
      BY <1>1, <2>2, <2>3 DEF CourierInv, PageIsOfDelivery, OnDetail
  <1> QED
    BY <1>2, <1>3

\* ... and so does its failure.
LEMMA CallFails == ASSUME CourierInv, NEW s \in Lines, fail(s) PROVE CourierInv'
  <1> DEFINE c == sent[s]
             left == IF c.what = "post" /\ ~c.got
                     THEN [Idle EXCEPT !.what = "ghost", !.d = c.d, !.op = c.op] ELSE Idle
  <1>1. /\ sent' = [sent EXCEPT ![s] = left] /\ UNCHANGED << route, dialog >>
        /\ commands' = IF c.what = "post" THEN [commands EXCEPT ![c.d] = "error"] ELSE commands
        /\ detail' = detail \/ detail' = [detail EXCEPT !.loading = FALSE, !.error = TRUE]
    BY DEF fail
  <1>2. IsCall(left) /\ left.what # "post"
    BY DEF IsCall, Idle
  <1> HIDE DEF left
  <1>3. PageIsOfDelivery'
    BY <1>1 DEF CourierInv, PageIsOfDelivery, OnDetail
  <1>4. CASE c.what = "post"
    <2>1. CallsAreCalls' /\ Paired'
      BY <1>1, <1>2, <1>4, PostSettles DEF CourierInv, CallsAreCalls
    <2> QED
      BY <1>3, <2>1 DEF CourierInv
  <1>5. CASE c.what # "post"
    <2>1. SamePosts
      BY <1>1, <1>2, <1>5 DEF CourierInv, CallsAreCalls, SamePosts
    <2> QED
      BY <1>1, <1>3, <1>5, <2>1, PostsKept DEF CourierInv
  <1> QED
    BY <1>4, <1>5

------------------------------------------------------------------------------
(* The server, the network and the courier. *)

\* The server handles calls; what they are for stays.
LEMMA ServerAnswers == ASSUME CourierInv, NEW s \in Lines, Served(s) PROVE CourierInv'
  <1>1. UNCHANGED << commands, route, detail, dialog >>
    BY DEF Served, answerList, answerDelivery, answerPost, serverUntouched
  <1>2. SamePosts
    <2>1. CASE answerList(s)
      BY <2>1 DEF answerList, CourierInv, CallsAreCalls, SamePosts, IsCall
    <2>2. CASE answerDelivery(s)
      BY <2>2 DEF answerDelivery, CourierInv, CallsAreCalls, SamePosts, IsCall
    <2>3. CASE answerPost(s)
      <3> DEFINE c == sent[s]
      <3>1. c.what = "ghost" \/ c.what = "post"
        BY <2>3 DEF answerPost
      <3>2. CASE c.what = "ghost"
        <4>1. sent' = [sent EXCEPT ![s] = Idle]
          BY <2>3, <3>2 DEF answerPost
        <4> QED
          BY <3>2, <4>1 DEF CourierInv, CallsAreCalls, SamePosts, IsCall, Idle
      <3>3. CASE c.what = "post"
        <4>1. PICK o, b : sent' = [sent EXCEPT ![s] = [c EXCEPT !.got = TRUE, !.ok = o, !.brought = b]]
          BY <2>3, <3>3 DEF answerPost
        <4> QED
          BY <4>1 DEF CourierInv, CallsAreCalls, SamePosts, IsCall
      <3> QED
        BY <3>1, <3>2, <3>3
    <2> QED
      BY <2>1, <2>2, <2>3 DEF Served
  <1> QED
    BY <1>1, <1>2, PostsKept DEF CourierInv, PageIsOfDelivery, OnDetail

\* The network goes and comes.
LEMMA NetworkKeepsPosts == ASSUME CourierInv, goOffline \/ goOnline PROVE CourierInv'
  <1>1. UNCHANGED << commands, route, detail, dialog >>
    BY ZenonT(60) DEF goOffline, goOnline
  <1>2. SamePosts
    <2>1. CASE goOffline
      BY <2>1 DEF goOffline, StopTimers, CourierInv, CallsAreCalls, SamePosts, IsCall
    <2>2. CASE goOnline
      BY <2>2, NothingSent DEF goOnline
    <2> QED
      BY SMTT(30), <2>1, <2>2
  <1> QED
    BY <1>1, <1>2, PostsKept DEF CourierInv, PageIsOfDelivery, OnDetail

\* The menu, a card and the dialogs: they open and close pages and send nothing.
LEMMA PagesKeepPosts ==
  ASSUME CourierInv,
         \/ \E key \in Keys : goTo(key)
         \/ \E d \in All : openDelivery(d) \/ Others(d)
         \/ \E op \in DOMAIN From : openDialog(op)
         \/ closeDialog \/ dialogCloses
         \/ \E f \in Places : setWarehouseId(f)
         \/ \E f \in Kinds : changeKind(f)
  PROVE  CourierInv'
  <1>1. UNCHANGED commands /\ (UNCHANGED sent \/ sent' = Disowned)
    BY DEF goTo, openDelivery, Others, openDialog, closeDialog, dialogCloses, setWarehouseId,
           changeKind
  <1>2. SamePosts
    BY <1>1, NothingSent, DisownedKept
  <1>3. PageIsOfDelivery'
    <2>1. ASSUME NEW key \in Keys, goTo(key) PROVE PageIsOfDelivery'
      BY <2>1 DEF goTo, PageIsOfDelivery, OnDetail, Keys, NoDetail, NoDialog
    <2>2. ASSUME NEW d \in All, openDelivery(d) PROVE PageIsOfDelivery'
      BY <2>2 DEF CourierInv, openDelivery, PageIsOfDelivery, OnDetail, Opened
    <2>3. ASSUME NEW op \in DOMAIN From, openDialog(op) PROVE PageIsOfDelivery'
      BY <2>3 DEF CourierInv, openDialog, PageIsOfDelivery, OnDetail
    <2>4. CASE closeDialog \/ dialogCloses
      BY <2>4 DEF CourierInv, closeDialog, dialogCloses, PageIsOfDelivery, OnDetail, NoDialog
    <2>5. ASSUME \/ \E d \in All : Others(d)
                 \/ \E f \in Places : setWarehouseId(f)
                 \/ \E f \in Kinds : changeKind(f)
          PROVE  PageIsOfDelivery'
      BY <2>5 DEF CourierInv, Others, setWarehouseId, changeKind, PageIsOfDelivery, OnDetail
    <2> QED
      BY <2>1, <2>2, <2>3, <2>4, <2>5
  <1> QED
    BY <1>1, <1>2, <1>3, PostsKept DEF CourierInv

\* The tab that is opened again posts nothing and disables nothing.
LEMMA Reloaded == ASSUME CourierInv, reload PROVE CourierInv'
  <1>1. /\ commands' = [d \in All |-> "none"] /\ UNCHANGED route /\ dialog' = NoDialog
        /\ detail' = IF OnDetail THEN Opened(detail.id, entries') ELSE NoDetail
        /\ sent' = [s \in Lines |->
             IF sent[s].what \in {"post", "ghost"} /\ ~sent[s].got
             THEN [Idle EXCEPT !.what = "ghost", !.d = sent[s].d, !.op = sent[s].op] ELSE Idle]
    BY DEF reload
  <1>2. \A s \in Lines : IsCall(sent'[s]) /\ sent'[s].what # "post"
    BY <1>1 DEF IsCall, Idle
  <1>3. CallsAreCalls' /\ Paired'
    BY <1>1, <1>2 DEF CallsAreCalls, Paired, Posts, Pending
  <1>4. PageIsOfDelivery'
    BY <1>1 DEF CourierInv, PageIsOfDelivery, OnDetail, Opened, NoDetail, NoDialog
  <1> QED
    BY <1>3, <1>4 DEF CourierInv

------------------------------------------------------------------------------
(* The theorem. *)

\* At first nothing is sent.
LEMMA CourierStart == CourierInit => CourierInv
  <1> SUFFICES ASSUME CourierInit PROVE CourierInv
    OBVIOUS
  <1>1. \A s \in Lines : IsCall(sent[s]) /\ sent[s].what = "idle"
    BY DEF CourierInit, CourierMount, IsCall, Idle
  <1> QED
    BY <1>1 DEF CourierInit, CourierMount, CourierInv, CallsAreCalls, PageIsOfDelivery, OnDetail,
                NoDialog, NoDetail, Paired, Posts, Pending

\* Every step keeps the invariant.
LEMMA CourierStep == CourierInv /\ [CourierNext]_courierVars => CourierInv'
  <1> SUFFICES ASSUME CourierInv, [CourierNext]_courierVars PROVE CourierInv'
    OBVIOUS
  <1>1. ASSUME NEW s \in Lines, Served(s) \/ Applied(s) \/ fail(s) PROVE CourierInv'
    BY <1>1, ServerAnswers, ListReceived, DeliveryReceived, PostReceived, CallFails DEF Applied
  <1>2. ASSUME NEW s \in Lines, poll(s) \/ refresh(s) \/ loadNextPage(s) \/ reconcile(s)
        PROVE  CourierInv'
    BY <1>2, ListsKeepPosts
  <1>3. ASSUME NEW s \in Lines, askDelivery(s) \/ confirm(s) \/ \E d \in All : claim(s, d)
        PROVE  CourierInv'
    BY <1>3, DeliveryAsked, Confirmed, Claimed
  <1>4. ASSUME \/ \E op \in DOMAIN From : openDialog(op)
               \/ closeDialog \/ dialogCloses
               \/ \E d \in All : openDelivery(d) \/ Others(d)
               \/ \E k \in Keys : goTo(k)
               \/ \E f \in Places : setWarehouseId(f)
               \/ \E f \in Kinds : changeKind(f)
        PROVE  CourierInv'
    BY <1>4, PagesKeepPosts
  <1>5. CASE goOffline \/ goOnline \/ reload
    BY <1>5, NetworkKeepsPosts, Reloaded
  <1>6. CASE UNCHANGED courierVars
    <2>1. UNCHANGED << commands, route, detail, dialog, sent >>
      BY <1>6 DEF courierVars
    <2> QED
      BY <2>1, NothingSent, PostsKept DEF CourierInv, PageIsOfDelivery, OnDetail
  <1> QED
    BY <1>1, <1>2, <1>3, <1>4, <1>5, <1>6 DEF CourierNext

\* The pairing counts: one POST for a delivery whose buttons are disabled, none for another.
LEMMA PairedCounts == CourierInv => PendingIsOnePost
  <1> SUFFICES ASSUME CourierInv, NEW d \in All
               PROVE  Cardinality({s \in Lines : sent[s].what = "post" /\ sent[s].d = d})
                        = IF commands[d] = "pending" THEN 1 ELSE 0
    BY DEF PendingIsOnePost
  <1> DEFINE P == {s \in Lines : sent[s].what = "post" /\ sent[s].d = d}
  <1>1. CASE Pending(d)
    <2>1. PICK s \in Lines : Posts(s, d)
      BY <1>1 DEF CourierInv, Paired
    <2>2. P = {s}
      BY <2>1 DEF CourierInv, Paired, Posts
    <2> QED
      BY <1>1, <2>2, FS_Singleton DEF Pending
  <1>2. CASE ~Pending(d)
    <2>1. P = {}
      BY <1>2 DEF CourierInv, Paired, Posts
    <2> QED
      BY <1>2, <2>1, FS_EmptySet DEF Pending
  <1> QED
    BY <1>1, <1>2

\* For every number of calls at once, every set of deliveries and every filter: the
\* buttons of a delivery are disabled exactly while one POST of this tab for it is
\* under way, so a second tap never sends a second command (runCommand, DeliveryActions).
THEOREM OnePostPerTap == CourierSpec => []PendingIsOnePost
  <1>1. CourierSpec => []CourierInv
    BY CourierStart, CourierStep, PTL DEF CourierSpec
  <1> QED
    BY <1>1, PairedCounts, PTL
================================================================================
