------------------------------- MODULE Screens -------------------------------
(***************************************************************************)
(* One browser tab: the page and dialog on display, the shop the tab is    *)
(* working in and the query cache behind the screens.  Answers are kept    *)
(* under their query key for a minute, refetched when a mutation           *)
(* invalidates the key, when the tab regains focus or on a timer; most     *)
(* keys do not name the shop the answer is for, so that the cache follows  *)
(* the shop only by being invalidated when the shop changes.  The switcher *)
(* also moves the tab by itself, and tells the cache nothing, whenever the *)
(* list of shops it has lacks the shop of the tab.                         *)
(*                                                                         *)
(* A write whose answer never arrived promises the user nothing and is not *)
(* an action here.  A refetch is one step, since a newer one cancels it;   *)
(* the first load of a key is not cancelled and is sent and answered in    *)
(* two steps.                                                              *)
(***************************************************************************)
EXTENDS Pages, Naturals

CONSTANTS
  Shops,        \* the shops of the business
  Home,         \* the shop of the signed-in account (user.branchId)
  Default,      \* the shop that cannot be closed (isDefault)
  Staff,        \* the roles to sign in as
  Types,        \* the documents whose lists and forms are opened
  MaxOpens,     \* bound: pages and dialogs opened
  MaxEvents     \* bound: writes, minutes, changes of shop, lost requests

ASSUME ScreensAssumption ==
  /\ Home \in Shops /\ Default \in Shops
  /\ Staff \subseteq Roles
  /\ Types \subseteq DOMAIN TXN_META

VARIABLES
  role,          \* of the signed-in user
  page,          \* the address on display
  pane,          \* the keys its open dialog subscribes to
  open,          \* the shops the business has
  activeShopId,  \* the shop requests are made for
  cache,         \* query slot -> what the cache holds for it
  left           \* what remains of the session's bounds

vars == <<role, page, pane, open, activeShopId, cache, left>>

-----------------------------------------------------------------------------
(* The cache.  A slot is a key, with the shop when the key names it.  An   *)
(* entry: the shop its request named, the shops it lists if it is the list *)
(* of shops, the pages where an acknowledged write was made that its       *)
(* answer does not show, whether it is still within its minute, whether it *)
(* is being loaded for the first time, whether it answers a request sent   *)
(* before the last change, and whether one sent before the tab came to its *)
(* shop or user without the cache being told.                              *)

Any == "any"
Mounted(p, keys) == Frame \union Displayed(PageAt(p), keys)
Slot(q, shop) == <<q.key, IF q.names = "shop" THEN shop ELSE Any>>
OnScreen == {q \in Mounted(page, pane) : Slot(q, activeShopId) \in DOMAIN cache}
Shown(q) == cache[Slot(q, activeShopId)]

\* The keys whose requests name the shop of the key; all others go by the
\* shop the tab is in when they are sent, whatever shop their key names.
Carried == {"cash-bank-summary", "cash-bank-transfers", "cash-bank-statement",
            "payment-reminders", "pos-catalog"}

\* Who asks, and the shops there are.
Session == [role |-> role, open |-> open]

ShopList == <<"shops", Any>>
Answer(u, s, shop) ==
  [shop |-> ResolvedShop(u.role, IF s[1] \in Carried THEN s[2] ELSE shop, Home),
   lists |-> IF s = ShopList THEN u.open ELSE {},
   misses |-> {}, fresh |-> TRUE, state |-> "shown", late |-> FALSE, before |-> FALSE]
Loading(u, s, shop) == [Answer(u, s, shop) EXCEPT !.state = "loading"]
Failure(u, c, s, shop) ==
  IF s \in DOMAIN c THEN [c[s] EXCEPT !.state = "failed", !.fresh = FALSE]
  ELSE [Answer(u, s, shop) EXCEPT !.state = "failed", !.fresh = FALSE, !.lists = {}]

\* Requests for the slots S, all answered but those in lost.
Fetched(u, c, S, lost, shop) ==
  [s \in DOMAIN c \union S |->
     IF s \notin S THEN c[s]
     ELSE IF s \in lost THEN Failure(u, c, s, shop)
     ELSE Answer(u, s, shop)]

\* What a refetch of the mounted queries in Q asks for: a refused one gets no
\* answer, one in its first load is left alone.
Asked(u, c, Q, shop) ==
  {s \in {Slot(q, shop) : q \in {x \in Q : Admits(u.role, x.route)}} :
     s \notin DOMAIN c \/ c[s].state # "loading"}

\* What mounting the queries in Q asks for: what is absent or stale.
Due(u, c, Q, shop) ==
  {s \in Asked(u, c, Q, shop) : s \notin DOMAIN c \/ ~c[s].fresh}

\* invalidateQueries: matching entries are stale, the mounted refetched.
Matches(s, keys) == Everything \in keys \/ s[1] \in keys
Staled(c, keys) ==
  [s \in DOMAIN c |-> IF Matches(s, keys) /\ c[s].state # "loading"
                      THEN [c[s] EXCEPT !.fresh = FALSE] ELSE c[s]]
Invalidated(u, c, keys, Q, shop, lost) ==
  Fetched(u, Staled(c, keys),
          Asked(u, c, {q \in Q : Matches(<<q.key>>, keys)}, shop), lost, shop)

\* At most one request of a step is lost, or slow, if the step, which costs
\* that much itself, leaves an event for it (a bound).
Losses(S, cost) ==
  {{}} \union IF left.events > cost THEN {{s} : s \in S} ELSE {}
Spend(cost, lost) ==
  [left EXCEPT !.events = @ - cost - Cardinality(lost)]

-----------------------------------------------------------------------------
(* The switcher's effect, which runs whenever the shop of the tab or the   *)
(* list of shops changes.                                                  *)

\* What the tab last heard of the shops: nothing before the list is loaded.
Listed(c) ==
  IF ShopList \in DOMAIN c /\ c[ShopList].state # "loading" THEN c[ShopList].lists
  ELSE {}

\* The shop of the tab changes and nothing is invalidated: only the keys that
\* name the new shop are looked up.
MovedTo(u, c, Q, shop) ==
  LET old == [s \in DOMAIN c |-> [c[s] EXCEPT !.before = TRUE]]
  IN  Fetched(u, old, {s \in Due(u, old, Q, shop) : s[2] = shop}, {}, shop)

\* The tab is to be in a shop, with c in its cache and Q mounted: it stays
\* there if the list has that shop or is not there yet.
Settles(u, c, Q, shop) ==
  LET stays == Listed(c) = {} \/ shop \in Listed(c)
  IN  /\ activeShopId' = IF stays THEN shop ELSE Default
      /\ cache' = IF stays THEN c ELSE MovedTo(u, c, Q, Default)

-----------------------------------------------------------------------------
Budget == [opens |-> MaxOpens, events |-> MaxEvents]

Landing(r) == IF r = "BILLER" THEN At("pos") ELSE At("dashboard")

Init ==
  /\ role \in Staff
  /\ page = Landing(role)
  /\ pane = {}
  /\ open \in {S \in SUBSET Shops : {Home, Default} \subseteq S}
  /\ activeShopId = Home
  /\ cache = Fetched(Session, <<>>, Asked(Session, <<>>, Mounted(page, {}), Home), {}, Home)
  /\ left = Budget

\* A page, or a dialog of the page on display, is opened.  What it lacks is
\* requested; the answer of one query may take its time.
Open(p, keys) ==
  LET due == Due(Session, cache, Mounted(p, keys), activeShopId)
      new == due \ DOMAIN cache
      Opened(slow) == [s \in DOMAIN cache \union due |->
                         IF s \in slow THEN Loading(Session, s, activeShopId)
                         ELSE IF s \in due THEN Answer(Session, s, activeShopId)
                         ELSE cache[s]]
  IN  /\ left.opens > 0
      /\ p \in Offered(role)
      /\ <<p, keys>> # <<page, pane>>
      /\ \E slow \in Losses(new, 0) :
           /\ Settles(Session, Opened(slow), Mounted(p, keys), activeShopId)
           /\ left' = [Spend(0, slow) EXCEPT !.opens = @ - 1]
      /\ page' = p
      /\ pane' = keys
      /\ UNCHANGED <<role, open>>

\* A first load is answered, or has been tried often enough.
Arrive(s) ==
  /\ s \in DOMAIN cache
  /\ cache[s].state = "loading"
  /\ Settles(Session, [cache EXCEPT ![s].state = "shown"], Mounted(page, pane), activeShopId)
  /\ UNCHANGED <<role, page, pane, open, left>>

\* First loads still in the air when the shop changes answer for the old one.
Late(c) == [s \in DOMAIN c |-> IF c[s].state = "loading"
                               THEN [c[s] EXCEPT !.late = TRUE] ELSE c[s]]

\* What a committed mutation leaves in the cache: the answers that read what
\* it wrote miss it.
Behind(act) ==
  LET read == {q \in Frame \union Queries(PageAt(page)) :
                 q.route.reads \intersect act.route.writes # {}}
      behind == {Slot(q, s) : q \in read, s \in Shops}
  IN  [s \in {x \in DOMAIN cache : x[1] \notin act.ends} |->
         IF s \in behind
         THEN [cache[s] EXCEPT !.misses = @ \union {page},
                               !.late = @ \/ cache[s].state = "loading"]
         ELSE cache[s]]

\* A mutation of the page succeeds: its keys are invalidated and its dialog
\* closes.
Work(act) ==
  LET kept == pane \ act.closes
      asked == Asked(Session, Behind(act), {q \in Mounted(page, kept) :
                                              Matches(<<q.key>>, act.keys)}, activeShopId)
  IN  /\ left.events > 0
      /\ act.route.writes \intersect {"branch"} = {}
      /\ Admits(role, act.route)
      /\ \A k \in act.uses : \E q \in OnScreen :
           q.key = k /\ Shown(q).state # "loading"
      /\ \E lost \in Losses(asked, 1) :
           /\ Settles(Session, Invalidated(Session, Behind(act), act.keys, Mounted(page, kept),
                                        activeShopId, lost),
                      Mounted(page, kept), activeShopId)
           /\ left' = Spend(1, lost)
      /\ pane' = kept
      /\ UNCHANGED <<role, page, open>>

\* A shop is opened (a new one, whatever its name here): everything is
\* refetched, still for the old shop, and the tab is sent to the new one.  The
\* list the switcher has lacks it and sends the tab on to the default shop,
\* before the new list arrives.
CreateShop(shop) ==
  LET act == ActAll(BranchRoutes.create)
      u == [Session EXCEPT !.open = @ \union {shop}]
      c == Invalidated(u, Behind(act), act.keys, Mounted(page, pane), activeShopId, {})
      next == IF Listed(cache) = {} THEN shop ELSE Default
  IN  /\ left.events > 0
      /\ act \in PageAt(page).acts
      /\ Admits(role, act.route)
      /\ shop \notin open
      /\ open' = u.open
      /\ activeShopId' = next
      /\ cache' = IF next = activeShopId THEN c
                  ELSE MovedTo(u, c, Mounted(page, pane), next)
      /\ left' = Spend(1, {})
      /\ UNCHANGED <<role, page, pane>>

\* A shop is closed from the shops page.  A tab working in it is in no shop
\* while everything is refetched, which the server takes for the account's
\* own, and is then sent to the default one.
RemoveShop(shop) ==
  LET act == ActAll(BranchRoutes.remove)
      u == [Session EXCEPT !.open = @ \ {shop}]
      asks == IF activeShopId = shop THEN Home ELSE activeShopId
      c == Invalidated(u, Behind(act), act.keys, Mounted(page, pane), asks, {})
  IN  /\ left.events > 0
      /\ act \in PageAt(page).acts
      /\ Admits(role, act.route)
      /\ shop \in (open \intersect Listed(cache)) \ {Default}
      /\ open' = u.open
      /\ IF activeShopId = shop
         THEN /\ activeShopId' = Default
              /\ cache' = MovedTo(u, c, Mounted(page, pane), Default)
         ELSE Settles(u, c, Mounted(page, pane), activeShopId)
      /\ left' = Spend(1, {})
      /\ UNCHANGED <<role, page, pane>>

\* Somebody else closes a shop: the tab hears of it with its next list.
RemovedElsewhere(shop) ==
  /\ left.events > 0
  /\ shop \in open \ {Default}
  /\ open' = open \ {shop}
  /\ left' = Spend(1, {})
  /\ UNCHANGED <<role, page, pane, activeShopId, cache>>

\* The queries that poll, each more often than once a minute or at that.
Polled == {"notifications", "dashboard", "pos-today-sales", "pos-catalog",
           "held-invoices", "recent-invoices"}

\* A minute passes: every answer is past its time, the polled are refetched.
Minute ==
  /\ left.events > 0
  /\ cache' = Invalidated(Session, [s \in DOMAIN cache |->
                                     [cache[s] EXCEPT !.fresh = FALSE]],
                          Polled, Mounted(page, pane), activeShopId, {})
  /\ left' = [left EXCEPT !.events = @ - 1]
  /\ UNCHANGED <<role, page, pane, open, activeShopId>>

\* The tab is looked at again: what is on display and past its time is
\* refetched.
Focus ==
  LET due == {s \in Due(Session, cache, Mounted(page, pane), activeShopId) :
                s \in DOMAIN cache}
  IN  /\ due # {}
      /\ \E lost \in Losses(due, 0) :
           /\ Settles(Session, Fetched(Session, cache, due, lost, activeShopId),
                      Mounted(page, pane), activeShopId)
           /\ left' = Spend(0, lost)
      /\ UNCHANGED <<role, page, pane, open>>

\* What invalidateQueries refetches is what is mounted when it is called, under
\* the keys of the shop the tab leaves but, the shop having changed, for the
\* new one; the keys of the new shop are looked up when the screen is drawn.
Switched(keys, lost, shop) ==
  LET Q == {q \in Mounted(page, pane) : Matches(<<q.key>>, keys)}
      known == Staled(Late(cache), keys)
      told == Fetched(Session, known, Asked(Session, known, Q, activeShopId), lost, shop)
  IN  Fetched(Session, told, {s \in Due(Session, told, Mounted(page, pane), shop) :
                                s[2] = shop}, lost, shop)

\* Mutated form: the till's answers alone are refetched.
SwitchAtTheTill(shop) ==
  /\ left.events > 0
  /\ MaySwitch(role)
  /\ shop \in Listed(cache) \ {activeShopId}
  /\ Settles(Session, Switched(Polled, {}, shop), Mounted(page, pane), shop)
  /\ left' = Spend(1, {})
  /\ UNCHANGED <<role, page, pane, open>>

\* The owner picks another shop in the switcher or on the shops page.
Switch(shop) ==
  /\ left.events > 0
  /\ MaySwitch(role)
  /\ shop \in Listed(cache) \ {activeShopId}
  /\ \E lost \in Losses(Asked(Session, cache, Mounted(page, pane), activeShopId)
                        \union Asked(Session, cache, Mounted(page, pane), shop), 1) :
       /\ Settles(Session, Switched({Everything}, lost, shop), Mounted(page, pane), shop)
       /\ left' = Spend(1, lost)
  /\ UNCHANGED <<role, page, pane, open>>

\* The access token ran out and setAuth puts the tab back in the shop of the
\* account: keys that name the shop are looked up anew, nothing else is told.
Refresh ==
  /\ activeShopId # Home
  /\ Settles(Session, MovedTo(Session, cache, Mounted(page, pane), Home),
             Mounted(page, pane), Home)
  /\ UNCHANGED <<role, page, pane, open, left>>

\* The session is refused and the next user signs in: the login page replaces
\* the app without reloading it, so that the cache is still there.
SignInAgain(r) ==
  LET u == [Session EXCEPT !.role = r]
      Q == Mounted(Landing(r), {})
      known == [s \in DOMAIN cache |-> [cache[s] EXCEPT !.before = TRUE]]
  IN  /\ left.events > 0
      /\ r \in Staff \ {role}
      /\ role' = r
      /\ page' = Landing(r)
      /\ pane' = {}
      /\ Settles(u, Fetched(u, known, Due(u, known, Q, Home), {}, Home), Q, Home)
      /\ left' = Spend(1, {})
      /\ UNCHANGED open

PaneKeys(p) == {{q.key : q \in w} : w \in PageAt(p).panes}
Addresses ==
  {At(n) : n \in DOMAIN Single} \union {ListOf(t) : t \in Types \ {"EXPENSE"}}
    \union {FormOf(t) : t \in Types}

Next ==
  \/ \E p \in Addresses : \E keys \in PaneKeys(p) : Open(p, keys)
  \/ \E s \in DOMAIN cache : Arrive(s)
  \/ \E act \in PageAt(page).acts \union {MarkRead} : Work(act)
  \/ Minute
  \/ Focus
  \/ \E shop \in Shops : \/ Switch(shop) \/ CreateShop(shop) \/ RemoveShop(shop)
                          \/ RemovedElsewhere(shop)
  \/ Refresh
  \/ \E r \in Staff : SignInAgain(r)

Spec == Init /\ [][Next]_vars

-----------------------------------------------------------------------------
(* Properties.                                                             *)

Settled(q) == Shown(q).state = "shown" /\ ~Shown(q).late

\* What the screen shows of a shop is of the shop the tab works in, whatever
\* was cached before: the switcher's invalidation reaches every answer on
\* display that is limited to a shop (shop-switcher.tsx 48-51), the ones that
\* the invalidation itself fetched for one shop under the key of another too.
\* Not so an answer whose request failed or was still in the air, nor one from
\* before the tab was moved and the cache not told: by a token refresh, the
\* next user, or the switcher's own effect when a shop is opened or closed.
ShownIsActive ==
  \A q \in OnScreen :
    (q.route.perShop /\ q.names # "entity" /\ Settled(q) /\ ~Shown(q).before) =>
      Shown(q).shop = ResolvedShop(role, activeShopId, Home)

\* The answers a page leaves behind its own writes until the next minute:
\* it does not invalidate their keys.
Lagging ==
  {<<At("cashBank"), "cash-bank-statement">>,
   <<At("cheques"), "cash-bank-accounts">>,
   <<At("payroll"), "employees">>, <<At("payroll"), "payroll-summary">>,
   <<At("payroll"), "bank-accounts-payroll">>,
   <<At("pos"), "pos-today-sales">>, <<At("pos"), "party">>,
   <<At("pos"), "parties-search">>,
   <<At("pos"), "invoice-detail">>, <<At("pos"), "exchange-catalog">>,
   <<At("pos"), "pos-catalog">>}

\* A user who saved something on a page sees it on that page: no answer on
\* display misses a write acknowledged there, but for the ones named above
\* (the invalidation lists of the pages' mutations).
OwnWritesShown ==
  \A q \in OnScreen :
    (Settled(q) /\ Admits(role, q.route) /\ <<page, q.key>> \notin Lagging) =>
      page \notin Shown(q).misses
=============================================================================
