------------------------------ MODULE GoodsPages ------------------------------
(***************************************************************************)
(* The goods pages: GoodsController.list and detail2, which keep rendered  *)
(* pages in Redis for three seconds, and the countdown that a detail page  *)
(* runs in the browser until it lets the user press the buy button.        *)
(*                                                                         *)
(* Time is counted in ticks, PerSecond of them to a second, so that what   *)
(* happens within a second can be told apart.  A view is a browser tab: it *)
(* asks for a page, the servlet thread that serves it takes the page from  *)
(* the cache or queries, renders and caches it, and the tab shows it some  *)
(* time after it was sent.  Any step may take any time.                    *)
(***************************************************************************)
EXTENDS Integers

CONSTANTS
    Goods,       \* ids of the goods in miaosha_goods
    GoodsIds,    \* ids a client may ask for
    Views,       \* browser tabs
    StartDate,   \* start_date of every goods, in ticks
    EndDate,     \* end_date of every goods, in ticks
    PerSecond,   \* ticks per second
    Lifetime,    \* seconds a page stays in the cache
    MaxTime,     \* bound: the clock
    None         \* Java's null

ASSUME PagesConstants ==
    /\ Goods \subseteq GoodsIds
    /\ StartDate \in [Goods -> Nat] /\ EndDate \in [Goods -> Nat]
    /\ \A g \in Goods : StartDate[g] <= EndDate[g]
    /\ PerSecond \in Nat \ {0} /\ Lifetime \in Nat \ {0}
    /\ MaxTime \in Nat
    /\ None \notin GoodsIds \cup Nat

VARIABLES
    now,     \* System.currentTimeMillis() of every process, in ticks
    cache,   \* RMapCache "staticTemplate"
    view     \* the tabs and the threads that serve them

vars == <<now, cache, view>>

Keys == {"goodslist", "goods_detail"}
Serving == {"get", "query", "render", "put"}

\* What the properties tell apart on a page: the goods that a detail page is of
\* (None on the list), the status of their sale and the seconds to its start.
\* When its goods were read and when it was cached is kept for the properties.
Seconds == {s \in Int : s >= -1}
Page == [goods: Goods \cup {None}, status: 0..2, remain: Seconds, read: Nat, put: Nat]

Blank == [goods |-> None, status |-> 0, remain |-> 0, read |-> 0, put |-> 0]

View ==
    [pc: {"idle", "sent", "shown", "error"} \cup Serving, key: Keys,
     goods: GoodsIds \cup {None},   \* the goods asked for
     page: Page,                    \* the page being made, sent or shown
     remain: Seconds, due: Nat]         \* #remainSeconds, and when it is counted down

Closed == [pc |-> "idle", key |-> "goodslist", goods |-> None, page |-> Blank,
           remain |-> 0, due |-> 0]

NoPage == [page |-> Blank, expiry |-> 0]

Init ==
    /\ now = 0
    /\ cache = [k \in Keys |-> NoPage]
    /\ view = [v \in Views |-> Closed]

-----------------------------------------------------------------------------
(* The environment                                                         *)

\* Redis drops a page when its lifetime is over.
Tick ==
    /\ now < MaxTime
    /\ now' = now + 1
    /\ cache' = [k \in Keys |-> IF cache[k].expiry <= now' THEN NoPage ELSE cache[k]]
    /\ view' = view

-----------------------------------------------------------------------------
(* GoodsController                                                         *)

\* A tab asks for the list (g is None) or for the detail page of some id.
Ask(v, k, g) ==
    /\ view[v].pc = "idle"
    /\ (k = "goodslist") <=> (g = None)
    /\ view' = [view EXCEPT ![v] = [Closed EXCEPT !.pc = "get", !.key = k, !.goods = g]]
    /\ UNCHANGED <<now, cache>>

\* All detail pages are under the one key "goods_detail".
Lookup(v) == cache[view[v].key]
Hit(v) == now < Lookup(v).expiry

GetPage(v) ==
    /\ view[v].pc = "get"
    /\ \/ /\ Hit(v)
          /\ view' = [view EXCEPT ![v].pc = "sent", ![v].page = Lookup(v).page]
       \/ /\ ~Hit(v)
          /\ view' = [view EXCEPT ![v].pc = "query"]
    /\ UNCHANGED <<now, cache>>

ListGoodsVo(v) ==
    /\ view[v].pc = "query" /\ view[v].key = "goodslist"
    /\ view' = [view EXCEPT ![v].pc = "render", ![v].page.read = now]
    /\ UNCHANGED <<now, cache>>

\* An unknown id makes goodsVo null, which throws at getStartDate.
GetGoodsVo(v) ==
    LET g == view[v].goods
    IN /\ view[v].pc = "query" /\ view[v].key = "goods_detail"
       /\ \/ /\ g \in Goods
             /\ view' = [view EXCEPT ![v].pc = "render", ![v].page.goods = g,
                                     ![v].page.read = now]
          \/ /\ g \notin Goods
             /\ view' = [view EXCEPT ![v].pc = "error"]
       /\ UNCHANGED <<now, cache>>

MiaoshaStatus(g) ==
    CASE now < StartDate[g] -> 0
      [] now > EndDate[g]   -> 2
      [] OTHER              -> 1

\* Whole seconds only: the rest of the division is lost.
RemainSeconds(g) ==
    CASE now < StartDate[g] -> (StartDate[g] - now) \div PerSecond
      [] now > EndDate[g]   -> -1
      [] OTHER              -> 0

Render(v) ==
    LET g == view[v].page.goods
    IN /\ view[v].pc = "render"
       /\ view' = IF g = None
                  THEN [view EXCEPT ![v].pc = "put"]
                  ELSE [view EXCEPT ![v].pc = "put",
                          ![v].page.status = MiaoshaStatus(g),
                          ![v].page.remain = RemainSeconds(g)]
       /\ UNCHANGED <<now, cache>>

ExpiryMinutes == now + 60 * Lifetime * PerSecond   \* mutant: TimeUnit.MINUTES
Expiry == now + Lifetime * PerSecond

Made(v) == [view[v].page EXCEPT !.put = now]
WithPage(v) == [cache EXCEPT ![view[v].key] = [page |-> Made(v), expiry |-> Expiry]]

PutPage(v) ==
    /\ view[v].pc = "put"
    /\ cache' = WithPage(v)
    /\ view' = [view EXCEPT ![v].pc = "sent", ![v].page = Made(v)]
    /\ now' = now

\* A call to Redis or MySQL throws, or the template engine does; the put may
\* have taken effect.
ServeFails(v) ==
    /\ view[v].pc \in Serving
    /\ view' = [view EXCEPT ![v].pc = "error"]
    /\ cache' = cache \/ (view[v].pc = "put" /\ cache' = WithPage(v))
    /\ now' = now

-----------------------------------------------------------------------------
(* The page in the browser                                                 *)

\* countDown() sets a timer of 1000 ms as long as there is something to count.
TimerAtOnce(remain) == IF remain > 0 THEN now ELSE 0   \* mutant: no delay given
Timer(remain) == IF remain > 0 THEN now + PerSecond ELSE 0

\* The page has loaded, and countDown() runs for the first time.
Load(v) ==
    LET p == view[v].page
    IN /\ view[v].pc = "sent"
       /\ view' = [view EXCEPT ![v].pc = "shown",
                               ![v].page = [p EXCEPT !.read = 0, !.put = 0],
                               ![v].remain = p.remain, ![v].due = Timer(p.remain)]
       /\ UNCHANGED <<now, cache>>

\* The timer fires, at the earliest when it is due.
CountDown(v) ==
    LET left == view[v].remain - 1
    IN /\ view[v].pc = "shown" /\ view[v].remain > 0
       /\ now >= view[v].due
       /\ view' = [view EXCEPT ![v].remain = left, ![v].due = Timer(left)]
       /\ UNCHANGED <<now, cache>>

Close(v) ==
    /\ view[v].pc \in {"shown", "error"}
    /\ view' = [view EXCEPT ![v] = Closed]
    /\ UNCHANGED <<now, cache>>

-----------------------------------------------------------------------------
Serve(v) ==
    \/ GetPage(v) \/ ListGoodsVo(v) \/ GetGoodsVo(v) \/ Render(v) \/ PutPage(v)
    \/ ServeFails(v)

Next ==
    \/ Tick
    \/ \E v \in Views :
         \/ \E k \in Keys, g \in GoodsIds \cup {None} : Ask(v, k, g)
         \/ Serve(v) \/ Load(v) \/ CountDown(v) \/ Close(v)

Spec == Init /\ [][Next]_vars

-----------------------------------------------------------------------------
(* Properties                                                              *)

\* The shapes of the state; remainSeconds is never below -1.
TypeOK ==
    /\ now \in Nat
    /\ cache \in [Keys -> [page: Page, expiry: Nat]]
    /\ view \in [Views -> View]

\* The button that the countdown of a detail page governs can be pressed.
BuyButton(v) ==
    view[v].pc = "shown" /\ view[v].key = "goods_detail" /\ view[v].remain = 0

\* However long a page was in the cache or on its way, the countdown never
\* lets the user buy a whole second or more before the sale starts: the
\* truncation loses less than that, and every delay only makes it later.
ButtonNotEarly ==
    \A v \in Views : BuyButton(v) => now > StartDate[view[v].page.goods] - PerSecond

\* A page is sent to the tab v: from the cache, or by the thread that made it.
Sends(v) == view[v].pc # "sent" /\ view'[v].pc = "sent"

\* No page runs ahead of the sale: who is sent "in progress" or "over" is sent
\* it after the start, or after the end.
StatusNotAhead ==
    [][\A v \in Views :
         LET p == view'[v].page
         IN Sends(v) /\ p.goods # None =>
              /\ p.status = 1 => now >= StartDate[p.goods]
              /\ p.status = 2 => now > EndDate[p.goods]]_vars

\* Once the sale has been over for longer than a page lives and its thread
\* took to make it, every page that is sent says so and has no buy button: how
\* old a page is counts from the query, also when a slow thread puts it over a
\* newer one.
EndedIsTold ==
    [][\A v \in Views :
         LET p == view'[v].page
         IN /\ Sends(v) /\ p.goods # None
            /\ now > EndDate[p.goods] + Lifetime * PerSecond + (p.put - p.read)
            => p.status = 2 /\ p.remain < 0]_vars
=============================================================================
