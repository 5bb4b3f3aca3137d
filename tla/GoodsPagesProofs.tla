--------------------------- MODULE GoodsPagesProofs ---------------------------
(***************************************************************************)
(* What the goods pages promise about time, for any number of tabs, any    *)
(* sale windows, any lifetime of the cached pages and any clock rate.      *)
(***************************************************************************)
EXTENDS GoodsPages, TLAPS

\* When a countdown of s seconds that begins at time t is over, at the earliest.
Over(t, s) == t + s * PerSecond

LEMMA OverStep ==
    \A t \in Int, s \in Int : /\ Over(t, s) \in Int
                              /\ Over(t, 0) = t
                              /\ Over(t + PerSecond, s - 1) = Over(t, s)
                              /\ \A u \in Int : t <= u => Over(t, s) <= Over(u, s)
<1> SUFFICES ASSUME NEW t \in Int, NEW s \in Int
             PROVE  /\ Over(t, s) \in Int
                    /\ Over(t, 0) = t
                    /\ Over(t + PerSecond, s - 1) = Over(t, s)
                    /\ \A u \in Int : t <= u => Over(t, s) <= Over(u, s)
  OBVIOUS
<1>1. PerSecond \in Nat /\ s * PerSecond \in Int
  BY PagesConstants
<1>2. (s - 1) * PerSecond = s * PerSecond - PerSecond /\ 0 * PerSecond = 0
  BY PagesConstants
<1> QED
  BY <1>1, <1>2 DEF Over

\* Truncating to whole seconds loses less than one.
LEMMA Truncation ==
    \A d \in Nat : /\ d \div PerSecond \in Nat
                   /\ (d \div PerSecond) * PerSecond > d - PerSecond
BY PagesConstants

LEMMA LifetimeType == Lifetime * PerSecond \in Nat
BY PagesConstants

-----------------------------------------------------------------------------
(* The inductive invariant                                                 *)

\* A page that has been rendered by the time t: its status was true when it was
\* rendered, a countdown of its seconds that begins now does not end early, and
\* goods read after the end of the sale make a page that says so.
Rendered(p, t) ==
    p.goods \in Goods =>
      /\ p.status = 1 => t >= StartDate[p.goods]
      /\ p.status = 2 => t > EndDate[p.goods]
      /\ p.remain >= 0 => Over(t, p.remain) > StartDate[p.goods] - PerSecond
      /\ p.read > EndDate[p.goods] => p.status = 2 /\ p.remain < 0

\* Tabs of detail pages have detail pages, and a page being made was read
\* before now.
ViewOK(v) ==
    /\ view[v].pc \in {"get", "query"} => view[v].page = Blank
    /\ view[v].pc \in {"render", "put", "sent", "shown"} /\ view[v].key = "goods_detail"
         => view[v].page.goods \in Goods
    /\ view[v].pc = "render" => view[v].page.read <= now
    /\ view[v].pc \in {"put", "sent"} => Rendered(view[v].page, now)

\* The countdown of a page that is shown does not end early.
CountingOK(v) ==
    view[v].pc = "shown" /\ view[v].page.goods \in Goods =>
      /\ view[v].remain > 0 =>
           Over(view[v].due, view[v].remain - 1) > StartDate[view[v].page.goods] - PerSecond
      /\ view[v].remain = 0 => now > StartDate[view[v].page.goods] - PerSecond

\* A page that can be taken from the cache.
EntryOK(k) ==
    now < cache[k].expiry =>
      /\ cache[k].expiry = cache[k].page.put + Lifetime * PerSecond
      /\ k = "goods_detail" => cache[k].page.goods \in Goods
      /\ Rendered(cache[k].page, now)

PagesInv ==
    /\ TypeOK
    /\ \A v \in Views : ViewOK(v) /\ CountingOK(v)
    /\ \A k \in Keys : EntryOK(k)

-----------------------------------------------------------------------------
LEMMA RenderedLater ==
    ASSUME NEW p \in Page, NEW t \in Nat, NEW u \in Nat, t <= u, Rendered(p, t)
    PROVE  Rendered(p, u)
<1> SUFFICES ASSUME p.goods \in Goods PROVE Rendered(p, u)
  BY DEF Rendered
<1>1. /\ StartDate[p.goods] \in Nat /\ EndDate[p.goods] \in Nat
      /\ p.remain \in Int
      /\ PerSecond \in Nat
  BY PagesConstants DEF Page, Seconds
<1>2. t \in Int /\ u \in Int
  OBVIOUS
<1>3. /\ Over(t, p.remain) \in Int /\ Over(u, p.remain) \in Int
      /\ Over(t, p.remain) <= Over(u, p.remain)
  BY <1>1, <1>2, OverStep, Zenon
<1> QED
  BY <1>1, <1>3 DEF Rendered

\* What Render puts on the page of the goods g.
LEMMA RenderedNow ==
    ASSUME PagesInv, NEW g \in Goods
    PROVE  /\ MiaoshaStatus(g) \in 0..2
           /\ RemainSeconds(g) \in Seconds
           /\ MiaoshaStatus(g) = 1 => now >= StartDate[g]
           /\ MiaoshaStatus(g) = 2 => now > EndDate[g]
           /\ RemainSeconds(g) >= 0 => Over(now, RemainSeconds(g)) > StartDate[g] - PerSecond
           /\ now > EndDate[g] => MiaoshaStatus(g) = 2 /\ RemainSeconds(g) < 0
<1>1. /\ now \in Nat /\ StartDate[g] \in Nat /\ EndDate[g] \in Nat
      /\ StartDate[g] <= EndDate[g] /\ PerSecond \in Nat \ {0}
  BY PagesConstants DEF PagesInv, TypeOK
<1>2. CASE now < StartDate[g]
  <2>1. MiaoshaStatus(g) = 0 /\ RemainSeconds(g) = (StartDate[g] - now) \div PerSecond
    BY <1>1, <1>2 DEF MiaoshaStatus, RemainSeconds
  <2>2. StartDate[g] - now \in Nat
    BY <1>1, <1>2
  <2>3. /\ RemainSeconds(g) \in Nat
        /\ RemainSeconds(g) * PerSecond > (StartDate[g] - now) - PerSecond
    BY <2>1, <2>2, Truncation
  <2>4. Over(now, RemainSeconds(g)) > StartDate[g] - PerSecond
    <3> DEFINE prod == RemainSeconds(g) * PerSecond
    <3>1. prod \in Int
      BY <1>1, <2>3
    <3>2. prod > (StartDate[g] - now) - PerSecond
      BY <2>3
    <3>3. Over(now, RemainSeconds(g)) = now + prod
      BY DEF Over
    <3> HIDE DEF prod
    <3> QED
      BY <1>1, <3>1, <3>2, <3>3
  <2> QED
    BY <1>1, <1>2, <2>1, <2>3, <2>4 DEF Seconds
<1>3. CASE ~(now < StartDate[g]) /\ now > EndDate[g]
  <2>1. MiaoshaStatus(g) = 2 /\ RemainSeconds(g) = -1
    BY <1>1, <1>3 DEF MiaoshaStatus, RemainSeconds
  <2> QED
    BY <1>1, <1>3, <2>1 DEF Seconds
<1>4. CASE ~(now < StartDate[g]) /\ ~(now > EndDate[g])
  <2>1. MiaoshaStatus(g) = 1 /\ RemainSeconds(g) = 0
    BY <1>1, <1>4 DEF MiaoshaStatus, RemainSeconds
  <2>2. Over(now, 0) = now
    BY <1>1, OverStep
  <2> QED
    BY <1>1, <1>4, <2>1, <2>2 DEF Seconds
<1> QED
  BY <1>2, <1>3, <1>4

LEMMA InitPages == Init => PagesInv
<1> SUFFICES ASSUME Init PROVE PagesInv
  OBVIOUS
<1>1. Blank \in Page
  BY DEF Blank, Page, Seconds
<1>2. TypeOK
  BY <1>1, PagesConstants DEF Init, TypeOK, View, Closed, NoPage, Keys, Seconds
<1>3. \A v \in Views : ViewOK(v) /\ CountingOK(v)
  BY DEF Init, Closed, ViewOK, CountingOK
<1>4. \A k \in Keys : EntryOK(k)
  BY DEF Init, NoPage, EntryOK
<1> QED
  BY <1>2, <1>3, <1>4 DEF PagesInv

\* A step of the tab v that takes no time.
LEMMA OneView ==
    ASSUME PagesInv, NEW v \in Views, NEW w \in View,
           view' = [view EXCEPT ![v] = w], now' = now,
           cache' \in [Keys -> [page: Page, expiry: Nat]],
           \A k \in Keys : EntryOK(k)',
           ViewOK(v)', CountingOK(v)'
    PROVE  PagesInv'
<1>1. view \in [Views -> View] /\ now \in Nat
  BY DEF PagesInv, TypeOK
<1>2. TypeOK'
  BY <1>1 DEF TypeOK
<1>3. ASSUME NEW x \in Views PROVE ViewOK(x)' /\ CountingOK(x)'
  <2>1. CASE x = v
    BY <2>1
  <2>2. CASE x # v
    <3>1. view'[x] = view[x]
      BY <1>1, <2>2
    <3> QED
      BY <3>1 DEF PagesInv, ViewOK, CountingOK
  <2> QED
    BY <2>1, <2>2
<1> QED
  BY <1>2, <1>3 DEF PagesInv

LEMMA EntriesKept ==
    ASSUME PagesInv, now' = now, cache' = cache
    PROVE  /\ cache' \in [Keys -> [page: Page, expiry: Nat]]
           /\ \A k \in Keys : EntryOK(k)'
BY DEF PagesInv, TypeOK, EntryOK

LEMMA TickPages == PagesInv /\ Tick => PagesInv'
<1> SUFFICES ASSUME PagesInv, Tick PROVE PagesInv'
  OBVIOUS
<1>1. /\ now \in Nat /\ now' = now + 1 /\ now' \in Nat /\ now <= now'
      /\ view' = view /\ view \in [Views -> View]
      /\ cache \in [Keys -> [page: Page, expiry: Nat]]
      /\ cache' = [k \in Keys |-> IF cache[k].expiry <= now' THEN NoPage ELSE cache[k]]
  BY DEF PagesInv, TypeOK, Tick
<1>2. NoPage \in [page: Page, expiry: Nat]
  BY DEF NoPage, Blank, Page, Seconds
<1>3. TypeOK'
  BY <1>1, <1>2 DEF TypeOK
<1>4. ASSUME NEW v \in Views PROVE ViewOK(v)' /\ CountingOK(v)'
  <2>1. ViewOK(v) /\ CountingOK(v) /\ view[v].page \in Page /\ view'[v] = view[v]
    BY <1>1 DEF PagesInv, View
  <2>2. Rendered(view[v].page, now) => Rendered(view[v].page, now')
    BY <1>1, <2>1, RenderedLater
  <2>3. ViewOK(v)'
    BY <1>1, <2>1, <2>2 DEF ViewOK, Page
  <2>4. CountingOK(v)'
    <3>1. PerSecond \in Nat /\ \A g \in Goods : StartDate[g] \in Nat
      BY PagesConstants
    <3> QED
      BY <1>1, <2>1, <3>1 DEF CountingOK
  <2> QED
    BY <2>3, <2>4
<1>5. ASSUME NEW k \in Keys PROVE EntryOK(k)'
  <2>1. CASE cache[k].expiry <= now'
    <3>1. cache'[k].expiry = 0
      BY <1>1, <2>1 DEF NoPage
    <3> QED
      BY <1>1, <3>1 DEF EntryOK
  <2>2. CASE ~(cache[k].expiry <= now')
    <3>1. cache'[k] = cache[k] /\ cache[k].expiry \in Nat /\ cache[k].page \in Page
      BY <1>1, <2>2
    <3>2. EntryOK(k) /\ now < cache[k].expiry
      BY <1>1, <2>2, <3>1 DEF PagesInv
    <3>3. Rendered(cache[k].page, now')
      BY <1>1, <3>1, <3>2, RenderedLater DEF EntryOK
    <3> QED
      BY <3>1, <3>2, <3>3 DEF EntryOK
  <2> QED
    BY <2>1, <2>2
<1> QED
  BY <1>3, <1>4, <1>5 DEF PagesInv

LEMMA AskPages ==
    ASSUME PagesInv, NEW v \in Views, NEW k \in Keys, NEW g \in GoodsIds \cup {None},
           Ask(v, k, g)
    PROVE  PagesInv'
<1> DEFINE w == [Closed EXCEPT !.pc = "get", !.key = k, !.goods = g]
<1>1. /\ view' = [view EXCEPT ![v] = w] /\ now' = now /\ cache' = cache
      /\ view'[v] = w
  BY DEF Ask, PagesInv, TypeOK
<1>2. w \in View /\ w.pc = "get" /\ w.page = Blank
  <2>1. Blank \in Page
    BY DEF Blank, Page, Seconds
  <2>2. Closed \in View /\ Closed.page = Blank
    BY <2>1 DEF Closed, View, Seconds, Keys
  <2> QED
    BY <2>2 DEF View, Serving
<1>3. ViewOK(v)' /\ CountingOK(v)'
  BY <1>1, <1>2 DEF ViewOK, CountingOK
<1> HIDE DEF w
<1> QED
  BY <1>1, <1>2, <1>3, OneView, EntriesKept

LEMMA GetPages ==
    ASSUME PagesInv, NEW v \in Views, GetPage(v)
    PROVE  PagesInv'
<1>1. /\ now' = now /\ cache' = cache /\ now \in Nat
      /\ view \in [Views -> View] /\ view[v] \in View /\ view[v].key \in Keys
      /\ cache \in [Keys -> [page: Page, expiry: Nat]]
      /\ view[v].pc = "get"
  BY DEF GetPage, PagesInv, TypeOK, View
<1>2. CASE Hit(v)
  <2> DEFINE w == [view[v] EXCEPT !.pc = "sent", !.page = Lookup(v).page]
  <2>1. view' = [view EXCEPT ![v] = w] /\ view'[v] = w
    BY <1>1, <1>2 DEF GetPage
  <2>2. Lookup(v).page \in Page
    BY <1>1 DEF Lookup
  <2>3. w \in View /\ w.pc = "sent" /\ w.page = Lookup(v).page /\ w.key = view[v].key
    BY <1>1, <2>2 DEF View
  <2>4. /\ view[v].key = "goods_detail" => Lookup(v).page.goods \in Goods
        /\ Rendered(Lookup(v).page, now)
    BY <1>1, <1>2 DEF Hit, Lookup, EntryOK, PagesInv
  <2>5. ViewOK(v)' /\ CountingOK(v)'
    BY <1>1, <2>1, <2>3, <2>4 DEF ViewOK, CountingOK
  <2> HIDE DEF w
  <2> QED
    BY <1>1, <2>1, <2>3, <2>5, OneView, EntriesKept
<1>3. CASE ~Hit(v)
  <2> DEFINE w == [view[v] EXCEPT !.pc = "query"]
  <2>1. view' = [view EXCEPT ![v] = w] /\ view'[v] = w
    BY <1>1, <1>3 DEF GetPage
  <2>2. w \in View /\ w.pc = "query" /\ w.page = view[v].page
    BY <1>1 DEF View, Serving
  <2>3. ViewOK(v)' /\ CountingOK(v)'
    BY <1>1, <2>1, <2>2 DEF ViewOK, CountingOK, PagesInv
  <2> HIDE DEF w
  <2> QED
    BY <1>1, <2>1, <2>2, <2>3, OneView, EntriesKept
<1> QED
  BY <1>2, <1>3

LEMMA QueryPages ==
    ASSUME PagesInv, NEW v \in Views, ListGoodsVo(v) \/ GetGoodsVo(v)
    PROVE  PagesInv'
<1>1. /\ now' = now /\ cache' = cache /\ now \in Nat
      /\ view \in [Views -> View] /\ view[v] \in View /\ view[v].page \in Page
      /\ view[v].pc = "query"
  BY DEF ListGoodsVo, GetGoodsVo, PagesInv, TypeOK, View
<1>2. CASE ListGoodsVo(v)
  <2> DEFINE w == [view[v] EXCEPT !.pc = "render", !.page.read = now]
  <2>1. view' = [view EXCEPT ![v] = w] /\ view'[v] = w /\ view[v].key = "goodslist"
    BY <1>1, <1>2 DEF ListGoodsVo
  <2>2. w \in View /\ w.pc = "render" /\ w.page.read = now /\ w.key = view[v].key
    BY <1>1 DEF View, Serving, Page
  <2>3. ViewOK(v)' /\ CountingOK(v)'
    BY <1>1, <2>1, <2>2 DEF ViewOK, CountingOK
  <2> HIDE DEF w
  <2> QED
    BY <1>1, <2>1, <2>2, <2>3, OneView, EntriesKept
<1>3. CASE GetGoodsVo(v) /\ view[v].goods \in Goods
  <2> DEFINE g == view[v].goods
  <2> DEFINE w == [view[v] EXCEPT !.pc = "render", !.page.goods = g, !.page.read = now]
  <2>1. view' = [view EXCEPT ![v] = w] /\ view'[v] = w
    BY <1>1, <1>3 DEF GetGoodsVo
  <2>2. w \in View /\ w.pc = "render" /\ w.page.read = now /\ w.page.goods = g
    BY <1>1, <1>3 DEF View, Serving, Page
  <2>3. ViewOK(v)' /\ CountingOK(v)'
    BY <1>1, <1>3, <2>1, <2>2 DEF ViewOK, CountingOK
  <2> HIDE DEF w
  <2> QED
    BY <1>1, <2>1, <2>2, <2>3, OneView, EntriesKept
<1>4. CASE GetGoodsVo(v) /\ view[v].goods \notin Goods
  <2> DEFINE w == [view[v] EXCEPT !.pc = "error"]
  <2>1. view' = [view EXCEPT ![v] = w] /\ view'[v] = w
    BY <1>1, <1>4 DEF GetGoodsVo
  <2>2. w \in View /\ w.pc = "error"
    BY <1>1 DEF View
  <2>3. ViewOK(v)' /\ CountingOK(v)'
    BY <2>1, <2>2 DEF ViewOK, CountingOK
  <2> HIDE DEF w
  <2> QED
    BY <1>1, <2>1, <2>2, <2>3, OneView, EntriesKept
<1> QED
  BY <1>2, <1>3, <1>4

LEMMA RenderPages ==
    ASSUME PagesInv, NEW v \in Views, Render(v)
    PROVE  PagesInv'
<1>1. /\ now' = now /\ cache' = cache /\ now \in Nat
      /\ view \in [Views -> View] /\ view[v] \in View /\ view[v].page \in Page
      /\ view[v].pc = "render" /\ view[v].page.goods \in Goods \cup {None}
      /\ view[v].page.read <= now /\ view[v].page.read \in Nat
      /\ view[v].key = "goods_detail" => view[v].page.goods \in Goods
  BY DEF Render, PagesInv, TypeOK, View, ViewOK, Page
<1>2. CASE view[v].page.goods = None
  <2> DEFINE w == [view[v] EXCEPT !.pc = "put"]
  <2>1. view' = [view EXCEPT ![v] = w] /\ view'[v] = w
    BY <1>1, <1>2 DEF Render
  <2>2. w \in View /\ w.pc = "put" /\ w.page = view[v].page /\ w.key = view[v].key
    BY <1>1 DEF View, Serving
  <2>3. None \notin Goods
    BY PagesConstants
  <2>4. ViewOK(v)' /\ CountingOK(v)'
    BY <1>1, <1>2, <2>1, <2>2, <2>3 DEF ViewOK, CountingOK, Rendered
  <2> HIDE DEF w
  <2> QED
    BY <1>1, <2>1, <2>2, <2>4, OneView, EntriesKept
<1>3. CASE view[v].page.goods \in Goods
  <2> DEFINE g == view[v].page.goods
  <2> DEFINE w == [view[v] EXCEPT !.pc = "put", !.page.status = MiaoshaStatus(g),
                                  !.page.remain = RemainSeconds(g)]
  <2>0. g # None /\ EndDate[g] \in Nat
    BY <1>3, PagesConstants
  <2>1. view' = [view EXCEPT ![v] = w] /\ view'[v] = w
    BY <1>1, <1>3, <2>0 DEF Render
  <2>2. MiaoshaStatus(g) \in 0..2 /\ RemainSeconds(g) \in Seconds
    BY <1>3, RenderedNow
  <2>3. /\ w \in View /\ w.pc = "put" /\ w.page.goods = g /\ w.page.read = view[v].page.read
        /\ w.page.status = MiaoshaStatus(g) /\ w.page.remain = RemainSeconds(g)
    BY <1>1, <1>3, <2>2 DEF View, Serving, Page
  <2>4. Rendered(w.page, now)
    <3>1. w.page.read > EndDate[g] => now > EndDate[g]
      BY <1>1, <2>0, <2>3
    <3> QED
      BY <1>3, <2>3, <3>1, RenderedNow DEF Rendered
  <2>5. ViewOK(v)' /\ CountingOK(v)'
    BY <1>1, <1>3, <2>1, <2>3, <2>4 DEF ViewOK, CountingOK
  <2> HIDE DEF w
  <2> QED
    BY <1>1, <2>1, <2>3, <2>5, OneView, EntriesKept
<1> QED
  BY <1>1, <1>2, <1>3

\* The page that the tab v has made goes into the cache.
LEMMA PutEntries ==
    ASSUME PagesInv, NEW v \in Views, view[v].pc = "put", now' = now,
           cache' = cache \/ cache' = WithPage(v)
    PROVE  /\ Made(v) \in Page
           /\ Made(v).goods = view[v].page.goods
           /\ Made(v).put = now
           /\ Rendered(Made(v), now)
           /\ cache' \in [Keys -> [page: Page, expiry: Nat]]
           /\ \A k \in Keys : EntryOK(k)'
<1>1. /\ now \in Nat /\ view[v].page \in Page /\ view[v].key \in Keys
      /\ cache \in [Keys -> [page: Page, expiry: Nat]]
      /\ Rendered(view[v].page, now)
      /\ view[v].key = "goods_detail" => view[v].page.goods \in Goods
  BY DEF PagesInv, TypeOK, View, ViewOK
<1>2. /\ Made(v) \in Page /\ Made(v).put = now
      /\ Made(v).goods = view[v].page.goods /\ Made(v).status = view[v].page.status
      /\ Made(v).remain = view[v].page.remain /\ Made(v).read = view[v].page.read
  BY <1>1 DEF Made, Page
<1>3. Rendered(Made(v), now)
  BY <1>1, <1>2 DEF Rendered
<1>4. Expiry \in Nat /\ Expiry = now + Lifetime * PerSecond
  BY <1>1, LifetimeType DEF Expiry
<1>5. CASE cache' = WithPage(v)
  <2> DEFINE e == [page |-> Made(v), expiry |-> Expiry]
  <2>1. cache' = [cache EXCEPT ![view[v].key] = e]
    BY <1>5 DEF WithPage
  <2>2. /\ e \in [page: Page, expiry: Nat]
        /\ e.page = Made(v) /\ e.expiry = now + Lifetime * PerSecond
    BY <1>2, <1>4
  <2> HIDE DEF e
  <2>3. cache' \in [Keys -> [page: Page, expiry: Nat]]
    BY <1>1, <2>1, <2>2
  <2>4. ASSUME NEW k \in Keys PROVE EntryOK(k)'
    <3>1. CASE k = view[v].key
      <4>1. cache'[k] = e
        BY <1>1, <2>1, <3>1
      <4> QED
        BY <1>1, <1>2, <1>3, <2>2, <3>1, <4>1 DEF EntryOK
    <3>2. CASE k # view[v].key
      <4>1. cache'[k] = cache[k]
        BY <1>1, <2>1, <3>2
      <4> QED
        BY <4>1 DEF EntryOK, PagesInv
    <3> QED
      BY <3>1, <3>2
  <2> QED
    BY <1>2, <1>3, <2>3, <2>4
<1>6. CASE cache' = cache
  BY <1>2, <1>3, <1>6, EntriesKept
<1> QED
  BY <1>5, <1>6

LEMMA PutPages ==
    ASSUME PagesInv, NEW v \in Views, PutPage(v)
    PROVE  PagesInv'
<1> DEFINE w == [view[v] EXCEPT !.pc = "sent", !.page = Made(v)]
<1>1. /\ now' = now /\ cache' = WithPage(v) /\ view[v].pc = "put"
      /\ view \in [Views -> View] /\ view[v] \in View
      /\ view' = [view EXCEPT ![v] = w] /\ view'[v] = w
      /\ view[v].key = "goods_detail" => view[v].page.goods \in Goods
  BY DEF PutPage, PagesInv, TypeOK, ViewOK
<1>2. /\ Made(v) \in Page /\ Made(v).goods = view[v].page.goods
      /\ Rendered(Made(v), now)
      /\ cache' \in [Keys -> [page: Page, expiry: Nat]]
      /\ \A k \in Keys : EntryOK(k)'
  BY <1>1, PutEntries
<1>3. w \in View /\ w.pc = "sent" /\ w.page = Made(v) /\ w.key = view[v].key
  BY <1>1, <1>2 DEF View
<1>4. ViewOK(v)' /\ CountingOK(v)'
  BY <1>1, <1>2, <1>3 DEF ViewOK, CountingOK
<1> HIDE DEF w
<1> QED
  BY <1>1, <1>2, <1>3, <1>4, OneView

LEMMA FailPages ==
    ASSUME PagesInv, NEW v \in Views, ServeFails(v)
    PROVE  PagesInv'
<1> DEFINE w == [view[v] EXCEPT !.pc = "error"]
<1>1. /\ now' = now /\ view \in [Views -> View] /\ view[v] \in View
      /\ view' = [view EXCEPT ![v] = w] /\ view'[v] = w
  BY DEF ServeFails, PagesInv, TypeOK
<1>2. /\ cache' \in [Keys -> [page: Page, expiry: Nat]]
      /\ \A k \in Keys : EntryOK(k)'
  <2>1. CASE cache' = cache
    BY <1>1, <2>1, EntriesKept
  <2>2. CASE view[v].pc = "put" /\ cache' = WithPage(v)
    BY <1>1, <2>2, PutEntries
  <2> QED
    BY <2>1, <2>2 DEF ServeFails
<1>3. w \in View /\ w.pc = "error"
  BY <1>1 DEF View
<1>4. ViewOK(v)' /\ CountingOK(v)'
  BY <1>1, <1>3 DEF ViewOK, CountingOK
<1> HIDE DEF w
<1> QED
  BY <1>1, <1>2, <1>3, <1>4, OneView

\* Timer starts a countdown that is over when it should be.
LEMMA TimerStarts ==
    ASSUME NEW r \in Seconds, now \in Nat
    PROVE  /\ Timer(r) \in Nat
           /\ r > 0 => Over(Timer(r), r - 1) = Over(now, r)
<1>1. r \in Int /\ PerSecond \in Nat /\ now \in Int
  BY PagesConstants DEF Seconds
<1>2. Over(now + PerSecond, r - 1) = Over(now, r)
  BY <1>1, OverStep, Zenon
<1> QED
  BY <1>1, <1>2 DEF Timer

LEMMA LoadPages ==
    ASSUME PagesInv, NEW v \in Views, Load(v)
    PROVE  PagesInv'
<1> DEFINE p == view[v].page
<1> DEFINE w == [view[v] EXCEPT !.pc = "shown", !.page = [p EXCEPT !.read = 0, !.put = 0],
                                !.remain = p.remain, !.due = Timer(p.remain)]
<1>1. /\ now' = now /\ cache' = cache /\ now \in Nat
      /\ view \in [Views -> View] /\ view[v] \in View /\ p \in Page
      /\ view[v].pc = "sent" /\ Rendered(p, now) /\ p.remain \in Seconds
      /\ view[v].key = "goods_detail" => p.goods \in Goods
      /\ view' = [view EXCEPT ![v] = w] /\ view'[v] = w
  BY DEF Load, PagesInv, TypeOK, View, ViewOK, Page
<1>2. /\ Timer(p.remain) \in Nat
      /\ p.remain > 0 => Over(Timer(p.remain), p.remain - 1) = Over(now, p.remain)
  BY <1>1, TimerStarts
<1>3. /\ w \in View /\ w.pc = "shown" /\ w.key = view[v].key /\ w.page.goods = p.goods
      /\ w.remain = p.remain /\ w.due = Timer(p.remain)
  BY <1>1, <1>2 DEF View, Page
<1>4. Over(now, 0) = now /\ now \in Int
  BY <1>1, OverStep
<1>5. CountingOK(v)'
  <2> SUFFICES ASSUME p.goods \in Goods PROVE CountingOK(v)'
    BY <1>1, <1>3 DEF CountingOK
  <2>1. p.remain >= 0 => Over(now, p.remain) > StartDate[p.goods] - PerSecond
    BY <1>1 DEF Rendered
  <2>2. p.remain = 0 => now > StartDate[p.goods] - PerSecond
    BY <1>4, <2>1
  <2>3. p.remain > 0 => Over(Timer(p.remain), p.remain - 1) > StartDate[p.goods] - PerSecond
    BY <1>1, <1>2, <2>1 DEF Seconds
  <2> HIDE DEF p, w
  <2> QED
    BY <1>1, <1>3, <2>2, <2>3 DEF CountingOK
<1>6. ViewOK(v)'
  BY <1>1, <1>3 DEF ViewOK
<1> HIDE DEF w
<1> QED
  BY <1>1, <1>3, <1>5, <1>6, OneView, EntriesKept

LEMMA CountDownPages ==
    ASSUME PagesInv, NEW v \in Views, CountDown(v)
    PROVE  PagesInv'
<1> DEFINE r == view[v].remain
<1> DEFINE left == r - 1
<1> DEFINE w == [view[v] EXCEPT !.remain = left, !.due = Timer(left)]
<1> DEFINE early == StartDate[view[v].page.goods] - PerSecond
<1>1. /\ now' = now /\ cache' = cache /\ now \in Nat
      /\ view \in [Views -> View] /\ view[v] \in View /\ view[v].due \in Nat
      /\ view[v].pc = "shown" /\ r > 0 /\ r \in Seconds /\ now >= view[v].due
      /\ view' = [view EXCEPT ![v] = w] /\ view'[v] = w
  BY DEF CountDown, PagesInv, TypeOK, View
<1>2. left \in Seconds /\ left \in Int /\ left >= 0
  BY <1>1 DEF Seconds
<1>3. /\ Timer(left) \in Nat
      /\ left > 0 => Over(Timer(left), left - 1) = Over(now, left)
  BY <1>1, <1>2, TimerStarts
<1>4. /\ Over(view[v].due, left) <= Over(now, left)
      /\ Over(view[v].due, left) \in Int /\ Over(now, left) \in Int
      /\ Over(now, 0) = now
  <2>1. now \in Int /\ view[v].due \in Int /\ view[v].due <= now
    BY <1>1
  <2> HIDE DEF left
  <2> QED
    BY <1>2, <2>1, OverStep, Zenon
<1>5. /\ w \in View /\ w.pc = "shown" /\ w.key = view[v].key /\ w.page = view[v].page
      /\ w.remain = left /\ w.due = Timer(left)
  BY <1>1, <1>2, <1>3 DEF View
<1>6. CountingOK(v)'
  <2> SUFFICES ASSUME view[v].page.goods \in Goods PROVE CountingOK(v)'
    BY <1>1, <1>5 DEF CountingOK
  <2>1. Over(view[v].due, left) > early /\ early \in Int
    BY <1>1, PagesConstants DEF PagesInv, CountingOK
  <2>2. Over(now, left) > early
    <3> HIDE DEF left, early
    <3> QED
      BY <1>4, <2>1
  <2>3. left = 0 => now > early
    BY <1>4, <2>2
  <2>4. left > 0 => Over(Timer(left), left - 1) > early
    BY <1>3, <2>2
  <2> HIDE DEF left, w
  <2> QED
    BY <1>1, <1>5, <2>3, <2>4 DEF CountingOK
<1>7. ViewOK(v)'
  BY <1>1, <1>5 DEF ViewOK, PagesInv
<1> HIDE DEF w
<1> QED
  BY <1>1, <1>5, <1>6, <1>7, OneView, EntriesKept

LEMMA ClosePages ==
    ASSUME PagesInv, NEW v \in Views, Close(v)
    PROVE  PagesInv'
<1>1. /\ view' = [view EXCEPT ![v] = Closed] /\ now' = now /\ cache' = cache
      /\ view'[v] = Closed
  BY DEF Close, PagesInv, TypeOK
<1>2. Closed \in View /\ Closed.pc = "idle"
  <2>1. Blank \in Page
    BY DEF Blank, Page, Seconds
  <2> QED
    BY <2>1 DEF Closed, View, Seconds, Keys
<1>3. ViewOK(v)' /\ CountingOK(v)'
  BY <1>1, <1>2 DEF ViewOK, CountingOK
<1> QED
  BY <1>1, <1>2, <1>3, OneView, EntriesKept

LEMMA NextPages == PagesInv /\ [Next]_vars => PagesInv'
<1> SUFFICES ASSUME PagesInv, [Next]_vars PROVE PagesInv'
  OBVIOUS
<1>1. CASE Tick
  BY <1>1, TickPages
<1>2. ASSUME NEW v \in Views, NEW k \in Keys, NEW g \in GoodsIds \cup {None}, Ask(v, k, g)
      PROVE  PagesInv'
  BY <1>2, AskPages
<1>3. ASSUME NEW v \in Views, Serve(v) PROVE PagesInv'
  BY <1>3, GetPages, QueryPages, RenderPages, PutPages, FailPages DEF Serve
<1>4. ASSUME NEW v \in Views, Load(v) \/ CountDown(v) \/ Close(v) PROVE PagesInv'
  BY <1>4, LoadPages, CountDownPages, ClosePages
<1>5. CASE UNCHANGED vars
  <2>1. now' = now /\ cache' = cache /\ view' = view
    BY <1>5 DEF vars
  <2> QED
    BY <2>1 DEF PagesInv, TypeOK, ViewOK, CountingOK, EntryOK
<1> QED
  BY <1>1, <1>2, <1>3, <1>4, <1>5 DEF Next

\* The inductive invariant holds: pages in the cache, on their way and in the
\* tabs are true of the time they were rendered, and countdowns end in time.
THEOREM PagesInvariant == Spec => []PagesInv
BY InitPages, NextPages, PTL DEF Spec

-----------------------------------------------------------------------------
(* Theorems                                                                *)

\* remainSeconds is never below -1, and the rest of the state keeps its shape.
THEOREM PagesTypeCorrect == Spec => []TypeOK
<1>1. PagesInv => TypeOK
  BY DEF PagesInv
<1> QED
  BY <1>1, PagesInvariant, PTL

\* The countdown in the page never enables the buy button a whole second or
\* more before the sale starts, whatever the cache and the network delay.
THEOREM ButtonNeverEarly == Spec => []ButtonNotEarly
<1>1. PagesInv => ButtonNotEarly
  BY DEF PagesInv, ButtonNotEarly, BuyButton, CountingOK, ViewOK
<1> QED
  BY <1>1, PagesInvariant, PTL

-----------------------------------------------------------------------------
(* What is sent                                                            *)

\* Only a hit and a put send a page, and what they send has been rendered
\* and is within its lifetime.
LEMMA SentPage ==
    ASSUME PagesInv, [Next]_vars, NEW v \in Views, Sends(v)
    PROVE  /\ now \in Nat /\ view'[v].page \in Page
           /\ now < view'[v].page.put + Lifetime * PerSecond
           /\ Rendered(view'[v].page, now)
<1>1. /\ now \in Nat /\ view \in [Views -> View] /\ view[v] \in View
      /\ cache \in [Keys -> [page: Page, expiry: Nat]]
      /\ view[v].pc # "sent" /\ view'[v].pc = "sent" /\ view[v].key \in Keys
  BY DEF PagesInv, TypeOK, View, Sends
<1>2. CASE GetPage(v) /\ Hit(v)
  <2>1. view'[v].page = Lookup(v).page
    BY <1>1, <1>2 DEF GetPage, View
  <2>2. /\ Lookup(v).page \in Page
        /\ now < Lookup(v).expiry
        /\ Lookup(v).expiry = Lookup(v).page.put + Lifetime * PerSecond
        /\ Rendered(Lookup(v).page, now)
    BY <1>1, <1>2 DEF Hit, Lookup, EntryOK, PagesInv
  <2> QED
    BY <1>1, <2>1, <2>2
<1>3. CASE PutPage(v)
  <2>1. view'[v].page = Made(v)
    BY <1>1, <1>3 DEF PutPage, View
  <2>2. /\ Made(v) \in Page /\ Made(v).put = now
        /\ Rendered(Made(v), now)
    BY <1>3, PutEntries DEF PutPage
  <2>3. Lifetime * PerSecond \in Nat \ {0}
    BY PagesConstants
  <2> QED
    BY <1>1, <2>1, <2>2, <2>3
<1>4. ASSUME NEW u \in Views, u # v, Serve(u) \/ Load(u) \/ CountDown(u) \/ Close(u)
             \/ \E k \in Keys, g \in GoodsIds \cup {None} : Ask(u, k, g)
      PROVE  view'[v] = view[v]
  <2>1. CASE Serve(u)
    BY <1>1, <1>4, <2>1
    DEF Serve, GetPage, ListGoodsVo, GetGoodsVo, Render, PutPage, ServeFails
  <2>2. CASE \E k \in Keys, g \in GoodsIds \cup {None} : Ask(u, k, g)
    BY <1>1, <1>4, <2>2 DEF Ask
  <2>3. CASE Load(u) \/ CountDown(u) \/ Close(u)
    BY <1>1, <1>4, <2>3 DEF Load, CountDown, Close
  <2> QED
    BY <1>4, <2>1, <2>2, <2>3
<1>5. ASSUME Serve(v) PROVE PutPage(v) \/ (GetPage(v) /\ Hit(v))
  <2>1. CASE GetPage(v) /\ ~Hit(v)
    BY <1>1, <2>1 DEF GetPage, View
  <2>2. CASE ListGoodsVo(v) \/ GetGoodsVo(v)
    BY <1>1, <2>2 DEF ListGoodsVo, GetGoodsVo, View
  <2>3. CASE Render(v) \/ ServeFails(v)
    BY <1>1, <2>3 DEF Render, ServeFails, View
  <2> QED
    BY <1>5, <2>1, <2>2, <2>3 DEF Serve
<1>6. ~Load(v) /\ ~CountDown(v) /\ ~Close(v)
  BY <1>1 DEF Load, CountDown, Close, Closed, View
<1>7. ASSUME NEW k \in Keys, NEW g \in GoodsIds \cup {None} PROVE ~Ask(v, k, g)
  <2>1. [Closed EXCEPT !.pc = "get", !.key = k, !.goods = g].pc = "get"
    BY DEF Closed
  <2> QED
    BY <1>1, <2>1 DEF Ask
<1>8. ~Tick /\ ~(UNCHANGED vars)
  BY <1>1 DEF Tick, vars
<1>9. PICK u \in Views : Serve(u) \/ Load(u) \/ CountDown(u) \/ Close(u)
             \/ \E k \in Keys, g \in GoodsIds \cup {None} : Ask(u, k, g)
  BY <1>8 DEF Next
<1>10. u = v
  BY <1>1, <1>4, <1>9
<1> QED
  BY <1>2, <1>3, <1>5, <1>6, <1>7, <1>9, <1>10

\* Whoever is sent "in progress" or "over", from the cache or by the thread
\* that rendered the page, is sent it after the start or after the end.
THEOREM StatusNeverAhead == Spec => StatusNotAhead
<1>1. PagesInv /\ [Next]_vars =>
        [\A v \in Views :
           LET p == view'[v].page
           IN Sends(v) /\ p.goods # None =>
                /\ p.status = 1 => now >= StartDate[p.goods]
                /\ p.status = 2 => now > EndDate[p.goods]]_vars
  BY SentPage DEF Rendered, Page
<1> QED
  BY <1>1, PagesInvariant, PTL DEF Spec, StatusNotAhead

\* A page that is sent late enough after the end of the sale says so, even when
\* a slow thread has put it over a newer one.
THEOREM EndIsTold == Spec => EndedIsTold
<1>1. PagesInv /\ [Next]_vars =>
        [\A v \in Views :
           LET p == view'[v].page
           IN /\ Sends(v) /\ p.goods # None
              /\ now > EndDate[p.goods] + Lifetime * PerSecond + (p.put - p.read)
              => p.status = 2 /\ p.remain < 0]_vars
  <2> SUFFICES ASSUME PagesInv, [Next]_vars, NEW v \in Views, Sends(v),
                      view'[v].page.goods # None,
                      now > EndDate[view'[v].page.goods] + Lifetime * PerSecond
                              + (view'[v].page.put - view'[v].page.read)
               PROVE  view'[v].page.status = 2 /\ view'[v].page.remain < 0
    OBVIOUS
  <2> DEFINE p == view'[v].page
  <2>1. /\ now \in Nat /\ p \in Page
        /\ now < p.put + Lifetime * PerSecond
        /\ Rendered(p, now)
    BY SentPage
  <2>2. p.goods \in Goods /\ p.put \in Nat /\ p.read \in Nat
    BY <2>1 DEF Page
  <2>3. EndDate[p.goods] \in Nat
    BY <2>2, PagesConstants
  <2>4. p.read > EndDate[p.goods]
    <3>1. now > EndDate[p.goods] + Lifetime * PerSecond + (p.put - p.read)
      OBVIOUS
    <3> HIDE DEF p
    <3> QED
      BY <2>1, <2>2, <2>3, <3>1, LifetimeType
  <2> QED
    BY <2>1, <2>2, <2>4 DEF Rendered
<1> QED
  BY <1>1, PagesInvariant, PTL DEF Spec, EndedIsTold
=============================================================================
