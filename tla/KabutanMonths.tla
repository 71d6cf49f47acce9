----------------------------- MODULE KabutanMonths -----------------------------
(***************************************************************************)
(* Kabutan: the market news of a month is a list of numbered pages, newest *)
(* first.  free_full probes the months from the present one backwards up   *)
(* to the first one behind the paywall, and leaves out months it holds for *)
(* complete; incremental crawls the last months again.  The present month  *)
(* grows meanwhile, and time goes on.                                      *)
(***************************************************************************)
EXTENDS Naturals, Sequences

CONSTANTS
  LastMonth,      \* bound: months are 1 .. LastMonth
  FirstNow,       \* the present month at first
  FirstArticles,  \* the articles of each month at first
  LockedArticles, \* how many of a month's, the oldest, are shown without a link
  MonthPageSize,
  MonthPages,     \* the values of max_pages_per_month
  OverlapMonths,  \* overlap_months of incremental
  MaxNewArticles, MaxMonthRuns \* bounds

Months == 1 .. LastMonth

ASSUME KabutanAssumption ==
  /\ LastMonth \in Nat \ {0} /\ FirstNow \in Months
  /\ FirstArticles \in [Months -> Nat] /\ LockedArticles \in [Months -> Nat]
  /\ \A m \in Months : m > FirstNow => FirstArticles[m] = 0
  /\ \A m, older \in Months : older < m /\ LockedArticles[m] > 0 => LockedArticles[older] = FirstArticles[older]
  /\ \A m \in Months : LockedArticles[m] <= FirstArticles[m]
  /\ MonthPageSize \in Nat \ {0} /\ MonthPages \subseteq Nat \ {0} /\ OverlapMonths \in Nat
  /\ MaxNewArticles \in Nat /\ MaxMonthRuns \in Nat

VARIABLES
  now, articles,  \* the present month; how many articles each month has
  runMode,        \* mode of the run, "off" between runs
  toDiscover,           \* months discover has still to look at
  scopes,         \* months it has yielded and none has begun to crawl
  pageCache,      \* _list_page_cache: page one as the probe has seen it
  month, pageNow, pagesToGo, \* the month that is crawled, the page and the pages left
  metIds,         \* seen_month_ids; seen_page_signatures are sets of these
  given,          \* the articles the crawl of the month has yielded
  atFirstPage,    \* the articles there were when its page one was fetched
  since,          \* how many have arrived since
  monthState,     \* the stored checkpoints
  covered,        \* atFirstPage of the crawl a checkpoint goes back to
  mayLack,        \* its crawl may lack articles: a page's worth arrived, or a page came without its list
  articlesKept,   \* durable articles
  capped,         \* this run has left a month at its page limit
  newArticles, monthRuns

kabutanVars == <<now, articles, runMode, toDiscover, scopes, pageCache, month, pageNow, pagesToGo, metIds, given, atFirstPage,
  since, monthState, covered, mayLack, articlesKept, capped, newArticles, monthRuns>>

calendar == <<now, articles, newArticles>>
crawling == <<month, pageNow, pagesToGo, metIds, given, atFirstPage, since>>
monthsDurable == <<monthState, covered, mayLack, articlesKept>>

NoMonth == 0
NotCached == [months |-> 0, items |-> {}, locked |-> FALSE]

KabutanTypeOK ==
  /\ now \in Months /\ articles \in [Months -> Nat]
  /\ runMode \in {"off", "free_full", "incremental"}
  /\ toDiscover \in Seq(Months) /\ scopes \in Seq(Months) /\ month \in Months \cup {NoMonth}
  /\ pageNow \in Nat /\ pagesToGo \in Nat /\ metIds \subseteq Nat /\ given \subseteq Nat
  /\ monthState \in [Months -> [page : Nat, status : {"none", "partial", "complete", "free"}]]
  /\ covered \in [Months -> Nat] /\ mayLack \in [Months -> BOOLEAN]
  /\ articlesKept \in [Months -> SUBSET Nat] /\ capped \in BOOLEAN

KabutanInit ==
  /\ now = FirstNow /\ articles = FirstArticles /\ newArticles = 0 /\ monthRuns = 0
  /\ runMode = "off" /\ toDiscover = <<>> /\ scopes = <<>> /\ pageCache = [m \in Months |-> NotCached]
  /\ month = NoMonth /\ pageNow = 0 /\ pagesToGo = 0 /\ metIds = {} /\ given = {} /\ atFirstPage = 0 /\ since = 0
  /\ monthState = [m \in Months |-> [page |-> 0, status |-> "none"]]
  /\ covered = [m \in Months |-> 0] /\ mayLack = [m \in Months |-> FALSE]
  /\ articlesKept = [m \in Months |-> {}] /\ capped = FALSE

------------------------------------------------------------------------------
(* The site: article n of a month is its n-th oldest.                       *)

ArticleRows(m, p) ==
  {a \in 1 .. articles[m] : a + p * MonthPageSize > articles[m] /\ a + (p - 1) * MonthPageSize <= articles[m]}

(* parse_list_page, has_locked_news_rows                                    *)
Linked(m, rows) == {a \in rows : a > LockedArticles[m]}
HasLocked(m, rows) == \E a \in rows : a <= LockedArticles[m]
PageOf(m, p) == [months |-> articles[m], items |-> Linked(m, ArticleRows(m, p)), locked |-> HasLocked(m, ArticleRows(m, p))]

ArticleArrives ==
  /\ newArticles < MaxNewArticles /\ newArticles' = newArticles + 1
  /\ articles' = [articles EXCEPT ![now] = @ + 1]
  /\ since' = IF month = now THEN since + 1 ELSE since
  /\ UNCHANGED <<now, runMode, toDiscover, scopes, pageCache, month, pageNow, pagesToGo, metIds, given, atFirstPage,
       monthsDurable, capped, monthRuns>>

MonthPasses ==
  /\ now < LastMonth /\ now' = now + 1
  /\ UNCHANGED <<articles, newArticles, runMode, toDiscover, scopes, pageCache, crawling, monthsDurable, capped, monthRuns>>

------------------------------------------------------------------------------
(* discover                                                                 *)

(* resolve_month_window                                                     *)
Window(mode) ==
  IF mode = "free_full" THEN [k \in 1 .. now |-> now + 1 - k]
  ELSE LET first == IF now > OverlapMonths THEN now - OverlapMonths ELSE 1 IN
         [k \in 1 .. now + 1 - first |-> first + k - 1]

StartKabutan(mode) ==
  /\ runMode = "off" /\ monthRuns < MaxMonthRuns /\ monthRuns' = monthRuns + 1
  /\ runMode' = mode /\ toDiscover' = Window(mode) /\ scopes' = <<>> /\ capped' = FALSE
  /\ pageCache' = [m \in Months |-> NotCached]
  /\ UNCHANGED <<calendar, crawling, monthsDurable>>

(* Mutation: the month of the boundary is left out.                         *)
ScopesBefore(m, locked) == IF locked THEN <<>> ELSE <<m>>

ScopesUpTo(m, locked) == <<m>>

DiscoverMonth ==
  /\ toDiscover # <<>> /\ scopes = <<>>
  /\ LET m == Head(toDiscover) IN
       IF runMode = "free_full"
       THEN LET first == PageOf(m, 1) IN
              /\ pageCache' = [pageCache EXCEPT ![m] = first]
              /\ scopes' = ScopesUpTo(m, first.locked)
              /\ toDiscover' = IF first.locked THEN <<>> ELSE Tail(toDiscover)
       ELSE scopes' = <<m>> /\ toDiscover' = Tail(toDiscover) /\ UNCHANGED pageCache
  /\ UNCHANGED <<calendar, runMode, crawling, monthsDurable, capped, monthRuns>>

------------------------------------------------------------------------------
(* crawl, crawl_month                                                       *)

Accepted(m) == monthState[m].status \in {"complete", "free"}

(* is_checkpoint_durable_complete                                           *)
LeftOut(m) == Accepted(m) /\ runMode = "free_full" /\ m # now

SkipMonth ==
  /\ month = NoMonth /\ scopes # <<>> /\ LeftOut(Head(scopes))
  /\ scopes' = Tail(scopes)
  /\ UNCHANGED <<calendar, runMode, toDiscover, pageCache, crawling, monthsDurable, capped, monthRuns>>

FirstPage(m) == IF runMode = "incremental" \/ m = now THEN 1 ELSE monthState[m].page + 1

Cached(m, p) == p = 1 /\ pageCache[m] # NotCached

BeginMonth(pages) ==
  /\ month = NoMonth /\ scopes # <<>> /\ ~LeftOut(Head(scopes))
  /\ LET m == Head(scopes)
         first == FirstPage(m)
     IN
       /\ month' = m /\ scopes' = Tail(scopes)
       /\ pageNow' = first /\ pagesToGo' = pages /\ metIds' = {} /\ given' = {}
       /\ atFirstPage' = IF Cached(m, first) THEN pageCache[m].months
                         ELSE IF first = 1 THEN articles[m] ELSE covered[m]
       /\ since' = IF Cached(m, first) THEN articles[m] - pageCache[m].months
                   ELSE IF first > 1 /\ mayLack[m] THEN MonthPageSize ELSE 0
  /\ UNCHANGED <<calendar, runMode, toDiscover, pageCache, monthsDurable, capped, monthRuns>>

MonthOver ==
  /\ month' = NoMonth /\ pageNow' = 0 /\ pagesToGo' = 0 /\ metIds' = {} /\ given' = {} /\ atFirstPage' = 0 /\ since' = 0

(* The scope is drained, then save_state's last word is its checkpoint.     *)
SaveMonth(page, status, more, lacks) ==
  /\ monthState' = [monthState EXCEPT ![month] = [page |-> page, status |-> status]]
  /\ articlesKept' = [articlesKept EXCEPT ![month] = @ \cup given \cup more]
  /\ covered' = [covered EXCEPT ![month] = atFirstPage]
  /\ mayLack' = [mayLack EXCEPT ![month] = lacks]
  /\ MonthOver

(* Mutation: the limit ends the month.                                      *)
AtLimitDone == "complete"

AtLimit == "partial"

Overtaken == since >= MonthPageSize

(* Behind its last page the site shows an empty one, or the last again.      *)
CrawlPage ==
  /\ month # NoMonth
  /\ LET fetched == IF Cached(month, pageNow) THEN pageCache[month] ELSE PageOf(month, pageNow)
         items == fetched.items
     IN
       IF items = {} \/ items \subseteq metIds
       THEN /\ SaveMonth(pageNow - 1, IF items = {} /\ fetched.locked THEN "free" ELSE "complete", {}, Overtaken)
            /\ UNCHANGED capped
       ELSE IF fetched.locked THEN SaveMonth(pageNow, "free", items, Overtaken) /\ UNCHANGED capped
       ELSE IF pagesToGo = 1 THEN SaveMonth(pageNow, AtLimit, items, Overtaken) /\ capped' = TRUE
       ELSE /\ pageNow' = pageNow + 1 /\ pagesToGo' = pagesToGo - 1
            /\ metIds' = metIds \cup items /\ given' = given \cup items
            /\ UNCHANGED <<month, atFirstPage, since, monthsDurable, capped>>
  /\ pageCache' = [pageCache EXCEPT ![month] = IF pageNow = 1 THEN NotCached ELSE @]
  /\ UNCHANGED <<calendar, runMode, toDiscover, scopes, monthRuns>>

(* HTTP 200 without the list: only the probe looks for it, elsewhere it is   *)
(* the end.                                                                 *)
PageWithoutList ==
  /\ month # NoMonth /\ ~Cached(month, pageNow) /\ ArticleRows(month, pageNow) # {}
  /\ SaveMonth(pageNow - 1, "complete", {}, TRUE)
  /\ UNCHANGED <<calendar, runMode, toDiscover, scopes, pageCache, capped, monthRuns>>

RunOver == runMode' = "off" /\ toDiscover' = <<>> /\ scopes' = <<>> /\ pageCache' = [m \in Months |-> NotCached]

KabutanEnds ==
  /\ runMode # "off" /\ month = NoMonth /\ toDiscover = <<>> /\ scopes = <<>>
  /\ RunOver /\ UNCHANGED <<calendar, crawling, monthsDurable, capped, monthRuns>>

(* A stop drains what was yielded; a failure, the wall of the site or a      *)
(* crash may lose it.  Neither reaches checkpoint_after_scope.               *)
KabutanInterrupted(drained) ==
  /\ runMode # "off" /\ RunOver /\ MonthOver
  /\ articlesKept' = IF drained /\ month # NoMonth
                     THEN [articlesKept EXCEPT ![month] = @ \cup given] ELSE articlesKept
  /\ UNCHANGED <<calendar, monthState, covered, mayLack, capped, monthRuns>>

KabutanNext ==
  \/ ArticleArrives \/ MonthPasses
  \/ \E mode \in {"free_full", "incremental"} : StartKabutan(mode)
  \/ DiscoverMonth \/ SkipMonth \/ CrawlPage \/ PageWithoutList \/ KabutanEnds
  \/ \E pages \in MonthPages : BeginMonth(pages)
  \/ \E drained \in BOOLEAN : KabutanInterrupted(drained)

KabutanSpec == KabutanInit /\ [][KabutanNext]_kabutanVars

------------------------------------------------------------------------------
(* A month that is held for complete, and will be left out, has all its free *)
(* articles of the time its page one was fetched: no page limit, resumption, *)
(* stale page one or shifted page cuts any off, unless as many arrived as    *)
(* fill a page.  Excepted is a month whose crawl met a page without a list,  *)
(* which the code takes for the end.  Those that arrived later are not       *)
(* promised: the month stays accepted when it is no longer the present one.  *)
AcceptedMonthIsCovered ==
  \A m \in Months : Accepted(m) /\ ~mayLack[m] =>
    (LockedArticles[m] + 1) .. covered[m] \subseteq articlesKept[m]

(* A free_full run that ends by itself, and left no month at its limit, has  *)
(* a complete checkpoint for every month with a free article (of those that    *)
(* were there from the first).                                              *)
FreeFullIsComplete ==
  [][runMode = "free_full" /\ ~capped /\ KabutanEnds =>
       \A m \in 1 .. now : articles[m] > LockedArticles[m] /\ m <= FirstNow => Accepted(m)]_kabutanVars

=============================================================================
