------------------------------ MODULE NaverPages ------------------------------
(***************************************************************************)
(* Naver Finance: how the plugin walks the numbered pages of a board while *)
(* posts arrive and vanish, where it stops, and at which page it goes on   *)
(* in the next run.  A forum, the news of a stock and the relations of its *)
(* news are one list; research reports (and their relations and PDFs) are  *)
(* a list for each category, walked one after the other.                   *)
(***************************************************************************)
EXTENDS Naturals, Sequences, FiniteSets, SequencesExt

CONSTANTS
  BoardKinds,        \* the kinds of dataset of an instance
  Categories,        \* the categories of research reports, in order
  PageSize, FirstPosts, \* posts on a page; posts of a board at first
  PageLimits,        \* the page limits a run may have, 0 for none
  AttachmentLimit,
  StopRepeatPages,   \* stop_repeat_pages and the same for reports
  StopEmptyPages,    \* stop_empty_pages
  MaxArrivals, MaxDeletions, MaxBoardRuns, MaxPage \* bounds

ASSUME NaverAssumption ==
  /\ BoardKinds \subseteq {"forum", "news", "news_relation", "report", "attachment"}
  /\ Categories \in Seq(ToSet(Categories)) /\ Categories # << >>
  /\ \A i, j \in DOMAIN Categories : Categories[i] = Categories[j] => i = j
  /\ PageSize \in Nat \ {0} /\ FirstPosts \in Nat
  /\ PageLimits \subseteq Nat /\ AttachmentLimit \in Nat \ {0}
  /\ StopRepeatPages \in Nat \ {0} /\ StopEmptyPages \in Nat \ {0}
  /\ MaxArrivals \in Nat /\ MaxDeletions \in Nat /\ MaxBoardRuns \in [BoardKinds -> Nat] /\ MaxPage \in Nat

VARIABLES
  boardKind, boardMode, \* the dataset, and incremental or full
  pastEnd,     \* what the site shows after the last page: nothing, or that page
  board,       \* the posts of each category, newest first
  crawlAt,     \* where crawl_pages is
  category, page,
  pagesLeft,   \* max_pages less processed_pages; 0 with no limit
  emptyPages, repeatPages,
  signatures,  \* seen_page_signatures
  knownIds,    \* the ids this run has met
  queue,       \* the items of the page it has yet to look at
  newOnPage,   \* new_count > 0
  filesLeft,   \* attachment_limit less processed_attachments
  endedBy,     \* why the list of a category was left
  resumePage,  \* the page of the candidate checkpoint, 0 for none
  savedPage,   \* the page of the stored checkpoint
  handled,     \* posts this run has yielded or looked at and skipped
  kept,        \* those of runs that saved their checkpoint
  goal,        \* the posts of the category when its first page was asked for
  arrived, deleted, lost, unread, \* arrivals and deletions since; deletions in all; an article that could not be read
  boardRuns

boardVars == <<boardKind, boardMode, pastEnd, board, crawlAt, category, page, pagesLeft, emptyPages, repeatPages,
  signatures, knownIds, queue, newOnPage, filesLeft, endedBy, resumePage, savedPage, handled, kept, goal,
  arrived, deleted, lost, unread, boardRuns>>

siteTraits == <<boardKind, boardMode, pastEnd>>
runCounts == <<emptyPages, repeatPages, signatures>>
ghosts == <<arrived, deleted, lost>>

Research == boardKind \in {"report", "attachment"}
Boards == IF Research THEN ToSet(Categories) ELSE {Head(Categories)}
Posts == 1 .. FirstPosts + MaxArrivals
At == Categories[category]
BoardPosts == Boards \X Posts

NaverTypeOK ==
  /\ boardKind \in BoardKinds /\ boardMode \in {"incremental", "full"} /\ pastEnd \in {"empty", "last"}
  /\ board \in [Boards -> Seq(Posts)]
  /\ crawlAt \in {"off", "list", "page", "end"}
  /\ category \in 1 .. Len(Categories) /\ page \in Nat \ {0} /\ pagesLeft \in Nat
  /\ emptyPages \in 0 .. StopEmptyPages /\ repeatPages \in 0 .. StopRepeatPages
  /\ knownIds \subseteq BoardPosts /\ queue \in Seq(Posts) /\ newOnPage \in BOOLEAN
  /\ filesLeft \in 0 .. AttachmentLimit
  /\ endedBy \in {"none", "limit", "empty", "repeated", "known"}
  /\ resumePage \in Nat /\ savedPage \in Nat
  /\ handled \subseteq BoardPosts /\ kept \subseteq BoardPosts /\ goal \subseteq Posts

NaverInit ==
  /\ boardKind \in BoardKinds /\ boardMode \in {"incremental", "full"} /\ pastEnd \in {"empty", "last"}
  /\ board = [c \in Boards |-> [n \in 1 .. FirstPosts |-> FirstPosts + 1 - n]]
  /\ crawlAt = "off" /\ category = 1 /\ page = 1 /\ pagesLeft = 0
  /\ emptyPages = 0 /\ repeatPages = 0 /\ signatures = {} /\ knownIds = {} /\ queue = <<>>
  /\ newOnPage = FALSE /\ filesLeft = AttachmentLimit /\ endedBy = "none" /\ resumePage = 0 /\ savedPage = 0
  /\ handled = {} /\ kept = {} /\ goal = {} /\ arrived = 0 /\ deleted = 0 /\ lost = 0 /\ unread = FALSE
  /\ boardRuns = 0

------------------------------------------------------------------------------
(* The site; bound: it changes from the first run on.                       *)

UpTo(posts, p) == IF p * PageSize < Len(posts) THEN p * PageSize ELSE Len(posts)
Slice(posts, p) == SubSeq(posts, (p - 1) * PageSize + 1, UpTo(posts, p))
Before(posts, p) == {posts[n] : n \in 1 .. UpTo(posts, p - 1)}
LastPage(posts) == (Len(posts) + PageSize - 1) \div PageSize
Shown(c, p) ==
  IF p <= LastPage(board[c]) \/ pastEnd = "empty" \/ board[c] = <<>> THEN Slice(board[c], p)
  ELSE Slice(board[c], LastPage(board[c]))

(* Ids grow, and the id of a post that vanished is not given again.         *)
PostArrives(c) ==
  /\ boardRuns > 0
  /\ \A d \in Boards : Len(board[d]) + lost < FirstPosts + MaxArrivals
  /\ board' = [board EXCEPT ![c] = <<Len(@) + lost + 1>> \o @]
  /\ arrived' = IF c = At /\ crawlAt # "off" THEN arrived + 1 ELSE arrived
  /\ UNCHANGED <<siteTraits, crawlAt, category, page, pagesLeft, runCounts, knownIds, queue, newOnPage, filesLeft,
       endedBy, resumePage, savedPage, handled, kept, goal, deleted, lost, unread, boardRuns>>

PostVanishes(c, n) ==
  /\ boardRuns > 0
  /\ lost < MaxDeletions /\ n \in DOMAIN board[c]
  /\ board' = [board EXCEPT ![c] = RemoveAt(@, n)]
  /\ deleted' = (IF c = At /\ crawlAt # "off" THEN deleted + 1 ELSE deleted) /\ lost' = lost + 1
  /\ UNCHANGED <<siteTraits, crawlAt, category, page, pagesLeft, runCounts, knownIds, queue, newOnPage, filesLeft,
       endedBy, resumePage, savedPage, handled, kept, goal, arrived, unread, boardRuns>>

------------------------------------------------------------------------------
(* crawl                                                                    *)

(* Mutation: on to the page after the one that was begun.                   *)
StartPageAfter(saved) == saved + 1

(* _forum_start_page, for all datasets.                                     *)
StartPage(saved) == IF saved = 0 THEN 1 ELSE saved

BeginCategory(c, p) ==
  /\ category' = c /\ page' = p
  /\ emptyPages' = 0 /\ repeatPages' = 0 /\ signatures' = {} /\ queue' = <<>> /\ newOnPage' = FALSE
  /\ goal' = ToSet(board[Categories[c]]) \ Before(board[Categories[c]], p)
  /\ arrived' = 0 /\ deleted' = 0 /\ unread' = FALSE /\ endedBy' = "none"

StartBoard(limit) ==
  /\ crawlAt = "off" /\ boardRuns < MaxBoardRuns[boardKind]
  /\ crawlAt' = "list" /\ boardRuns' = boardRuns + 1
  /\ BeginCategory(1, StartPage(savedPage))
  /\ pagesLeft' = limit /\ knownIds' = {} /\ filesLeft' = AttachmentLimit
  /\ resumePage' = savedPage /\ handled' = {}
  /\ UNCHANGED <<siteTraits, board, savedPage, kept, lost>>

Leave(cause) == crawlAt' = "end" /\ endedBy' = cause /\ UNCHANGED <<page, pagesLeft>>

(* Mutation: the page is asked for again.                                   *)
PageAgain(p) == p

PageAfter(p) == p + 1

(* pagesLeft ends at 1 where the limit is reached.  Bound: MaxPage.          *)
TurnPage ==
  /\ page < MaxPage /\ UNCHANGED endedBy /\ crawlAt' = "list" /\ page' = PageAfter(page)
  /\ pagesLeft' = IF pagesLeft = 0 THEN 0 ELSE pagesLeft - 1

(* Mutation: any item that was met says so.                                 *)
SharesItem(items) == \E seen \in signatures : ToSet(items) \cap ToSet(seen) # {}

(* build_research_list_signature                                            *)
Repeated(items) == items \in signatures

EmptyList ==
  /\ crawlAt = "list" /\ Shown(At, page) = <<>>
  /\ IF Research /\ emptyPages + 1 < StopEmptyPages
     THEN emptyPages' = emptyPages + 1 /\ IF pagesLeft = 1 THEN Leave("limit") ELSE TurnPage
     ELSE UNCHANGED emptyPages /\ Leave("empty")
  /\ UNCHANGED <<siteTraits, board, category, repeatPages, signatures, knownIds, queue, newOnPage, filesLeft,
       resumePage, savedPage, handled, kept, goal, ghosts, unread, boardRuns>>

FetchList ==
  /\ crawlAt = "list" /\ Shown(At, page) # <<>>
  /\ LET items == Shown(At, page) IN
       IF Research /\ Repeated(items)
       THEN Leave("repeated") /\ UNCHANGED <<signatures, queue, newOnPage>>
       ELSE /\ crawlAt' = "page" /\ queue' = items /\ newOnPage' = FALSE
            /\ signatures' = IF Research THEN signatures \cup {items} ELSE {}
            /\ UNCHANGED <<endedBy, page, pagesLeft>>
  /\ emptyPages' = 0
  /\ UNCHANGED <<siteTraits, board, category, repeatPages, knownIds, filesLeft, resumePage, savedPage, handled,
       kept, goal, ghosts, unread, boardRuns>>

Incremental == boardMode = "incremental" /\ boardKind \in {"news", "report", "attachment"}
Item == <<At, Head(queue)>>

Met == Incremental /\ Item \in knownIds

(* A look at the item may tell that there is nothing to yield: a forum post  *)
(* that is gone, an article that cannot be read, a report without instrument *)
(* or PDF.  The relations of news need no look.                              *)
MayBeSkipped == boardKind # "news_relation"

(* new_count: news count what is yielded, reports what was not met before.  *)
CountsAsNew(outcome) == outcome # "known" /\ ~(boardKind = "news" /\ outcome = "skipped")

(* What becomes of the next item: it is yielded; it is passed over as one    *)
(* met before; or it is skipped after a look at it.                          *)
TakeItem(outcome) ==
  /\ crawlAt = "page" /\ queue # <<>>
  /\ (outcome = "known") = Met
  /\ outcome = "skipped" => MayBeSkipped
  /\ IF boardKind = "attachment" /\ outcome = "yielded" /\ filesLeft = 0
     THEN Leave("limit") /\ UNCHANGED <<queue, handled, resumePage, filesLeft, newOnPage>>
     ELSE /\ queue' = Tail(queue) /\ handled' = handled \cup {Item}
          /\ resumePage' = IF outcome = "yielded" /\ boardKind # "attachment" THEN page ELSE resumePage
          /\ filesLeft' = IF outcome = "yielded" /\ boardKind = "attachment" THEN filesLeft - 1 ELSE filesLeft
          /\ newOnPage' = (newOnPage \/ CountsAsNew(outcome))
          /\ UNCHANGED <<crawlAt, endedBy, page, pagesLeft>>
  /\ knownIds' = IF Incremental THEN knownIds \cup {Item} ELSE {}
  /\ unread' = (unread \/ (boardKind = "news" /\ outcome = "skipped"))
  /\ UNCHANGED <<siteTraits, board, category, runCounts, savedPage, kept, goal, ghosts, boardRuns>>

PageEnds ==
  /\ crawlAt = "page" /\ queue = <<>>
  /\ repeatPages' = IF Incremental /\ ~newOnPage THEN repeatPages + 1 ELSE 0
  /\ IF repeatPages' = StopRepeatPages THEN Leave("known")
     ELSE IF pagesLeft = 1 THEN Leave("limit")
     ELSE TurnPage
  /\ UNCHANGED <<siteTraits, board, category, emptyPages, signatures, knownIds, queue, newOnPage, filesLeft,
       resumePage, savedPage, handled, kept, goal, ghosts, unread, boardRuns>>

(* Every category begins at the page of the checkpoint and has its own      *)
(* count of pages.  The attachments' limit ends the crawl.                   *)
NextCategory(limit) ==
  /\ crawlAt = "end" /\ Research /\ category < Len(Categories)
  /\ ~(boardKind = "attachment" /\ endedBy = "limit" /\ queue # <<>>)
  /\ (limit = 0) = (pagesLeft = 0)
  /\ crawlAt' = "list" /\ BeginCategory(category + 1, StartPage(savedPage)) /\ pagesLeft' = limit
  /\ UNCHANGED <<siteTraits, board, knownIds, filesLeft, resumePage, savedPage, handled, kept, lost, boardRuns>>

CrawlOver ==
  /\ crawlAt' = "off" /\ category' = 1 /\ page' = 1 /\ pagesLeft' = 0
  /\ emptyPages' = 0 /\ repeatPages' = 0 /\ signatures' = {} /\ knownIds' = {} /\ queue' = <<>>
  /\ newOnPage' = FALSE /\ filesLeft' = AttachmentLimit /\ endedBy' = "none" /\ resumePage' = 0
  /\ handled' = {} /\ goal' = {} /\ arrived' = 0 /\ deleted' = 0 /\ unread' = FALSE
  /\ UNCHANGED <<siteTraits, board, lost, boardRuns>>

(* The scope is over, or is stopped: what was yielded is drained and the     *)
(* candidate checkpoint saved.                                              *)
SaveScope == savedPage' = resumePage /\ kept' = kept \cup handled /\ CrawlOver

BoardEnds ==
  /\ crawlAt = "end"
  /\ \/ ~Research \/ category = Len(Categories)
     \/ boardKind = "attachment" /\ endedBy = "limit" /\ queue # <<>>
  /\ SaveScope

BoardStopped == crawlAt \in {"list", "page"} /\ SaveScope

(* A request or a page that fails, or the process: nothing is saved.        *)
BoardRaises == crawlAt \in {"list", "page"} /\ CrawlOver /\ UNCHANGED <<savedPage, kept>>

BoardGoesOn ==
  \/ EmptyList \/ FetchList \/ PageEnds \/ BoardEnds
  \/ \E o \in {"yielded", "known", "skipped"} : TakeItem(o)
  \/ \E limit \in PageLimits : NextCategory(limit)

NaverNext ==
  \/ BoardGoesOn \/ BoardStopped \/ BoardRaises
  \/ \E limit \in PageLimits : StartBoard(limit)
  \/ \E c \in Boards : PostArrives(c) \/ \E n \in DOMAIN board[c] : PostVanishes(c, n)

NaverSpec == NaverInit /\ [][NaverNext]_boardVars /\ WF_boardVars(BoardGoesOn)

------------------------------------------------------------------------------
Missed(posts) == {p \in posts : <<At, p>> \notin handled}

(* A list that is left because nothing more is to be had has been seen from  *)
(* the first page asked for to its end, up to as many posts as vanished      *)
(* meanwhile and moved others to a page behind the crawl.  Two things are    *)
(* excepted that the code mistakes for the end: as many arrivals as fill a   *)
(* page, and pages with nothing but articles that cannot be read.           *)
ListIsCovered ==
  crawlAt = "end" /\ endedBy # "limit" /\ arrived < PageSize /\ (endedBy = "known" => ~unread)
    => Cardinality(Missed(goal \cap ToSet(board[At]))) <= deleted

(* No page before the one a run resumes at holds a post that was there from  *)
(* the first and no run has kept, up to as many as vanished.  Datasets with  *)
(* one list only: reports resume every category at the page of the last.     *)
NothingBehindTheCheckpoint ==
  ~Research /\ savedPage > 0 =>
    LET behind == Before(board[Head(Categories)], savedPage) IN
      Cardinality({p \in behind : p <= FirstPosts /\ <<Head(Categories), p>> \notin kept}) <= lost

(* No limit, a site that repeats its last page, and a crawl that compares    *)
(* neither pages nor ids: a forum, the relations of news, news in full.      *)
EndGoesUnnoticed ==
  pagesLeft = 0 /\ pastEnd = "last" /\ ~Research /\ ~(boardKind = "news" /\ boardMode = "incremental")

(* Whatever else the site shows after its last page, and whatever arrives    *)
(* and vanishes meanwhile, a crawl ends; that one goes on until it is        *)
(* stopped or a request fails.                                              *)
BoardCrawlEnds == crawlAt = "list" /\ ~EndGoesUnnoticed ~> crawlAt = "off"

=============================================================================
