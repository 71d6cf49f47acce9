------------------------------ MODULE TossLists ------------------------------
(***************************************************************************)
(* Toss: a stock's posts and news are a list that loads more as it is      *)
(* scrolled.  A crawl scrolls until nothing new appears at the bottom,     *)
(* opens every new article, and hands what could not be opened on to the   *)
(* next run.  One client serves the datasets of a process and remembers    *)
(* how the last list of the stock ended.                                   *)
(***************************************************************************)
EXTENDS Naturals, FiniteSets

CONSTANTS
  FirstItems,   \* the items of the list at first
  ScrollRounds, \* the values of max_scroll_rounds
  StableRounds, \* stable_bottom_rounds
  HistoryRounds,\* history_stop_rounds
  LoadingRounds,\* bound: for how many rounds the site may show a bottom that is none
  DetailLimits, \* the values of detail_limit, 0 for none
  MaxNewItems, MaxTossRuns \* bounds

TossDatasets == {"forum_post", "news_article", "news_instrument"}
WithState == {"news_article", "news_instrument"}
ItemIds == 1 .. FirstItems + MaxNewItems

ASSUME TossAssumption ==
  /\ FirstItems \in Nat \ {0} /\ ScrollRounds \subseteq Nat \ {0}
  /\ StableRounds \in Nat \ {0} /\ HistoryRounds \in Nat \ {0}
  /\ LoadingRounds \in Nat
  /\ DetailLimits \subseteq Nat /\ MaxNewItems \in Nat /\ MaxTossRuns \in Nat

VARIABLES
  items,        \* how many the list has; the newest, on top, is number items
  tossAt, dataset,
  shownItems,   \* how many the page has loaded
  seenItems,    \* seen_this_run
  previousSeen, stableFor, historyFor, roundsLeft, \* of collect_links
  loadingFor,   \* rounds the page has been loading
  known,        \* existing_ids
  incremental,  \* does the crawl stop at history: baseline_complete, the forum's mode
  detailLimit,
  listBottom,   \* the client's list_states: did the last list reach its bottom
  rows, pending,\* what was opened, and what was not
  listedFrom,   \* items when the list was opened, 0 if it was not or ended while the site loaded
  wanted,       \* what was to be opened
  tossState,    \* stored checkpoints
  keptItems,    \* durable records of each dataset
  baselineOf,   \* listedFrom of the crawl the checkpoint is from
  promised, dropped, \* links listed or pending in a crawl that was saved; those it cut off
  tossRuns

tossVars == <<items, tossAt, dataset, shownItems, seenItems, previousSeen, stableFor, historyFor, roundsLeft, loadingFor,
  known, incremental, detailLimit, listBottom, rows, pending, listedFrom, wanted, tossState, keptItems, baselineOf, promised,
  dropped, tossRuns>>

scrolling == <<incremental, shownItems, seenItems, previousSeen, stableFor, historyFor, roundsLeft, loadingFor>>
tossDurable == <<tossState, keptItems, baselineOf, promised, dropped>>

Bottom == {"unknown", "reached", "not"}

TossTypeOK ==
  /\ items \in ItemIds /\ tossAt \in {"off", "list", "details", "yield"} /\ dataset \in TossDatasets
  /\ shownItems \in 0 .. FirstItems + MaxNewItems /\ seenItems \subseteq ItemIds /\ listBottom \in Bottom
  /\ known \subseteq ItemIds /\ rows \subseteq ItemIds /\ pending \subseteq ItemIds /\ wanted \subseteq ItemIds
  /\ stableFor \in 0 .. StableRounds /\ historyFor \in 0 .. HistoryRounds /\ loadingFor \in 0 .. LoadingRounds
  /\ tossState \in [WithState -> [baseline : BOOLEAN, pending : SUBSET ItemIds]]
  /\ keptItems \in [TossDatasets -> SUBSET ItemIds]

NothingScrolled ==
  /\ shownItems' = 1 /\ seenItems' = {} /\ previousSeen' = FirstItems + MaxNewItems + 1
  /\ stableFor' = 0 /\ historyFor' = 0 /\ loadingFor' = 0

TossInit ==
  /\ items = FirstItems /\ tossAt = "off" /\ dataset = "news_article"
  /\ shownItems = 0 /\ seenItems = {} /\ previousSeen = 0 /\ stableFor = 0 /\ historyFor = 0 /\ roundsLeft = 0
  /\ loadingFor = 0 /\ known = {} /\ incremental = FALSE /\ detailLimit = 0 /\ listBottom = "unknown" /\ rows = {} /\ pending = {}
  /\ listedFrom = 0 /\ wanted = {}
  /\ tossState = [d \in WithState |-> [baseline |-> FALSE, pending |-> {}]]
  /\ keptItems = [d \in TossDatasets |-> {}] /\ baselineOf = [d \in WithState |-> 0]
  /\ promised = {} /\ dropped = {} /\ tossRuns = 0

ItemPosted ==
  /\ tossRuns > 0 /\ items < FirstItems + MaxNewItems /\ items' = items + 1
  /\ shownItems' = IF tossAt = "list" THEN shownItems + 1 ELSE shownItems
  /\ UNCHANGED <<tossAt, dataset, seenItems, previousSeen, stableFor, historyFor, roundsLeft, loadingFor, known,
       incremental, detailLimit, listBottom, rows, pending, listedFrom, wanted, tossDurable, tossRuns>>

------------------------------------------------------------------------------
(* forum_mode; news_mode=full, then toss_news_baseline_complete, go before   *)
(* what the checkpoint says.                                                *)
StopsAtHistory(d, mode, told) ==
  /\ mode = "incremental"
  /\ d = "forum_post" \/ told = "complete" \/ (told = "nothing" /\ tossState[d].baseline)

(* A caller may hand over the ids it holds, and ask for few details.        *)
BeginStock(d, ids, rounds, limit, mode, told) ==
  /\ tossAt = "off" /\ tossRuns < MaxTossRuns /\ tossRuns' = tossRuns + 1
  /\ dataset' = d /\ known' = ids /\ detailLimit' = limit /\ incremental' = StopsAtHistory(d, mode, told)
  /\ limit > 0 => d = "news_article"
  /\ tossAt' = "list" /\ listedFrom' = items /\ roundsLeft' = rounds /\ NothingScrolled
  /\ rows' = {} /\ pending' = {} /\ wanted' = {}
  /\ UNCHANGED <<items, listBottom, tossDurable>>

HasIncremental == incremental /\ (dataset = "forum_post" \/ known # {})

(* The list does not open, not even after a visit to the screener: an empty  *)
(* one is returned, and list_states left as it is.                          *)
ListNotOpened ==
  /\ tossAt = "list" /\ seenItems = {} /\ tossAt' = "details" /\ listedFrom' = 0
  /\ UNCHANGED <<items, dataset, scrolling, known, detailLimit, listBottom, rows, pending, wanted, tossDurable, tossRuns>>

Visible == (items + 1 - shownItems) .. items
AllLoaded == shownItems = items

ListEnds(bottom) ==
  /\ tossAt' = "details"
  /\ listBottom' = IF dataset = "forum_post" THEN listBottom ELSE bottom

(* The site has shown a bottom that is none for stable_bottom_rounds.       *)
LoadsTooLong == ~AllLoaded /\ loadingFor + 1 >= StableRounds

AtBottom(stable, bottom) == stable >= StableRounds /\ bottom

(* One round of the loop; loads says whether the page loads more in it.     *)
ScrollRound(loads) ==
  /\ tossAt = "list"
  /\ loads => ~AllLoaded
  /\ ~loads /\ ~AllLoaded => loadingFor < LoadingRounds
  /\ LET fresh == Visible \ seenItems
         old == fresh \cap known
         nothingNew == fresh # {} /\ fresh \subseteq known
         history == IF fresh = {} \/ ~HasIncremental THEN historyFor
                    ELSE IF nothingNew THEN historyFor + 1 ELSE 0
         stable == IF Cardinality(seenItems \cup fresh) = previousSeen THEN stableFor + 1 ELSE 0
     IN
       /\ seenItems' = seenItems \cup fresh
       /\ historyFor' = history
       /\ listedFrom' = IF history # HistoryRounds /\ AtBottom(stable, ~loads) /\ LoadsTooLong THEN 0 ELSE listedFrom
       /\ IF history = HistoryRounds
          THEN ListEnds("not") /\ UNCHANGED <<shownItems, previousSeen, stableFor, loadingFor, roundsLeft>>
          ELSE /\ shownItems' = IF loads THEN shownItems + 1 ELSE shownItems
               /\ loadingFor' = IF loads \/ AllLoaded THEN 0 ELSE loadingFor + 1
               /\ stableFor' = stable /\ previousSeen' = Cardinality(seenItems \cup fresh)
               /\ roundsLeft' = roundsLeft - 1
               /\ IF AtBottom(stable, ~loads) THEN ListEnds("reached")
                  ELSE IF roundsLeft = 1 THEN ListEnds("not")
                  ELSE UNCHANGED <<tossAt, listBottom>>
  /\ UNCHANGED <<items, dataset, known, incremental, detailLimit, rows, pending, wanted, tossDurable, tossRuns>>

NewLinks == seenItems \ known
HandedOn == IF dataset = "news_article" THEN tossState[dataset].pending ELSE {}

(* The first detail_limit links, those handed on before the new ones.       *)
Chosen(all, handed) ==
  IF detailLimit = 0 \/ Cardinality(all) <= detailLimit THEN {all}
  ELSE {c \in SUBSET all : Cardinality(c) = detailLimit /\ (c \subseteq handed \/ handed \subseteq c)}

(* _crawl_details: an article that raises or does not open is pending.      *)
OpenDetails(failed) ==
  /\ tossAt = "details" /\ tossAt' = "yield"
  /\ \E chosen \in Chosen(NewLinks \cup HandedOn, HandedOn) :
       /\ failed \subseteq IF dataset = "news_article" THEN chosen ELSE {}
       /\ rows' = chosen \ failed /\ pending' = failed /\ wanted' = NewLinks \cup HandedOn
  /\ UNCHANGED <<items, dataset, scrolling, known, detailLimit, listBottom, listedFrom, tossDurable, tossRuns>>

Baseline == listBottom = "reached" /\ pending = {} /\ detailLimit = 0

(* Mutation: the pending links of earlier runs only.                        *)
PendingOfBefore == pending \cap HandedOn

PendingLinks == pending

ClearCrawl ==
  /\ tossAt' = "off" /\ shownItems' = 0 /\ seenItems' = {} /\ previousSeen' = 0 /\ stableFor' = 0 /\ historyFor' = 0
  /\ roundsLeft' = 0 /\ loadingFor' = 0 /\ known' = {} /\ incremental' = FALSE /\ detailLimit' = 0 /\ rows' = {} /\ pending' = {}
  /\ listedFrom' = 0 /\ wanted' = {} /\ dataset' = "news_article"

(* All rows are durable, then the state of the scope is in its checkpoint.  *)
StockOver ==
  /\ tossAt = "yield" /\ ClearCrawl
  /\ keptItems' = [keptItems EXCEPT ![dataset] = @ \cup rows]
  /\ IF dataset \in WithState
     THEN /\ tossState' = [tossState EXCEPT ![dataset] = [baseline |-> Baseline, pending |-> PendingLinks]]
          /\ baselineOf' = [baselineOf EXCEPT ![dataset] = listedFrom]
     ELSE UNCHANGED <<tossState, baselineOf>>
  /\ IF dataset = "news_article"
     THEN promised' = promised \cup wanted /\ dropped' = dropped \cup (wanted \ (rows \cup pending))
     ELSE UNCHANGED <<promised, dropped>>
  /\ UNCHANGED <<items, listBottom, tossRuns>>

(* A stop in between keeps the rows that were taken.                        *)
StockStopped ==
  /\ tossAt = "yield" /\ ClearCrawl
  /\ \E taken \in SUBSET rows : keptItems' = [keptItems EXCEPT ![dataset] = @ \cup taken]
  /\ UNCHANGED <<items, listBottom, tossState, baselineOf, promised, dropped, tossRuns>>

(* The process ends, the client with it.                                    *)
TossProcessEnds ==
  /\ (listBottom # "unknown" \/ tossAt # "off") /\ listBottom' = "unknown" /\ ClearCrawl
  /\ UNCHANGED <<items, tossDurable, tossRuns>>

TossNext ==
  \/ ItemPosted \/ ListNotOpened \/ StockOver \/ StockStopped \/ TossProcessEnds
  \/ \E d \in TossDatasets, rounds \in ScrollRounds, limit \in DetailLimits :
       \E ids \in {{}, keptItems[d]}, mode \in {"full", "incremental"}, told \in {"nothing", "complete", "incomplete"} :
         BeginStock(d, ids, rounds, limit, mode, told)
  \/ \E loads \in BOOLEAN : ScrollRound(loads)
  \/ \E failed \in SUBSET ItemIds : OpenDetails(failed)

TossSpec == TossInit /\ [][TossNext]_tossVars

------------------------------------------------------------------------------
(* A baseline that is complete means that each item of the list, when it was *)
(* opened, is kept, although the site pauses at bottoms that are none, some  *)
(* articles fail and earlier crawls hand theirs on.  Excepted are a list that  *)
(* did not open, for the code goes by how the list of another dataset ended, *)
(* and one that ended while the site loaded for stable_bottom_rounds.       *)
BaselineMeansAll ==
  \A d \in WithState : tossState[d].baseline /\ baselineOf[d] > 0 => 1 .. baselineOf[d] \subseteq keptItems[d]

(* No link a saved crawl has listed or was handed is forgotten: it is kept   *)
(* or pending, or was cut off by a limit on details.                        *)
NoLinkForgotten == promised \subseteq keptItems["news_article"] \cup tossState["news_article"].pending \cup dropped

(* The checkpoint tells the next crawl of a stock all that is still to do:   *)
(* what its baseline does not say to be kept is pending.                    *)
NextCrawlIsTold == BaselineMeansAll /\ NoLinkForgotten

=============================================================================
