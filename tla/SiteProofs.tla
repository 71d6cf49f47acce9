------------------------------- MODULE SiteProofs -------------------------------
(***************************************************************************)
(* Proofs about what a site's checkpoints promise while the site changes:  *)
(* the state of a Toss list tells the next crawl what it needs, for any    *)
(* limits and arrivals; a month of Kabutan that counts as complete has all *)
(* its articles, for any paywall and any page size; a walk over the pages  *)
(* of Naver misses and leaves behind no more posts than vanished, and ends *)
(* after finitely many steps; and a complete scope of HKEX has every       *)
(* report released before the day it is complete for.                      *)
(***************************************************************************)
EXTENDS HkexReports, TossLists, KabutanMonths, NaverPages, FiniteSetTheorems, SequenceTheorems, TLAPS

-----------------------------------------------------------------------------
(* Toss: what the checkpoint of a stock tells the next crawl.              *)

(* The oldest item the page shows.                                         *)
LowestShown == items + 1 - shownItems

(* Types, and the counters that end the list stay below what ends it.      *)
TTypes ==
  /\ TossTypeOK
  /\ listedFrom \in 0 .. items /\ previousSeen \in Nat /\ detailLimit \in Nat
  /\ baselineOf \in [WithState -> Nat]
  /\ tossAt = "list" => stableFor <= StableRounds /\ historyFor < HistoryRounds

(* While a list is open the page shows its newest items, and seen are none *)
(* but those; seen is counted by the last round.                           *)
TShown ==
  tossAt = "list" =>
    /\ shownItems \in 1 .. items /\ listedFrom > 0
    /\ seenItems \subseteq Visible
    /\ previousSeen = IF seenItems = {} THEN FirstItems + MaxNewItems + 1 ELSE Cardinality(seenItems)

(* Rounds in which nothing new appeared, although the list goes on, are    *)
(* rounds the page has been loading; the next round after it has loaded    *)
(* finds an item.                                                          *)
TBottom ==
  tossAt = "list" =>
    \/ LowestShown \notin seenItems
    \/ stableFor < StableRounds /\ (1 .. listedFrom \subseteq seenItems \/ stableFor <= loadingFor)

(* A bottom that was reached is the end of the list.                       *)
TReached ==
  tossAt \in {"details", "yield"} /\ dataset \in WithState /\ listBottom = "reached" =>
    1 .. listedFrom \subseteq seenItems

(* What the caller handed over is kept; what was to be opened is what is   *)
(* new and what was handed on, and without a limit all of it is tried.     *)
THandedOver ==
  /\ known \subseteq keptItems[dataset]
  /\ tossAt = "yield" =>
       /\ wanted = NewLinks \cup HandedOn
       /\ detailLimit = 0 => wanted \subseteq rows \cup pending

TInv == TTypes /\ TShown /\ TBottom /\ TReached /\ THandedOver /\ BaselineMeansAll /\ NoLinkForgotten

LEMMA SeenCounts ==
  ASSUME TInv, tossAt = "list"
  PROVE  /\ LowestShown \in 1 .. items /\ IsFiniteSet(seenItems)
         /\ Cardinality(seenItems \cup (Visible \ seenItems)) \in Nat
         /\ LowestShown \notin seenItems =>
              Cardinality(seenItems \cup (Visible \ seenItems)) # previousSeen
<1> DEFINE all == seenItems \cup (Visible \ seenItems)
<1>1. items \in ItemIds /\ seenItems \subseteq ItemIds /\ shownItems \in 1 .. items /\ FirstItems + MaxNewItems \in Nat
  BY TossAssumption DEF TInv, TTypes, TossTypeOK, TShown, ItemIds
<1>2. LowestShown \in 1 .. items /\ LowestShown \in Visible
  BY <1>1 DEF LowestShown, Visible, ItemIds
<1>3. all \subseteq ItemIds
  BY <1>1 DEF Visible, ItemIds
<1>4. IsFiniteSet(ItemIds) /\ Cardinality(ItemIds) = FirstItems + MaxNewItems
  BY <1>1, FS_Interval, 1 \in Int, FirstItems + MaxNewItems \in Int DEF ItemIds
<1>5. IsFiniteSet(all) /\ IsFiniteSet(seenItems)
  BY <1>1, <1>3, <1>4, FS_Subset
<1>6. Cardinality(all) \in Nat /\ Cardinality(all) <= FirstItems + MaxNewItems
  BY <1>3, <1>4, <1>5, FS_Subset, FS_CardinalityType
<1>7. ASSUME LowestShown \notin seenItems PROVE Cardinality(all) # previousSeen
  <2>1. CASE seenItems = {}
    BY <2>1, <1>1, <1>6 DEF TInv, TShown
  <2>2. CASE seenItems # {}
    <3>1. seenItems \subseteq all /\ seenItems # all
      BY <1>2, <1>7
    <3>2. Cardinality(seenItems) < Cardinality(all)
      BY <3>1, <1>5, <1>6, FS_Subset, FS_CardinalityType
    <3>3. previousSeen = Cardinality(seenItems)
      BY <2>2 DEF TInv, TShown
    <3>4. Cardinality(seenItems) \in Nat
      BY <1>5, FS_CardinalityType
    <3>5. QED BY <3>2, <3>3, <3>4, <1>6
  <2>3. QED BY <2>1, <2>2
<1>8. QED BY <1>2, <1>5, <1>6, <1>7

(* A round of the loop.                                                    *)
LEMMA TossRound ==
  ASSUME TInv, NEW loads \in BOOLEAN, ScrollRound(loads)
  PROVE  TInv'
<1> DEFINE fresh == Visible \ seenItems
           all == seenItems \cup fresh
           nothingNew == fresh # {} /\ fresh \subseteq known
           history == IF fresh = {} \/ ~HasIncremental THEN historyFor
                      ELSE IF nothingNew THEN historyFor + 1 ELSE 0
           stable == IF Cardinality(all) = previousSeen THEN stableFor + 1 ELSE 0
<1>1. /\ tossAt = "list" /\ seenItems' = all /\ historyFor' = history
      /\ loads => ~AllLoaded
      /\ ~loads /\ ~AllLoaded => loadingFor < LoadingRounds
  BY DEF ScrollRound
<1>2. UNCHANGED <<items, dataset, known, detailLimit, rows, pending, wanted, tossDurable, tossRuns>>
  BY DEF ScrollRound
<1>22. listedFrom' = IF history # HistoryRounds /\ AtBottom(stable, ~loads) /\ LoadsTooLong THEN 0 ELSE listedFrom
  BY DEF ScrollRound
<1>3. history = HistoryRounds =>
        ListEnds("not") /\ UNCHANGED <<shownItems, previousSeen, stableFor, loadingFor, roundsLeft>>
  BY DEF ScrollRound
<1>4. history # HistoryRounds =>
        /\ shownItems' = IF loads THEN shownItems + 1 ELSE shownItems
        /\ loadingFor' = IF loads \/ AllLoaded THEN 0 ELSE loadingFor + 1
        /\ stableFor' = stable /\ previousSeen' = Cardinality(all)
        /\ roundsLeft' = roundsLeft - 1
        /\ IF AtBottom(stable, ~loads) THEN ListEnds("reached")
           ELSE IF roundsLeft = 1 THEN ListEnds("not")
           ELSE UNCHANGED <<tossAt, listBottom>>
  BY DEF ScrollRound
<1>5. /\ items \in ItemIds /\ seenItems \subseteq ItemIds /\ shownItems \in 1 .. items
      /\ listedFrom \in 1 .. items /\ seenItems \subseteq Visible
      /\ stableFor \in 0 .. StableRounds /\ historyFor \in 0 .. HistoryRounds - 1
      /\ loadingFor \in 0 .. LoadingRounds
      /\ FirstItems + MaxNewItems \in Nat /\ items <= FirstItems + MaxNewItems
      /\ StableRounds \in Nat \ {0} /\ HistoryRounds \in Nat \ {0} /\ LoadingRounds \in Nat
  BY <1>1, TossAssumption DEF TInv, TTypes, TossTypeOK, TShown, ItemIds
<1>6. /\ LowestShown \in 1 .. items /\ Cardinality(all) \in Nat
      /\ LowestShown \notin seenItems => stable = 0
  BY <1>1, SeenCounts
<1>7. all = Visible /\ LowestShown \in all
  <2>1. all = Visible
    BY <1>5
  <2>2. LowestShown \in Visible
    BY <1>5, <1>6 DEF Visible, LowestShown, ItemIds
  <2>3. QED BY <2>1, <2>2
<1>8. AllLoaded => 1 .. listedFrom \subseteq all
  BY <1>5, <1>7 DEF AllLoaded, Visible, ItemIds
<1>9. 1 .. listedFrom \subseteq seenItems => AllLoaded /\ 1 .. listedFrom \subseteq all
  <2> SUFFICES ASSUME 1 .. listedFrom \subseteq seenItems PROVE AllLoaded
    OBVIOUS
  <2>1. 1 \in Visible
    BY <1>5
  <2> QED BY <2>1, <1>5 DEF Visible, AllLoaded, ItemIds
<1> HIDE DEF fresh, all, nothingNew, history, stable
(* No bottom is taken for the end of the list that is none.                *)
<1>10. \/ 1 .. listedFrom \subseteq all
       \/ ~AllLoaded /\ (stable = 0 \/ stable <= loadingFor + 1)
  <2>1. CASE 1 .. listedFrom \subseteq seenItems
    BY <2>1, <1>9
  <2>2. CASE LowestShown \notin seenItems
    BY <2>2, <1>6, <1>8
  <2>3. CASE stableFor <= loadingFor
    BY <2>3, <1>5, <1>8 DEF stable
  <2>4. QED BY <2>1, <2>2, <2>3, <1>1 DEF TInv, TBottom
<1>11. history \in 0 .. HistoryRounds /\ stable \in 0 .. StableRounds + 1
  BY <1>5 DEF history, stable
<1>12. stable <= StableRounds
  <2>1. CASE stableFor < StableRounds
    BY <2>1, <1>5 DEF stable
  <2>2. CASE LowestShown \notin seenItems
    BY <2>2, <1>5, <1>6
  <2>3. QED BY <2>1, <2>2, <1>1 DEF TInv, TBottom
<1>13. /\ tossAt' \in {"list", "details"}
       /\ tossAt' = "list" => history # HistoryRounds /\ ~AtBottom(stable, ~loads) /\ listBottom' = listBottom
       /\ tossAt' = "details" /\ dataset \in WithState /\ listBottom' = "reached" =>
            history # HistoryRounds /\ AtBottom(stable, ~loads)
       /\ listBottom' \in Bottom
  BY <1>1, <1>3, <1>4 DEF ListEnds, WithState, TInv, TTypes, TossTypeOK, Bottom
<1>23. listedFrom' \in {0, listedFrom} /\ (tossAt' = "list" => listedFrom' = listedFrom)
  BY <1>13, <1>22
<1>14. AllLoaded \/ shownItems + 1 \in 1 .. items
  BY <1>5 DEF AllLoaded, ItemIds
<1>15. TTypes'
  <2>1. /\ shownItems' \in 1 .. items /\ seenItems' \subseteq ItemIds
        /\ stableFor' \in 0 .. StableRounds /\ historyFor' \in 0 .. HistoryRounds
        /\ loadingFor' \in 0 .. LoadingRounds
    BY <1>1, <1>3, <1>4, <1>5, <1>7, <1>11, <1>12, <1>14 DEF Visible, ItemIds
  <2>2. previousSeen' \in Nat
    BY <1>3, <1>4, <1>5, <1>6 DEF TInv, TTypes
  <2>3. tossAt' = "list" => stableFor' <= StableRounds /\ historyFor' < HistoryRounds
    BY <1>1, <1>5, <1>11, <2>1, <1>13
  <2>4. TossTypeOK /\ listedFrom \in 0 .. items /\ detailLimit \in Nat /\ baselineOf \in [WithState -> Nat]
    BY DEF TInv, TTypes
  <2>5. /\ items' \in ItemIds /\ dataset' \in TossDatasets /\ known' \subseteq ItemIds /\ rows' \subseteq ItemIds
        /\ pending' \subseteq ItemIds /\ wanted' \subseteq ItemIds
        /\ tossState' \in [WithState -> [baseline : BOOLEAN, pending : SUBSET ItemIds]]
        /\ keptItems' \in [TossDatasets -> SUBSET ItemIds]
        /\ detailLimit' \in Nat /\ baselineOf' \in [WithState -> Nat]
    BY <1>2, <2>4 DEF TossTypeOK, tossDurable
  <2>9. listedFrom' \in 0 .. items'
    <3>1. items' = items /\ items \in Nat
      BY <1>2, <1>5 DEF ItemIds
    <3>2. QED BY <3>1, <1>23, <2>4
  <2>6. shownItems' \in 0 .. FirstItems + MaxNewItems /\ tossAt' \in {"off", "list", "details", "yield"}
    BY <2>1, <1>5, <1>13 DEF ItemIds
  <2>7. TossTypeOK'
    BY <1>13, <2>1, <2>5, <2>6 DEF TossTypeOK
  <2>8. QED BY <2>2, <2>3, <2>5, <2>7, <2>9 DEF TTypes
<1>16. TShown'
  <2>1. all # {} /\ items' = items /\ (tossAt' = "list" => listedFrom' = listedFrom)
    BY <1>7, <1>2, <1>23
  <2>2. CASE shownItems' = shownItems
    <3>1. Visible' = Visible
      BY <2>1, <2>2 DEF Visible
    <3>2. QED BY <1>1, <1>4, <1>5, <1>7, <1>13, <2>1, <2>2, <3>1 DEF TShown
  <2>3. CASE shownItems' = shownItems + 1
    <3>1. Visible \subseteq Visible'
      BY <2>1, <2>3, <1>5 DEF Visible, ItemIds
    <3>2. QED BY <1>1, <1>3, <1>4, <1>5, <1>7, <1>13, <1>14, <2>1, <2>3, <3>1 DEF TShown, AllLoaded, ItemIds
  <2>4. QED BY <2>2, <2>3, <1>3, <1>4
<1>17. TBottom'
  <2> SUFFICES ASSUME tossAt' = "list"
               PROVE  \/ LowestShown' \notin all
                      \/ stable < StableRounds /\ (1 .. listedFrom \subseteq all \/ stable <= loadingFor')
    BY <1>1, <1>4, <1>13, <1>23 DEF TBottom
  <2>1. CASE loads
    <3>1. LowestShown' = LowestShown - 1
      BY <2>1, <1>2, <1>4, <1>5, <1>13 DEF LowestShown, ItemIds
    <3>2. LowestShown - 1 \notin Visible
      BY <1>5 DEF LowestShown, Visible, ItemIds
    <3>3. QED BY <3>1, <3>2, <1>7
  <2>2. CASE ~loads
    <3>1. stable < StableRounds
      BY <2>2, <1>5, <1>11, <1>13 DEF AtBottom
    <3>2. CASE ~AllLoaded /\ ~(1 .. listedFrom \subseteq all)
      <4>1. loadingFor' = loadingFor + 1
        BY <2>2, <3>2, <1>4, <1>13
      <4>2. stable = 0 \/ stable <= loadingFor + 1
        BY <3>2, <1>10
      <4>3. QED BY <3>1, <4>1, <4>2, <1>5
    <3>3. QED BY <3>1, <3>2, <1>8
  <2>3. QED BY <2>1, <2>2
<1>18. TReached'
  <2> SUFFICES ASSUME tossAt' = "details", dataset \in WithState, listBottom' = "reached"
               PROVE  1 .. listedFrom' \subseteq all
    BY <1>1, <1>2, <1>13 DEF TReached
  <2>1. history # HistoryRounds /\ AtBottom(stable, ~loads) /\ stable >= StableRounds /\ ~loads
    BY <1>13, <1>2 DEF AtBottom
  <2>2. CASE LoadsTooLong
    <3>1. listedFrom' = 0
      BY <2>1, <2>2, <1>22
    <3>2. QED BY <3>1
  <2>3. CASE ~LoadsTooLong
    <3>1. listedFrom' = listedFrom
      BY <2>3, <1>22
    <3>2. AllLoaded \/ loadingFor + 1 < StableRounds
      BY <2>3, <1>5 DEF LoadsTooLong
    <3>3. QED BY <3>1, <3>2, <2>1, <1>5, <1>10, <1>11
  <2>4. QED BY <2>2, <2>3
<1>19. THandedOver'
  BY <1>2, <1>13 DEF TInv, THandedOver, tossDurable
<1>20. BaselineMeansAll' /\ NoLinkForgotten'
  BY <1>2 DEF TInv, BaselineMeansAll, NoLinkForgotten, tossDurable
<1>21. QED BY <1>15, <1>16, <1>17, <1>18, <1>19, <1>20 DEF TInv

(* A crawl that is cleared shows, lists and wants nothing.                 *)
LEMMA TossCleared ==
  ASSUME TInv, ClearCrawl, TTypes', BaselineMeansAll', NoLinkForgotten'
  PROVE  TInv'
<1>1. tossAt' = "off" /\ known' = {}
  BY DEF ClearCrawl
<1>2. TShown' /\ TBottom' /\ TReached' /\ THandedOver'
  BY <1>1 DEF TShown, TBottom, TReached, THandedOver
<1>3. QED BY <1>2 DEF TInv

LEMMA TossItemPosted ==
  ASSUME TInv, ItemPosted PROVE TInv'
<1>1. /\ items' = items + 1 /\ items < FirstItems + MaxNewItems
      /\ shownItems' = IF tossAt = "list" THEN shownItems + 1 ELSE shownItems
      /\ UNCHANGED <<tossAt, dataset, seenItems, previousSeen, stableFor, historyFor, loadingFor, known,
           detailLimit, listBottom, rows, pending, listedFrom, wanted, tossState, keptItems, baselineOf, promised, dropped>>
  BY DEF ItemPosted, tossDurable
<1>2. items \in ItemIds /\ FirstItems + MaxNewItems \in Nat /\ listedFrom \in 0 .. items
  BY TossAssumption DEF TInv, TTypes, TossTypeOK
<1>3. shownItems \in 0 .. FirstItems + MaxNewItems /\ (tossAt = "list" => shownItems \in 1 .. items)
  BY DEF TInv, TTypes, TossTypeOK, TShown
<1>4. TTypes'
  <2>1. items' \in ItemIds /\ listedFrom' \in 0 .. items' /\ shownItems' \in 0 .. FirstItems + MaxNewItems
    BY <1>1, <1>2, <1>3 DEF ItemIds
  <2>2. QED BY <1>1, <2>1 DEF TInv, TTypes, TossTypeOK
<1>5. ASSUME tossAt = "list"
      PROVE  Visible \subseteq Visible' /\ LowestShown' = LowestShown
  BY <1>1, <1>2, <1>3, <1>5 DEF Visible, LowestShown, ItemIds
<1>6. TShown'
  <2> SUFFICES ASSUME tossAt = "list" PROVE TShown'
    BY <1>1 DEF TShown
  <2>1. shownItems' \in 1 .. items'
    BY <1>1, <1>2, <1>3 DEF ItemIds
  <2>2. seenItems' \subseteq Visible'
    BY <1>1, <1>5 DEF TInv, TShown
  <2>3. QED BY <1>1, <2>1, <2>2 DEF TInv, TShown
<1>7. TBottom'
  BY <1>1, <1>5 DEF TInv, TBottom
<1>8. TReached' /\ BaselineMeansAll' /\ NoLinkForgotten'
  BY <1>1 DEF TInv, TReached, BaselineMeansAll, NoLinkForgotten
<1>9. THandedOver'
  BY <1>1 DEF TInv, THandedOver, NewLinks, HandedOn
<1>10. QED BY <1>4, <1>6, <1>7, <1>8, <1>9 DEF TInv

LEMMA TossBegin ==
  ASSUME TInv, NEW d \in TossDatasets, NEW rounds \in ScrollRounds, NEW limit \in DetailLimits,
         NEW ids \in {{}, keptItems[d]}, NEW mode, NEW told, BeginStock(d, ids, rounds, limit, mode, told)
  PROVE  TInv'
<1>1. /\ dataset' = d /\ known' = ids /\ detailLimit' = limit /\ tossAt' = "list" /\ listedFrom' = items
      /\ shownItems' = 1 /\ seenItems' = {} /\ previousSeen' = FirstItems + MaxNewItems + 1
      /\ stableFor' = 0 /\ historyFor' = 0 /\ loadingFor' = 0 /\ rows' = {} /\ pending' = {} /\ wanted' = {}
      /\ UNCHANGED <<items, listBottom, tossState, keptItems, baselineOf, promised, dropped>>
  BY DEF BeginStock, NothingScrolled, tossDurable
<1>2. /\ items \in ItemIds /\ FirstItems + MaxNewItems \in Nat \ {0} /\ keptItems \in [TossDatasets -> SUBSET ItemIds]
      /\ StableRounds \in Nat \ {0} /\ HistoryRounds \in Nat \ {0} /\ LoadingRounds \in Nat /\ limit \in Nat
  BY TossAssumption DEF TInv, TTypes, TossTypeOK
<1>3. TTypes'
  <2>1. items' \in ItemIds /\ listedFrom' \in 0 .. items' /\ shownItems' \in 0 .. FirstItems + MaxNewItems
    BY <1>1, <1>2 DEF ItemIds
  <2>2. ids \subseteq ItemIds
    BY <1>2
  <2>3. QED BY <1>1, <1>2, <2>1, <2>2 DEF TInv, TTypes, TossTypeOK
<1>4. TShown' /\ TBottom'
  BY <1>1, <1>2 DEF TShown, TBottom, ItemIds
<1>5. TReached' /\ THandedOver' /\ BaselineMeansAll' /\ NoLinkForgotten'
  BY <1>1 DEF TInv, TReached, THandedOver, BaselineMeansAll, NoLinkForgotten
<1>6. QED BY <1>3, <1>4, <1>5 DEF TInv

LEMMA TossOpens ==
  ASSUME TInv, ListNotOpened \/ \E failed \in SUBSET ItemIds : OpenDetails(failed)
  PROVE  TInv'
<1>1. CASE ListNotOpened
  <2>1. /\ tossAt = "list" /\ tossAt' = "details" /\ listedFrom' = 0
        /\ UNCHANGED <<items, dataset, shownItems, seenItems, previousSeen, stableFor, historyFor, loadingFor, known,
             detailLimit, listBottom, rows, pending, wanted, tossState, keptItems, baselineOf, promised, dropped>>
    BY <1>1 DEF ListNotOpened, scrolling, tossDurable
  <2>2. TTypes'
    BY <2>1 DEF TInv, TTypes, TossTypeOK, ItemIds
  <2>3. TShown' /\ TBottom' /\ TReached'
    BY <2>1 DEF TShown, TBottom, TReached
  <2>4. THandedOver' /\ BaselineMeansAll' /\ NoLinkForgotten'
    BY <2>1 DEF TInv, THandedOver, BaselineMeansAll, NoLinkForgotten
  <2>5. QED BY <2>2, <2>3, <2>4 DEF TInv
<1>2. ASSUME NEW failed \in SUBSET ItemIds, OpenDetails(failed)
      PROVE  TInv'
  <2> DEFINE all == NewLinks \cup HandedOn
  <2>1. PICK chosen \in Chosen(all, HandedOn) :
          /\ failed \subseteq IF dataset = "news_article" THEN chosen ELSE {}
          /\ rows' = chosen \ failed /\ pending' = failed /\ wanted' = all
    BY <1>2 DEF OpenDetails
  <2>2. /\ tossAt = "details" /\ tossAt' = "yield"
        /\ UNCHANGED <<items, dataset, shownItems, seenItems, previousSeen, stableFor, historyFor, loadingFor, known,
             detailLimit, listBottom, listedFrom, tossState, keptItems, baselineOf, promised, dropped>>
    BY <1>2 DEF OpenDetails, scrolling, tossDurable
  <2>3. all \subseteq ItemIds
    <3>1. seenItems \subseteq ItemIds /\ (dataset = "news_article" => tossState[dataset].pending \subseteq ItemIds)
      BY DEF TInv, TTypes, TossTypeOK, WithState
    <3>2. QED BY <3>1 DEF NewLinks, HandedOn
  <2>4. chosen \subseteq all /\ (detailLimit = 0 => chosen = all)
    BY DEF Chosen
  <2>5. TTypes'
    BY <2>1, <2>2, <2>3, <2>4 DEF TInv, TTypes, TossTypeOK
  <2>6. TShown' /\ TBottom' /\ TReached' /\ BaselineMeansAll' /\ NoLinkForgotten'
    BY <2>2 DEF TInv, TShown, TBottom, TReached, BaselineMeansAll, NoLinkForgotten
  <2>7. THandedOver'
    BY <2>1, <2>2, <2>4 DEF TInv, THandedOver, NewLinks, HandedOn
  <2>8. QED BY <2>5, <2>6, <2>7 DEF TInv
<1>3. QED BY <1>1, <1>2

(* The rows are durable: what the checkpoint then says is true of them.     *)
LEMMA TossOver ==
  ASSUME TInv, StockOver
  PROVE  TInv'
<1>1. /\ tossAt = "yield" /\ ClearCrawl /\ items' = items /\ listBottom' = listBottom
      /\ keptItems' = [keptItems EXCEPT ![dataset] = @ \cup rows]
      /\ dataset \in WithState =>
           /\ tossState' = [tossState EXCEPT ![dataset] = [baseline |-> Baseline, pending |-> pending]]
           /\ baselineOf' = [baselineOf EXCEPT ![dataset] = listedFrom]
      /\ dataset \notin WithState => UNCHANGED <<tossState, baselineOf>>
      /\ dataset = "news_article" => promised' = promised \cup wanted /\ dropped' = dropped \cup (wanted \ (rows \cup pending))
      /\ dataset # "news_article" => UNCHANGED <<promised, dropped>>
  BY DEF StockOver, PendingLinks
<1>2. /\ items \in ItemIds /\ dataset \in TossDatasets /\ keptItems \in [TossDatasets -> SUBSET ItemIds]
      /\ tossState \in [WithState -> [baseline : BOOLEAN, pending : SUBSET ItemIds]]
      /\ baselineOf \in [WithState -> Nat] /\ listedFrom \in Nat /\ rows \subseteq ItemIds /\ pending \subseteq ItemIds
      /\ "news_article" \in WithState /\ WithState \subseteq TossDatasets
  BY DEF TInv, TTypes, TossTypeOK, WithState, TossDatasets, ItemIds
<1>3. \A d \in TossDatasets : keptItems[d] \subseteq keptItems'[d]
  BY <1>1, <1>2
<1>4. TTypes'
  <2>1. Baseline \in BOOLEAN
    BY DEF Baseline
  <2>2. /\ keptItems' \in [TossDatasets -> SUBSET ItemIds] /\ baselineOf' \in [WithState -> Nat]
        /\ tossState' \in [WithState -> [baseline : BOOLEAN, pending : SUBSET ItemIds]]
    BY <1>1, <1>2, <2>1
  <2>3. QED
    BY <1>1, <1>2, <2>2, TossAssumption DEF ClearCrawl, TInv, TTypes, TossTypeOK, TossDatasets, ItemIds
<1>5. BaselineMeansAll'
  <2> SUFFICES ASSUME NEW d \in WithState, tossState'[d].baseline, baselineOf'[d] > 0
               PROVE  1 .. baselineOf'[d] \subseteq keptItems'[d]
    BY DEF BaselineMeansAll
  <2>1. CASE d # dataset
    <3>1. tossState'[d] = tossState[d] /\ baselineOf'[d] = baselineOf[d]
      BY <1>1, <1>2, <2>1
    <3>2. QED BY <3>1, <1>2, <1>3 DEF TInv, BaselineMeansAll
  <2>2. CASE d = dataset
    <3>1. tossState'[d] = [baseline |-> Baseline, pending |-> pending] /\ baselineOf'[d] = listedFrom
      BY <1>1, <1>2, <2>2
    <3>2. Baseline
      BY <3>1
    <3>3. keptItems'[d] = keptItems[d] \cup rows
      BY <1>1, <1>2, <2>2
    <3>4. 1 .. listedFrom \subseteq seenItems
      BY <3>2, <1>1, <2>2 DEF TInv, TReached, Baseline
    <3>5. seenItems \ known \subseteq rows /\ known \subseteq keptItems[d]
      BY <3>2, <1>1, <2>2 DEF TInv, THandedOver, NewLinks, Baseline
    <3>6. QED BY <3>1, <3>3, <3>4, <3>5
  <2>3. QED BY <2>1, <2>2
<1>6. NoLinkForgotten'
  <2>1. CASE dataset # "news_article"
    <3>1. tossState'["news_article"] = tossState["news_article"] /\ promised' = promised /\ dropped' = dropped
      BY <1>1, <1>2, <2>1
    <3>2. QED BY <3>1, <1>2, <1>3 DEF TInv, NoLinkForgotten
  <2>2. CASE dataset = "news_article"
    <3>1. tossState'["news_article"].pending = pending /\ keptItems'["news_article"] = keptItems["news_article"] \cup rows
      BY <1>1, <1>2, <2>2
    <3>2. tossState["news_article"].pending \subseteq wanted
      BY <1>1, <2>2 DEF TInv, THandedOver, HandedOn
    <3>3. QED BY <3>1, <3>2, <1>1, <2>2 DEF TInv, NoLinkForgotten
  <2>3. QED BY <2>1, <2>2
<1>7. QED BY <1>1, <1>4, <1>5, <1>6, TossCleared

LEMMA TossEnds ==
  ASSUME TInv, StockStopped \/ TossProcessEnds
  PROVE  TInv'
<1>1. /\ ClearCrawl /\ items' = items /\ listBottom' \in {listBottom, "unknown"}
      /\ UNCHANGED <<tossState, baselineOf, promised, dropped>>
  BY DEF StockStopped, TossProcessEnds, tossDurable
<1>2. /\ items \in ItemIds /\ dataset \in TossDatasets /\ keptItems \in [TossDatasets -> SUBSET ItemIds]
      /\ rows \subseteq ItemIds
      /\ "news_article" \in WithState /\ WithState \subseteq TossDatasets
  BY DEF TInv, TTypes, TossTypeOK, WithState, TossDatasets, ItemIds
<1>3. keptItems' \in [TossDatasets -> SUBSET ItemIds] /\ \A d \in TossDatasets : keptItems[d] \subseteq keptItems'[d]
  <2>1. CASE StockStopped
    <3>1. PICK taken \in SUBSET rows : keptItems' = [keptItems EXCEPT ![dataset] = @ \cup taken]
      BY <2>1 DEF StockStopped
    <3>2. QED BY <3>1, <1>2
  <2>2. CASE TossProcessEnds
    BY <2>2, <1>2 DEF TossProcessEnds, tossDurable
  <2>3. QED BY <2>1, <2>2
<1>4. TTypes'
  <2>1. listBottom' \in Bottom
    BY <1>1 DEF TInv, TTypes, TossTypeOK, Bottom
  <2>2. QED
    BY <1>1, <1>2, <1>3, <2>1, TossAssumption DEF ClearCrawl, TInv, TTypes, TossTypeOK, TossDatasets, ItemIds
<1>5. BaselineMeansAll' /\ NoLinkForgotten'
  BY <1>1, <1>2, <1>3 DEF TInv, BaselineMeansAll, NoLinkForgotten
<1>6. QED BY <1>1, <1>4, <1>5, TossCleared

LEMMA TossInitially == TossInit => TInv
<1> SUFFICES ASSUME TossInit PROVE TInv
  OBVIOUS
<1>1. TTypes
  BY TossAssumption DEF TossInit, TTypes, TossTypeOK, ItemIds, WithState, TossDatasets, Bottom
<1>2. TShown /\ TBottom /\ TReached
  BY DEF TossInit, TShown, TBottom, TReached
<1>3. THandedOver
  BY DEF TossInit, THandedOver
<1>4. BaselineMeansAll /\ NoLinkForgotten
  BY DEF TossInit, BaselineMeansAll, NoLinkForgotten
<1>5. QED BY <1>1, <1>2, <1>3, <1>4 DEF TInv

LEMMA TossStep == TInv /\ [TossNext]_tossVars => TInv'
<1> SUFFICES ASSUME TInv, [TossNext]_tossVars PROVE TInv'
  OBVIOUS
<1>1. CASE TossNext
  <2>1. CASE ItemPosted
    BY <2>1, TossItemPosted
  <2>2. ASSUME NEW d \in TossDatasets, NEW rounds \in ScrollRounds, NEW limit \in DetailLimits,
               NEW ids \in {{}, keptItems[d]}, NEW mode \in {"full", "incremental"},
               NEW told \in {"nothing", "complete", "incomplete"}, BeginStock(d, ids, rounds, limit, mode, told)
        PROVE  TInv'
    BY <2>2, TossBegin
  <2>3. ASSUME NEW loads \in BOOLEAN, ScrollRound(loads) PROVE TInv'
    BY <2>3, TossRound
  <2>4. CASE ListNotOpened \/ \E failed \in SUBSET ItemIds : OpenDetails(failed)
    BY <2>4, TossOpens
  <2>5. CASE StockOver
    BY <2>5, TossOver
  <2>6. CASE StockStopped \/ TossProcessEnds
    BY <2>6, TossEnds
  <2>7. QED BY <1>1, <2>1, <2>2, <2>3, <2>4, <2>5, <2>6 DEF TossNext
<1>2. CASE UNCHANGED tossVars
  BY <1>2 DEF tossVars, TInv, TTypes, TossTypeOK, TShown, TBottom, TReached, THandedOver, BaselineMeansAll,
              NoLinkForgotten, Visible, LowestShown, NewLinks, HandedOn, ItemIds
<1>3. QED BY <1>1, <1>2

(* However a list pauses, an article fails or a crawl is stopped, the      *)
(* checkpoint of a stock tells the next crawl all that is still to do.     *)
THEOREM TossTellsNextCrawl == TossSpec => [](TossTypeOK /\ NextCrawlIsTold)
<1>1. TInv => TossTypeOK /\ NextCrawlIsTold
  BY DEF TInv, TTypes, NextCrawlIsTold
<1>2. QED BY <1>1, TossInitially, TossStep, PTL DEF TossSpec

-----------------------------------------------------------------------------
(* Kabutan: what a month that is held for complete has of its articles.    *)

(* Page p of month m when it had n articles.                               *)
RowsAt(n, p) == {a \in 1 .. n : a + p * MonthPageSize > n /\ a + (p - 1) * MonthPageSize <= n}
PageAt(m, n, p) ==
  [months |-> n, items |-> {a \in RowsAt(n, p) : a > LockedArticles[m]},
   locked |-> \E a \in RowsAt(n, p) : a <= LockedArticles[m]]

Statuses == {"none", "partial", "complete", "free"}

MTypes ==
  /\ KabutanTypeOK
  /\ atFirstPage \in Nat /\ since \in Nat
  /\ pageCache \in [Months -> [months : Nat, items : SUBSET Nat, locked : BOOLEAN]]

(* Outside of a run nothing is left to do.                                 *)
MIdle == runMode = "off" => month = NoMonth /\ scopes = <<>> /\ toDiscover = <<>>

(* free_full goes backwards: what is left is older than what is begun.     *)
MOrder ==
  runMode = "free_full" =>
    /\ \A k \in 1 .. Len(toDiscover) : toDiscover[k] = Len(toDiscover) + 1 - k
    /\ \A k \in 1 .. Len(scopes) : scopes[k] > Len(toDiscover)
    /\ month # NoMonth => month > Len(toDiscover)

(* Page one as the probe has seen it.                                      *)
MCache ==
  \A m \in Months : /\ pageCache[m].months <= articles[m]
                    /\ pageCache[m] = PageAt(m, pageCache[m].months, 1)

(* The crawl of a month has all articles from the newest of its page one   *)
(* down to the page before this one.                                       *)
MCrawl ==
  month # NoMonth =>
    /\ pageNow > 0 /\ pagesToGo > 0 /\ atFirstPage <= articles[month]
    /\ pageNow = 1 => /\ metIds = {} /\ articles[month] <= atFirstPage + since
                      /\ pageCache[month] # NotCached => atFirstPage = pageCache[month].months
    /\ \A a \in (LockedArticles[month] + 1) .. atFirstPage :
         a + (pageNow - 1) * MonthPageSize > articles[month] => a \in given \cup articlesKept[month]
    /\ metIds \subseteq given
    /\ \A a \in metIds : a + since + (pageNow - 1) * MonthPageSize > articles[month]

(* A checkpoint has all articles down to its page.                         *)
MKept ==
  \A m \in Months :
    /\ covered[m] <= articles[m]
    /\ ~Accepted(m) =>
         \A a \in (LockedArticles[m] + 1) .. covered[m] :
           a + monthState[m].page * MonthPageSize > articles[m] => a \in articlesKept[m]

(* A free_full run has yet to look at a month with free articles, or has   *)
(* it under way, unless it is accepted.                                    *)
MFull ==
  /\ FirstNow <= now /\ \A m \in Months : m < FirstNow => articles[m] = FirstArticles[m]
  /\ runMode = "free_full" /\ ~capped =>
       \A m \in 1 .. FirstNow : articles[m] > LockedArticles[m] \/ m = now =>
         \/ m <= Len(toDiscover) \/ m = month \/ Accepted(m)
         \/ \E k \in 1 .. Len(scopes) : scopes[k] = m

MInv == MTypes /\ MIdle /\ MOrder /\ MCache /\ MCrawl /\ MKept /\ MFull /\ AcceptedMonthIsCovered

LEMMA MonthTypes ==
  ASSUME MTypes
  PROVE  /\ articles \in [Months -> Nat] /\ LockedArticles \in [Months -> Nat] /\ now \in Months
         /\ MonthPageSize \in Nat \ {0}
         /\ \A m \in Months : /\ monthState[m].page \in Nat /\ monthState[m].status \in Statuses /\ covered[m] \in Nat
                              /\ articlesKept[m] \subseteq Nat /\ mayLack[m] \in BOOLEAN /\ m \in Nat \ {0}
<1>1. articles \in [Months -> Nat] /\ LockedArticles \in [Months -> Nat] /\ now \in Months /\ MonthPageSize \in Nat \ {0}
  BY KabutanAssumption DEF MTypes, KabutanTypeOK
<1>2. /\ monthState \in [Months -> [page : Nat, status : {"none", "partial", "complete", "free"}]]
      /\ covered \in [Months -> Nat] /\ mayLack \in [Months -> BOOLEAN] /\ articlesKept \in [Months -> SUBSET Nat]
  BY DEF MTypes, KabutanTypeOK
<1>3. \A m \in Months : monthState[m].page \in Nat /\ monthState[m].status \in Statuses
  BY <1>2 DEF Statuses
<1>4. \A m \in Months : m \in Nat \ {0}
  BY KabutanAssumption DEF Months
<1>5. \A m \in Months : covered[m] \in Nat /\ articlesKept[m] \subseteq Nat /\ mayLack[m] \in BOOLEAN
  BY <1>2
<1>6. QED BY <1>1, <1>3, <1>4, <1>5

LEMMA Pages ==
  ASSUME NEW p \in Nat \ {0}, MonthPageSize \in Nat \ {0}
  PROVE  /\ (p - 1) * MonthPageSize \in Nat
         /\ p * MonthPageSize = (p - 1) * MonthPageSize + MonthPageSize
         /\ p = 1 => (p - 1) * MonthPageSize = 0
<1>1. PICK q \in Nat : p = q + 1
  <2>1. p - 1 \in Nat /\ p = (p - 1) + 1
    OBVIOUS
  <2>2. QED BY <2>1
<1>2. q * MonthPageSize \in Nat /\ (q + 1) * MonthPageSize = q * MonthPageSize + MonthPageSize
  OBVIOUS
<1>3. p - 1 = q
  BY <1>1
<1>4. q = 0 => q * MonthPageSize = 0
  OBVIOUS
<1>5. QED BY <1>1, <1>2, <1>3, <1>4

(* What a page p of n articles has of the free ones: those between its     *)
(* bounds; all down to the oldest free one, when it has none, or a locked  *)
(* one, or none that was not met since fewer than a page's worth arrived.  *)
LEMMA PageHas ==
  ASSUME NEW m \in Months, NEW n \in Nat, NEW p \in Nat \ {0}, MonthPageSize \in Nat \ {0}, LockedArticles[m] \in Nat
  PROVE  LET onPage == PageAt(m, n, p)
             ToBottom == \A a \in (LockedArticles[m] + 1) .. n : a + (p - 1) * MonthPageSize <= n => a \in onPage.items
         IN /\ \A a \in (LockedArticles[m] + 1) .. n :
                 a + (p - 1) * MonthPageSize <= n /\ a + p * MonthPageSize > n => a \in onPage.items
            /\ \A a \in onPage.items : a \in 1 .. n /\ a + p * MonthPageSize > n
            /\ onPage.items = {} \/ onPage.locked => ToBottom
            /\ \A met \in SUBSET Nat, s \in 0 .. MonthPageSize - 1 :
                 /\ onPage.items \subseteq met
                 /\ \A a \in met : a + s + (p - 1) * MonthPageSize > n
                 => ToBottom
<1> DEFINE low == (p - 1) * MonthPageSize
           high == p * MonthPageSize
           lock == LockedArticles[m]
           has == {a \in RowsAt(n, p) : a > lock}
           Bottom1 == \A a \in (lock + 1) .. n : a + low <= n => a \in has
<1>1. low \in Nat /\ high = low + MonthPageSize
  BY Pages
<1>2. RowsAt(n, p) = {a \in 1 .. n : a + high > n /\ a + low <= n}
  BY DEF RowsAt
<1>3. PageAt(m, n, p).items = has /\ PageAt(m, n, p).locked = \E a \in RowsAt(n, p) : a <= lock
  BY DEF PageAt
<1> HIDE DEF low, high
<1>4. \A a \in (lock + 1) .. n : a + low <= n /\ a + high > n => a \in has
  BY <1>1, <1>2
<1>5. \A a \in has : a \in 1 .. n /\ a + high > n
  BY <1>2
<1>6. ASSUME has = {} PROVE Bottom1
  <2> SUFFICES ASSUME NEW a \in (lock + 1) .. n, a + low <= n PROVE FALSE
    OBVIOUS
  <2>1. n - low \in (lock + 1) .. n
    BY <1>1
  <2>2. n - low \in has
    BY <2>1, <1>1, <1>2
  <2>3. QED BY <2>2, <1>6
<1>7. ASSUME \E a \in RowsAt(n, p) : a <= lock PROVE Bottom1
  <2>1. PICK b \in RowsAt(n, p) : b <= lock
    BY <1>7
  <2>2. b \in 1 .. n /\ b + high > n
    BY <1>2
  <2>3. QED BY <2>1, <2>2, <1>1, <1>2
<1>8. ASSUME NEW met \in SUBSET Nat, NEW s \in 0 .. MonthPageSize - 1, has \subseteq met,
             \A a \in met : a + s + low > n
      PROVE  Bottom1
  <2> SUFFICES ASSUME NEW a \in (lock + 1) .. n, a + low <= n, a + high <= n PROVE FALSE
    BY <1>1, <1>2
  <2>1. n - high + 1 \in (lock + 1) .. n
    BY <1>1
  <2>2. n - high + 1 \in has
    BY <2>1, <1>1, <1>2
  <2>3. n - high + 1 + s + low > n
    BY <2>2, <1>8
  <2>4. QED BY <2>3, <1>1
<1>9. QED BY <1>3, <1>4, <1>5, <1>6, <1>7, <1>8 DEF low, high

(* What a checkpoint says stays true while the months and what is kept of  *)
(* them only grow.                                                         *)
LEMMA MonthsStay ==
  ASSUME MTypes, MTypes', MKept, AcceptedMonthIsCovered, UNCHANGED <<monthState, covered, mayLack>>,
         \A m \in Months : articles[m] <= articles'[m] /\ articlesKept[m] \subseteq articlesKept'[m]
  PROVE  MKept' /\ AcceptedMonthIsCovered'
<1>1. MKept'
  <2> SUFFICES ASSUME NEW m \in Months
               PROVE  /\ covered[m] <= articles'[m]
                      /\ ~Accepted(m) =>
                           \A a \in (LockedArticles[m] + 1) .. covered[m] :
                             a + monthState[m].page * MonthPageSize > articles'[m] => a \in articlesKept'[m]
    BY DEF MKept, Accepted
  <2> DEFINE onPage == monthState[m].page * MonthPageSize
  <2>1. /\ articles[m] \in Nat /\ articles'[m] \in Nat /\ covered[m] \in Nat /\ onPage \in Nat
        /\ LockedArticles[m] \in Nat /\ articles[m] <= articles'[m]
    <3>1. articles[m] \in Nat /\ LockedArticles[m] \in Nat /\ covered[m] \in Nat
      BY MonthTypes
    <3>2. articles'[m] \in Nat
      BY DEF MTypes, KabutanTypeOK
    <3>3. monthState[m].page \in Nat /\ MonthPageSize \in Nat
      BY MonthTypes
    <3>4. QED BY <3>1, <3>2, <3>3
  <2>2. /\ covered[m] <= articles[m]
        /\ ~Accepted(m) => \A a \in (LockedArticles[m] + 1) .. covered[m] : a + onPage > articles[m] => a \in articlesKept[m]
    BY DEF MKept
  <2> HIDE DEF onPage
  <2>3. covered[m] <= articles'[m]
    BY <2>1, <2>2
  <2>4. ~Accepted(m) =>
          \A a \in (LockedArticles[m] + 1) .. covered[m] : a + onPage > articles'[m] => a \in articlesKept'[m]
    BY <2>1, <2>2
  <2>5. QED BY <2>3, <2>4 DEF onPage
<1>2. AcceptedMonthIsCovered'
  BY DEF AcceptedMonthIsCovered, Accepted
<1>3. QED BY <1>1, <1>2

LEMMA CrawlTypes ==
  ASSUME MInv, month # NoMonth
  PROVE  /\ month \in Months /\ pageNow \in Nat \ {0} /\ pagesToGo \in Nat \ {0}
         /\ atFirstPage \in Nat /\ since \in Nat
         /\ metIds \subseteq Nat /\ given \subseteq Nat /\ articles[month] \in Nat /\ LockedArticles[month] \in Nat
<1>1. MTypes /\ pageNow > 0 /\ pagesToGo > 0
  BY DEF MInv, MCrawl
<1>2. /\ month \in Months /\ pageNow \in Nat /\ pagesToGo \in Nat /\ metIds \subseteq Nat /\ given \subseteq Nat
      /\ atFirstPage \in Nat /\ since \in Nat
  BY <1>1 DEF MTypes, KabutanTypeOK
<1>3. articles[month] \in Nat /\ LockedArticles[month] \in Nat
  BY <1>1, <1>2, MonthTypes
<1>4. QED BY <1>1, <1>2, <1>3

LEMMA MonthArrives ==
  ASSUME MInv, ArticleArrives
  PROVE  MInv'
<1>1. /\ articles' = [articles EXCEPT ![now] = @ + 1]
      /\ since' = IF month = now THEN since + 1 ELSE since
      /\ UNCHANGED <<now, runMode, toDiscover, scopes, pageCache, month, pageNow, pagesToGo, metIds, given, atFirstPage,
           monthState, covered, mayLack, articlesKept, capped>>
  BY DEF ArticleArrives, monthsDurable
<1>2. articles \in [Months -> Nat] /\ now \in Months /\ MTypes /\ since \in Nat
  BY MonthTypes DEF MInv, MTypes
<1>3. /\ articles' \in [Months -> Nat] /\ articles'[now] = articles[now] + 1
      /\ \A m \in Months : /\ m # now => articles'[m] = articles[m]
                           /\ articles[m] <= articles'[m]
  BY <1>1, <1>2
<1>4. MTypes'
  BY <1>1, <1>2, <1>3, SMTT(30) DEF MTypes, KabutanTypeOK
<1>5. MKept' /\ AcceptedMonthIsCovered'
  BY <1>1, <1>2, <1>3, <1>4, MonthsStay DEF MInv
<1>6. MIdle' /\ MOrder'
  BY <1>1 DEF MInv, MIdle, MOrder
<1>7. MCache'
  <2>1. \A m \in Months : pageCache[m].months \in Nat
    BY DEF MInv, MTypes
  <2>2. QED BY <1>1, <1>2, <1>3, <2>1 DEF MInv, MCache, PageAt, RowsAt
<1>8. MCrawl'
  <2> SUFFICES ASSUME month # NoMonth PROVE MCrawl'
    BY <1>1 DEF MCrawl
  <2> DEFINE low == (pageNow - 1) * MonthPageSize
  <2>1. /\ month \in Months /\ pageNow \in Nat \ {0} /\ atFirstPage \in Nat /\ LockedArticles[month] \in Nat
        /\ articles[month] \in Nat /\ articles'[month] \in Nat /\ metIds \subseteq Nat
    BY <1>2, <1>3, CrawlTypes
  <2>2. low \in Nat
    BY <2>1, Pages, MonthTypes, <1>2
  <2>3. /\ pageNow > 0 /\ pagesToGo > 0 /\ atFirstPage <= articles[month]
        /\ pageNow = 1 => /\ metIds = {} /\ articles[month] <= atFirstPage + since
                          /\ pageCache[month] # NotCached => atFirstPage = pageCache[month].months
        /\ \A a \in (LockedArticles[month] + 1) .. atFirstPage :
             a + low > articles[month] => a \in given \cup articlesKept[month]
        /\ metIds \subseteq given
        /\ \A a \in metIds : a + since + low > articles[month]
    BY DEF MInv, MCrawl
  <2> HIDE DEF low
  <2>4. /\ articles'[month] >= articles[month] /\ articles'[month] - since' = articles[month] - since /\ since' \in Nat
    BY <1>1, <1>2, <1>3, <2>1
  <2>5. /\ atFirstPage <= articles'[month]
        /\ pageNow = 1 => articles'[month] <= atFirstPage + since'
        /\ \A a \in (LockedArticles[month] + 1) .. atFirstPage :
             a + low > articles'[month] => a \in given \cup articlesKept[month]
        /\ \A a \in metIds : a + since' + low > articles'[month]
    BY <1>2, <2>1, <2>2, <2>3, <2>4
  <2>6. QED BY <1>1, <2>3, <2>5 DEF MCrawl, low
<1>9. MFull'
  <2>1. FirstNow <= now' /\ \A m \in Months : m < FirstNow => articles'[m] = FirstArticles[m]
    <3>1. FirstNow <= now /\ now \in Nat /\ FirstNow \in Nat
      BY <1>2, KabutanAssumption DEF MInv, MFull, Months
    <3>2. \A m \in Months : m < FirstNow => m # now
      BY <3>1 DEF Months
    <3>3. QED BY <1>1, <1>3, <3>1, <3>2 DEF MInv, MFull
  <2>2. \A m \in 1 .. FirstNow : articles'[m] > LockedArticles[m] \/ m = now => articles[m] > LockedArticles[m] \/ m = now
    <3>1. 1 .. FirstNow \subseteq Months
      BY KabutanAssumption DEF Months
    <3>2. QED BY <1>3, <3>1
  <2>3. QED BY <1>1, <2>1, <2>2 DEF MInv, MFull, Accepted
<1>10. QED BY <1>4, <1>5, <1>6, <1>7, <1>8, <1>9 DEF MInv

LEMMA MonthOfTimePasses ==
  ASSUME MInv, MonthPasses
  PROVE  MInv'
<1>1. /\ now < LastMonth /\ now' = now + 1
      /\ UNCHANGED <<articles, runMode, toDiscover, scopes, pageCache, month, pageNow, pagesToGo, metIds, given, atFirstPage,
           since, monthState, covered, mayLack, articlesKept, capped>>
  BY DEF MonthPasses, crawling, monthsDurable
<1>2. now' \in Months /\ now \in Nat /\ FirstNow \in Nat /\ FirstNow <= now
  BY <1>1, KabutanAssumption DEF MInv, MTypes, KabutanTypeOK, MFull, Months
<1>3. MTypes'
  BY <1>1, <1>2 DEF MInv, MTypes, KabutanTypeOK
<1>4. MIdle' /\ MOrder' /\ MCache' /\ MCrawl' /\ MKept' /\ AcceptedMonthIsCovered'
  BY <1>1 DEF MInv, MIdle, MOrder, MCache, PageAt, RowsAt, MCrawl, MKept, AcceptedMonthIsCovered, Accepted
<1>5. MFull'
  <2>1. \A m \in 1 .. FirstNow : m # now'
    BY <1>1, <1>2
  <2>2. FirstNow <= now'
    BY <1>1, <1>2
  <2>3. QED BY <1>1, <2>1, <2>2 DEF MInv, MFull, Accepted
<1>6. QED BY <1>3, <1>4, <1>5 DEF MInv

LEMMA WindowOf ==
  ASSUME now \in Months, NEW mode \in {"free_full", "incremental"}
  PROVE  /\ Window(mode) \in Seq(Months)
         /\ mode = "free_full" => /\ Len(Window(mode)) = now
                                  /\ \A k \in 1 .. now : Window(mode)[k] = now + 1 - k
<1>1. now \in Nat \ {0} /\ 1 .. now \subseteq Months /\ OverlapMonths \in Nat
  BY KabutanAssumption DEF Months
<1>2. CASE mode = "free_full"
  <2> DEFINE w == [k \in 1 .. now |-> now + 1 - k]
  <2>1. Window(mode) = w
    BY <1>2 DEF Window
  <2>2. \A k \in 1 .. now : w[k] \in Months
    BY <1>1
  <2>3. w \in Seq(Months)
    BY <1>1, <2>2, IsASeq
  <2>4. Len(w) = now
    BY <1>1, <2>3, LenProperties
  <2>5. QED BY <2>1, <2>3, <2>4
<1>3. CASE mode = "incremental"
  <2> DEFINE first == IF now > OverlapMonths THEN now - OverlapMonths ELSE 1
             w == [k \in 1 .. now + 1 - first |-> first + k - 1]
  <2>1. Window(mode) = w
    BY <1>3 DEF Window
  <2>2. first \in 1 .. now
    BY <1>1
  <2> HIDE DEF first
  <2>3. \A k \in 1 .. now + 1 - first : w[k] \in Months
    BY <1>1, <2>2
  <2>4. now + 1 - first \in Nat
    BY <1>1, <2>2
  <2>5. w \in Seq(Months)
    BY <2>3, <2>4, IsASeq
  <2>6. QED BY <2>1, <2>5, <1>3
<1>4. QED BY <1>2, <1>3

LEMMA NothingCached ==
  PageAt(1, 0, 1) = NotCached /\ \A m \in Months : NotCached = PageAt(m, 0, 1)
<1>1. RowsAt(0, 1) = {}
  BY DEF RowsAt
<1>2. QED BY <1>1 DEF PageAt, NotCached

LEMMA MonthsStart ==
  ASSUME MInv, NEW mode \in {"free_full", "incremental"}, StartKabutan(mode)
  PROVE  MInv'
<1>1. /\ runMode = "off" /\ runMode' = mode /\ toDiscover' = Window(mode) /\ scopes' = <<>> /\ capped' = FALSE
      /\ pageCache' = [m \in Months |-> NotCached]
      /\ UNCHANGED <<now, articles, month, pageNow, pagesToGo, metIds, given, atFirstPage, since,
           monthState, covered, mayLack, articlesKept>>
  BY DEF StartKabutan, calendar, crawling, monthsDurable
<1>2. month = NoMonth /\ now \in Months /\ now \in Nat
  BY <1>1, MonthTypes DEF MInv, MIdle, MTypes
<1>3. MTypes'
  <2>1. toDiscover' \in Seq(Months) /\ scopes' \in Seq(Months)
    BY <1>1, <1>2, WindowOf
  <2>2. NotCached \in [months : Nat, items : SUBSET Nat, locked : BOOLEAN]
    BY DEF NotCached
  <2>3. pageCache' \in [Months -> [months : Nat, items : SUBSET Nat, locked : BOOLEAN]]
    BY <1>1, <2>2
  <2>4. QED BY <1>1, <2>1, <2>3 DEF MInv, MTypes, KabutanTypeOK
<1>4. MIdle' /\ MCrawl'
  BY <1>1, <1>2 DEF MIdle, MCrawl
<1>5. MOrder'
  BY <1>1, <1>2, WindowOf DEF MOrder
<1>6. MCache'
  <2>1. \A m \in Months : 0 <= articles[m]
    BY MonthTypes DEF MInv
  <2>2. QED BY <1>1, <2>1, NothingCached DEF MCache, NotCached, PageAt, RowsAt
<1>7. MKept' /\ AcceptedMonthIsCovered'
  BY <1>1 DEF MInv, MKept, AcceptedMonthIsCovered, Accepted
<1>8. MFull'
  <2>1. FirstNow <= now /\ FirstNow \in Nat
    BY KabutanAssumption DEF MInv, MFull, Months
  <2>2. runMode' = "free_full" => Len(toDiscover') = now
    BY <1>1, <1>2, WindowOf
  <2>3. QED BY <1>1, <1>2, <2>1, <2>2 DEF MInv, MFull
<1>9. QED BY <1>3, <1>4, <1>5, <1>6, <1>7, <1>8 DEF MInv

LEMMA PageOfNow ==
  ASSUME NEW m, NEW p
  PROVE  PageOf(m, p) = PageAt(m, articles[m], p)
BY DEF PageOf, PageAt, Linked, HasLocked, ArticleRows, RowsAt

LEMMA PageType ==
  ASSUME NEW m \in Months, NEW n \in Nat, NEW p
  PROVE  PageAt(m, n, p) \in [months : Nat, items : SUBSET Nat, locked : BOOLEAN]
BY DEF PageAt, RowsAt

(* The months below the boundary have no free articles.                    *)
LEMMA BehindTheWall ==
  ASSUME MInv, NEW m \in Months, NEW older \in Months, older < m, older <= FirstNow, LockedArticles[m] > 0
  PROVE  articles[older] = LockedArticles[older] /\ older # now
<1>1. m <= FirstNow
  <2>1. CASE m > FirstNow
    <3>1. FirstArticles[m] = 0 /\ LockedArticles[m] <= FirstArticles[m] /\ LockedArticles[m] \in Nat
      BY <2>1, KabutanAssumption
    <3>2. QED BY <3>1
  <2>2. QED BY <2>1, KabutanAssumption DEF Months
<1>2. older < FirstNow /\ older # now
  <2>1. FirstNow <= now /\ FirstNow \in Nat /\ now \in Nat
    BY KabutanAssumption, MonthTypes DEF MInv, MFull, Months
  <2>2. m \in Nat /\ older \in Nat
    BY MonthTypes DEF MInv
  <2>3. QED BY <1>1, <2>1, <2>2
<1>3. QED BY <1>2, KabutanAssumption DEF MInv, MFull

LEMMA MonthDiscovered ==
  ASSUME MInv, DiscoverMonth
  PROVE  MInv'
<1> DEFINE m == Head(toDiscover)
           first == PageOf(m, 1)
<1>1. /\ toDiscover # <<>> /\ scopes = <<>> /\ toDiscover \in Seq(Months) /\ m \in Months
      /\ Tail(toDiscover) \in Seq(Months) /\ Len(toDiscover) \in Nat \ {0}
  <2>1. toDiscover # <<>> /\ scopes = <<>> /\ toDiscover \in Seq(Months)
    BY DEF DiscoverMonth, MInv, MTypes, KabutanTypeOK
  <2>2. QED BY <2>1, HeadTailProperties, EmptySeq, LenProperties
<1>2. /\ UNCHANGED <<now, articles, runMode, month, pageNow, pagesToGo, metIds, given, atFirstPage, since,
           monthState, covered, mayLack, articlesKept, capped>>
      /\ scopes' = <<m>>
      /\ runMode = "free_full" => /\ pageCache' = [pageCache EXCEPT ![m] = first]
                                  /\ toDiscover' = IF first.locked THEN <<>> ELSE Tail(toDiscover)
      /\ runMode # "free_full" => toDiscover' = Tail(toDiscover) /\ pageCache' = pageCache
  BY DEF DiscoverMonth, calendar, crawling, monthsDurable, ScopesUpTo
<1>3. first = PageAt(m, articles[m], 1) /\ articles[m] \in Nat
  BY <1>1, PageOfNow, MonthTypes DEF MInv
<1>4. pageCache \in [Months -> [months : Nat, items : SUBSET Nat, locked : BOOLEAN]]
  BY DEF MInv, MTypes
<1> HIDE DEF m, first
<1>5. pageCache' \in [Months -> [months : Nat, items : SUBSET Nat, locked : BOOLEAN]]
  <2>1. first \in [months : Nat, items : SUBSET Nat, locked : BOOLEAN]
    BY <1>1, <1>3, PageType
  <2>2. CASE runMode = "free_full"
    <3>1. pageCache' = [pageCache EXCEPT ![m] = first]
      BY <1>2, <2>2
    <3>2. QED BY <3>1, <2>1, <1>4, <1>1
  <2>3. QED BY <2>2, <1>2, <1>4
<1>6. /\ toDiscover' \in Seq(Months) /\ scopes' \in Seq(Months)
      /\ toDiscover' \in {<<>>, Tail(toDiscover)}
  <2>1. toDiscover' \in {<<>>, Tail(toDiscover)}
    BY <1>2
  <2>2. <<m>> \in Seq(Months) /\ <<>> \in Seq(Months)
    BY <1>1
  <2>3. QED BY <1>1, <1>2, <2>1, <2>2
<1>7. MTypes'
  BY <1>2, <1>5, <1>6 DEF MInv, MTypes, KabutanTypeOK
<1>8. MIdle'
  BY <1>1, <1>2 DEF MInv, MIdle
<1>9. runMode = "free_full" => /\ m = Len(toDiscover) /\ Len(toDiscover') < m
                               /\ month # NoMonth => month > m
  BY <1>1, <1>2 DEF MInv, MOrder, m
<1>10. MOrder'
  <2> SUFFICES ASSUME runMode = "free_full" PROVE MOrder'
    BY <1>2 DEF MOrder
  <2>1. \A k \in 1 .. Len(toDiscover') : toDiscover'[k] = Len(toDiscover') + 1 - k
    <3>1. CASE toDiscover' = <<>>
      BY <3>1
    <3>2. CASE toDiscover' = Tail(toDiscover)
      <4>1. /\ Len(toDiscover') = Len(toDiscover) - 1
            /\ \A k \in 1 .. Len(toDiscover') : toDiscover'[k] = toDiscover[k + 1]
        BY <3>2, <1>1
      <4>2. \A k \in 1 .. Len(toDiscover) : toDiscover[k] = Len(toDiscover) + 1 - k
        BY DEF MInv, MOrder
      <4>3. QED BY <4>1, <4>2, <1>1
    <3>3. QED BY <3>1, <3>2, <1>6
  <2>2. month # NoMonth => month > Len(toDiscover')
    BY <1>9, <1>1, <1>6 DEF MInv, MTypes, KabutanTypeOK, Months
  <2>3. QED BY <1>2, <1>9, <2>1, <2>2 DEF MOrder
<1>11. MCache'
  <2>1. first.months = articles[m]
    BY <1>3 DEF PageAt
  <2>2. \A k \in Months : pageCache'[k] = pageCache[k] \/ (pageCache'[k] = first /\ k = m)
    <3> SUFFICES ASSUME NEW k \in Months
                 PROVE  pageCache'[k] = pageCache[k] \/ (pageCache'[k] = first /\ k = m)
      OBVIOUS
    <3>1. pageCache' = [pageCache EXCEPT ![m] = first] \/ pageCache' = pageCache
      BY <1>2
    <3>2. DOMAIN pageCache = Months
      BY <1>4
    <3>3. QED BY <3>1, <3>2
  <2> SUFFICES ASSUME NEW k \in Months
               PROVE  /\ pageCache'[k].months <= articles[k]
                      /\ pageCache'[k] = PageAt(k, pageCache'[k].months, 1)
    BY <1>2 DEF MCache, PageAt, RowsAt
  <2>3. CASE pageCache'[k] = pageCache[k]
    BY <2>3 DEF MInv, MCache
  <2>4. CASE pageCache'[k] = first /\ k = m
    BY <2>4, <1>3, <2>1
  <2>5. QED BY <2>2, <2>3, <2>4
<1>12. MCrawl'
  <2> SUFFICES ASSUME month # NoMonth PROVE MCrawl'
    BY <1>2 DEF MCrawl
  <2>1. pageCache'[month] = pageCache[month]
    <3>1. month \in Months /\ (runMode = "free_full" => month # m)
      BY <1>9, CrawlTypes DEF Months
    <3>2. QED BY <3>1, <1>2, <1>4
  <2>2. QED BY <2>1, <1>2 DEF MInv, MCrawl
<1>13. MKept' /\ AcceptedMonthIsCovered'
  BY <1>2 DEF MInv, MKept, AcceptedMonthIsCovered, Accepted
<1>14. MFull'
  <2> SUFFICES ASSUME runMode = "free_full", ~capped,
                      NEW k \in 1 .. FirstNow, articles[k] > LockedArticles[k] \/ k = now
               PROVE  k <= Len(toDiscover') \/ k = month \/ Accepted(k) \/ k = m
    <3>1. Len(scopes') = 1 /\ scopes'[1] = m
      BY <1>2
    <3>2. QED BY <1>2, <3>1 DEF MInv, MFull, Accepted
  <2>1. k <= Len(toDiscover) \/ k = month \/ Accepted(k)
    BY <1>1 DEF MInv, MFull
  <2>2. CASE ~first.locked
    <3>1. Len(toDiscover') = Len(toDiscover) - 1
      BY <1>1, <1>2, <2>2
    <3>2. QED BY <2>1, <3>1, <1>1, <1>9
  <2>3. CASE first.locked /\ k < m
    <3>1. LockedArticles[m] > 0
      BY <2>3, <1>1, <1>3, MonthTypes DEF PageAt, RowsAt, MInv
    <3>2. k \in Months
      BY KabutanAssumption DEF Months
    <3>3. articles[k] = LockedArticles[k] /\ k # now
      BY <3>1, <3>2, <2>3, <1>1, BehindTheWall
    <3>4. QED BY <3>2, <3>3, MonthTypes DEF MInv
  <2>4. QED BY <2>1, <2>2, <2>3, <1>1, <1>9
<1>15. QED BY <1>7, <1>8, <1>10, <1>11, <1>12, <1>13, <1>14 DEF MInv

LEMMA MonthSkipped ==
  ASSUME MInv, SkipMonth
  PROVE  MInv'
<1>1. /\ month = NoMonth /\ scopes # <<>> /\ LeftOut(Head(scopes)) /\ scopes' = Tail(scopes)
      /\ UNCHANGED <<now, articles, runMode, toDiscover, pageCache, month, pageNow, pagesToGo, metIds, given, atFirstPage,
           since, monthState, covered, mayLack, articlesKept, capped>>
  BY DEF SkipMonth, calendar, crawling, monthsDurable
<1>2. /\ scopes \in Seq(Months) /\ Tail(scopes) \in Seq(Months) /\ Len(Tail(scopes)) = Len(scopes) - 1
      /\ Len(scopes) \in Nat \ {0} /\ \A k \in 1 .. Len(scopes) - 1 : Tail(scopes)[k] = scopes[k + 1]
  <2>1. scopes \in Seq(Months)
    BY DEF MInv, MTypes, KabutanTypeOK
  <2>2. QED BY <2>1, <1>1, HeadTailProperties, EmptySeq, LenProperties
<1>3. MTypes'
  BY <1>1, <1>2 DEF MInv, MTypes, KabutanTypeOK
<1>4. MIdle' /\ MCache' /\ MCrawl' /\ MKept' /\ AcceptedMonthIsCovered'
  BY <1>1 DEF MInv, MIdle, MCache, PageAt, RowsAt, MCrawl, MKept, AcceptedMonthIsCovered, Accepted
<1>5. MOrder'
  BY <1>1, <1>2 DEF MInv, MOrder
<1>6. MFull'
  <2>1. Accepted(scopes[1])
    BY <1>1, <1>2 DEF LeftOut
  <2> SUFFICES ASSUME runMode = "free_full", ~capped,
                      NEW k \in 1 .. FirstNow, articles[k] > LockedArticles[k] \/ k = now,
                      NEW i \in 1 .. Len(scopes), scopes[i] = k, ~Accepted(k)
               PROVE  \E j \in 1 .. Len(Tail(scopes)) : Tail(scopes)[j] = k
    BY <1>1 DEF MInv, MFull, Accepted
  <2>2. i # 1
    BY <2>1
  <2>3. i - 1 \in 1 .. Len(Tail(scopes)) /\ Tail(scopes)[i - 1] = k
    BY <1>2, <2>2
  <2>4. QED BY <2>3
<1>7. QED BY <1>3, <1>4, <1>5, <1>6 DEF MInv

LEMMA MonthBegins ==
  ASSUME MInv, NEW pages \in MonthPages, BeginMonth(pages)
  PROVE  MInv'
<1>1. PICK m : m = Head(scopes)
  OBVIOUS
<1>2. PICK first : first = FirstPage(m)
  OBVIOUS
<1>3. /\ month = NoMonth /\ scopes # <<>> /\ ~LeftOut(m) /\ month' = m /\ scopes' = Tail(scopes)
      /\ pageNow' = first /\ pagesToGo' = pages /\ metIds' = {} /\ given' = {}
      /\ atFirstPage' = IF Cached(m, first) THEN pageCache[m].months
                        ELSE IF first = 1 THEN articles[m] ELSE covered[m]
      /\ since' = IF Cached(m, first) THEN articles[m] - pageCache[m].months
                  ELSE IF first > 1 /\ mayLack[m] THEN MonthPageSize ELSE 0
      /\ UNCHANGED <<now, articles, runMode, toDiscover, pageCache, monthState, covered, mayLack, articlesKept, capped>>
  BY <1>1, <1>2 DEF BeginMonth, calendar, monthsDurable
<1>4. /\ scopes \in Seq(Months) /\ Tail(scopes) \in Seq(Months) /\ Len(Tail(scopes)) = Len(scopes) - 1
      /\ Len(scopes) \in Nat \ {0} /\ \A k \in 1 .. Len(scopes) - 1 : Tail(scopes)[k] = scopes[k + 1]
      /\ m = scopes[1] /\ m \in Months
  <2>1. scopes \in Seq(Months)
    BY DEF MInv, MTypes, KabutanTypeOK
  <2>2. QED BY <2>1, <1>1, <1>3, HeadTailProperties, EmptySeq, LenProperties
<1>5. /\ m \in Nat \ {0} /\ articles[m] \in Nat /\ covered[m] \in Nat /\ pageCache[m].months \in Nat
      /\ pageCache[m].months <= articles[m] /\ covered[m] <= articles[m]
      /\ monthState[m].page \in Nat /\ MonthPageSize \in Nat \ {0} /\ pages \in Nat \ {0}
      /\ LockedArticles[m] \in Nat
  <2>1. pageCache[m].months \in Nat
    BY <1>4 DEF MInv, MTypes
  <2>2. pageCache[m].months <= articles[m] /\ covered[m] <= articles[m]
    BY <1>4 DEF MInv, MCache, MKept
  <2>3. pages \in Nat \ {0}
    BY KabutanAssumption
  <2>4. /\ m \in Nat \ {0} /\ articles[m] \in Nat /\ covered[m] \in Nat /\ monthState[m].page \in Nat
        /\ MonthPageSize \in Nat \ {0} /\ LockedArticles[m] \in Nat
    BY <1>4, MonthTypes DEF MInv
  <2>5. QED BY <2>1, <2>2, <2>3, <2>4
<1>6. first \in Nat \ {0} /\ atFirstPage' \in Nat /\ since' \in Nat /\ atFirstPage' <= articles[m]
  <2>1. first \in Nat \ {0}
    BY <1>2, <1>5 DEF FirstPage
  <2>2. QED BY <1>3, <1>5, <2>1
<1>7. MTypes'
  BY <1>3, <1>4, <1>5, <1>6 DEF MInv, MTypes, KabutanTypeOK
<1>8. MIdle'
  BY <1>3 DEF MInv, MIdle
<1>9. MOrder'
  <2> SUFFICES ASSUME runMode = "free_full" PROVE MOrder'
    BY <1>3 DEF MOrder
  <2>1. /\ \A k \in 1 .. Len(toDiscover) : toDiscover[k] = Len(toDiscover) + 1 - k
        /\ \A k \in 1 .. Len(scopes) : scopes[k] > Len(toDiscover)
    BY DEF MInv, MOrder
  <2>2. /\ \A k \in 1 .. Len(scopes') : scopes'[k] > Len(toDiscover)
        /\ m > Len(toDiscover)
    BY <1>3, <1>4, <2>1
  <2>3. QED BY <1>3, <2>1, <2>2 DEF MOrder
<1>10. MCache' /\ MKept' /\ AcceptedMonthIsCovered'
  BY <1>3 DEF MInv, MCache, PageAt, RowsAt, MKept, AcceptedMonthIsCovered, Accepted
<1>11. MCrawl'
  <2> DEFINE low == (first - 1) * MonthPageSize
  <2>1. low \in Nat /\ (first = 1 => low = 0)
    BY <1>5, <1>6, Pages
  <2>2. first # 1 => ~Accepted(m) /\ low = monthState[m].page * MonthPageSize
    <3> SUFFICES ASSUME first # 1 PROVE ~Accepted(m) /\ first - 1 = monthState[m].page
      OBVIOUS
    <3>1. runMode # "incremental" /\ m # now /\ first = monthState[m].page + 1
      BY <1>2 DEF FirstPage
    <3>2. runMode = "free_full"
      BY <1>3, <3>1 DEF MInv, MTypes, KabutanTypeOK, MIdle
    <3>3. QED BY <3>1, <3>2, <1>3, <1>5 DEF LeftOut
  <2> HIDE DEF low
  <2>3. first = 1 => /\ articles[m] <= atFirstPage' + since'
                     /\ pageCache[m] # NotCached => atFirstPage' = pageCache[m].months
    BY <1>3, <1>5 DEF Cached
  <2>4. ASSUME NEW a \in (LockedArticles[m] + 1) .. atFirstPage', a + low > articles[m]
        PROVE  a \in articlesKept[m]
    <3>1. CASE first = 1
      BY <3>1, <2>1, <2>4, <1>5, <1>6
    <3>2. CASE first # 1
      <4>1. atFirstPage' = covered[m]
        BY <3>2, <1>3 DEF Cached
      <4>2. QED BY <4>1, <3>2, <2>2, <2>4, <1>4 DEF MInv, MKept
    <3>3. QED BY <3>1, <3>2
  <2>5. QED BY <1>3, <1>5, <1>6, <2>3, <2>4 DEF MCrawl, low
<1>12. MFull'
  <2> SUFFICES ASSUME runMode = "free_full", ~capped,
                      NEW k \in 1 .. FirstNow, articles[k] > LockedArticles[k] \/ k = now,
                      NEW i \in 1 .. Len(scopes), scopes[i] = k, k # m
               PROVE  \E j \in 1 .. Len(Tail(scopes)) : Tail(scopes)[j] = k
    <3>1. month = NoMonth /\ \A k \in 1 .. FirstNow : k # NoMonth
      BY <1>3, KabutanAssumption DEF NoMonth, Months
    <3>2. QED BY <3>1, <1>3 DEF MInv, MFull, Accepted
  <2>1. i # 1
    BY <1>4
  <2>2. i - 1 \in 1 .. Len(Tail(scopes)) /\ Tail(scopes)[i - 1] = k
    BY <1>4, <2>1
  <2>3. QED BY <2>2
<1>13. QED BY <1>7, <1>8, <1>9, <1>10, <1>11, <1>12 DEF MInv

(* A crawl that is over leaves behind what its checkpoint says.            *)
LEMMA CrawlIsOver ==
  ASSUME MInv, MonthOver, MTypes', MIdle', MOrder', MCache', MKept', MFull', AcceptedMonthIsCovered'
  PROVE  MInv'
BY DEF MonthOver, MCrawl, MInv

LEMMA MonthsEnd ==
  ASSUME MInv, KabutanEnds \/ \E drained \in BOOLEAN : KabutanInterrupted(drained)
  PROVE  MInv'
<1>1. /\ RunOver /\ month' = NoMonth
      /\ UNCHANGED <<now, articles, monthState, covered, mayLack, capped>>
  BY DEF KabutanEnds, KabutanInterrupted, MonthOver, calendar, crawling, monthsDurable
<1>2. /\ pageNow' \in Nat /\ pagesToGo' \in Nat /\ metIds' \subseteq Nat /\ given' \subseteq Nat
      /\ atFirstPage' \in Nat /\ since' \in Nat
  <2>1. UNCHANGED crawling \/ MonthOver
    BY DEF KabutanEnds, KabutanInterrupted
  <2>2. /\ pageNow \in Nat /\ pagesToGo \in Nat /\ metIds \subseteq Nat /\ given \subseteq Nat
        /\ atFirstPage \in Nat /\ since \in Nat
    BY DEF MInv, MTypes, KabutanTypeOK
  <2>3. CASE UNCHANGED crawling
    BY <2>2, <2>3 DEF crawling
  <2>4. CASE MonthOver
    BY <2>4 DEF MonthOver
  <2>5. QED BY <2>1, <2>3, <2>4
<1>3. articlesKept' \in [Months -> SUBSET Nat] /\ \A m \in Months : articlesKept[m] \subseteq articlesKept'[m]
  <2>1. articlesKept \in [Months -> SUBSET Nat] /\ given \subseteq Nat
    BY DEF MInv, MTypes, KabutanTypeOK
  <2>2. articlesKept' = articlesKept \/ articlesKept' = [articlesKept EXCEPT ![month] = @ \cup given]
    BY DEF KabutanEnds, KabutanInterrupted, monthsDurable
  <2>3. QED BY <2>1, <2>2
<1>4. MTypes'
  <2>1. NotCached \in [months : Nat, items : SUBSET Nat, locked : BOOLEAN]
    BY DEF NotCached
  <2>2. pageCache' \in [Months -> [months : Nat, items : SUBSET Nat, locked : BOOLEAN]]
    BY <1>1, <2>1 DEF RunOver
  <2>3. toDiscover' \in Seq(Months) /\ scopes' \in Seq(Months)
    BY <1>1 DEF RunOver
  <2>4. QED BY <1>1, <1>2, <1>3, <2>2, <2>3 DEF RunOver, MInv, MTypes, KabutanTypeOK
<1>5. MIdle' /\ MOrder' /\ MCrawl' /\ MFull'
  BY <1>1 DEF RunOver, MIdle, MOrder, MCrawl, MInv, MFull
<1>6. MCache'
  <2>1. \A m \in Months : 0 <= articles[m]
    BY MonthTypes DEF MInv
  <2>2. QED BY <1>1, <2>1, NothingCached DEF RunOver, MCache, NotCached, PageAt, RowsAt
<1>7. MKept' /\ AcceptedMonthIsCovered'
  <2>1. \A m \in Months : articles[m] <= articles'[m]
    BY <1>1, MonthTypes DEF MInv
  <2>2. QED BY <1>1, <1>3, <1>4, <2>1, MonthsStay DEF MInv
<1>8. QED BY <1>4, <1>5, <1>6, <1>7 DEF MInv

(* The page a crawl fetches: of now, or page one as the probe has seen it. *)
PageFetched(n) ==
  /\ n \in Nat /\ n <= articles[month] /\ articles[month] <= n + since
  /\ n = articles[month] \/ (n = atFirstPage /\ pageNow = 1)

LEMMA PageIsFetched ==
  ASSUME MInv, month # NoMonth
  PROVE  \E n : /\ PageFetched(n)
                /\ PageAt(month, n, pageNow) = IF Cached(month, pageNow) THEN pageCache[month] ELSE PageOf(month, pageNow)
<1>1. month \in Months /\ articles[month] \in Nat /\ since \in Nat
  BY CrawlTypes
<1>2. CASE Cached(month, pageNow)
  <2>1. pageNow = 1 /\ pageCache[month] # NotCached
    BY <1>2 DEF Cached
  <2>2. /\ atFirstPage = pageCache[month].months /\ articles[month] <= atFirstPage + since
        /\ pageCache[month].months <= articles[month]
        /\ pageCache[month] = PageAt(month, pageCache[month].months, 1)
    BY <2>1, <1>1 DEF MInv, MCrawl, MCache
  <2>3. atFirstPage \in Nat
    BY CrawlTypes
  <2>4. PageFetched(atFirstPage)
    BY <2>1, <2>2, <2>3 DEF PageFetched
  <2>5. QED BY <2>1, <2>2, <2>4, <1>2
<1>3. CASE ~Cached(month, pageNow)
  <2>1. PageFetched(articles[month])
    BY <1>1 DEF PageFetched
  <2>2. QED BY <2>1, <1>3, PageOfNow
<1>4. QED BY <1>2, <1>3

(* What a crawl has after page p, and all there is when the page was the   *)
(* last one.                                                               *)
LEMMA PageTaken ==
  ASSUME MInv, month # NoMonth, NEW n, PageFetched(n)
  PROVE  LET onPage == PageAt(month, n, pageNow)
             has == given \cup articlesKept[month] \cup onPage.items
             All == (LockedArticles[month] + 1) .. atFirstPage \subseteq has
         IN /\ \A a \in (LockedArticles[month] + 1) .. atFirstPage :
                 a + pageNow * MonthPageSize > articles[month] => a \in has
            /\ \A a \in metIds \cup onPage.items : a + since + pageNow * MonthPageSize > articles[month]
            /\ onPage.items = {} \/ onPage.locked => All
            /\ onPage.items \subseteq metIds /\ since < MonthPageSize => All
<1> DEFINE lock == LockedArticles[month]
           onPage == PageAt(month, n, pageNow)
           low == (pageNow - 1) * MonthPageSize
           high == pageNow * MonthPageSize
           has == given \cup articlesKept[month] \cup onPage.items
<1>1. /\ month \in Months /\ pageNow \in Nat \ {0} /\ atFirstPage \in Nat /\ since \in Nat
      /\ metIds \subseteq Nat /\ articles[month] \in Nat /\ lock \in Nat /\ MonthPageSize \in Nat \ {0}
      /\ n \in Nat /\ n <= articles[month] /\ articles[month] <= n + since
      /\ n = articles[month] \/ (n = atFirstPage /\ pageNow = 1)
  BY CrawlTypes, KabutanAssumption DEF PageFetched
<1>2. low \in Nat /\ high = low + MonthPageSize /\ (pageNow = 1 => low = 0)
  BY <1>1, Pages
<1>3. /\ atFirstPage <= articles[month]
      /\ pageNow = 1 => metIds = {}
      /\ \A a \in (lock + 1) .. atFirstPage : a + low > articles[month] => a \in given \cup articlesKept[month]
      /\ \A a \in metIds : a + since + low > articles[month]
  BY DEF MInv, MCrawl
<1>4. /\ \A a \in (lock + 1) .. n : a + low <= n /\ a + high > n => a \in onPage.items
      /\ \A a \in onPage.items : a \in 1 .. n /\ a + high > n
      /\ onPage.items = {} \/ onPage.locked => \A a \in (lock + 1) .. n : a + low <= n => a \in onPage.items
      /\ \A met \in SUBSET Nat, s \in 0 .. MonthPageSize - 1 :
           onPage.items \subseteq met /\ (\A a \in met : a + s + low > n) =>
             \A a \in (lock + 1) .. n : a + low <= n => a \in onPage.items
  BY <1>1, PageHas
<1> HIDE DEF low, high, onPage
<1>5. \A a \in (lock + 1) .. atFirstPage : (a \in 1 .. n /\ a + low <= n) \/ a \in given \cup articlesKept[month]
  <2>1. CASE n = articles[month]
    BY <2>1, <1>1, <1>2, <1>3
  <2>2. CASE n = atFirstPage /\ pageNow = 1
    BY <2>2, <1>1, <1>2
  <2>3. QED BY <2>1, <2>2, <1>1
<1>6. \A a \in (lock + 1) .. atFirstPage : a + high > articles[month] => a \in has
  BY <1>1, <1>2, <1>4, <1>5
<1>7. \A a \in metIds \cup onPage.items : a + since + high > articles[month]
  BY <1>1, <1>2, <1>3, <1>4
<1>8. ASSUME \A a \in (lock + 1) .. n : a + low <= n => a \in onPage.items
      PROVE  (lock + 1) .. atFirstPage \subseteq has
  BY <1>1, <1>5, <1>8
<1>9. ASSUME onPage.items \subseteq metIds, since < MonthPageSize
      PROVE  (lock + 1) .. atFirstPage \subseteq has
  <2>1. since \in 0 .. MonthPageSize - 1 /\ \A a \in metIds : a + since + low > n
    BY <1>1, <1>2, <1>3, <1>9
  <2>2. \A a \in (lock + 1) .. n : a + low <= n => a \in onPage.items
    BY <2>1, <1>1, <1>4, <1>9
  <2>3. QED BY <2>2, <1>8
<1>10. QED BY <1>4, <1>6, <1>7, <1>8, <1>9 DEF low, high, onPage

(* A checkpoint that says no more than the crawl has keeps the invariant.  *)
LEMMA MonthSaved ==
  ASSUME MInv, month # NoMonth, NEW onPage \in Nat, NEW status \in Statuses, NEW more \in SUBSET Nat,
         NEW lacks \in BOOLEAN, SaveMonth(onPage, status, more, lacks), capped' = (capped \/ status = "partial"), status # "none",
         pageCache' \in {pageCache, [pageCache EXCEPT ![month] = NotCached]},
         UNCHANGED <<calendar, runMode, toDiscover, scopes, monthRuns>>,
         status = "partial" =>
           \A a \in (LockedArticles[month] + 1) .. atFirstPage :
             a + onPage * MonthPageSize > articles[month] => a \in given \cup articlesKept[month] \cup more,
         status # "partial" /\ ~lacks =>
           (LockedArticles[month] + 1) .. atFirstPage \subseteq given \cup articlesKept[month] \cup more
  PROVE  MInv'
<1>1. /\ monthState' = [monthState EXCEPT ![month] = [page |-> onPage, status |-> status]]
      /\ articlesKept' = [articlesKept EXCEPT ![month] = @ \cup given \cup more]
      /\ covered' = [covered EXCEPT ![month] = atFirstPage]
      /\ mayLack' = [mayLack EXCEPT ![month] = lacks]
      /\ UNCHANGED <<now, articles, newArticles>> /\ MonthOver
  BY DEF SaveMonth, calendar
<1>2. /\ month \in Months /\ atFirstPage \in Nat /\ since \in Nat /\ given \subseteq Nat
      /\ articles[month] \in Nat /\ atFirstPage <= articles[month] /\ MonthPageSize \in Nat
  BY CrawlTypes, KabutanAssumption DEF MInv, MCrawl
<1>3. /\ monthState \in [Months -> [page : Nat, status : Statuses]]
      /\ covered \in [Months -> Nat] /\ mayLack \in [Months -> BOOLEAN] /\ articlesKept \in [Months -> SUBSET Nat]
      /\ pageCache \in [Months -> [months : Nat, items : SUBSET Nat, locked : BOOLEAN]]
  BY DEF MInv, MTypes, KabutanTypeOK, Statuses
<1>4. /\ monthState'[month] = [page |-> onPage, status |-> status] /\ covered'[month] = atFirstPage
      /\ articlesKept'[month] = articlesKept[month] \cup given \cup more
      /\ mayLack'[month] = lacks
      /\ \A m \in Months \ {month} : /\ monthState'[m] = monthState[m] /\ covered'[m] = covered[m]
                                     /\ mayLack'[m] = mayLack[m] /\ articlesKept'[m] = articlesKept[m]
  BY <1>1, <1>2, <1>3
<1>5. \A m \in Months : pageCache'[m] \in {pageCache[m], NotCached}
  BY <1>2, <1>3
<1>6. MTypes'
  <2>1. NotCached \in [months : Nat, items : SUBSET Nat, locked : BOOLEAN]
    BY DEF NotCached
  <2>2. pageCache' \in [Months -> [months : Nat, items : SUBSET Nat, locked : BOOLEAN]]
    BY <1>2, <1>3, <2>1
  <2>3. monthState' \in [Months -> [page : Nat, status : Statuses]]
    BY <1>1, <1>2, <1>3
  <2>4. covered' \in [Months -> Nat] /\ mayLack' \in [Months -> BOOLEAN] /\ articlesKept' \in [Months -> SUBSET Nat]
    BY <1>1, <1>2, <1>3
  <2>5. capped' \in BOOLEAN
    BY DEF MInv, MTypes, KabutanTypeOK
  <2>6. QED BY <1>1, <2>2, <2>3, <2>4, <2>5 DEF MonthOver, MInv, MTypes, KabutanTypeOK, Statuses
<1>7. MIdle' /\ MOrder'
  BY <1>1 DEF MonthOver, MInv, MIdle, MOrder
<1>8. MCache'
  <2>1. \A m \in Months : articles[m] \in Nat
    BY MonthTypes DEF MInv
  <2> SUFFICES ASSUME NEW m \in Months
               PROVE  /\ pageCache'[m].months <= articles[m]
                      /\ pageCache'[m] = PageAt(m, pageCache'[m].months, 1)
    BY <1>1 DEF MCache, PageAt, RowsAt
  <2>2. CASE pageCache'[m] = pageCache[m]
    BY <2>2 DEF MInv, MCache
  <2>3. CASE pageCache'[m] = NotCached
    <3>1. NotCached.months = 0
      BY DEF NotCached
    <3>2. QED BY <2>1, <2>3, <3>1, NothingCached
  <2>4. QED BY <1>5, <2>2, <2>3
<1>9. MKept'
  <2> SUFFICES ASSUME NEW m \in Months
               PROVE  /\ covered'[m] <= articles[m]
                      /\ monthState'[m].status \notin {"complete", "free"} =>
                           \A a \in (LockedArticles[m] + 1) .. covered'[m] :
                             a + monthState'[m].page * MonthPageSize > articles[m] => a \in articlesKept'[m]
    BY <1>1 DEF MKept, Accepted
  <2>1. CASE m # month
    BY <2>1, <1>4 DEF MInv, MKept, Accepted
  <2>2. CASE m = month
    <3>1. monthState'[m].status = status /\ monthState'[m].page = onPage /\ (status \notin {"complete", "free"} => status = "partial")
      BY <1>4, <2>2 DEF Statuses
    <3>2. QED BY <3>1, <2>2, <1>2, <1>4
  <2>3. QED BY <2>1, <2>2
<1>10. AcceptedMonthIsCovered'
  <2> SUFFICES ASSUME NEW m \in Months, monthState'[m].status \in {"complete", "free"}, ~mayLack'[m]
               PROVE  (LockedArticles[m] + 1) .. covered'[m] \subseteq articlesKept'[m]
    BY DEF AcceptedMonthIsCovered, Accepted
  <2>1. CASE m # month
    BY <2>1, <1>4 DEF MInv, AcceptedMonthIsCovered, Accepted
  <2>2. CASE m = month
    <3>1. monthState'[m].status = status /\ mayLack'[m] = lacks
      BY <1>4, <2>2
    <3>2. status # "partial" /\ ~lacks
      BY <3>1
    <3>3. QED BY <3>2, <1>4, <2>2
  <2>3. QED BY <2>1, <2>2
<1>11. MFull'
  <2> SUFFICES ASSUME runMode = "free_full", ~capped', NEW k \in 1 .. FirstNow,
                      articles[k] > LockedArticles[k] \/ k = now
               PROVE  \/ k <= Len(toDiscover) \/ Accepted(k)'
                      \/ \E i \in 1 .. Len(scopes) : scopes[i] = k
    BY <1>1 DEF MInv, MFull
  <2>1. k \in Months
    BY KabutanAssumption DEF Months
  <2>2. ~capped /\ status # "partial"
    OBVIOUS
  <2>3. CASE k = month
    <3>1. monthState'[k].status = status
      BY <1>4, <2>3
    <3>2. QED BY <3>1, <2>2 DEF Accepted, Statuses
  <2>4. CASE k # month
    <3>1. monthState'[k] = monthState[k]
      BY <1>4, <2>1, <2>4
    <3>2. QED BY <3>1, <2>2, <2>4 DEF MInv, MFull, Accepted
  <2>5. QED BY <2>3, <2>4
<1>12. QED BY <1>1, <1>6, <1>7, <1>8, <1>9, <1>10, <1>11, CrawlIsOver

LEMMA MonthPageCrawled ==
  ASSUME MInv, CrawlPage
  PROVE  MInv'
<1>1. month # NoMonth
  BY DEF CrawlPage
<1>2. PICK n : /\ PageFetched(n)
               /\ PageAt(month, n, pageNow) = IF Cached(month, pageNow) THEN pageCache[month] ELSE PageOf(month, pageNow)
  BY <1>1, PageIsFetched
<1>3. PICK fetched : fetched = PageAt(month, n, pageNow)
  OBVIOUS
<1>4. PICK items_ : items_ = fetched.items
  OBVIOUS
<1>5. /\ items_ = {} \/ items_ \subseteq metIds =>
           /\ SaveMonth(pageNow - 1, IF items_ = {} /\ fetched.locked THEN "free" ELSE "complete", {}, Overtaken)
           /\ UNCHANGED capped
      /\ ~(items_ = {} \/ items_ \subseteq metIds) /\ fetched.locked =>
           SaveMonth(pageNow, "free", items_, Overtaken) /\ UNCHANGED capped
      /\ ~(items_ = {} \/ items_ \subseteq metIds) /\ ~fetched.locked /\ pagesToGo = 1 =>
           SaveMonth(pageNow, "partial", items_, Overtaken) /\ capped' = TRUE
      /\ ~(items_ = {} \/ items_ \subseteq metIds) /\ ~fetched.locked /\ pagesToGo # 1 =>
           /\ pageNow' = pageNow + 1 /\ pagesToGo' = pagesToGo - 1
           /\ metIds' = metIds \cup items_ /\ given' = given \cup items_
           /\ UNCHANGED <<month, atFirstPage, since, monthsDurable, capped>>
      /\ pageCache' = [pageCache EXCEPT ![month] = IF pageNow = 1 THEN NotCached ELSE @]
      /\ UNCHANGED <<calendar, runMode, toDiscover, scopes, monthRuns>>
  BY <1>2, <1>3, <1>4 DEF CrawlPage, AtLimit
<1>6. /\ month \in Months /\ pageNow \in Nat \ {0} /\ pagesToGo \in Nat \ {0} /\ since \in Nat
      /\ metIds \subseteq Nat /\ given \subseteq Nat /\ metIds \subseteq given /\ capped \in BOOLEAN
  BY <1>1, CrawlTypes DEF MInv, MCrawl, MTypes, KabutanTypeOK
<1>7. items_ \subseteq Nat
  BY <1>3, <1>4 DEF PageAt, RowsAt
<1>14. Overtaken \in BOOLEAN /\ (~Overtaken => since < MonthPageSize)
  BY <1>6, KabutanAssumption DEF Overtaken
<1>15. pageCache' \in {pageCache, [pageCache EXCEPT ![month] = NotCached]}
  <2>1. pageCache \in [Months -> [months : Nat, items : SUBSET Nat, locked : BOOLEAN]]
    BY DEF MInv, MTypes
  <2>2. QED BY <1>5, <1>6, <2>1
<1>16. UNCHANGED <<calendar, runMode, toDiscover, scopes, monthRuns>>
  BY <1>5
<1>8. /\ \A a \in (LockedArticles[month] + 1) .. atFirstPage :
           a + pageNow * MonthPageSize > articles[month] => a \in given \cup articlesKept[month] \cup items_
      /\ \A a \in metIds \cup items_ : a + since + pageNow * MonthPageSize > articles[month]
      /\ items_ = {} \/ fetched.locked \/ (items_ \subseteq metIds /\ since < MonthPageSize) =>
           (LockedArticles[month] + 1) .. atFirstPage \subseteq given \cup articlesKept[month] \cup items_
  BY <1>1, <1>2, <1>3, <1>4, PageTaken
<1>9. CASE items_ = {} \/ items_ \subseteq metIds
  <2>1. PICK status : status = IF items_ = {} /\ fetched.locked THEN "free" ELSE "complete"
    OBVIOUS
  <2>2. status \in Statuses \ {"none", "partial"} /\ pageNow - 1 \in Nat
    BY <2>1, <1>6 DEF Statuses
  <2>3. SaveMonth(pageNow - 1, status, {}, Overtaken) /\ capped' = capped
    BY <1>5, <1>9, <2>1
  <2>4. ~Overtaken =>
          (LockedArticles[month] + 1) .. atFirstPage \subseteq given \cup articlesKept[month] \cup {}
    BY <1>6, <1>8, <1>9, <1>14
  <2>5. capped' = (capped \/ status = "partial")
    BY <2>2, <2>3, <1>6
  <2>6. QED BY <1>1, <1>14, <1>15, <1>16, <2>2, <2>3, <2>4, <2>5, MonthSaved
<1>10. CASE ~(items_ = {} \/ items_ \subseteq metIds) /\ fetched.locked
  <2>1. SaveMonth(pageNow, "free", items_, Overtaken) /\ capped' = (capped \/ "free" = "partial")
    BY <1>5, <1>6, <1>10
  <2>2. "free" \in Statuses
    BY DEF Statuses
  <2>3. (LockedArticles[month] + 1) .. atFirstPage \subseteq given \cup articlesKept[month] \cup items_
    BY <1>8, <1>10
  <2>4. QED BY <1>1, <1>6, <1>7, <1>14, <1>15, <1>16, <2>1, <2>2, <2>3, MonthSaved
<1>11. CASE ~(items_ = {} \/ items_ \subseteq metIds) /\ ~fetched.locked /\ pagesToGo = 1
  <2>1. SaveMonth(pageNow, "partial", items_, Overtaken) /\ capped' = (capped \/ "partial" = "partial")
    BY <1>5, <1>6, <1>11
  <2>2. "partial" \in Statuses
    BY DEF Statuses
  <2>3. \A a \in (LockedArticles[month] + 1) .. atFirstPage :
           a + pageNow * MonthPageSize > articles[month] => a \in given \cup articlesKept[month] \cup items_
    BY <1>8
  <2>4. QED BY <1>1, <1>6, <1>7, <1>14, <1>15, <1>16, <2>1, <2>2, <2>3, MonthSaved
<1>12. CASE ~(items_ = {} \/ items_ \subseteq metIds) /\ ~fetched.locked /\ pagesToGo # 1
  <2>1. /\ pageNow' = pageNow + 1 /\ pagesToGo' = pagesToGo - 1
        /\ metIds' = metIds \cup items_ /\ given' = given \cup items_
        /\ UNCHANGED <<month, atFirstPage, since, monthState, covered, mayLack, articlesKept, capped, now, articles,
             runMode, toDiscover, scopes>>
    BY <1>5, <1>12 DEF monthsDurable, calendar
  <2>2. pageCache \in [Months -> [months : Nat, items : SUBSET Nat, locked : BOOLEAN]]
    BY DEF MInv, MTypes
  <2>3. NotCached \in [months : Nat, items : SUBSET Nat, locked : BOOLEAN] /\ NotCached.months = 0
    BY DEF NotCached
  <2>4. /\ pageCache' \in [Months -> [months : Nat, items : SUBSET Nat, locked : BOOLEAN]]
        /\ \A m \in Months : pageCache'[m] \in {pageCache[m], NotCached}
    BY <1>5, <1>6, <2>2, <2>3
  <2>5. MTypes'
    BY <1>6, <1>7, <2>1, <2>4, SMTT(30) DEF MInv, MTypes, KabutanTypeOK
  <2>6. MIdle' /\ MOrder' /\ MKept' /\ MFull' /\ AcceptedMonthIsCovered'
    BY <2>1 DEF MInv, MIdle, MOrder, MKept, MFull, AcceptedMonthIsCovered, Accepted
  <2>7. MCache'
    <3> SUFFICES ASSUME NEW m \in Months
                 PROVE  /\ pageCache'[m].months <= articles[m]
                        /\ pageCache'[m] = PageAt(m, pageCache'[m].months, 1)
      BY <2>1 DEF MCache, PageAt, RowsAt
    <3>1. CASE pageCache'[m] = pageCache[m]
      BY <3>1 DEF MInv, MCache
    <3>2. CASE pageCache'[m] = NotCached
      BY <3>2, <2>3, NothingCached, MonthTypes DEF MInv
    <3>3. QED BY <2>4, <3>1, <3>2
  <2>8. MCrawl'
    <3>1. pageNow' - 1 = pageNow /\ pageNow' # 1 /\ pageNow' > 0 /\ pagesToGo' > 0
      BY <1>6, <1>12, <2>1
    <3>2. atFirstPage <= articles[month]
      BY <1>1 DEF MInv, MCrawl
    <3>3. QED BY <1>6, <1>8, <2>1, <3>1, <3>2 DEF MCrawl
  <2>9. QED BY <2>5, <2>6, <2>7, <2>8 DEF MInv
<1>13. QED BY <1>9, <1>10, <1>11, <1>12

LEMMA MonthCutShort ==
  ASSUME MInv, PageWithoutList
  PROVE  MInv'
<1>1. /\ month # NoMonth /\ SaveMonth(pageNow - 1, "complete", {}, TRUE)
      /\ UNCHANGED <<calendar, runMode, toDiscover, scopes, pageCache, capped, monthRuns>>
  BY DEF PageWithoutList
<1>2. pageNow - 1 \in Nat /\ capped \in BOOLEAN
  BY <1>1, CrawlTypes DEF MInv, MCrawl, MTypes, KabutanTypeOK
<1>3. "complete" \in Statuses /\ capped' = (capped \/ "complete" = "partial")
  BY <1>1, <1>2 DEF Statuses
<1>4. UNCHANGED <<calendar, runMode, toDiscover, scopes, monthRuns>> /\ pageCache' = pageCache
  BY <1>1
<1>5. QED BY <1>1, <1>2, <1>3, <1>4, MonthSaved

LEMMA MonthsInitially == KabutanInit => MInv
<1> SUFFICES ASSUME KabutanInit PROVE MInv
  OBVIOUS
<1>1. NotCached \in [months : Nat, items : SUBSET Nat, locked : BOOLEAN] /\ NotCached.months = 0
  BY DEF NotCached
<1>2. FirstNow \in Months /\ FirstArticles \in [Months -> Nat]
  BY KabutanAssumption
<1>3. MTypes
  <2>1. pageCache \in [Months -> [months : Nat, items : SUBSET Nat, locked : BOOLEAN]]
    BY <1>1 DEF KabutanInit
  <2>2. monthState \in [Months -> [page : Nat, status : {"none", "partial", "complete", "free"}]]
    BY DEF KabutanInit
  <2>3. toDiscover \in Seq(Months) /\ scopes \in Seq(Months)
    BY DEF KabutanInit
  <2>4. QED BY <1>2, <2>1, <2>2, <2>3 DEF KabutanInit, MTypes, KabutanTypeOK
<1>4. MIdle /\ MOrder /\ MCrawl
  BY DEF KabutanInit, MIdle, MOrder, MCrawl
<1>5. MCache
  <2>1. \A m \in Months : 0 <= articles[m]
    BY <1>2 DEF KabutanInit
  <2>2. QED BY <1>1, <2>1, NothingCached DEF KabutanInit, MCache
<1>6. MKept
  <2>1. \A m \in Months : covered[m] = 0 /\ articles[m] \in Nat /\ LockedArticles[m] \in Nat
    BY <1>2, KabutanAssumption DEF KabutanInit
  <2>2. QED BY <2>1 DEF MKept
<1>7. AcceptedMonthIsCovered
  BY DEF KabutanInit, AcceptedMonthIsCovered, Accepted
<1>8. MFull
  BY <1>2, KabutanAssumption DEF KabutanInit, MFull, Months
<1>9. QED BY <1>3, <1>4, <1>5, <1>6, <1>7, <1>8 DEF MInv

LEMMA MonthsStep == MInv /\ [KabutanNext]_kabutanVars => MInv'
<1> SUFFICES ASSUME MInv, [KabutanNext]_kabutanVars PROVE MInv'
  OBVIOUS
<1>1. CASE KabutanNext
  <2>1. CASE ArticleArrives
    BY <2>1, MonthArrives
  <2>2. CASE MonthPasses
    BY <2>2, MonthOfTimePasses
  <2>3. ASSUME NEW mode \in {"free_full", "incremental"}, StartKabutan(mode) PROVE MInv'
    BY <2>3, MonthsStart
  <2>4. CASE DiscoverMonth
    BY <2>4, MonthDiscovered
  <2>5. CASE SkipMonth
    BY <2>5, MonthSkipped
  <2>6. CASE CrawlPage \/ PageWithoutList
    BY <2>6, MonthPageCrawled, MonthCutShort
  <2>7. ASSUME NEW pages \in MonthPages, BeginMonth(pages) PROVE MInv'
    BY <2>7, MonthBegins
  <2>8. CASE KabutanEnds \/ \E drained \in BOOLEAN : KabutanInterrupted(drained)
    BY <2>8, MonthsEnd
  <2>9. QED BY <1>1, <2>1, <2>2, <2>3, <2>4, <2>5, <2>6, <2>7, <2>8 DEF KabutanNext
<1>2. CASE UNCHANGED kabutanVars
  <2>1. MTypes' /\ MIdle' /\ MOrder'
    BY <1>2 DEF kabutanVars, MInv, MTypes, KabutanTypeOK, MIdle, MOrder
  <2>2. MCache'
    BY <1>2 DEF kabutanVars, MInv, MCache, PageAt, RowsAt
  <2>3. MCrawl'
    BY <1>2 DEF kabutanVars, MInv, MCrawl
  <2>4. MKept' /\ MFull' /\ AcceptedMonthIsCovered'
    BY <1>2 DEF kabutanVars, MInv, MKept, MFull, AcceptedMonthIsCovered, Accepted
  <2>5. QED BY <2>1, <2>2, <2>3, <2>4 DEF MInv
<1>3. QED BY <1>1, <1>2

(* A month that will be left out has all its free articles of the time its *)
(* page one was fetched, however the run that took it was limited, stopped *)
(* and resumed, unless as many arrived meanwhile as fill a page.           *)
THEOREM AcceptedMonthsAreCovered == KabutanSpec => [](KabutanTypeOK /\ AcceptedMonthIsCovered)
<1>1. MInv => KabutanTypeOK /\ AcceptedMonthIsCovered
  BY DEF MInv, MTypes
<1>2. QED BY <1>1, MonthsInitially, MonthsStep, PTL DEF KabutanSpec

(* A free_full run that ends by itself, and left no month at its limit,    *)
(* leaves a complete checkpoint for every month with a free article.       *)
THEOREM FreeFullLeavesNone == KabutanSpec => FreeFullIsComplete
<1>1. MInv /\ runMode = "free_full" /\ ~capped /\ KabutanEnds =>
        \A m \in 1 .. now : articles[m] > LockedArticles[m] /\ m <= FirstNow => Accepted(m)
  <2> SUFFICES ASSUME MInv, runMode = "free_full", ~capped, KabutanEnds,
                      NEW m \in 1 .. now, articles[m] > LockedArticles[m], m <= FirstNow
               PROVE  Accepted(m)
    OBVIOUS
  <2>1. month = NoMonth /\ toDiscover = <<>> /\ scopes = <<>>
    BY DEF KabutanEnds
  <2>2. m \in 1 .. FirstNow /\ m # NoMonth
    BY KabutanAssumption, MonthTypes DEF Months, NoMonth, MInv
  <2>3. QED BY <2>1, <2>2 DEF MInv, MFull
<1>2. KabutanSpec => []MInv
  BY MonthsInitially, MonthsStep, PTL DEF KabutanSpec
<1>3. QED BY <1>1, <1>2, PTL DEF FreeFullIsComplete

------------------------------------------------------------------------------
(* Naver: what a walk over the numbered pages has seen.                     *)

(* Posts wanted on the pages before p that are not got.                     *)
Left(posts, p, want, got) == {x \in Before(posts, p) : x \in want /\ x \notin got}

LEMMA PageSizeIs == PageSize \in Nat /\ PageSize > 0
  BY NaverAssumption

(* The pages before the next one hold those before this one and its slice.  *)
LEMMA PageEdges ==
  ASSUME NEW S, NEW posts \in Seq(S), NEW p \in Nat \ {0}
  PROVE  /\ UpTo(posts, p - 1) \in Nat /\ UpTo(posts, p) \in Nat /\ Len(posts) \in Nat
         /\ (p - 1) * PageSize \in Nat /\ p * PageSize = (p - 1) * PageSize + PageSize
         /\ UpTo(posts, p - 1) = IF (p - 1) * PageSize < Len(posts) THEN (p - 1) * PageSize ELSE Len(posts)
         /\ UpTo(posts, p) = IF p * PageSize < Len(posts) THEN p * PageSize ELSE Len(posts)
         /\ UpTo(posts, p - 1) <= UpTo(posts, p)
         /\ Before(posts, p) = {posts[n] : n \in 1 .. UpTo(posts, p - 1)}
         /\ Before(posts, p + 1) = {posts[n] : n \in 1 .. UpTo(posts, p)}
<1>1. Len(posts) \in Nat
  BY LenProperties
<1>2. p * PageSize = (p - 1) * PageSize + PageSize /\ (p - 1) * PageSize \in Nat /\ p * PageSize \in Nat
  <2>1. p - 1 \in Nat /\ p = (p - 1) + 1
    OBVIOUS
  <2>2. \A m, n \in Nat : (m + 1) * n = m * n + n /\ m * n \in Nat
    OBVIOUS
  <2>3. QED
    BY <2>1, <2>2, PageSizeIs
<1> DEFINE a == (p - 1) * PageSize
           b == p * PageSize
<1>3. UpTo(posts, p - 1) = (IF a < Len(posts) THEN a ELSE Len(posts))
      /\ UpTo(posts, p) = (IF b < Len(posts) THEN b ELSE Len(posts))
  BY DEF UpTo
<1>4. /\ Before(posts, p) = {posts[n] : n \in 1 .. UpTo(posts, p - 1)}
      /\ Before(posts, p + 1) = {posts[n] : n \in 1 .. UpTo(posts, p)}
  <2>1. (p + 1) - 1 = p
    OBVIOUS
  <2>2. QED
    BY <2>1 DEF Before
<1>5. b = a + PageSize /\ a \in Nat
  BY <1>2
<1> HIDE DEF a, b
<1>6. UpTo(posts, p - 1) \in Nat /\ UpTo(posts, p) \in Nat /\ UpTo(posts, p - 1) <= UpTo(posts, p)
  BY <1>1, <1>3, <1>5, PageSizeIs
<1>7. QED
  BY <1>1, <1>2, <1>3, <1>4, <1>6 DEF a, b

(* The same with the products named, so that what follows is linear.        *)
FirstOf(p) == (p - 1) * PageSize
LastOf(p) == p * PageSize

Edges(posts, p) ==
  /\ UpTo(posts, p - 1) \in Nat /\ UpTo(posts, p) \in Nat /\ Len(posts) \in Nat
  /\ FirstOf(p) \in Nat /\ LastOf(p) \in Nat /\ LastOf(p) = FirstOf(p) + PageSize
  /\ UpTo(posts, p - 1) = IF FirstOf(p) < Len(posts) THEN FirstOf(p) ELSE Len(posts)
  /\ UpTo(posts, p) = IF LastOf(p) < Len(posts) THEN LastOf(p) ELSE Len(posts)
  /\ UpTo(posts, p - 1) <= UpTo(posts, p)
  /\ Before(posts, p) = {posts[n] : n \in 1 .. UpTo(posts, p - 1)}
  /\ Before(posts, p + 1) = {posts[n] : n \in 1 .. UpTo(posts, p)}

LEMMA NamedEdges ==
  ASSUME NEW S, NEW posts \in Seq(S), NEW p \in Nat \ {0}
  PROVE  Edges(posts, p)
<1>1. /\ UpTo(posts, p - 1) \in Nat /\ UpTo(posts, p) \in Nat /\ Len(posts) \in Nat
      /\ UpTo(posts, p - 1) <= UpTo(posts, p)
  BY PageEdges, Zenon
<1>9. /\ Before(posts, p) = {posts[n] : n \in 1 .. UpTo(posts, p - 1)}
      /\ Before(posts, p + 1) = {posts[n] : n \in 1 .. UpTo(posts, p)}
  <2>1. Before(posts, p) = {posts[n] : n \in 1 .. UpTo(posts, p - 1)}
    BY Zenon DEF Before
  <2>2. (p + 1) - 1 = p
    OBVIOUS
  <2>3. Before(posts, p + 1) = {posts[n] : n \in 1 .. UpTo(posts, p)}
    BY <2>2, Zenon DEF Before
  <2> QED BY <2>1, <2>3
<1>2. (p - 1) * PageSize \in Nat /\ p * PageSize = (p - 1) * PageSize + PageSize
  BY PageEdges, Zenon
<1>3. UpTo(posts, p - 1) = IF (p - 1) * PageSize < Len(posts) THEN (p - 1) * PageSize ELSE Len(posts)
  BY PageEdges, Zenon
<1>4. UpTo(posts, p) = IF p * PageSize < Len(posts) THEN p * PageSize ELSE Len(posts)
  BY PageEdges, Zenon
<1>5. FirstOf(p) \in Nat /\ LastOf(p) = FirstOf(p) + PageSize
  BY <1>2, Zenon DEF FirstOf, LastOf
<1>6. LastOf(p) \in Nat
  BY <1>5, PageSizeIs
<1>7. UpTo(posts, p - 1) = IF FirstOf(p) < Len(posts) THEN FirstOf(p) ELSE Len(posts)
  BY <1>3, Zenon DEF FirstOf
<1>8. UpTo(posts, p) = IF LastOf(p) < Len(posts) THEN LastOf(p) ELSE Len(posts)
  BY <1>4, Zenon DEF LastOf
<1> QED BY <1>1, <1>5, <1>6, <1>7, <1>8, <1>9, Zenon DEF Edges

LEMMA SliceIs ==
  ASSUME NEW S, NEW posts \in Seq(S), NEW p \in Nat \ {0}
  PROVE  LET from == UpTo(posts, p - 1)
             slice == Slice(posts, p)
         IN  /\ slice \in Seq(S) /\ Len(slice) = UpTo(posts, p) - from
             /\ \A i \in 1 .. Len(slice) : slice[i] = posts[from + i]
<1> DEFINE a == (p - 1) * PageSize
           from == UpTo(posts, p - 1)
           upto == UpTo(posts, p)
           first == a + 1
           slice == SubSeq(posts, first, upto)
           size == upto - first + 1
<1>1. Len(posts) \in Nat
  BY LenProperties
<1>2. /\ a \in Nat /\ from \in Nat /\ upto \in Nat /\ from <= upto /\ upto <= Len(posts)
      /\ from = (IF a < Len(posts) THEN a ELSE Len(posts))
      /\ (a < Len(posts) => upto > a) /\ (~(a < Len(posts)) => upto = Len(posts))
  <2>1. Edges(posts, p) /\ a = FirstOf(p)
    BY NamedEdges, Zenon DEF FirstOf
  <2>2. /\ a \in Nat /\ from \in Nat /\ upto \in Nat /\ from <= upto
        /\ from = (IF a < Len(posts) THEN a ELSE Len(posts))
        /\ upto = (IF LastOf(p) < Len(posts) THEN LastOf(p) ELSE Len(posts))
        /\ LastOf(p) = a + PageSize
    BY <2>1, Zenon DEF Edges
  <2> HIDE DEF a, from, upto
  <2> QED BY <1>1, <2>2, PageSizeIs
<1>3. Slice(posts, p) = slice /\ first = a + 1 /\ size = upto - first + 1
  BY DEF Slice
<1> HIDE DEF a, from, upto, first
<1>4. \A i \in first .. upto : posts[i] \in S
  BY <1>1, <1>2, <1>3, ElementOfSeq
<1>5. /\ slice \in Seq(S) /\ Len(slice) = (IF first <= upto THEN size ELSE 0)
      /\ \A i \in 1 .. size : slice[i] = posts[first + i - 1]
  <2>1. first \in Int /\ upto \in Int
    BY <1>2, <1>3
  <2>2. QED
    BY <1>4, <2>1, SubSeqProperties
<1> HIDE DEF slice, size
<1>6. CASE a < Len(posts)
  <2>1. from = a /\ first = from + 1 /\ first <= upto /\ size = upto - from /\ size \in Nat
    BY <1>1, <1>2, <1>3, <1>6
  <2>2. Len(slice) = upto - from
    BY <1>5, <2>1
  <2>3. ASSUME NEW i \in 1 .. Len(slice) PROVE slice[i] = posts[from + i]
    <3>1. i \in 1 .. size /\ first + i - 1 = from + i
      BY <1>2, <1>5, <2>1
    <3>2. QED
      BY <1>5, <3>1
  <2>4. QED
    BY <1>3, <1>5, <2>2, <2>3 DEF from, upto
<1>7. CASE ~(a < Len(posts))
  <2>1. from = Len(posts) /\ upto = Len(posts) /\ ~(first <= upto)
    BY <1>1, <1>2, <1>3, <1>7
  <2>2. Len(slice) = 0 /\ upto - from = 0
    BY <1>1, <1>5, <2>1
  <2>3. QED
    BY <1>3, <1>5, <2>2 DEF from, upto
<1>8. QED
  BY <1>6, <1>7

(* The pages before the next one are those before this one and this page.   *)
LEMMA BeforeNext ==
  ASSUME NEW S, NEW posts \in Seq(S), NEW p \in Nat \ {0}
  PROVE  /\ Before(posts, p + 1) = Before(posts, p) \cup ToSet(Slice(posts, p))
         /\ Slice(posts, p) = <<>> => Before(posts, p) = ToSet(posts)
<1> DEFINE slice == Slice(posts, p)
           from == UpTo(posts, p - 1)
           upto == UpTo(posts, p)
<1>1. slice \in Seq(S) /\ Len(slice) = upto - from /\ \A i \in 1 .. Len(slice) : slice[i] = posts[from + i]
  BY SliceIs
<1>2. /\ from \in Nat /\ upto \in Nat /\ from <= upto /\ Len(posts) \in Nat
      /\ Before(posts, p) = {posts[n] : n \in 1 .. from} /\ Before(posts, p + 1) = {posts[n] : n \in 1 .. upto}
      /\ (from = upto => from = Len(posts))
  <2> DEFINE a == FirstOf(p)
             b == LastOf(p)
  <2>1. /\ from \in Nat /\ upto \in Nat /\ from <= upto /\ Len(posts) \in Nat
        /\ Before(posts, p) = {posts[n] : n \in 1 .. from} /\ Before(posts, p + 1) = {posts[n] : n \in 1 .. upto}
        /\ a \in Nat /\ b = a + PageSize
        /\ from = (IF a < Len(posts) THEN a ELSE Len(posts)) /\ upto = (IF b < Len(posts) THEN b ELSE Len(posts))
    <3>1. Edges(posts, p)
      BY NamedEdges, Zenon
    <3> QED BY <3>1 DEF Edges
  <2> HIDE DEF a, b, from, upto
  <2>2. from = upto => from = Len(posts)
    BY <2>1, PageSizeIs
  <2>3. QED
    BY <2>1, <2>2
<1>3. DOMAIN slice = 1 .. Len(slice) /\ DOMAIN posts = 1 .. Len(posts) /\ (slice = <<>> => Len(slice) = 0)
  BY <1>1, LenProperties, EmptySeq
<1> HIDE DEF slice, from, upto
<1>4. ASSUME NEW n \in 1 .. upto PROVE posts[n] \in Before(posts, p) \cup ToSet(slice)
  <2>1. CASE n <= from
    BY <1>2, <2>1
  <2>2. CASE ~(n <= from)
    <3>1. n - from \in 1 .. Len(slice) /\ from + (n - from) = n
      BY <1>1, <1>2, <2>2
    <3>2. slice[n - from] = posts[n]
      BY <1>1, <3>1
    <3>3. QED
      BY <1>3, <3>1, <3>2 DEF ToSet
  <2>3. QED
    BY <2>1, <2>2
<1>5. ASSUME NEW i \in 1 .. Len(slice) PROVE slice[i] \in Before(posts, p + 1)
  <2>1. from + i \in 1 .. upto
    BY <1>1, <1>2
  <2>2. QED
    BY <1>1, <1>2, <2>1
<1>6. Before(posts, p) \subseteq Before(posts, p + 1)
  BY <1>2
<1>7. Before(posts, p + 1) = Before(posts, p) \cup ToSet(slice)
  <2>1. ToSet(slice) \subseteq Before(posts, p + 1)
    BY <1>3, <1>5 DEF ToSet
  <2>2. Before(posts, p + 1) \subseteq Before(posts, p) \cup ToSet(slice)
    BY <1>2, <1>4
  <2>3. QED
    BY <1>6, <2>1, <2>2
<1>8. ASSUME slice = <<>> PROVE Before(posts, p) = ToSet(posts)
  <2>1. from = Len(posts)
    <3>1. Len(slice) = 0
      BY <1>3, <1>8
    <3>2. QED
      BY <1>1, <1>2, <3>1
  <2>2. QED
    BY <1>2, <1>3, <2>1 DEF ToSet
<1>9. QED
  BY <1>7, <1>8 DEF slice

LEMMA ArrivalIs ==
  ASSUME NEW S, NEW posts \in Seq(S), NEW x \in S
  PROVE  LET after == <<x>> \o posts
         IN  /\ after \in Seq(S) /\ Len(after) = Len(posts) + 1 /\ Len(posts) \in Nat
             /\ \A k \in 1 .. Len(after) : after[k] = IF k = 1 THEN x ELSE posts[k - 1]
<1>1. <<x>> \in Seq(S) /\ Len(<<x>>) = 1 /\ Len(posts) \in Nat /\ <<x>>[1] = x
  BY LenProperties
<1>2. /\ <<x>> \o posts \in Seq(S) /\ Len(<<x>> \o posts) = Len(<<x>>) + Len(posts)
      /\ \A i \in 1 .. Len(<<x>>) + Len(posts) : (<<x>> \o posts)[i] =
            IF i <= Len(<<x>>) THEN <<x>>[i] ELSE posts[i - Len(<<x>>)]
  BY <1>1, ConcatProperties
<1> DEFINE after == <<x>> \o posts
           one == <<x>>
<1>3. /\ after \in Seq(S) /\ Len(after) = Len(one) + Len(posts) /\ Len(one) = 1 /\ one[1] = x
      /\ \A i \in 1 .. Len(one) + Len(posts) : after[i] = IF i <= Len(one) THEN one[i] ELSE posts[i - Len(one)]
  BY <1>1, <1>2
<1> HIDE DEF after, one
<1>4. ASSUME NEW k \in 1 .. Len(after) PROVE after[k] = IF k = 1 THEN x ELSE posts[k - 1]
  BY <1>1, <1>3
<1>5. QED
  BY <1>1, <1>3, <1>4 DEF after

LEMMA VanishingIs ==
  ASSUME NEW S, NEW posts \in Seq(S), NEW n \in 1 .. Len(posts)
  PROVE  LET after == RemoveAt(posts, n)
         IN  /\ after \in Seq(S) /\ Len(after) = Len(posts) - 1 /\ Len(posts) \in Nat /\ n \in 1 .. Len(posts)
             /\ \A k \in 1 .. Len(after) : after[k] = IF k < n THEN posts[k] ELSE posts[k + 1]
<1> DEFINE L == Len(posts)
           before == n - 1
           next == n + 1
           head == SubSeq(posts, 1, before)
           tail == SubSeq(posts, next, L)
           after == head \o tail
           more == L - next + 1
           some == before - 1 + 1
<1>1. L \in Nat /\ n \in 1 .. L
  BY LenProperties
<1>2. before \in Nat /\ before = n - 1 /\ next = n + 1 /\ more = L - next + 1 /\ more \in Nat /\ some = before
  BY <1>1
<1>3. RemoveAt(posts, n) = after
  BY DEF RemoveAt
<1> HIDE DEF L, before, next
<1>4. (\A i \in 1 .. before : posts[i] \in S) /\ (\A i \in next .. L : posts[i] \in S)
  <2>1. \A i \in 1 .. L : posts[i] \in S
    BY ElementOfSeq DEF L
  <2>2. (\A i \in 1 .. before : i \in 1 .. L) /\ (\A i \in next .. L : i \in 1 .. L)
    BY <1>1, <1>2
  <2>3. QED
    BY <2>1, <2>2
<1>5. /\ head \in Seq(S) /\ Len(head) = (IF 1 <= before THEN some ELSE 0)
      /\ \A i \in 1 .. some : head[i] = posts[1 + i - 1]
  <2>1. 1 \in Int /\ before \in Int
    BY <1>2
  <2>2. QED
    BY <1>4, <2>1, SubSeqProperties
<1>6. /\ tail \in Seq(S) /\ Len(tail) = (IF next <= L THEN more ELSE 0)
      /\ \A i \in 1 .. more : tail[i] = posts[next + i - 1]
  <2>1. next \in Int /\ L \in Int
    BY <1>1, <1>2
  <2>2. QED
    BY <1>4, <2>1, SubSeqProperties
<1> HIDE DEF head, tail, more, some
<1>7. /\ after \in Seq(S) /\ Len(after) = Len(head) + Len(tail)
      /\ \A i \in 1 .. Len(head) + Len(tail) : after[i] = IF i <= Len(head) THEN head[i] ELSE tail[i - Len(head)]
  BY <1>5, <1>6, ConcatProperties
<1> HIDE DEF after
<1>8. Len(head) = n - 1 /\ Len(tail) = L - n /\ Len(after) = L - 1
  <2>1. Len(head) = (IF 1 <= before THEN some ELSE 0)
    BY <1>5, Zenon
  <2>2. Len(tail) = (IF next <= L THEN more ELSE 0)
    BY <1>6, Zenon
  <2>3. Len(after) = Len(head) + Len(tail)
    BY <1>7, Zenon
  <2>4. /\ L \in Nat /\ n \in 1 .. L /\ before \in Nat /\ before = n - 1 /\ next = n + 1
        /\ more = L - next + 1 /\ some = before
    BY <1>1, <1>2
  <2>5. Len(head) = n - 1
    BY <2>1, <2>4
  <2>6. Len(tail) = L - n
    BY <2>2, <2>4
  <2>7. QED
    BY <2>3, <2>4, <2>5, <2>6
<1>9. ASSUME NEW k \in 1 .. Len(after) PROVE after[k] = IF k < n THEN posts[k] ELSE posts[k + 1]
  <2> DEFINE h == Len(head)
             t == Len(tail)
  <2>0. /\ L \in Nat /\ n \in Nat /\ n >= 1 /\ n <= L /\ k \in Nat /\ k >= 1 /\ k <= L - 1
        /\ h = n - 1 /\ t = L - n /\ next = n + 1 /\ some = n - 1 /\ more = L - next + 1
    BY <1>1, <1>2, <1>8
  <2>3. \A i \in 1 .. h + t : after[i] = IF i <= h THEN head[i] ELSE tail[i - h]
    BY <1>7
  <2> HIDE DEF h, t
  <2>1. CASE k < n
    <3>1. k \in 1 .. some /\ 1 + k - 1 = k /\ k <= h /\ k \in 1 .. h + t
      BY <2>0, <2>1
    <3>2. head[k] = posts[k]
      BY <1>5, <3>1
    <3>3. QED
      BY <2>1, <2>3, <3>1, <3>2
  <2>2. CASE ~(k < n)
    <3>1. /\ k - h \in 1 .. more /\ next + (k - h) - 1 = k + 1 /\ ~(k <= h) /\ k \in 1 .. h + t
      <4>1. k >= n /\ k <= L - 1 /\ h = n - 1 /\ h + t = L - 1 /\ more = L - n
        BY <2>0, <2>2
      <4>2. k - h = k - n + 1 /\ k - h >= 1 /\ k - h <= more /\ next + (k - h) - 1 = k + 1
        BY <2>0, <4>1
      <4>3. k - h \in 1 .. more /\ ~(k <= h) /\ k \in 1 .. h + t
        BY <2>0, <4>1, <4>2
      <4>4. QED
        BY <4>2, <4>3
    <3>2. tail[k - h] = posts[k + 1]
      BY <1>6, <3>1
    <3>3. QED
      BY <2>2, <2>3, <3>1, <3>2
  <2>4. QED
    BY <2>1, <2>2
<1>10. QED
  BY <1>1, <1>3, <1>7, <1>8, <1>9 DEF L

LEMMA PostsAreFew ==
  ASSUME NEW A, NEW B, A \subseteq B, B \subseteq Posts
  PROVE  /\ IsFiniteSet(A) /\ IsFiniteSet(B) /\ Cardinality(A) \in Nat /\ Cardinality(B) \in Nat
         /\ Cardinality(A) <= Cardinality(B)
<1>1. FirstPosts + MaxArrivals \in Nat
  BY NaverAssumption
<1>2. IsFiniteSet(Posts)
  BY <1>1, FS_Interval DEF Posts
<1>3. IsFiniteSet(B)
  BY <1>2, FS_Subset
<1>4. IsFiniteSet(A) /\ Cardinality(A) <= Cardinality(B)
  BY <1>3, FS_Subset
<1>5. QED
  BY <1>3, <1>4, FS_CardinalityType

LEMMA OneMore ==
  ASSUME NEW A, NEW B, NEW x, B \subseteq Posts, A \subseteq B \cup {x}
  PROVE  Cardinality(A) \in Nat /\ Cardinality(B) \in Nat /\ Cardinality(A) <= Cardinality(B) + 1
<1>1. IsFiniteSet(B) /\ Cardinality(B) \in Nat
  BY PostsAreFew
<1>2. IsFiniteSet(B \cup {x}) /\ Cardinality(B \cup {x}) = IF x \in B THEN Cardinality(B) ELSE Cardinality(B) + 1
  BY <1>1, FS_AddElement
<1>3. IsFiniteSet(A) /\ Cardinality(A) <= Cardinality(B \cup {x})
  BY <1>2, FS_Subset
<1>4. Cardinality(A) \in Nat /\ Cardinality(B \cup {x}) \in Nat
  BY <1>2, <1>3, FS_CardinalityType
<1>5. Cardinality(B \cup {x}) <= Cardinality(B) + 1
  BY <1>1, <1>2
<1>6. QED
  BY <1>1, <1>3, <1>4, <1>5

LEMMA BeforeIsPosted ==
  ASSUME NEW posts \in Seq(Posts), NEW p \in Nat \ {0}
  PROVE  Before(posts, p) \subseteq Posts /\ Before(posts, p) \subseteq ToSet(posts) /\ ToSet(posts) \subseteq Posts
<1>1. DOMAIN posts = 1 .. Len(posts) /\ \A n \in 1 .. Len(posts) : posts[n] \in Posts
  BY LenProperties, ElementOfSeq
<1>2. \A n \in 1 .. UpTo(posts, p - 1) : n \in 1 .. Len(posts)
  <2>1. UpTo(posts, p - 1) \in Nat /\ UpTo(posts, p) \in Nat /\ Len(posts) \in Nat
        /\ UpTo(posts, p - 1) <= UpTo(posts, p)
        /\ LastOf(p) \in Nat /\ UpTo(posts, p) = IF LastOf(p) < Len(posts) THEN LastOf(p) ELSE Len(posts)
    BY NamedEdges, Zenon DEF Edges
  <2>2. QED
    BY <2>1
<1>3. Before(posts, p) = {posts[n] : n \in 1 .. UpTo(posts, p - 1)}
  BY DEF Before
<1>4. QED
  BY <1>1, <1>2, <1>3 DEF ToSet

(* An arrival moves no wanted post to an earlier page.                      *)
LEMMA LeftArrives ==
  ASSUME NEW posts \in Seq(Posts), NEW x \in Posts, NEW p \in Nat \ {0}, NEW want, NEW got, x \notin want
  PROVE  Left(<<x>> \o posts, p, want, got) \subseteq Left(posts, p, want, got)
<1> DEFINE after == <<x>> \o posts
           a == FirstOf(p)
<1>1. /\ after \in Seq(Posts) /\ Len(after) = Len(posts) + 1 /\ Len(posts) \in Nat
      /\ \A k \in 1 .. Len(after) : after[k] = IF k = 1 THEN x ELSE posts[k - 1]
  BY ArrivalIs
<1> HIDE DEF after
<1>2. /\ a \in Nat
      /\ UpTo(posts, p - 1) = (IF a < Len(posts) THEN a ELSE Len(posts))
      /\ UpTo(after, p - 1) = (IF a < Len(after) THEN a ELSE Len(after))
      /\ Before(posts, p) = {posts[n] : n \in 1 .. UpTo(posts, p - 1)}
      /\ Before(after, p) = {after[n] : n \in 1 .. UpTo(after, p - 1)}
  <2>1. /\ a \in Nat /\ UpTo(posts, p - 1) = (IF a < Len(posts) THEN a ELSE Len(posts))
        /\ Before(posts, p) = {posts[n] : n \in 1 .. UpTo(posts, p - 1)}
    <3>1. Edges(posts, p)
      BY NamedEdges, Zenon
    <3> QED BY <3>1 DEF Edges
  <2>2. /\ UpTo(after, p - 1) = (IF a < Len(after) THEN a ELSE Len(after))
        /\ Before(after, p) = {after[n] : n \in 1 .. UpTo(after, p - 1)}
    <3>1. Edges(after, p)
      BY <1>1, NamedEdges, Zenon
    <3> QED BY <3>1 DEF Edges
  <2>3. QED
    BY <2>1, <2>2
<1> HIDE DEF a
<1>3. ASSUME NEW n \in 1 .. UpTo(after, p - 1), after[n] \in want PROVE after[n] \in Before(posts, p)
  <2>1. n \in 1 .. Len(after)
    BY <1>1, <1>2
  <2>2. n # 1 /\ after[n] = posts[n - 1]
    BY <1>1, <1>3, <2>1
  <2>3. n - 1 \in 1 .. UpTo(posts, p - 1)
    BY <1>1, <1>2, <2>1, <2>2
  <2>4. QED
    BY <1>2, <2>2, <2>3
<1>4. QED
  BY <1>2, <1>3 DEF Left, after

(* A post that vanishes moves at most one to an earlier page.               *)
LEMMA LeftVanishes ==
  ASSUME NEW posts \in Seq(Posts), NEW n \in 1 .. Len(posts), NEW p \in Nat \ {0}, NEW want, NEW got
  PROVE  /\ Cardinality(Left(RemoveAt(posts, n), p, want, got)) <= Cardinality(Left(posts, p, want, got)) + 1
         /\ Cardinality(Left(RemoveAt(posts, n), p, want, got)) \in Nat
<1> DEFINE after == RemoveAt(posts, n)
           a == FirstOf(p)
           moved == posts[UpTo(posts, p - 1) + 1]
<1>1. /\ after \in Seq(Posts) /\ Len(after) = Len(posts) - 1 /\ Len(posts) \in Nat /\ n \in 1 .. Len(posts)
      /\ \A k \in 1 .. Len(after) : after[k] = IF k < n THEN posts[k] ELSE posts[k + 1]
  BY VanishingIs
<1> HIDE DEF after
<1>2. /\ a \in Nat
      /\ UpTo(posts, p - 1) = (IF a < Len(posts) THEN a ELSE Len(posts))
      /\ UpTo(after, p - 1) = (IF a < Len(after) THEN a ELSE Len(after))
      /\ Before(posts, p) = {posts[k] : k \in 1 .. UpTo(posts, p - 1)}
      /\ Before(after, p) = {after[k] : k \in 1 .. UpTo(after, p - 1)}
  <2>1. Edges(posts, p) /\ Edges(after, p)
    BY <1>1, NamedEdges, Zenon
  <2> QED BY <2>1, Zenon DEF Edges
<1> HIDE DEF a
<1>3. ASSUME NEW k \in 1 .. UpTo(after, p - 1) PROVE after[k] \in Before(posts, p) \cup {moved}
  <2>1. k \in 1 .. Len(after) /\ k \in 1 .. UpTo(posts, p - 1)
    BY <1>1, <1>2
  <2>2. CASE after[k] = posts[k]
    BY <1>2, <2>1, <2>2
  <2>3. CASE after[k] = posts[k + 1]
    <3>1. k + 1 \in 1 .. UpTo(posts, p - 1) \/ k + 1 = UpTo(posts, p - 1) + 1
      BY <1>1, <1>2, <2>1
    <3>2. QED
      BY <1>2, <2>3, <3>1
  <2>4. QED
    BY <1>1, <2>1, <2>2, <2>3
<1>4. Left(after, p, want, got) \subseteq Left(posts, p, want, got) \cup {moved}
  BY <1>2, <1>3 DEF Left
<1>5. Left(posts, p, want, got) \subseteq Posts
  BY BeforeIsPosted DEF Left
<1>6. QED
  BY <1>4, <1>5, OneMore DEF after

LEMMA TimesOrdered ==
  ASSUME NEW m \in Nat, NEW n \in Nat, m <= n
  PROVE  m * PageSize \in Nat /\ n * PageSize \in Nat /\ m * PageSize <= n * PageSize
<1>1. \A d, w \in Nat : (m + d) * w = m * w + d * w /\ d * w \in Nat /\ m * w \in Nat
  OBVIOUS
<1>2. n - m \in Nat /\ m + (n - m) = n /\ PageSize \in Nat
  BY PageSizeIs
<1> DEFINE a == m * PageSize
           b == (n - m) * PageSize
           c == n * PageSize
<1>3. c = a + b /\ a \in Nat /\ b \in Nat
  BY <1>1, <1>2
<1> HIDE DEF a, b, c
<1>4. a <= c /\ a \in Nat /\ c \in Nat
  BY <1>3
<1>5. QED
  BY <1>4 DEF a, c

LEMMA LastPageIs ==
  ASSUME NEW S, NEW posts \in Seq(S), posts # <<>>
  PROVE  LET q == LastPage(posts)
         IN  /\ q \in Nat \ {0} /\ (q - 1) * PageSize \in Nat /\ (q - 1) * PageSize < Len(posts)
             /\ Len(posts) <= q * PageSize
<1> DEFINE L == Len(posts)
           q == (L + PageSize - 1) \div PageSize
           a == (q - 1) * PageSize
           b == q * PageSize
<1>1. L \in Nat \ {0} /\ LastPage(posts) = q
  BY EmptySeq DEF LastPage
<1> HIDE DEF L
<1>2. q \in Nat /\ b <= L + PageSize - 1 /\ L + PageSize - 1 < b + PageSize /\ b \in Nat
  <2>1. \A m \in Nat, w \in Nat \ {0} :
          /\ m \div w \in Nat /\ (m \div w) * w <= m /\ m < (m \div w) * w + w /\ (m \div w) * w \in Nat
    OBVIOUS
  <2>2. L + PageSize - 1 \in Nat /\ PageSize \in Nat \ {0}
    BY <1>1, PageSizeIs
  <2>3. QED
    BY <2>1, <2>2
<1>3. q # 0
  <2>1. q = 0 => b = 0
    BY PageSizeIs
  <2> HIDE DEF b, q
  <2>2. b # 0
    BY <1>1, <1>2, PageSizeIs
  <2>3. QED
    BY <2>1, <2>2
<1>4. b = a + PageSize /\ a \in Nat
  <2>1. q - 1 \in Nat /\ q = (q - 1) + 1
    BY <1>2, <1>3
  <2>2. \A m, n \in Nat : (m + 1) * n = m * n + n /\ m * n \in Nat
    OBVIOUS
  <2> HIDE DEF q
  <2>3. QED
    BY <2>1, <2>2, PageSizeIs
<1> HIDE DEF a, b, q
<1>5. a < L /\ L <= b
  BY <1>1, <1>2, <1>4, PageSizeIs
<1>6. QED
  BY <1>1, <1>2, <1>3, <1>4, <1>5 DEF a, b, L

(* A post is where its page says.                                           *)
Unrepeated(posts) == \A i, j \in 1 .. Len(posts) : posts[i] = posts[j] => i = j

(* What the site shows for a page is that page, or its last one again.      *)
ShownFor(slice, posts, p, q) ==
  /\ slice = Slice(posts, q)
  /\ q # p => q < p /\ (q - 1) * PageSize < Len(posts) /\ Len(posts) <= q * PageSize

LEMMA ShownIsAPage ==
  ASSUME NEW c, board[c] \in Seq(Posts), NEW p \in Nat \ {0}
  PROVE  \E q \in Nat \ {0} : ShownFor(Shown(c, p), board[c], p, q)
<1>1. CASE p <= LastPage(board[c]) \/ pastEnd = "empty" \/ board[c] = <<>>
  BY <1>1 DEF Shown, ShownFor
<1>2. CASE ~(p <= LastPage(board[c]) \/ pastEnd = "empty" \/ board[c] = <<>>)
  <2> DEFINE q == LastPage(board[c])
  <2>1. q \in Nat \ {0} /\ (q - 1) * PageSize < Len(board[c]) /\ Len(board[c]) <= q * PageSize
    BY <1>2, LastPageIs
  <2>2. Shown(c, p) = Slice(board[c], q) /\ ~(p <= q)
    BY <1>2 DEF Shown
  <2> HIDE DEF q
  <2>3. q < p
    BY <2>1, <2>2
  <2>4. QED
    BY <2>1, <2>2, <2>3 DEF ShownFor
<1>3. QED
  BY <1>1, <1>2

(* The last page again: all posts are on the pages before.                  *)
LEMMA PastTheEnd ==
  ASSUME NEW posts \in Seq(Posts), NEW p \in Nat \ {0}, NEW q \in Nat \ {0}, NEW slice,
         ShownFor(slice, posts, p, q), q # p \/ slice = <<>>
  PROVE  Before(posts, p) = ToSet(posts)
<1>1. CASE q = p
  BY <1>1, BeforeNext DEF ShownFor
<1>2. CASE q # p
  <2> DEFINE a == (p - 1) * PageSize
             b == q * PageSize
  <2>1. q <= p - 1 /\ p - 1 \in Nat /\ Len(posts) <= b
    BY <1>2 DEF ShownFor
  <2>2. b <= a /\ a \in Nat /\ b \in Nat
    BY <2>1, TimesOrdered
  <2>3. UpTo(posts, p - 1) = (IF a < Len(posts) THEN a ELSE Len(posts)) /\ Len(posts) \in Nat
        /\ Before(posts, p) = {posts[n] : n \in 1 .. UpTo(posts, p - 1)}
    <3>1. Len(posts) \in Nat /\ UpTo(posts, p - 1) = (IF a < Len(posts) THEN a ELSE Len(posts))
      BY PageEdges
    <3>2. Before(posts, p) = {posts[n] : n \in 1 .. UpTo(posts, p - 1)}
      BY DEF Before
    <3>3. QED
      BY <3>1, <3>2
  <2> HIDE DEF a, b
  <2>4. UpTo(posts, p - 1) = Len(posts)
    BY <2>1, <2>2, <2>3
  <2>5. DOMAIN posts = 1 .. Len(posts)
    BY LenProperties
  <2>6. QED
    BY <2>3, <2>4, <2>5 DEF ToSet
<1>3. QED
  BY <1>1, <1>2

(* What a page shows, of posts that are all different: where its posts are,  *)
(* which posts are behind it, and that it ends the list or is full.         *)
LEMMA ShownFacts ==
  ASSUME NEW posts \in Seq(Posts), Unrepeated(posts), NEW p \in Nat \ {0}, NEW q \in Nat \ {0}, NEW slice,
         ShownFor(slice, posts, p, q)
  PROVE  /\ slice \in Seq(Posts) /\ Unrepeated(slice)
         /\ Before(posts, p + 1) \subseteq Before(posts, p) \cup ToSet(slice) /\ ToSet(slice) \subseteq ToSet(posts)
         /\ p * PageSize \in Nat
         /\ \A k \in 1 .. Len(posts) : posts[k] \in ToSet(slice) => k <= p * PageSize
<1> DEFINE from == UpTo(posts, q - 1)
           upto == UpTo(posts, q)
           a == (q - 1) * PageSize
           b == q * PageSize
           c == p * PageSize
<1>1. slice = Slice(posts, q) /\ q <= p
  BY DEF ShownFor
<1>2. slice \in Seq(Posts) /\ Len(slice) = upto - from /\ \A i \in 1 .. Len(slice) : slice[i] = posts[from + i]
  BY <1>1, SliceIs
<1>3. Len(posts) \in Nat /\ from \in Nat /\ upto \in Nat /\ from <= upto
      /\ upto = (IF b < Len(posts) THEN b ELSE Len(posts))
  BY PageEdges
<1>4. b <= c /\ b \in Nat /\ c \in Nat
  BY <1>1, TimesOrdered
<1>5. DOMAIN slice = 1 .. Len(slice) /\ DOMAIN posts = 1 .. Len(posts)
  BY <1>2, LenProperties
<1> HIDE DEF from, upto, a, b, c
<1>6. \A i \in 1 .. Len(slice) : from + i \in 1 .. Len(posts) /\ from + i <= c
  BY <1>2, <1>3, <1>4
<1>7. Unrepeated(slice)
  <2>1. SUFFICES ASSUME NEW i \in 1 .. Len(slice), NEW j \in 1 .. Len(slice), slice[i] = slice[j] PROVE i = j
    BY DEF Unrepeated
  <2>2. from + i = from + j
    BY <1>2, <1>6, <2>1 DEF Unrepeated
  <2>3. QED
    BY <1>2, <1>3, <2>2
<1>8. ASSUME NEW k \in 1 .. Len(posts), posts[k] \in ToSet(slice) PROVE k <= c
  <2>1. PICK i \in 1 .. Len(slice) : slice[i] = posts[k]
    BY <1>5, <1>8 DEF ToSet
  <2>2. k = from + i
    BY <1>2, <1>6, <2>1 DEF Unrepeated
  <2>3. QED
    BY <1>6, <2>2
<1>9. Before(posts, p + 1) \subseteq Before(posts, p) \cup ToSet(slice)
  <2>1. CASE q = p
    BY <1>1, <2>1, BeforeNext
  <2>2. CASE q # p
    <3>1. Before(posts, p) = ToSet(posts)
      BY <2>2, PastTheEnd
    <3>2. p + 1 \in Nat \ {0}
      OBVIOUS
    <3>3. Before(posts, p + 1) \subseteq ToSet(posts)
      BY <3>2, BeforeIsPosted
    <3>4. QED
      BY <3>1, <3>3
  <2>3. QED
    BY <2>1, <2>2
<1>10. ToSet(slice) \subseteq ToSet(posts)
  BY <1>2, <1>5, <1>6 DEF ToSet
<1>11. QED
  BY <1>2, <1>4, <1>7, <1>8, <1>9, <1>10 DEF c

LEMMA ShownFirst ==
  ASSUME NEW posts \in Seq(Posts), Unrepeated(posts), NEW p \in Nat \ {0}, NEW q \in Nat \ {0}, NEW slice,
         ShownFor(slice, posts, p, q), slice # <<>>
  PROVE  /\ \A k \in 1 .. Len(posts) : posts[k] = slice[1] => k + PageSize <= p * PageSize + 1
         /\ q = p => \E k \in 1 .. Len(posts) : posts[k] = slice[1] /\ k = (p - 1) * PageSize + 1
<1> DEFINE from == UpTo(posts, q - 1)
           upto == UpTo(posts, q)
           a == (q - 1) * PageSize
           b == q * PageSize
           c == p * PageSize
<1>1. slice = Slice(posts, q) /\ q <= p
  BY DEF ShownFor
<1>2. slice \in Seq(Posts) /\ Len(slice) = upto - from /\ \A i \in 1 .. Len(slice) : slice[i] = posts[from + i]
  BY <1>1, SliceIs
<1>3. Len(posts) \in Nat /\ from \in Nat /\ upto \in Nat /\ from <= upto
      /\ from = (IF a < Len(posts) THEN a ELSE Len(posts)) /\ upto = (IF b < Len(posts) THEN b ELSE Len(posts))
  BY PageEdges
<1>4. b <= c /\ b \in Nat /\ c \in Nat
  BY <1>1, TimesOrdered
<1>5. a \in Nat /\ b = a + PageSize
  BY PageEdges
<1>6. Len(slice) \in Nat \ {0}
  BY <1>2, EmptySeq
<1> HIDE DEF from, upto, a, b, c
<1>7. from = a /\ from + 1 \in 1 .. Len(posts) /\ slice[1] = posts[from + 1]
  <2>1. upto > from
    BY <1>2, <1>3, <1>6
  <2>2. from = a /\ from + 1 \in 1 .. Len(posts)
    BY <1>3, <1>5, <2>1, PageSizeIs
  <2>3. 1 \in 1 .. Len(slice)
    BY <1>6
  <2>4. QED
    BY <1>2, <2>2, <2>3
<1>8. ASSUME NEW k \in 1 .. Len(posts), posts[k] = slice[1] PROVE k + PageSize <= c + 1
  <2>1. k = from + 1
    BY <1>7, <1>8 DEF Unrepeated
  <2>2. QED
    BY <1>3, <1>4, <1>5, <1>7, <2>1, PageSizeIs
<1>9. ASSUME q = p PROVE \E k \in 1 .. Len(posts) : posts[k] = slice[1] /\ k = (p - 1) * PageSize + 1
  <2>1. a = (p - 1) * PageSize
    BY <1>9 DEF a
  <2>2. QED
    BY <1>7, <2>1
<1>10. QED
  BY <1>8, <1>9 DEF c

LEMMA ShownLast ==
  ASSUME NEW posts \in Seq(Posts), NEW p \in Nat \ {0}, NEW q \in Nat \ {0}, NEW slice,
         ShownFor(slice, posts, p, q), slice # <<>>
  PROVE  \/ ToSet(posts) \subseteq Before(posts, p) \cup ToSet(slice)
         \/ \E k \in 1 .. Len(posts) : posts[k] = slice[Len(slice)] /\ k = p * PageSize
<1> DEFINE from == UpTo(posts, p - 1)
           upto == UpTo(posts, p)
           b == p * PageSize
<1>1. CASE q # p
  BY <1>1, PastTheEnd
<1>2. CASE q = p
  <2>1. slice = Slice(posts, p)
    BY <1>2 DEF ShownFor
  <2>2. slice \in Seq(Posts) /\ Len(slice) = upto - from /\ \A i \in 1 .. Len(slice) : slice[i] = posts[from + i]
    BY <2>1, SliceIs
  <2>3. Len(posts) \in Nat /\ from \in Nat /\ upto \in Nat /\ from <= upto
        /\ upto = (IF b < Len(posts) THEN b ELSE Len(posts))
    BY PageEdges
  <2>4. Before(posts, p + 1) = {posts[n] : n \in 1 .. upto}
    <3>1. (p + 1) - 1 = p
      OBVIOUS
    <3>2. QED
      BY <3>1 DEF Before
  <2>5. Before(posts, p + 1) = Before(posts, p) \cup ToSet(slice)
    BY <2>1, BeforeNext
  <2>6. Len(slice) \in Nat \ {0} /\ DOMAIN posts = 1 .. Len(posts) /\ b \in Nat
    <3>1. Len(slice) \in Nat \ {0} /\ DOMAIN posts = 1 .. Len(posts)
      BY <2>2, EmptySeq, LenProperties
    <3>2. QED
      BY <3>1, PageSizeIs
  <2> HIDE DEF from, upto, b
  <2>7. CASE upto = Len(posts)
    <3>1. ToSet(posts) = {posts[n] : n \in 1 .. upto}
      BY <2>6, <2>7 DEF ToSet
    <3>2. QED
      BY <2>4, <2>5, <3>1
  <2>8. CASE upto # Len(posts)
    <3>1. upto = b /\ upto \in 1 .. Len(posts) /\ Len(slice) \in 1 .. Len(slice) /\ from + Len(slice) = upto
      <4> DEFINE size == Len(slice)
      <4>1. size = upto - from /\ size \in Nat \ {0}
        BY <2>2, <2>6
      <4> HIDE DEF size
      <4>2. upto = b /\ upto <= Len(posts)
        <5>1. b \in Nat
          BY <2>6
        <5>2. QED
          BY <2>3, <2>8, <5>1
      <4>3. upto >= 1 /\ size \in 1 .. size /\ from + size = upto
        BY <2>3, <4>1
      <4>4. upto \in 1 .. Len(posts)
        BY <2>3, <4>2, <4>3
      <4>5. QED
        BY <4>2, <4>3, <4>4 DEF size
    <3>2. slice[Len(slice)] = posts[upto]
      BY <2>2, <3>1
    <3>3. QED
      BY <3>1, <3>2 DEF b
  <2>9. QED
    BY <2>7, <2>8
<1>3. QED
  BY <1>1, <1>2

LEMMA BeforeOrdered ==
  ASSUME NEW posts \in Seq(Posts), NEW p \in Nat \ {0}, NEW q \in Nat \ {0}, p <= q
  PROVE  Before(posts, p) \subseteq Before(posts, q)
<1> DEFINE a == FirstOf(p)
           b == FirstOf(q)
<1>1. a <= b /\ a \in Nat /\ b \in Nat
  <2>1. (p - 1) * PageSize <= (q - 1) * PageSize
    <3>1. p - 1 \in Nat /\ q - 1 \in Nat /\ p - 1 <= q - 1
      OBVIOUS
    <3> QED BY <3>1, TimesOrdered
  <2>2. a <= b
    BY <2>1, Zenon DEF FirstOf
  <2>3. a \in Nat /\ b \in Nat
    BY NamedEdges, Zenon DEF Edges
  <2> QED BY <2>2, <2>3
<1>2. Len(posts) \in Nat /\ UpTo(posts, p - 1) = (IF a < Len(posts) THEN a ELSE Len(posts))
  BY NamedEdges, Zenon DEF Edges
<1>3. UpTo(posts, q - 1) = (IF b < Len(posts) THEN b ELSE Len(posts))
  BY NamedEdges, Zenon DEF Edges
<1> HIDE DEF a, b
<1>4. \A n \in 1 .. UpTo(posts, p - 1) : n \in 1 .. UpTo(posts, q - 1)
  BY <1>1, <1>2, <1>3
<1>5. QED
  BY <1>4 DEF Before

(* The posts of a category among ids, and those on a board wanted, not got. *)
GotOf(c, ids) == {x \in Posts : <<c, x>> \in ids}
Unmet(posts, want, got) == {x \in ToSet(posts) : x \in want /\ x \notin got}

NaverTypes ==
  /\ board \in [Boards -> Seq(Posts)] /\ crawlAt \in {"off", "list", "page", "end"}
  /\ category \in 1 .. Len(Categories) /\ (~Research => category = 1)
  /\ page \in Nat \ {0} /\ savedPage \in Nat /\ resumePage \in Nat
  /\ arrived \in Nat /\ deleted \in Nat /\ lost \in Nat
  /\ queue \in Seq(Posts) /\ goal \subseteq Posts
  /\ \A s \in signatures : s \in Seq(Posts) /\ s # <<>>

(* Ids grow with the posts that came, whatever became of them.              *)
BoardsGrow ==
  \A c \in Boards :
    /\ FirstPosts <= Len(board[c]) + lost
    /\ Unrepeated(board[c])
    /\ \A n \in 1 .. Len(board[c]) : board[c][n] <= Len(board[c]) + lost

(* What the crawl has met was posted before what arrives next.              *)
MetAreOld ==
  crawlAt # "off" =>
    /\ \A x \in goal : x <= Len(board[At]) + lost
    /\ \A x \in ToSet(queue) : x <= Len(board[At]) + lost
    /\ \A s \in signatures : s[1] <= Len(board[At]) + lost
    /\ \A x \in Posts : <<At, x>> \in knownIds => x <= Len(board[At]) + lost

CategoriesMet == \A item \in knownIds : \E i \in 1 .. category : item[1] = Categories[i]

(* A post that was met is not further down than the pages walked, but for   *)
(* the arrivals; and neither is the first post of a page that was met.      *)
Walked == IF crawlAt = "page" THEN page * PageSize ELSE (page - 1) * PageSize
PlacesMet ==
  crawlAt \in {"list", "page"} =>
    \A k \in 1 .. Len(board[At]) :
      /\ <<At, board[At][k]>> \in knownIds => k <= Walked + arrived
      /\ \A s \in signatures : s[1] = board[At][k] => k + PageSize <= Walked + 1 + arrived
      /\ crawlAt = "page" /\ board[At][k] \in ToSet(queue) => k <= Walked + arrived

(* Behind the crawl are no more posts it should have met than vanished.  A  *)
(* page it walks that may be its last has all that is left of the list, or  *)
(* its last post is new to the crawl.                                       *)
Covered ==
  /\ crawlAt = "list" => Cardinality(Left(board[At], page, goal, GotOf(At, handled))) <= deleted
  /\ crawlAt = "page" =>
      /\ Cardinality(Left(board[At], page + 1, goal, GotOf(At, handled) \cup ToSet(queue))) <= deleted
      /\ Unrepeated(queue)
      /\ Incremental /\ arrived < PageSize =>
           \/ Cardinality(Unmet(board[At], goal, GotOf(At, handled) \cup ToSet(queue))) <= deleted
           \/ newOnPage \/ unread
           \/ queue # <<>> /\ <<At, queue[Len(queue)]>> \notin knownIds

EndCovered ==
  crawlAt = "end" /\ endedBy # "limit" /\ arrived < PageSize /\ (endedBy = "known" => ~unread)
    => Cardinality(Unmet(board[At], goal, GotOf(At, handled))) <= deleted

(* The same of the posts that were there from the first, over all runs.     *)
Behind ==
  ~Research =>
    /\ savedPage > 0 => Cardinality(Left(board[At], savedPage, 1 .. FirstPosts, GotOf(At, kept))) <= lost
    /\ crawlAt # "off" =>
         /\ resumePage <= page
         /\ Cardinality(Left(board[At], page, 1 .. FirstPosts, GotOf(At, kept \cup handled))) <= lost
    /\ crawlAt = "page" =>
         Cardinality(Left(board[At], page + 1, 1 .. FirstPosts, GotOf(At, kept \cup handled) \cup ToSet(queue))) <= lost

NaverInv ==
  /\ NaverTypes /\ BoardsGrow /\ MetAreOld /\ CategoriesMet /\ PlacesMet /\ Covered /\ EndCovered /\ Behind

LEMMA CategoryIsABoard ==
  /\ Len(Categories) \in Nat \ {0} /\ Head(Categories) = Categories[1]
  /\ \A i \in 1 .. Len(Categories) : (~Research => i = 1) => Categories[i] \in Boards
  /\ \A i, j \in 1 .. Len(Categories) : Categories[i] = Categories[j] => i = j
<1>1. Categories \in Seq(ToSet(Categories)) /\ Categories # << >>
  BY NaverAssumption
<1>2. Len(Categories) \in Nat \ {0} /\ DOMAIN Categories = 1 .. Len(Categories)
  BY <1>1, EmptySeq, LenProperties
<1>3. Head(Categories) = Categories[1]
  BY <1>1
<1>4. \A i \in 1 .. Len(Categories) : Categories[i] \in ToSet(Categories)
  BY <1>2 DEF ToSet
<1>5. QED
  BY <1>2, <1>3, <1>4, NaverAssumption DEF Boards

LEMMA AtIsABoard ==
  ASSUME NaverTypes
  PROVE  /\ At \in Boards /\ board[At] \in Seq(Posts) /\ Len(board[At]) \in Nat
         /\ ~Research => Boards = {At} /\ At = Head(Categories)
<1>1. At \in Boards
  BY CategoryIsABoard DEF NaverTypes, At
<1>2. board[At] \in Seq(Posts) /\ Len(board[At]) \in Nat
  <2>1. board[At] \in Seq(Posts)
    BY <1>1 DEF NaverTypes
  <2>2. QED
    BY <2>1, LenProperties
<1>3. ~Research => Boards = {At} /\ At = Head(Categories)
  BY CategoryIsABoard DEF NaverTypes, At, Boards
<1>4. QED
  BY <1>1, <1>2, <1>3

LEMMA NaverStarts == NaverInit => NaverInv
<1> SUFFICES ASSUME NaverInit PROVE NaverInv
  OBVIOUS
<1> DEFINE first == [n \in 1 .. FirstPosts |-> FirstPosts + 1 - n]
<1>1. FirstPosts \in Nat /\ MaxArrivals \in Nat
  BY NaverAssumption
<1>2. first \in Seq(Posts) /\ Len(first) = FirstPosts
  <2>1. first \in [1 .. FirstPosts -> Posts]
    BY <1>1 DEF Posts
  <2>2. QED
    BY <1>1, <2>1, SeqDef
<1>3. Unrepeated(first) /\ \A n \in 1 .. Len(first) : first[n] <= Len(first) + 0
  BY <1>1, <1>2 DEF Unrepeated
<1>4. board = [c \in Boards |-> first] /\ lost = 0 /\ crawlAt = "off" /\ category = 1 /\ page = 1
      /\ knownIds = {} /\ savedPage = 0 /\ resumePage = 0 /\ arrived = 0 /\ deleted = 0 /\ queue = <<>>
      /\ goal = {} /\ signatures = {}
  BY DEF NaverInit
<1> HIDE DEF first
<1>5. \A c \in Boards : board[c] = first
  BY <1>4
<1>6. NaverTypes
  <2>1. 1 \in 1 .. Len(Categories) /\ queue \in Seq(Posts)
    BY <1>4, CategoryIsABoard
  <2>2. QED
    BY <1>2, <1>4, <2>1 DEF NaverTypes
<1>7. BoardsGrow
  BY <1>1, <1>2, <1>3, <1>4, <1>5 DEF BoardsGrow
<1>8. QED
  BY <1>4, <1>6, <1>7 DEF NaverInv, MetAreOld, CategoriesMet, PlacesMet, Covered, EndCovered, Behind

LEMMA SignaturesAreOfPosts ==
  ASSUME NaverTypes
  PROVE  /\ \A s \in signatures : s[1] \in Posts
         /\ ToSet(queue) \subseteq Posts /\ Posts \subseteq Nat \ {0}
<1>1. ASSUME NEW s \in signatures PROVE s[1] \in Posts
  <2>1. s \in Seq(Posts) /\ s # <<>>
    BY DEF NaverTypes
  <2>2. Len(s) \in Nat \ {0}
    BY <2>1, EmptySeq
  <2>3. QED
    BY <2>1, <2>2, ElementOfSeq
<1>2. Posts \subseteq Nat \ {0}
  BY NaverAssumption DEF Posts
<1>3. queue \in Seq(Posts)
  BY DEF NaverTypes
<1>4. QED
  BY <1>1, <1>2, <1>3, BeforeIsPosted

(* While the site changes a board that is not the one being crawled.        *)
LEMMA OtherBoardChanges ==
  ASSUME NaverInv, NaverTypes', BoardsGrow', Research,
         board'[At] = board[At], arrived' = arrived, deleted' = deleted, lost' >= lost,
         UNCHANGED <<siteTraits, crawlAt, category, page, pagesLeft, runCounts, knownIds, queue, newOnPage,
           filesLeft, endedBy, resumePage, savedPage, handled, kept, goal, unread, boardRuns>>
  PROVE  NaverInv'
<1>1. PICK c : c = At
  OBVIOUS
<1>2. /\ At' = c /\ board'[c] = board[c] /\ crawlAt' = crawlAt /\ page' = page /\ knownIds' = knownIds
      /\ queue' = queue /\ signatures' = signatures /\ goal' = goal /\ handled' = handled /\ category' = category
      /\ newOnPage' = newOnPage /\ unread' = unread /\ endedBy' = endedBy /\ boardKind' = boardKind
      /\ boardMode' = boardMode
  BY <1>1 DEF At, siteTraits, runCounts
<1>3. lost \in Nat /\ lost' \in Nat /\ lost <= lost' /\ Len(board[c]) \in Nat
  BY <1>1, AtIsABoard DEF NaverInv, NaverTypes
<1>4. MetAreOld'
  <2> DEFINE most == Len(board[c]) + lost
             mostNow == Len(board[c]) + lost'
  <2>1. \A x \in Int : x <= most => x <= mostNow
    BY <1>3
  <2>2. /\ goal \subseteq Nat /\ ToSet(queue) \subseteq Nat /\ Posts \subseteq Nat
        /\ \A s \in signatures : s[1] \in Nat
    <3>1. NaverTypes /\ goal \subseteq Posts
      BY DEF NaverInv, NaverTypes
    <3>2. QED
      BY <3>1, SignaturesAreOfPosts
  <2>4. SUFFICES ASSUME crawlAt # "off"
                 PROVE  /\ \A x \in goal : x <= Len(board[c]) + lost'
                        /\ \A x \in ToSet(queue) : x <= Len(board[c]) + lost'
                        /\ \A s \in signatures : s[1] <= Len(board[c]) + lost'
                        /\ \A x \in Posts : <<c, x>> \in knownIds => x <= Len(board[c]) + lost'
    BY <1>2 DEF MetAreOld
  <2>5. /\ \A x \in goal : x <= Len(board[c]) + lost
        /\ \A x \in ToSet(queue) : x <= Len(board[c]) + lost
        /\ \A s \in signatures : s[1] <= Len(board[c]) + lost
        /\ \A x \in Posts : <<c, x>> \in knownIds => x <= Len(board[c]) + lost
    BY <1>1, <2>4 DEF NaverInv, MetAreOld
  <2> HIDE DEF most, mostNow
  <2>6. \A x \in Nat : x <= most => x <= mostNow
    BY <2>1
  <2>7. /\ \A x \in goal : x <= mostNow
        /\ \A x \in ToSet(queue) : x <= mostNow
        /\ \A s \in signatures : s[1] <= mostNow
        /\ \A x \in Posts : <<c, x>> \in knownIds => x <= mostNow
    BY <2>2, <2>5, <2>6 DEF most
  <2>8. QED
    BY <2>7 DEF mostNow
<1>5. CategoriesMet'
  BY <1>2 DEF NaverInv, CategoriesMet
<1>6. PlacesMet'
  BY <1>1, <1>2 DEF NaverInv, PlacesMet, Walked
<1>7. Covered' /\ EndCovered'
  BY <1>1, <1>2 DEF NaverInv, Covered, EndCovered, Incremental
<1>8. Behind'
  BY <1>2 DEF Behind, Research
<1>9. QED
  BY <1>4, <1>5, <1>6, <1>7, <1>8 DEF NaverInv

(* The board of a post that arrives.                                        *)
LEMMA ArrivalOnBoard ==
  ASSUME NaverInv, NEW c \in Boards, PostArrives(c)
  PROVE  /\ NaverTypes' /\ BoardsGrow' /\ lost' = lost
         /\ \E x \in Posts : x = Len(board[c]) + lost + 1 /\ x > FirstPosts /\ board'[c] = <<x>> \o board[c]
         /\ \A d \in Boards \ {c} : board'[d] = board[d]
         /\ arrived' = IF c = At /\ crawlAt # "off" THEN arrived + 1 ELSE arrived
<1> DEFINE x == Len(board[c]) + lost + 1
<1>1. /\ board \in [Boards -> Seq(Posts)] /\ lost \in Nat /\ arrived \in Nat /\ board[c] \in Seq(Posts)
      /\ FirstPosts <= Len(board[c]) + lost /\ Unrepeated(board[c])
      /\ \A n \in 1 .. Len(board[c]) : board[c][n] <= Len(board[c]) + lost
  BY DEF NaverInv, NaverTypes, BoardsGrow
<1>2. Len(board[c]) \in Nat /\ Posts \subseteq Nat /\ FirstPosts \in Nat /\ MaxArrivals \in Nat
      /\ \A n \in 1 .. Len(board[c]) : board[c][n] \in Posts
  BY <1>1, LenProperties, ElementOfSeq, NaverAssumption DEF Posts
<1>3. x \in Posts /\ x > FirstPosts
  BY <1>1, <1>2 DEF PostArrives, Posts
<1>4. board' = [board EXCEPT ![c] = <<x>> \o @] /\ lost' = lost
  BY DEF PostArrives
<1> HIDE DEF x
<1>5. board'[c] = <<x>> \o board[c] /\ \A d \in Boards \ {c} : board'[d] = board[d]
  BY <1>1, <1>4
<1>6. /\ board'[c] \in Seq(Posts) /\ Len(board'[c]) = Len(board[c]) + 1
      /\ \A k \in 1 .. Len(board'[c]) : board'[c][k] = IF k = 1 THEN x ELSE board[c][k - 1]
  BY <1>1, <1>3, <1>5, ArrivalIs
<1>7. arrived' = (IF c = At /\ crawlAt # "off" THEN arrived + 1 ELSE arrived) /\ Boards' = Boards
      /\ (Research' <=> Research)
  BY DEF PostArrives, siteTraits, Boards, Research
<1>8. NaverTypes'
  <2>1. board' \in [Boards' -> Seq(Posts)] /\ arrived' \in Nat
    BY <1>1, <1>4, <1>5, <1>6, <1>7
  <2>2. QED
    BY <1>4, <1>7, <2>1 DEF NaverInv, NaverTypes, PostArrives, runCounts
<1>9. BoardsGrow'
  <2>1. SUFFICES ASSUME NEW d \in Boards
                 PROVE  /\ FirstPosts <= Len(board'[d]) + lost /\ Unrepeated(board'[d])
                        /\ \A n \in 1 .. Len(board'[d]) : board'[d][n] <= Len(board'[d]) + lost
    BY <1>4, <1>7 DEF BoardsGrow
  <2>2. CASE d # c
    BY <1>5, <2>2 DEF NaverInv, BoardsGrow
  <2>3. CASE d = c
    <3> DEFINE after == board'[c]
               was == board[c]
    <3>1. /\ Len(after) = Len(was) + 1 /\ \A k \in 1 .. Len(after) : after[k] = IF k = 1 THEN x ELSE was[k - 1]
          /\ Len(was) \in Nat /\ lost \in Nat /\ FirstPosts \in Nat /\ FirstPosts <= Len(was) + lost /\ Unrepeated(was)
          /\ \A n \in 1 .. Len(was) : was[n] <= Len(was) + lost /\ was[n] \in Nat
          /\ x = Len(was) + lost + 1
      BY <1>1, <1>2, <1>6 DEF x
    <3> HIDE DEF after, was
    <3>2. \A n \in 1 .. Len(after) : (n = 1 /\ after[n] = x) \/ (n - 1 \in 1 .. Len(was) /\ after[n] = was[n - 1])
      BY <3>1
    <3>3. FirstPosts <= Len(after) + lost /\ \A n \in 1 .. Len(after) : after[n] <= Len(after) + lost
      <4>1. ASSUME NEW n \in 1 .. Len(after) PROVE after[n] <= Len(after) + lost
        <5>1. CASE n = 1 /\ after[n] = x
          BY <3>1, <5>1, SMTT(30)
        <5>2. CASE n - 1 \in 1 .. Len(was) /\ after[n] = was[n - 1]
          <6>1. after[n] <= Len(was) + lost /\ after[n] \in Nat
            BY <3>1, <5>2
          <6> QED BY <3>1, <6>1
        <5> QED BY <3>2, <5>1, <5>2
      <4>2. FirstPosts <= Len(after) + lost
        BY <3>1
      <4> QED BY <4>1, <4>2
    <3>4. Unrepeated(after)
      <4>1. SUFFICES ASSUME NEW i \in 1 .. Len(after), NEW j \in 1 .. Len(after), after[i] = after[j] PROVE i = j
        BY DEF Unrepeated
      <4>2. CASE i = 1 \/ j = 1
        BY <3>1, <3>2, <4>1, <4>2, SMTT(30)
      <4>3. CASE i # 1 /\ j # 1
        <5>1. i - 1 \in 1 .. Len(was) /\ j - 1 \in 1 .. Len(was) /\ was[i - 1] = was[j - 1]
          BY <3>2, <4>1, <4>3
        <5>2. i - 1 = j - 1
          BY <3>1, <5>1 DEF Unrepeated
        <5>3. QED
          BY <3>1, <5>2
      <4>4. QED
        BY <4>2, <4>3
    <3>5. QED
      BY <2>3, <3>3, <3>4 DEF after
  <2>4. QED
    BY <2>2, <2>3
<1>10. QED
  BY <1>3, <1>4, <1>5, <1>7, <1>8, <1>9 DEF x

LEMMA ArrivalKeeps ==
  ASSUME NaverInv, NEW c \in Boards, PostArrives(c)
  PROVE  NaverInv'
<1>1. PICK x \in Posts : x = Len(board[c]) + lost + 1 /\ x > FirstPosts /\ board'[c] = <<x>> \o board[c]
  BY ArrivalOnBoard
<1>2. /\ NaverTypes' /\ BoardsGrow' /\ lost' = lost /\ NaverTypes
      /\ \A d \in Boards \ {c} : board'[d] = board[d]
      /\ arrived' = IF c = At /\ crawlAt # "off" THEN arrived + 1 ELSE arrived
  BY ArrivalOnBoard DEF NaverInv
<1>3. /\ boardKind' = boardKind /\ boardMode' = boardMode /\ crawlAt' = crawlAt /\ category' = category
      /\ page' = page /\ knownIds' = knownIds /\ queue' = queue /\ signatures' = signatures /\ goal' = goal
      /\ handled' = handled /\ newOnPage' = newOnPage /\ unread' = unread /\ endedBy' = endedBy
      /\ deleted' = deleted /\ savedPage' = savedPage /\ resumePage' = resumePage /\ kept' = kept
  BY DEF PostArrives, siteTraits, runCounts
<1>4. At \in Boards /\ board[At] \in Seq(Posts) /\ Len(board[At]) \in Nat /\ lost \in Nat /\ arrived \in Nat
      /\ deleted \in Nat /\ page \in Nat \ {0} /\ savedPage \in Nat
  BY <1>2, AtIsABoard DEF NaverTypes
<1>5. CASE c # At
  <2>1. Research
    BY <1>2, <1>5, AtIsABoard
  <2>2. board'[At] = board[At] /\ arrived' = arrived /\ lost' >= lost
    BY <1>2, <1>4, <1>5
  <2>3. QED
    BY <1>2, <2>1, <2>2, OtherBoardChanges DEF PostArrives
<1>6. CASE c = At
  <2> DEFINE posts == board[c]
             after == <<x>> \o posts
  <2>1. posts \in Seq(Posts) /\ board'[c] = after /\ At' = c /\ At = c /\ board[At] = posts
    BY <1>1, <1>3, <1>4, <1>6 DEF At
  <2>2. /\ after \in Seq(Posts) /\ Len(after) = Len(posts) + 1 /\ Len(posts) \in Nat
        /\ \A k \in 1 .. Len(after) : after[k] = IF k = 1 THEN x ELSE posts[k - 1]
    BY <2>1, ArrivalIs
  <2>3. x = Len(posts) + lost + 1
    BY <1>1
  <2> HIDE DEF posts, after
  <2>4. ToSet(after) \subseteq ToSet(posts) \cup {x}
    <3>1. DOMAIN after = 1 .. Len(after) /\ DOMAIN posts = 1 .. Len(posts)
      BY <2>1, <2>2, LenProperties
    <3>2. \A k \in 1 .. Len(after) : after[k] = x \/ (k - 1 \in 1 .. Len(posts) /\ after[k] = posts[k - 1])
      BY <2>2
    <3>3. QED
      BY <3>1, <3>2 DEF ToSet
  <2>5. /\ Posts \subseteq Nat \ {0} /\ ToSet(queue) \subseteq Posts /\ goal \subseteq Posts
        /\ \A s \in signatures : s[1] \in Posts
    BY <1>2, SignaturesAreOfPosts DEF NaverTypes
  <2>6. ASSUME crawlAt # "off"
        PROVE  /\ \A y \in goal : y <= Len(posts) + lost
               /\ \A y \in ToSet(queue) : y <= Len(posts) + lost
               /\ \A s \in signatures : s[1] <= Len(posts) + lost
               /\ \A y \in Posts : <<c, y>> \in knownIds => y <= Len(posts) + lost
               /\ x \notin goal /\ x \notin ToSet(queue) /\ <<c, x>> \notin knownIds
               /\ \A s \in signatures : s[1] # x
    <3>1. /\ \A y \in goal : y <= Len(posts) + lost
          /\ \A y \in ToSet(queue) : y <= Len(posts) + lost
          /\ \A s \in signatures : s[1] <= Len(posts) + lost
          /\ \A y \in Posts : <<c, y>> \in knownIds => y <= Len(posts) + lost
      BY <2>1, <2>6 DEF NaverInv, MetAreOld
    <3>2. ~(x <= Len(posts) + lost)
      BY <1>4, <2>2, <2>3
    <3>3. QED
      BY <3>1, <3>2
  <2>7. MetAreOld'
    <3>1. \A y \in Nat : y <= Len(posts) + lost => y <= Len(after) + lost
      BY <1>4, <2>2
    <3>2. QED
      BY <1>2, <1>3, <2>1, <2>5, <2>6, <3>1 DEF MetAreOld
  <2>8. CategoriesMet'
    BY <1>3 DEF NaverInv, CategoriesMet
  <2>9. PlacesMet'
    <3>1. SUFFICES ASSUME crawlAt \in {"list", "page"}, NEW k \in 1 .. Len(after)
                   PROVE  /\ <<c, after[k]>> \in knownIds => k <= Walked + arrived'
                          /\ \A s \in signatures : s[1] = after[k] => k + PageSize <= Walked + 1 + arrived'
                          /\ crawlAt = "page" /\ after[k] \in ToSet(queue) => k <= Walked + arrived'
      BY <1>3, <2>1 DEF PlacesMet, Walked
    <3>2. arrived' = arrived + 1 /\ Walked \in Nat
      <4>1. page - 1 \in Nat /\ page \in Nat
        BY <1>4
      <4>2. Walked \in Nat
        BY <4>1, TimesOrdered DEF Walked
      <4>3. QED
        BY <1>2, <1>6, <3>1, <4>2
    <3>3. CASE k = 1
      BY <2>2, <2>6, <3>1, <3>3
    <3>4. CASE k # 1
      <4>1. k - 1 \in 1 .. Len(posts) /\ after[k] = posts[k - 1]
        BY <2>2, <3>4
      <4>2. /\ <<c, posts[k - 1]>> \in knownIds => k - 1 <= Walked + arrived
            /\ \A s \in signatures : s[1] = posts[k - 1] => (k - 1) + PageSize <= Walked + 1 + arrived
            /\ crawlAt = "page" /\ posts[k - 1] \in ToSet(queue) => k - 1 <= Walked + arrived
        BY <2>1, <3>1, <4>1 DEF NaverInv, PlacesMet
      <4>3. /\ k - 1 <= Walked + arrived => k <= Walked + arrived'
            /\ (k - 1) + PageSize <= Walked + 1 + arrived => k + PageSize <= Walked + 1 + arrived'
        BY <1>4, <3>2, <2>2, PageSizeIs
      <4>4. QED
        BY <4>1, <4>2, <4>3
    <3>5. QED
      BY <3>3, <3>4
  <2>10. arrived' < PageSize => arrived < PageSize
    BY <1>2, <1>4, PageSizeIs
  <2>11. ASSUME NEW p \in Nat \ {0}, NEW want, NEW got, x \notin want
         PROVE  /\ Cardinality(Left(after, p, want, got)) <= Cardinality(Left(posts, p, want, got))
                /\ Cardinality(Unmet(after, want, got)) <= Cardinality(Unmet(posts, want, got))
                /\ Cardinality(Left(after, p, want, got)) \in Nat /\ Cardinality(Left(posts, p, want, got)) \in Nat
                /\ Cardinality(Unmet(after, want, got)) \in Nat /\ Cardinality(Unmet(posts, want, got)) \in Nat
    <3>1. Left(after, p, want, got) \subseteq Left(posts, p, want, got)
      BY <2>1, <2>11, LeftArrives DEF after
    <3>2. Unmet(after, want, got) \subseteq Unmet(posts, want, got)
      BY <2>4, <2>11 DEF Unmet
    <3>3. Left(posts, p, want, got) \subseteq Posts /\ Unmet(posts, want, got) \subseteq Posts
      BY <2>1, BeforeIsPosted DEF Left, Unmet
    <3>4. QED
      BY <3>1, <3>2, <3>3, PostsAreFew
  <2>12. page + 1 \in Nat \ {0}
    BY <1>4
  <2>13. Covered'
    <3>1. ASSUME crawlAt = "list"
          PROVE  Cardinality(Left(after, page, goal, GotOf(c, handled))) <= deleted
      <4>1. Cardinality(Left(posts, page, goal, GotOf(c, handled))) <= deleted
        BY <2>1, <3>1 DEF NaverInv, Covered
      <4>2. QED
        BY <1>4, <2>6, <2>11, <3>1, <4>1
    <3>2. ASSUME crawlAt = "page"
          PROVE  /\ Cardinality(Left(after, page + 1, goal, GotOf(c, handled) \cup ToSet(queue))) <= deleted
                 /\ Unrepeated(queue)
                 /\ Incremental /\ arrived' < PageSize =>
                      \/ Cardinality(Unmet(after, goal, GotOf(c, handled) \cup ToSet(queue))) <= deleted
                      \/ newOnPage \/ unread
                      \/ queue # <<>> /\ <<c, queue[Len(queue)]>> \notin knownIds
      <4> DEFINE got == GotOf(c, handled) \cup ToSet(queue)
      <4>1. /\ Cardinality(Left(posts, page + 1, goal, got)) <= deleted
            /\ Unrepeated(queue)
            /\ Incremental /\ arrived < PageSize =>
                 \/ Cardinality(Unmet(posts, goal, got)) <= deleted
                 \/ newOnPage \/ unread
                 \/ queue # <<>> /\ <<c, queue[Len(queue)]>> \notin knownIds
        <5>1. Covered
          BY DEF NaverInv
        <5>2. QED
          BY <2>1, <3>2, <5>1 DEF Covered
      <4> HIDE DEF got
      <4>2. /\ Cardinality(Left(after, page + 1, goal, got)) <= deleted
            /\ Cardinality(Unmet(posts, goal, got)) <= deleted => Cardinality(Unmet(after, goal, got)) <= deleted
        <5>1. page + 1 \in Nat \ {0} /\ x \notin goal /\ deleted \in Nat
          BY <1>4, <2>6, <2>12, <3>2
        <5>2. /\ Cardinality(Left(after, page + 1, goal, got)) <= Cardinality(Left(posts, page + 1, goal, got))
              /\ Cardinality(Unmet(after, goal, got)) <= Cardinality(Unmet(posts, goal, got))
              /\ Cardinality(Left(after, page + 1, goal, got)) \in Nat
              /\ Cardinality(Left(posts, page + 1, goal, got)) \in Nat
              /\ Cardinality(Unmet(after, goal, got)) \in Nat /\ Cardinality(Unmet(posts, goal, got)) \in Nat
          BY <2>11, <5>1
        <5> QED BY <4>1, <5>1, <5>2
      <4>3. QED
        BY <2>10, <4>1, <4>2 DEF got
    <3>3. Incremental' <=> Incremental
      BY <1>3 DEF Incremental
    <3>4. QED
      BY <1>3, <2>1, <3>1, <3>2, <3>3 DEF Covered
  <2>14. EndCovered'
    <3>1. SUFFICES ASSUME crawlAt = "end", endedBy # "limit", arrived' < PageSize, endedBy = "known" => ~unread
                   PROVE  Cardinality(Unmet(after, goal, GotOf(c, handled))) <= deleted
      BY <1>3, <2>1 DEF EndCovered
    <3>2. Cardinality(Unmet(posts, goal, GotOf(c, handled))) <= deleted
      BY <2>1, <2>10, <3>1 DEF NaverInv, EndCovered
    <3>3. QED
      BY <1>4, <2>6, <2>11, <2>12, <3>1, <3>2
  <2>15. Behind'
    <3>1. x \notin 1 .. FirstPosts
      BY <1>1, NaverAssumption
    <3>2. ASSUME ~Research, savedPage > 0
          PROVE  Cardinality(Left(after, savedPage, 1 .. FirstPosts, GotOf(c, kept))) <= lost
      <4>1. Cardinality(Left(posts, savedPage, 1 .. FirstPosts, GotOf(c, kept))) <= lost /\ savedPage \in Nat \ {0}
        BY <1>4, <2>1, <3>2 DEF NaverInv, Behind
      <4> DEFINE want == 1 .. FirstPosts
                 got == GotOf(c, kept)
      <4> HIDE DEF want, got
      <4>2. Cardinality(Left(after, savedPage, want, got)) <= Cardinality(Left(posts, savedPage, want, got))
            /\ Cardinality(Left(after, savedPage, want, got)) \in Nat /\ Cardinality(Left(posts, savedPage, want, got)) \in Nat
        BY <2>11, <3>1, <4>1 DEF want
      <4>3. QED
        BY <1>4, <4>1, <4>2 DEF want, got
    <3>3. ASSUME ~Research, crawlAt # "off"
          PROVE  /\ resumePage <= page
                 /\ Cardinality(Left(after, page, 1 .. FirstPosts, GotOf(c, kept \cup handled))) <= lost
      <4>1. /\ resumePage <= page
            /\ Cardinality(Left(posts, page, 1 .. FirstPosts, GotOf(c, kept \cup handled))) <= lost
        BY <2>1, <3>3 DEF NaverInv, Behind
      <4> DEFINE want == 1 .. FirstPosts
                 got == GotOf(c, kept \cup handled)
      <4> HIDE DEF want, got
      <4>2. Cardinality(Left(after, page, want, got)) <= Cardinality(Left(posts, page, want, got))
            /\ Cardinality(Left(after, page, want, got)) \in Nat /\ Cardinality(Left(posts, page, want, got)) \in Nat
        BY <1>4, <2>11, <3>1 DEF want
      <4>3. QED
        BY <1>4, <4>1, <4>2 DEF want, got
    <3>4. ASSUME ~Research, crawlAt = "page"
          PROVE  Cardinality(Left(after, page + 1, 1 .. FirstPosts, GotOf(c, kept \cup handled) \cup ToSet(queue))) <= lost
      <4>1. Cardinality(Left(posts, page + 1, 1 .. FirstPosts, GotOf(c, kept \cup handled) \cup ToSet(queue))) <= lost
        BY <2>1, <3>4 DEF NaverInv, Behind
      <4> DEFINE want == 1 .. FirstPosts
                 got == GotOf(c, kept \cup handled) \cup ToSet(queue)
      <4> HIDE DEF want, got
      <4>2. Cardinality(Left(after, page + 1, want, got)) <= Cardinality(Left(posts, page + 1, want, got))
            /\ Cardinality(Left(after, page + 1, want, got)) \in Nat /\ Cardinality(Left(posts, page + 1, want, got)) \in Nat
        BY <2>11, <2>12, <3>1 DEF want
      <4>3. QED
        BY <1>4, <4>1, <4>2 DEF want, got
    <3>5. Research' <=> Research
      BY <1>3 DEF Research
    <3>6. QED
      BY <1>2, <1>3, <2>1, <3>2, <3>3, <3>4, <3>5 DEF Behind
  <2>16. QED
    BY <1>2, <2>7, <2>8, <2>9, <2>13, <2>14, <2>15 DEF NaverInv
<1>7. QED
  BY <1>5, <1>6

(* The board of a post that vanishes.                                       *)
LEMMA VanishingOnBoard ==
  ASSUME NaverInv, NEW c \in Boards, NEW n \in DOMAIN board[c], PostVanishes(c, n)
  PROVE  /\ NaverTypes' /\ BoardsGrow' /\ lost' = lost + 1 /\ n \in 1 .. Len(board[c])
         /\ board'[c] = RemoveAt(board[c], n)
         /\ \A d \in Boards \ {c} : board'[d] = board[d]
         /\ deleted' = IF c = At /\ crawlAt # "off" THEN deleted + 1 ELSE deleted
<1>1. /\ board \in [Boards -> Seq(Posts)] /\ lost \in Nat /\ deleted \in Nat /\ board[c] \in Seq(Posts)
      /\ FirstPosts <= Len(board[c]) + lost /\ Unrepeated(board[c])
      /\ \A m \in 1 .. Len(board[c]) : board[c][m] <= Len(board[c]) + lost
  BY DEF NaverInv, NaverTypes, BoardsGrow
<1>2. Len(board[c]) \in Nat /\ Posts \subseteq Nat /\ FirstPosts \in Nat /\ n \in 1 .. Len(board[c])
      /\ \A m \in 1 .. Len(board[c]) : board[c][m] \in Posts
  BY <1>1, LenProperties, ElementOfSeq, NaverAssumption DEF Posts
<1>3. board' = [board EXCEPT ![c] = RemoveAt(@, n)] /\ lost' = lost + 1
  BY DEF PostVanishes
<1>4. board'[c] = RemoveAt(board[c], n) /\ \A d \in Boards \ {c} : board'[d] = board[d]
  BY <1>1, <1>3
<1>5. /\ board'[c] \in Seq(Posts) /\ Len(board'[c]) = Len(board[c]) - 1
      /\ \A k \in 1 .. Len(board'[c]) : board'[c][k] = IF k < n THEN board[c][k] ELSE board[c][k + 1]
  BY <1>1, <1>2, <1>4, VanishingIs
<1>6. deleted' = (IF c = At /\ crawlAt # "off" THEN deleted + 1 ELSE deleted) /\ Boards' = Boards
      /\ (Research' <=> Research)
  BY DEF PostVanishes, siteTraits, Boards, Research
<1>7. NaverTypes'
  <2>1. board' \in [Boards' -> Seq(Posts)] /\ deleted' \in Nat /\ lost' \in Nat
    BY <1>1, <1>3, <1>4, <1>5, <1>6
  <2>2. QED
    BY <1>6, <2>1 DEF NaverInv, NaverTypes, PostVanishes, runCounts
<1>8. BoardsGrow'
  <2>1. SUFFICES ASSUME NEW d \in Boards
                 PROVE  /\ FirstPosts <= Len(board'[d]) + lost' /\ Unrepeated(board'[d])
                        /\ \A m \in 1 .. Len(board'[d]) : board'[d][m] <= Len(board'[d]) + lost'
    BY <1>6 DEF BoardsGrow
  <2>2. CASE d # c
    <3> DEFINE was == board[d]
    <3>1. /\ FirstPosts <= Len(was) + lost /\ Unrepeated(was) /\ was \in Seq(Posts)
          /\ \A m \in 1 .. Len(was) : was[m] <= Len(was) + lost
      BY <1>1 DEF NaverInv, BoardsGrow
    <3>2. Len(was) \in Nat /\ \A m \in 1 .. Len(was) : was[m] \in Posts
      BY <3>1, LenProperties, ElementOfSeq
    <3>3. board'[d] = was
      BY <1>4, <2>2
    <3> HIDE DEF was
    <3>4. FirstPosts <= Len(was) + lost' /\ \A m \in 1 .. Len(was) : was[m] <= Len(was) + lost'
      <4>1. \A y \in Nat : y <= Len(was) + lost => y <= Len(was) + lost'
        <5>1. Len(was) \in Nat /\ lost \in Nat /\ lost' = lost + 1
          BY <1>1, <1>3, <3>2
        <5>2. QED
          BY <5>1
      <4>2. FirstPosts \in Nat /\ \A m \in 1 .. Len(was) : was[m] \in Nat
        BY <1>2, <3>2
      <4>3. QED
        BY <3>1, <4>1, <4>2
    <3>5. QED
      BY <3>1, <3>3, <3>4
  <2>3. CASE d = c
    <3> DEFINE after == board'[c]
               was == board[c]
    <3>1. /\ Len(after) = Len(was) - 1 /\ \A k \in 1 .. Len(after) : after[k] = IF k < n THEN was[k] ELSE was[k + 1]
          /\ Len(was) \in Nat /\ lost \in Nat /\ FirstPosts \in Nat /\ FirstPosts <= Len(was) + lost /\ Unrepeated(was)
          /\ \A m \in 1 .. Len(was) : was[m] <= Len(was) + lost /\ was[m] \in Nat
          /\ n \in 1 .. Len(was) /\ lost' = lost + 1
      BY <1>1, <1>2, <1>3, <1>5
    <3> HIDE DEF after, was
    <3> DEFINE from(k) == IF k < n THEN k ELSE k + 1
    <3>2. \A k \in 1 .. Len(after) : from(k) \in 1 .. Len(was) /\ after[k] = was[from(k)]
      BY <3>1
    <3>3. Len(after) + lost' = Len(was) + lost
      BY <3>1
    <3>4. FirstPosts <= Len(after) + lost' /\ \A m \in 1 .. Len(after) : after[m] <= Len(after) + lost'
      BY <3>1, <3>2, <3>3
    <3>5. \A i, j \in 1 .. Len(after) : from(i) = from(j) => i = j
      BY <3>1
    <3> HIDE DEF from
    <3>6. Unrepeated(after)
      <4>1. SUFFICES ASSUME NEW i \in 1 .. Len(after), NEW j \in 1 .. Len(after), after[i] = after[j] PROVE i = j
        BY DEF Unrepeated
      <4>2. was[from(i)] = was[from(j)] /\ from(i) \in 1 .. Len(was) /\ from(j) \in 1 .. Len(was)
        BY <3>2, <4>1
      <4>3. from(i) = from(j)
        BY <3>1, <4>2 DEF Unrepeated
      <4>4. QED
        BY <3>5, <4>3
    <3>7. QED
      BY <2>3, <3>4, <3>6 DEF after
  <2>4. QED
    BY <2>2, <2>3
<1>9. QED
  BY <1>2, <1>3, <1>4, <1>6, <1>7, <1>8

LEMMA VanishingKeeps ==
  ASSUME NaverInv, NEW c \in Boards, NEW n \in DOMAIN board[c], PostVanishes(c, n)
  PROVE  NaverInv'
<1>1. /\ NaverTypes' /\ BoardsGrow' /\ lost' = lost + 1 /\ NaverTypes /\ n \in 1 .. Len(board[c])
      /\ board'[c] = RemoveAt(board[c], n)
      /\ \A d \in Boards \ {c} : board'[d] = board[d]
      /\ deleted' = IF c = At /\ crawlAt # "off" THEN deleted + 1 ELSE deleted
  BY VanishingOnBoard DEF NaverInv
<1>2. /\ boardKind' = boardKind /\ boardMode' = boardMode /\ crawlAt' = crawlAt /\ category' = category
      /\ page' = page /\ knownIds' = knownIds /\ queue' = queue /\ signatures' = signatures /\ goal' = goal
      /\ handled' = handled /\ newOnPage' = newOnPage /\ unread' = unread /\ endedBy' = endedBy
      /\ arrived' = arrived /\ savedPage' = savedPage /\ resumePage' = resumePage /\ kept' = kept
  BY DEF PostVanishes, siteTraits, runCounts
<1>3. At \in Boards /\ board[At] \in Seq(Posts) /\ Len(board[At]) \in Nat /\ lost \in Nat /\ arrived \in Nat
      /\ deleted \in Nat /\ page \in Nat \ {0} /\ savedPage \in Nat
  BY <1>1, AtIsABoard DEF NaverTypes
<1>4. CASE c # At
  <2>1. Research
    BY <1>1, <1>4, AtIsABoard
  <2>2. board'[At] = board[At] /\ deleted' = deleted /\ lost' >= lost
    BY <1>1, <1>3, <1>4
  <2>3. QED
    BY <1>1, <2>1, <2>2, OtherBoardChanges DEF PostVanishes
<1>5. CASE c = At
  <2> DEFINE posts == board[c]
             after == RemoveAt(posts, n)
  <2>1. posts \in Seq(Posts) /\ board'[c] = after /\ At' = c /\ At = c /\ board[At] = posts /\ n \in 1 .. Len(posts)
    BY <1>1, <1>2, <1>3, <1>5 DEF At
  <2>2. /\ after \in Seq(Posts) /\ Len(after) = Len(posts) - 1 /\ Len(posts) \in Nat
        /\ \A k \in 1 .. Len(after) : after[k] = IF k < n THEN posts[k] ELSE posts[k + 1]
    BY <2>1, VanishingIs
  <2> HIDE DEF posts, after
  <2>3. \A k \in 1 .. Len(after) : \E m \in 1 .. Len(posts) : after[k] = posts[m] /\ k <= m
    <3>1. SUFFICES ASSUME NEW k \in 1 .. Len(after) PROVE \E m \in 1 .. Len(posts) : after[k] = posts[m] /\ k <= m
      OBVIOUS
    <3>2. CASE k < n
      BY <2>2, <3>2
    <3>3. CASE ~(k < n)
      <4>1. k + 1 \in 1 .. Len(posts) /\ after[k] = posts[k + 1] /\ k <= k + 1
        BY <2>2, <3>3
      <4>2. QED
        BY <4>1
    <3>4. QED
      BY <3>2, <3>3
  <2>4. ToSet(after) \subseteq ToSet(posts)
    <3>1. DOMAIN after = 1 .. Len(after) /\ DOMAIN posts = 1 .. Len(posts)
      BY <2>1, <2>2, LenProperties
    <3>2. QED
      BY <2>3, <3>1 DEF ToSet
  <2>5. /\ Posts \subseteq Nat \ {0} /\ ToSet(queue) \subseteq Posts /\ goal \subseteq Posts
        /\ \A s \in signatures : s[1] \in Posts
    BY <1>1, SignaturesAreOfPosts DEF NaverTypes
  <2>6. MetAreOld'
    <3>1. Len(after) + lost' = Len(posts) + lost
      BY <1>1, <1>3, <2>2
    <3>2. crawlAt # "off" =>
            /\ \A y \in goal : y <= Len(posts) + lost
            /\ \A y \in ToSet(queue) : y <= Len(posts) + lost
            /\ \A s \in signatures : s[1] <= Len(posts) + lost
            /\ \A y \in Posts : <<c, y>> \in knownIds => y <= Len(posts) + lost
      BY <2>1 DEF NaverInv, MetAreOld
    <3>3. QED
      BY <1>2, <2>1, <3>1, <3>2 DEF MetAreOld
  <2>7. CategoriesMet'
    BY <1>2 DEF NaverInv, CategoriesMet
  <2>8. PlacesMet'
    <3>1. SUFFICES ASSUME crawlAt \in {"list", "page"}, NEW k \in 1 .. Len(after)
                   PROVE  /\ <<c, after[k]>> \in knownIds => k <= Walked + arrived
                          /\ \A s \in signatures : s[1] = after[k] => k + PageSize <= Walked + 1 + arrived
                          /\ crawlAt = "page" /\ after[k] \in ToSet(queue) => k <= Walked + arrived
      BY <1>2, <2>1 DEF PlacesMet, Walked
    <3>2. Walked \in Nat
      <4>1. page - 1 \in Nat /\ page \in Nat
        BY <1>3
      <4>2. QED
        BY <4>1, TimesOrdered DEF Walked
    <3>3. PICK m \in 1 .. Len(posts) : after[k] = posts[m] /\ k <= m
      BY <2>3
    <3>4. /\ <<c, posts[m]>> \in knownIds => m <= Walked + arrived
          /\ \A s \in signatures : s[1] = posts[m] => m + PageSize <= Walked + 1 + arrived
          /\ crawlAt = "page" /\ posts[m] \in ToSet(queue) => m <= Walked + arrived
      BY <2>1, <3>1 DEF NaverInv, PlacesMet
    <3>5. /\ m <= Walked + arrived => k <= Walked + arrived
          /\ m + PageSize <= Walked + 1 + arrived => k + PageSize <= Walked + 1 + arrived
      BY <1>3, <2>2, <3>2, <3>3, PageSizeIs
    <3>6. QED
      BY <3>3, <3>4, <3>5
  <2>9. ASSUME NEW p \in Nat \ {0}, NEW want, NEW got
        PROVE  /\ Cardinality(Left(after, p, want, got)) <= Cardinality(Left(posts, p, want, got)) + 1
               /\ Cardinality(Unmet(after, want, got)) <= Cardinality(Unmet(posts, want, got))
               /\ Cardinality(Left(after, p, want, got)) \in Nat /\ Cardinality(Left(posts, p, want, got)) \in Nat
               /\ Cardinality(Unmet(after, want, got)) \in Nat /\ Cardinality(Unmet(posts, want, got)) \in Nat
    <3>1. /\ Cardinality(Left(after, p, want, got)) <= Cardinality(Left(posts, p, want, got)) + 1
          /\ Cardinality(Left(after, p, want, got)) \in Nat
      BY <2>1, LeftVanishes DEF after
    <3>2. Unmet(after, want, got) \subseteq Unmet(posts, want, got)
      BY <2>4 DEF Unmet
    <3>3. Left(posts, p, want, got) \subseteq Posts /\ Unmet(posts, want, got) \subseteq Posts
      BY <2>1, BeforeIsPosted DEF Left, Unmet
    <3>4. QED
      BY <3>1, <3>2, <3>3, PostsAreFew
  <2>10. page + 1 \in Nat \ {0}
    BY <1>3
  <2>11. crawlAt # "off" => deleted' = deleted + 1
    BY <1>1, <1>5
  <2>12. Covered'
    <3>1. ASSUME crawlAt = "list"
          PROVE  Cardinality(Left(after, page, goal, GotOf(c, handled))) <= deleted'
      <4>1. Cardinality(Left(posts, page, goal, GotOf(c, handled))) <= deleted
        BY <2>1, <3>1 DEF NaverInv, Covered
      <4>2. QED
        BY <1>3, <2>9, <2>11, <3>1, <4>1
    <3>2. ASSUME crawlAt = "page"
          PROVE  /\ Cardinality(Left(after, page + 1, goal, GotOf(c, handled) \cup ToSet(queue))) <= deleted'
                 /\ Unrepeated(queue)
                 /\ Incremental /\ arrived < PageSize =>
                      \/ Cardinality(Unmet(after, goal, GotOf(c, handled) \cup ToSet(queue))) <= deleted'
                      \/ newOnPage \/ unread
                      \/ queue # <<>> /\ <<c, queue[Len(queue)]>> \notin knownIds
      <4> DEFINE got == GotOf(c, handled) \cup ToSet(queue)
      <4>1. /\ Cardinality(Left(posts, page + 1, goal, got)) <= deleted
            /\ Unrepeated(queue)
            /\ Incremental /\ arrived < PageSize =>
                 \/ Cardinality(Unmet(posts, goal, got)) <= deleted
                 \/ newOnPage \/ unread
                 \/ queue # <<>> /\ <<c, queue[Len(queue)]>> \notin knownIds
        BY <2>1, <3>2 DEF NaverInv, Covered
      <4> HIDE DEF got
      <4>2. /\ Cardinality(Left(after, page + 1, goal, got)) <= deleted'
            /\ Cardinality(Unmet(posts, goal, got)) <= deleted => Cardinality(Unmet(after, goal, got)) <= deleted'
        <5>1. /\ Cardinality(Left(after, page + 1, goal, got)) <= Cardinality(Left(posts, page + 1, goal, got)) + 1
              /\ Cardinality(Unmet(after, goal, got)) <= Cardinality(Unmet(posts, goal, got))
              /\ Cardinality(Left(after, page + 1, goal, got)) \in Nat
              /\ Cardinality(Left(posts, page + 1, goal, got)) \in Nat
              /\ Cardinality(Unmet(after, goal, got)) \in Nat /\ Cardinality(Unmet(posts, goal, got)) \in Nat
          BY <2>9, <2>10
        <5>2. deleted' = deleted + 1 /\ deleted \in Nat
          BY <1>3, <2>11, <3>2
        <5>3. QED
          BY <4>1, <5>1, <5>2
      <4>3. QED
        BY <4>1, <4>2 DEF got
    <3>3. Incremental' <=> Incremental
      BY <1>2 DEF Incremental
    <3>4. QED
      BY <1>2, <2>1, <3>1, <3>2, <3>3 DEF Covered
  <2>13. EndCovered'
    <3>1. SUFFICES ASSUME crawlAt = "end", endedBy # "limit", arrived < PageSize, endedBy = "known" => ~unread
                   PROVE  Cardinality(Unmet(after, goal, GotOf(c, handled))) <= deleted'
      BY <1>2, <2>1 DEF EndCovered
    <3>2. Cardinality(Unmet(posts, goal, GotOf(c, handled))) <= deleted
      BY <2>1, <3>1 DEF NaverInv, EndCovered
    <3>3. QED
      BY <1>3, <2>9, <2>10, <2>11, <3>1, <3>2
  <2>14. Behind'
    <3> DEFINE want == 1 .. FirstPosts
    <3> HIDE DEF want
    <3>1. ASSUME NEW p \in Nat \ {0}, NEW got, Cardinality(Left(posts, p, want, got)) <= lost
          PROVE  Cardinality(Left(after, p, want, got)) <= lost'
      <4>1. /\ Cardinality(Left(after, p, want, got)) <= Cardinality(Left(posts, p, want, got)) + 1
            /\ Cardinality(Left(after, p, want, got)) \in Nat /\ Cardinality(Left(posts, p, want, got)) \in Nat
        BY <2>9
      <4>2. lost' = lost + 1 /\ lost \in Nat
        BY <1>1, <1>3
      <4>3. QED
        BY <3>1, <4>1, <4>2
    <3>2. ASSUME ~Research, savedPage > 0
          PROVE  Cardinality(Left(after, savedPage, want, GotOf(c, kept))) <= lost'
      <4>1. Cardinality(Left(posts, savedPage, want, GotOf(c, kept))) <= lost /\ savedPage \in Nat \ {0}
        BY <1>3, <2>1, <3>2 DEF NaverInv, Behind, want
      <4>2. QED
        BY <3>1, <4>1
    <3>3. ASSUME ~Research, crawlAt # "off"
          PROVE  /\ resumePage <= page
                 /\ Cardinality(Left(after, page, want, GotOf(c, kept \cup handled))) <= lost'
      <4>1. /\ resumePage <= page
            /\ Cardinality(Left(posts, page, want, GotOf(c, kept \cup handled))) <= lost
        BY <2>1, <3>3 DEF NaverInv, Behind, want
      <4>2. QED
        BY <1>3, <3>1, <4>1
    <3>4. ASSUME ~Research, crawlAt = "page"
          PROVE  Cardinality(Left(after, page + 1, want, GotOf(c, kept \cup handled) \cup ToSet(queue))) <= lost'
      <4>1. Cardinality(Left(posts, page + 1, want, GotOf(c, kept \cup handled) \cup ToSet(queue))) <= lost
        BY <2>1, <3>4 DEF NaverInv, Behind, want
      <4>2. QED
        BY <2>10, <3>1, <4>1
    <3>5. Research' <=> Research
      BY <1>2 DEF Research
    <3>6. QED
      BY <1>2, <2>1, <3>2, <3>3, <3>4, <3>5 DEF Behind, want
  <2>15. QED
    BY <1>1, <2>6, <2>7, <2>8, <2>12, <2>13, <2>14 DEF NaverInv
<1>6. QED
  BY <1>4, <1>5

(* A category that is begun wants the posts from its first page on.         *)
LEMMA CategoryBegins ==
  ASSUME NaverTypes, BoardsGrow, NEW i \in 1 .. Len(Categories), ~Research => i = 1, NEW p \in Nat \ {0},
         BeginCategory(i, p), crawlAt' = "list", board' = board, lost' = lost, siteTraits' = siteTraits,
         \A x \in Posts : <<Categories[i], x>> \notin knownIds'
  PROVE  MetAreOld' /\ PlacesMet' /\ Covered' /\ EndCovered' /\ BoardsGrow'
         /\ category' = i /\ page' = p /\ queue' = <<>> /\ goal' \subseteq Posts /\ signatures' = {}
         /\ arrived' = 0 /\ deleted' = 0 /\ Boards' = Boards /\ (Research' <=> Research)
<1> DEFINE c == Categories[i]
           posts == board[c]
<1>1. /\ category' = i /\ page' = p /\ queue' = <<>> /\ signatures' = {} /\ arrived' = 0 /\ deleted' = 0
      /\ goal' = ToSet(posts) \ Before(posts, p)
  BY DEF BeginCategory
<1>2. c \in Boards
  BY CategoryIsABoard
<1>3. posts \in Seq(Posts) /\ \A n \in 1 .. Len(posts) : posts[n] <= Len(posts) + lost
  BY <1>2 DEF NaverTypes, BoardsGrow
<1>4. At' = c /\ board'[c] = posts /\ Boards' = Boards /\ (Research' <=> Research)
  BY <1>1 DEF At, Boards, Research, siteTraits
<1>5. DOMAIN posts = 1 .. Len(posts) /\ ToSet(posts) \subseteq Posts /\ Posts \subseteq Nat \ {0}
  <2>1. DOMAIN posts = 1 .. Len(posts)
    BY <1>3, LenProperties
  <2>2. QED
    BY <1>3, <2>1, BeforeIsPosted, SignaturesAreOfPosts
<1> HIDE DEF c, posts
<1>6. MetAreOld'
  <2>1. ToSet(queue') = {}
    BY <1>1 DEF ToSet
  <2>2. \A x \in ToSet(posts) : x <= Len(posts) + lost
    BY <1>3, <1>5 DEF ToSet
  <2>3. \A x \in Posts : <<c, x>> \notin knownIds'
    BY DEF c
  <2>4. QED
    BY <1>1, <1>4, <2>1, <2>2, <2>3 DEF MetAreOld
<1>7. PlacesMet'
  <2>1. \A k \in 1 .. Len(posts) : <<c, posts[k]>> \notin knownIds'
    <3>1. \A k \in 1 .. Len(posts) : posts[k] \in Posts
      BY <1>5 DEF ToSet
    <3>2. QED
      BY <3>1 DEF c
  <2>2. QED
    BY <1>1, <1>4, <2>1 DEF PlacesMet
<1>8. Covered' /\ EndCovered'
  <2>1. Left(posts, p, goal', GotOf(c, handled')) = {}
    BY <1>1 DEF Left
  <2>2. Cardinality(Left(posts, p, goal', GotOf(c, handled'))) <= 0
    BY <2>1, FS_EmptySet
  <2>3. QED
    BY <1>1, <1>4, <2>2 DEF Covered, EndCovered
<1>9. BoardsGrow'
  BY <1>4 DEF BoardsGrow
<1>10. QED
  BY <1>1, <1>4, <1>5, <1>6, <1>7, <1>8, <1>9

LEMMA BoardStarts ==
  ASSUME NaverInv, NEW limit \in PageLimits, StartBoard(limit)
  PROVE  NaverInv'
<1> DEFINE p == StartPage(savedPage)
<1>1. NaverTypes /\ BoardsGrow /\ savedPage \in Nat /\ lost \in Nat
  BY DEF NaverInv, NaverTypes
<1>2. p \in Nat \ {0} /\ savedPage <= p /\ (savedPage > 0 => p = savedPage) /\ (savedPage = 0 => p = 1)
  BY <1>1 DEF StartPage
<1>3. /\ crawlAt' = "list" /\ BeginCategory(1, p) /\ knownIds' = {} /\ resumePage' = savedPage /\ handled' = {}
      /\ siteTraits' = siteTraits /\ board' = board /\ savedPage' = savedPage /\ kept' = kept /\ lost' = lost
  BY DEF StartBoard
<1> HIDE DEF p
<1>4. 1 \in 1 .. Len(Categories)
  BY CategoryIsABoard
<1>5. /\ MetAreOld' /\ PlacesMet' /\ Covered' /\ EndCovered' /\ BoardsGrow'
      /\ category' = 1 /\ page' = p /\ queue' = <<>> /\ goal' \subseteq Posts /\ signatures' = {}
      /\ arrived' = 0 /\ deleted' = 0 /\ Boards' = Boards /\ (Research' <=> Research)
  BY <1>1, <1>2, <1>3, <1>4, CategoryBegins
<1>6. NaverTypes'
  BY <1>1, <1>2, <1>3, <1>4, <1>5 DEF NaverTypes
<1>7. CategoriesMet'
  BY <1>3 DEF CategoriesMet
<1>8. Behind'
  <2>1. SUFFICES ASSUME ~Research
                 PROVE  /\ savedPage > 0 =>
                             Cardinality(Left(board[At'], savedPage, 1 .. FirstPosts, GotOf(At', kept))) <= lost
                        /\ Cardinality(Left(board[At'], p, 1 .. FirstPosts, GotOf(At', kept \cup {}))) <= lost
    BY <1>2, <1>3, <1>5 DEF Behind
  <2>2. PICK c : c = At
    OBVIOUS
  <2>3. At' = c /\ board[c] \in Seq(Posts)
    BY <1>1, <1>5, <2>1, <2>2, AtIsABoard DEF At, NaverTypes
  <2>4. savedPage > 0 => Cardinality(Left(board[c], savedPage, 1 .. FirstPosts, GotOf(c, kept))) <= lost
    BY <2>1, <2>2 DEF NaverInv, Behind
  <2>5. kept \cup {} = kept
    OBVIOUS
  <2>6. CASE savedPage > 0
    BY <1>2, <2>3, <2>4, <2>5, <2>6
  <2>7. CASE savedPage = 0
    <3>1. p = 1 /\ 1 \in Nat \ {0} /\ 1 - 1 = 0
      BY <1>2, <2>7
    <3>2. UpTo(board[c], 1 - 1) \in Nat /\ UpTo(board[c], 1 - 1) <= 0
      <4>1. Len(board[c]) \in Nat /\ 0 * PageSize = 0
        BY <2>3, LenProperties, PageSizeIs
      <4>2. QED
        BY <4>1 DEF UpTo
    <3>3. Before(board[c], 1) = {}
      BY <3>2 DEF Before
    <3>4. Left(board[c], 1, 1 .. FirstPosts, GotOf(c, kept)) = {}
      BY <3>3 DEF Left
    <3>5. Cardinality(Left(board[c], 1, 1 .. FirstPosts, GotOf(c, kept))) <= lost
      <4>1. Cardinality({}) = 0
        BY FS_EmptySet
      <4>2. 0 <= lost
        BY <1>1
      <4> QED BY <3>4, <4>1, <4>2
    <3>6. Cardinality(Left(board[At'], p, 1 .. FirstPosts, GotOf(At', kept \cup {}))) <= lost
      BY <2>3, <2>5, <3>1, <3>5
    <3>7. ~(savedPage > 0)
      BY <2>7
    <3>8. QED
      BY <3>6, <3>7
  <2>8. QED
    BY <1>1, <2>6, <2>7
<1>9. QED
  BY <1>5, <1>6, <1>7, <1>8 DEF NaverInv

LEMMA NextBegins ==
  ASSUME NaverInv, NEW limit \in PageLimits, NextCategory(limit)
  PROVE  NaverInv'
<1> DEFINE p == StartPage(savedPage)
           i == category + 1
<1>1. NaverTypes /\ BoardsGrow /\ savedPage \in Nat /\ category \in 1 .. Len(Categories) /\ CategoriesMet
  BY DEF NaverInv, NaverTypes
<1>2. p \in Nat \ {0}
  BY <1>1 DEF StartPage
<1>3. /\ crawlAt' = "list" /\ BeginCategory(i, p) /\ knownIds' = knownIds /\ resumePage' = resumePage
      /\ siteTraits' = siteTraits /\ board' = board /\ savedPage' = savedPage /\ lost' = lost
      /\ Research /\ category < Len(Categories)
  BY DEF NextCategory
<1> HIDE DEF p
<1>4. i \in 1 .. Len(Categories)
  BY <1>1, <1>3, CategoryIsABoard
<1>5. \A x \in Posts : <<Categories[i], x>> \notin knownIds'
  <2>1. SUFFICES ASSUME NEW x \in Posts, <<Categories[i], x>> \in knownIds PROVE FALSE
    BY <1>3
  <2>2. PICK j \in 1 .. category : Categories[i] = Categories[j]
    BY <1>1, <2>1 DEF CategoriesMet
  <2>3. j \in 1 .. Len(Categories) /\ j # i
    BY <1>1, CategoryIsABoard
  <2>4. QED
    BY <1>4, <2>2, <2>3, CategoryIsABoard
<1> HIDE DEF i
<1>6. /\ MetAreOld' /\ PlacesMet' /\ Covered' /\ EndCovered' /\ BoardsGrow'
      /\ category' = i /\ page' = p /\ queue' = <<>> /\ goal' \subseteq Posts /\ signatures' = {}
      /\ arrived' = 0 /\ deleted' = 0 /\ Boards' = Boards /\ (Research' <=> Research)
  BY <1>1, <1>2, <1>3, <1>4, <1>5, CategoryBegins
<1>7. NaverTypes'
  BY <1>1, <1>2, <1>3, <1>4, <1>6 DEF NaverTypes
<1>8. CategoriesMet'
  <2>1. \A j \in 1 .. category : j \in 1 .. i
    BY <1>1, CategoryIsABoard DEF i
  <2>2. QED
    BY <1>1, <1>3, <1>6, <2>1 DEF CategoriesMet
<1>9. Behind'
  BY <1>3, <1>6 DEF Behind
<1>10. QED
  BY <1>6, <1>7, <1>8, <1>9 DEF NaverInv

(* A list that is left is covered, or was left at a limit.                  *)
LEMMA ListIsLeft ==
  ASSUME NaverInv, crawlAt \in {"list", "page"}, crawlAt' = "end",
         UNCHANGED <<siteTraits, board, category, page, queue, signatures, goal, handled, lost, arrived, deleted,
           kept, savedPage, resumePage>>, unread' <=> unread,
         \A item \in knownIds' : item \in knownIds \/ \E x \in ToSet(queue) : item = <<At, x>>,
         endedBy' # "limit" /\ arrived < PageSize /\ (endedBy' = "known" => ~unread)
           => Cardinality(Unmet(board[At], goal, GotOf(At, handled))) <= deleted
  PROVE  NaverInv'
<1>1. PICK c : c = At
  OBVIOUS
<1>2. /\ board' = board /\ category' = category /\ page' = page /\ queue' = queue /\ signatures' = signatures
      /\ goal' = goal /\ handled' = handled /\ lost' = lost /\ arrived' = arrived /\ deleted' = deleted
      /\ (unread' <=> unread) /\ kept' = kept /\ savedPage' = savedPage /\ resumePage' = resumePage
      /\ boardKind' = boardKind /\ At' = c /\ Boards' = Boards /\ (Research' <=> Research)
  BY <1>1 DEF siteTraits, At, Boards, Research
<1>3. NaverTypes' /\ BoardsGrow'
  BY <1>2 DEF NaverInv, NaverTypes, BoardsGrow
<1>4. MetAreOld'
  <2>1. /\ \A x \in goal : x <= Len(board[c]) + lost
        /\ \A x \in ToSet(queue) : x <= Len(board[c]) + lost
        /\ \A s \in signatures : s[1] <= Len(board[c]) + lost
        /\ \A x \in Posts : <<c, x>> \in knownIds => x <= Len(board[c]) + lost
    BY <1>1 DEF NaverInv, MetAreOld
  <2>2. \A x \in Posts : <<c, x>> \in knownIds' => <<c, x>> \in knownIds \/ x \in ToSet(queue)
    BY <1>1
  <2>3. QED
    BY <1>2, <2>1, <2>2 DEF MetAreOld
<1>5. CategoriesMet'
  <2>1. SUFFICES ASSUME NEW item \in knownIds' PROVE \E i \in 1 .. category : item[1] = Categories[i]
    BY <1>2 DEF CategoriesMet
  <2>2. category \in 1 .. category /\ At = Categories[category]
    BY CategoryIsABoard DEF NaverInv, NaverTypes, At
  <2>3. QED
    BY <2>2 DEF NaverInv, CategoriesMet
<1>6. PlacesMet' /\ Covered' /\ EndCovered'
  BY <1>1, <1>2 DEF PlacesMet, Covered, EndCovered
<1>7. Behind'
  BY <1>1, <1>2 DEF NaverInv, Behind
<1>8. QED
  BY <1>3, <1>4, <1>5, <1>6, <1>7 DEF NaverInv

(* On to the next page, when this one is behind the crawl.                  *)
LEMMA PageIsTurned ==
  ASSUME NaverInv, crawlAt \in {"list", "page"}, crawlAt' = "list", page' = page + 1,
         UNCHANGED <<siteTraits, board, category, queue, signatures, knownIds, goal, handled, lost, arrived, deleted,
           unread, kept, savedPage, resumePage>>,
         Cardinality(Left(board[At], page + 1, goal, GotOf(At, handled))) <= deleted,
         ~Research => Cardinality(Left(board[At], page + 1, 1 .. FirstPosts, GotOf(At, kept \cup handled))) <= lost
  PROVE  NaverInv'
<1>1. PICK c : c = At
  OBVIOUS
<1>2. /\ board' = board /\ category' = category /\ queue' = queue /\ signatures' = signatures /\ knownIds' = knownIds
      /\ goal' = goal /\ handled' = handled /\ lost' = lost /\ arrived' = arrived /\ deleted' = deleted
      /\ unread' = unread /\ kept' = kept /\ savedPage' = savedPage /\ resumePage' = resumePage
      /\ boardKind' = boardKind /\ At' = c /\ Boards' = Boards /\ (Research' <=> Research)
  BY <1>1 DEF siteTraits, At, Boards, Research
<1>3. page \in Nat \ {0} /\ page' \in Nat \ {0} /\ page' - 1 = page /\ resumePage \in Nat /\ arrived \in Nat
  BY DEF NaverInv, NaverTypes
<1>4. NaverTypes' /\ BoardsGrow' /\ MetAreOld' /\ CategoriesMet'
  BY <1>1, <1>2, <1>3 DEF NaverInv, NaverTypes, BoardsGrow, MetAreOld, CategoriesMet
<1>5. PlacesMet'
  <2> DEFINE was == Walked
             after == page * PageSize
  <2>1. Walked' = after
    BY <1>3 DEF Walked
  <2>2. was <= after /\ was \in Nat /\ after \in Nat
    <3>1. page - 1 \in Nat /\ page \in Nat /\ page - 1 <= page /\ page <= page
      BY <1>3
    <3>2. QED
      BY <3>1, TimesOrdered DEF Walked
  <2>3. \A k \in 1 .. Len(board[c]) :
          /\ <<c, board[c][k]>> \in knownIds => k <= was + arrived
          /\ \A s \in signatures : s[1] = board[c][k] => k + PageSize <= was + 1 + arrived
    BY <1>1 DEF NaverInv, PlacesMet
  <2> HIDE DEF was, after
  <2>4. \A k \in Int : (k <= was + arrived => k <= after + arrived)
          /\ (k + PageSize <= was + 1 + arrived => k + PageSize <= after + 1 + arrived)
    BY <1>3, <2>2, PageSizeIs
  <2>5. \A k \in 1 .. Len(board[c]) : k \in Int
    OBVIOUS
  <2>6. \A k \in 1 .. Len(board[c]) :
          /\ <<c, board[c][k]>> \in knownIds => k <= after + arrived
          /\ \A s \in signatures : s[1] = board[c][k] => k + PageSize <= after + 1 + arrived
    BY <2>3, <2>4, <2>5
  <2>7. QED
    BY <1>2, <2>1, <2>6 DEF PlacesMet
<1>6. Covered' /\ EndCovered'
  BY <1>1, <1>2 DEF Covered, EndCovered
<1>7. Behind'
  <2>1. resumePage <= page => resumePage <= page'
    BY <1>3
  <2>2. QED
    BY <1>1, <1>2, <2>1 DEF NaverInv, Behind
<1>8. QED
  BY <1>4, <1>5, <1>6, <1>7 DEF NaverInv

LEMMA EmptyListKeeps ==
  ASSUME NaverInv, EmptyList
  PROVE  NaverInv'
<1>1. /\ crawlAt = "list" /\ Shown(At, page) = <<>>
      /\ UNCHANGED <<siteTraits, board, category, signatures, knownIds, queue, resumePage, savedPage, handled, kept,
           goal, arrived, deleted, lost, unread>>
      /\ Leave("limit") \/ Leave("empty") \/ (TurnPage /\ Research)
  BY DEF EmptyList, ghosts
<1>2. /\ NaverTypes /\ At \in Boards /\ board[At] \in Seq(Posts) /\ page \in Nat \ {0}
      /\ Cardinality(Left(board[At], page, goal, GotOf(At, handled))) <= deleted
  BY <1>1, AtIsABoard DEF NaverInv, NaverTypes, Covered
<1>3. Before(board[At], page) = ToSet(board[At])
  <2>1. PICK q \in Nat \ {0} : ShownFor(Shown(At, page), board[At], page, q)
    BY <1>2, ShownIsAPage
  <2>2. QED
    BY <1>1, <1>2, <2>1, PastTheEnd
<1>4. CASE Leave("limit") \/ Leave("empty")
  <2>1. Unmet(board[At], goal, GotOf(At, handled)) = Left(board[At], page, goal, GotOf(At, handled))
    BY <1>3 DEF Unmet, Left
  <2>2. crawlAt' = "end" /\ page' = page
    BY <1>4 DEF Leave
  <2>3. QED
    BY <1>1, <1>2, <2>1, <2>2, ListIsLeft
<1>5. CASE TurnPage /\ Research
  <2>1. page + 1 \in Nat \ {0} /\ page <= page + 1
    BY <1>2
  <2>2. Before(board[At], page + 1) = Before(board[At], page)
    <3>1. Before(board[At], page + 1) \subseteq ToSet(board[At])
      BY <1>2, <2>1, BeforeIsPosted
    <3>2. Before(board[At], page) \subseteq Before(board[At], page + 1)
      BY <1>2, <2>1, BeforeOrdered
    <3>3. QED
      BY <1>3, <3>1, <3>2
  <2>3. Left(board[At], page + 1, goal, GotOf(At, handled)) = Left(board[At], page, goal, GotOf(At, handled))
    BY <2>2 DEF Left
  <2>4. crawlAt' = "list" /\ page' = page + 1
    BY <1>5 DEF TurnPage, PageAfter
  <2>5. QED
    BY <1>1, <1>2, <1>5, <2>3, <2>4, PageIsTurned
<1>6. QED
  BY <1>1, <1>4, <1>5

LEMMA FetchListKeeps ==
  ASSUME NaverInv, FetchList
  PROVE  NaverInv'
<1> DEFINE shown == Shown(At, page)
<1>1. PICK c : c = At
  OBVIOUS
<1>2. PICK posts : posts = board[c]
  OBVIOUS
<1>3. /\ crawlAt = "list" /\ shown # <<>>
      /\ UNCHANGED <<siteTraits, board, category, knownIds, resumePage, savedPage, handled, kept, goal, arrived,
           deleted, lost, unread>>
      /\ \/ Leave("repeated") /\ UNCHANGED <<signatures, queue>> /\ shown \in signatures
         \/ /\ crawlAt' = "page" /\ queue' = shown /\ newOnPage' = FALSE
            /\ signatures' \subseteq signatures \cup {shown} /\ UNCHANGED <<endedBy, page>>
  BY DEF FetchList, ghosts, Repeated
<1>4. /\ NaverTypes /\ posts \in Seq(Posts) /\ Unrepeated(posts) /\ page \in Nat \ {0} /\ deleted \in Nat
      /\ arrived \in Nat /\ lost \in Nat
      /\ \A n \in 1 .. Len(posts) : posts[n] <= Len(posts) + lost
      /\ Cardinality(Left(posts, page, goal, GotOf(c, handled))) <= deleted
  BY <1>1, <1>2, <1>3, AtIsABoard DEF NaverInv, NaverTypes, Covered, BoardsGrow
<1>5. PICK q \in Nat \ {0} : ShownFor(shown, posts, page, q)
  BY <1>1, <1>2, <1>4, ShownIsAPage
<1>6. \A k \in 1 .. Len(posts) :
        /\ <<c, posts[k]>> \in knownIds => k <= (page - 1) * PageSize + arrived
        /\ \A s \in signatures : s[1] = posts[k] => k + PageSize <= (page - 1) * PageSize + 1 + arrived
  BY <1>1, <1>2, <1>3 DEF NaverInv, PlacesMet, Walked
<1>7. (page - 1) * PageSize \in Nat /\ page * PageSize = (page - 1) * PageSize + PageSize /\ Len(posts) \in Nat
  BY <1>4, PageEdges
<1> DEFINE a == (page - 1) * PageSize
           b == page * PageSize
<1> HIDE DEF shown
<1>8. CASE Leave("repeated") /\ UNCHANGED <<signatures, queue>> /\ shown \in signatures
  <2>1. crawlAt' = "end" /\ page' = page
    BY <1>8 DEF Leave
  <2>2. ASSUME arrived < PageSize PROVE Cardinality(Unmet(posts, goal, GotOf(c, handled))) <= deleted
    <3>1. CASE q # page
      <4>1. Before(posts, page) = ToSet(posts)
        BY <1>4, <1>5, <3>1, PastTheEnd
      <4>2. Unmet(posts, goal, GotOf(c, handled)) = Left(posts, page, goal, GotOf(c, handled))
        BY <4>1 DEF Unmet, Left
      <4>3. QED
        BY <1>4, <4>2
    <3>2. CASE q = page
      <4>1. PICK k \in 1 .. Len(posts) : posts[k] = shown[1] /\ k = a + 1
        BY <1>3, <1>4, <1>5, <3>2, ShownFirst
      <4>2. k + PageSize <= a + 1 + arrived
        BY <1>6, <1>8, <4>1
      <4> HIDE DEF a
      <4>3. QED
        BY <1>4, <1>7, <2>2, <4>1, <4>2, PageSizeIs DEF a
    <3>3. QED
      BY <3>1, <3>2
  <2>3. QED
    BY <1>1, <1>2, <1>3, <1>8, <2>1, <2>2, ListIsLeft
<1>9. CASE /\ crawlAt' = "page" /\ queue' = shown /\ newOnPage' = FALSE
           /\ signatures' \subseteq signatures \cup {shown} /\ UNCHANGED <<endedBy, page>>
  <2>1. /\ board' = board /\ category' = category /\ knownIds' = knownIds /\ page' = page /\ queue' = shown
        /\ goal' = goal /\ handled' = handled /\ lost' = lost /\ arrived' = arrived /\ deleted' = deleted
        /\ unread' = unread /\ kept' = kept /\ savedPage' = savedPage /\ resumePage' = resumePage
        /\ boardKind' = boardKind /\ boardMode' = boardMode /\ At' = c /\ Boards' = Boards
        /\ (Research' <=> Research) /\ newOnPage' = FALSE /\ crawlAt' = "page" /\ (Incremental' <=> Incremental)
    BY <1>1, <1>3, <1>9 DEF siteTraits, At, Boards, Research, Incremental
  <2>2. /\ shown \in Seq(Posts) /\ Unrepeated(shown)
        /\ Before(posts, page + 1) \subseteq Before(posts, page) \cup ToSet(shown)
        /\ ToSet(shown) \subseteq ToSet(posts)
        /\ \A k \in 1 .. Len(posts) : posts[k] \in ToSet(shown) => k <= b
    BY <1>4, <1>5, ShownFacts
  <2>3. \A k \in 1 .. Len(posts) : posts[k] = shown[1] => k + PageSize <= b + 1
    BY <1>3, <1>4, <1>5, ShownFirst
  <2>4. /\ ToSet(shown) \subseteq Posts /\ shown[1] \in ToSet(shown) /\ Posts \subseteq Nat \ {0}
    <3>1. Len(shown) \in Nat \ {0} /\ DOMAIN shown = 1 .. Len(shown)
      BY <1>3, <2>2, EmptySeq, LenProperties
    <3>2. shown[1] \in ToSet(shown)
      BY <3>1 DEF ToSet
    <3>3. QED
      BY <1>4, <2>2, <3>2, BeforeIsPosted, SignaturesAreOfPosts
  <2>5. NaverTypes'
    BY <1>3, <1>4, <1>9, <2>1, <2>2 DEF NaverTypes
  <2>6. BoardsGrow' /\ CategoriesMet'
    BY <2>1 DEF NaverInv, BoardsGrow, CategoriesMet
  <2>7. MetAreOld'
    <3>1. \A x \in ToSet(posts) : x <= Len(posts) + lost
      <4>1. DOMAIN posts = 1 .. Len(posts)
        BY <1>4, LenProperties
      <4>2. QED
        BY <1>4, <4>1 DEF ToSet
    <3>2. /\ \A x \in goal : x <= Len(posts) + lost
          /\ \A s \in signatures : s[1] <= Len(posts) + lost
          /\ \A x \in Posts : <<c, x>> \in knownIds => x <= Len(posts) + lost
      BY <1>1, <1>2, <1>3 DEF NaverInv, MetAreOld
    <3>3. \A s \in signatures' : s[1] <= Len(posts) + lost
      BY <1>9, <2>2, <2>4, <3>1, <3>2
    <3>4. \A x \in ToSet(shown) : x <= Len(posts) + lost
      BY <2>2, <3>1
    <3>5. QED
      BY <1>2, <2>1, <3>2, <3>3, <3>4 DEF MetAreOld
  <2>8. PlacesMet'
    <3>1. SUFFICES ASSUME NEW k \in 1 .. Len(posts)
                   PROVE  /\ <<c, posts[k]>> \in knownIds => k <= b + arrived
                          /\ \A s \in signatures' : s[1] = posts[k] => k + PageSize <= b + 1 + arrived
                          /\ posts[k] \in ToSet(shown) => k <= b + arrived
      BY <1>2, <2>1 DEF PlacesMet, Walked
    <3>2. a \in Nat /\ b = a + PageSize
      BY <1>7
    <3>3. /\ <<c, posts[k]>> \in knownIds => k <= a + arrived
          /\ \A s \in signatures : s[1] = posts[k] => k + PageSize <= a + 1 + arrived
          /\ posts[k] = shown[1] => k + PageSize <= b + 1
          /\ posts[k] \in ToSet(shown) => k <= b
      BY <1>6, <2>2, <2>3
    <3> HIDE DEF a, b
    <3>4. /\ k <= a + arrived => k <= b + arrived
          /\ k + PageSize <= a + 1 + arrived => k + PageSize <= b + 1 + arrived
          /\ k + PageSize <= b + 1 => k + PageSize <= b + 1 + arrived
          /\ k <= b => k <= b + arrived
      BY <1>4, <1>7, <3>2, PageSizeIs
    <3>5. QED
      BY <1>9, <3>3, <3>4
  <2> DEFINE got == GotOf(c, handled)
  <2>9. ASSUME NEW want, NEW met, NEW n \in Nat, Cardinality(Left(posts, page, want, met)) <= n
        PROVE  /\ Cardinality(Left(posts, page + 1, want, met \cup ToSet(shown))) <= n
               /\ ToSet(posts) \subseteq Before(posts, page) \cup ToSet(shown) =>
                    Cardinality(Unmet(posts, want, met \cup ToSet(shown))) <= n
    <3>1. Left(posts, page, want, met) \subseteq Posts
      BY <1>4, BeforeIsPosted DEF Left
    <3>2. Left(posts, page + 1, want, met \cup ToSet(shown)) \subseteq Left(posts, page, want, met)
      BY <2>2 DEF Left
    <3>3. ToSet(posts) \subseteq Before(posts, page) \cup ToSet(shown) =>
            Unmet(posts, want, met \cup ToSet(shown)) \subseteq Left(posts, page, want, met)
      BY DEF Left, Unmet
    <3>4. \A A : A \subseteq Left(posts, page, want, met) =>
            Cardinality(A) \in Nat /\ Cardinality(A) <= Cardinality(Left(posts, page, want, met))
            /\ Cardinality(Left(posts, page, want, met)) \in Nat
      BY <3>1, PostsAreFew
    <3>5. \A A : A \subseteq Left(posts, page, want, met) => Cardinality(A) <= n
      BY <2>9, <3>4
    <3>6. QED
      BY <3>2, <3>3, <3>5
  <2>10. Covered'
    <3>1. Cardinality(Left(posts, page + 1, goal, got \cup ToSet(shown))) <= deleted
      BY <1>4, <2>9
    <3>2. ASSUME arrived < PageSize
          PROVE  \/ Cardinality(Unmet(posts, goal, got \cup ToSet(shown))) <= deleted
                 \/ <<c, shown[Len(shown)]>> \notin knownIds
      <4>1. CASE ToSet(posts) \subseteq Before(posts, page) \cup ToSet(shown)
        BY <1>4, <2>9, <4>1
      <4>2. CASE ~(ToSet(posts) \subseteq Before(posts, page) \cup ToSet(shown))
        <5>1. PICK k \in 1 .. Len(posts) : posts[k] = shown[Len(shown)] /\ k = b
          BY <1>3, <1>4, <1>5, <4>2, ShownLast
        <5>2. a \in Nat /\ b = a + PageSize
          BY <1>7
        <5>3. <<c, posts[k]>> \in knownIds => k <= a + arrived
          BY <1>6
        <5> HIDE DEF a, b
        <5>4. ~(k <= a + arrived)
          BY <1>4, <3>2, <5>1, <5>2, PageSizeIs
        <5>5. QED
          BY <5>1, <5>3, <5>4
      <4>3. QED
        BY <4>1, <4>2
    <3>3. QED
      BY <1>2, <1>3, <2>1, <2>2, <3>1, <3>2 DEF Covered
  <2>11. EndCovered'
    BY <2>1 DEF EndCovered
  <2>12. Behind'
    <3>1. ~Research =>
            /\ savedPage > 0 => Cardinality(Left(posts, savedPage, 1 .. FirstPosts, GotOf(c, kept))) <= lost
            /\ resumePage <= page
            /\ Cardinality(Left(posts, page, 1 .. FirstPosts, GotOf(c, kept \cup handled))) <= lost
      BY <1>1, <1>2, <1>3 DEF NaverInv, Behind
    <3>2. ~Research =>
            Cardinality(Left(posts, page + 1, 1 .. FirstPosts, GotOf(c, kept \cup handled) \cup ToSet(shown))) <= lost
      BY <1>4, <2>9, <3>1
    <3>3. QED
      BY <1>2, <2>1, <3>1, <3>2 DEF Behind
  <2>13. QED
    BY <2>5, <2>6, <2>7, <2>8, <2>10, <2>11, <2>12 DEF NaverInv
<1>10. QED
  BY <1>3, <1>8, <1>9

(* The items of a page are taken from its head.                             *)
LEMMA HeadIsTaken ==
  ASSUME NEW S, NEW q \in Seq(S), q # <<>>
  PROVE  /\ Head(q) \in S /\ Tail(q) \in Seq(S) /\ Len(q) \in Nat \ {0} /\ Head(q) = q[1]
         /\ ToSet(q) = {Head(q)} \cup ToSet(Tail(q))
         /\ Unrepeated(q) => Unrepeated(Tail(q))
         /\ Tail(q) = <<>> => Len(q) = 1
         /\ Tail(q) # <<>> => Tail(q)[Len(Tail(q))] = q[Len(q)]
         /\ Tail(q) # <<>> /\ Unrepeated(q) => q[Len(q)] # Head(q)
<1> DEFINE t == Tail(q)
<1>1. /\ Head(q) \in S /\ t \in Seq(S) /\ Len(t) = Len(q) - 1 /\ Head(q) = q[1]
      /\ \A i \in 1 .. Len(t) : t[i] = q[i + 1]
  BY HeadTailProperties
<1>2. /\ Len(q) \in Nat \ {0} /\ DOMAIN q = 1 .. Len(q)
  BY EmptySeq, LenProperties
<1>3. Len(t) \in Nat /\ DOMAIN t = 1 .. Len(t) /\ (t = <<>> <=> Len(t) = 0)
  BY <1>1, EmptySeq, LenProperties
<1> HIDE DEF t
<1>4. ToSet(q) = {Head(q)} \cup ToSet(t)
  <2>1. ASSUME NEW i \in 1 .. Len(q) PROVE q[i] \in {Head(q)} \cup ToSet(t)
    <3>1. CASE i = 1
      BY <1>1, <3>1
    <3>2. CASE i # 1
      <4>1. i - 1 \in 1 .. Len(t) /\ (i - 1) + 1 = i
        BY <1>1, <1>2, <3>2
      <4>2. q[i] = t[i - 1]
        BY <1>1, <4>1
      <4>3. QED
        BY <1>3, <4>1, <4>2 DEF ToSet
    <3>3. QED
      BY <3>1, <3>2
  <2>2. ASSUME NEW i \in 1 .. Len(t) PROVE t[i] \in ToSet(q)
    <3>1. i + 1 \in 1 .. Len(q)
      BY <1>1, <1>2, <1>3
    <3>2. QED
      BY <1>1, <1>2, <3>1 DEF ToSet
  <2>3. Head(q) \in ToSet(q)
    BY <1>1, <1>2 DEF ToSet
  <2>4. QED
    BY <1>2, <1>3, <2>1, <2>2, <2>3 DEF ToSet
<1>5. ASSUME Unrepeated(q) PROVE Unrepeated(t)
  <2>1. SUFFICES ASSUME NEW i \in 1 .. Len(t), NEW j \in 1 .. Len(t), t[i] = t[j] PROVE i = j
    BY DEF Unrepeated
  <2>2. i + 1 \in 1 .. Len(q) /\ j + 1 \in 1 .. Len(q) /\ q[i + 1] = q[j + 1]
    BY <1>1, <1>2, <1>3, <2>1
  <2>3. i + 1 = j + 1
    BY <1>5, <2>2 DEF Unrepeated
  <2>4. QED
    BY <2>3
<1>6. t = <<>> => Len(q) = 1
  BY <1>1, <1>2, <1>3
<1>7. ASSUME t # <<>> PROVE t[Len(t)] = q[Len(q)] /\ (Unrepeated(q) => q[Len(q)] # Head(q))
  <2>1. Len(t) \in 1 .. Len(t) /\ Len(t) + 1 = Len(q) /\ Len(q) # 1 /\ Len(q) \in 1 .. Len(q) /\ 1 \in 1 .. Len(q)
    BY <1>1, <1>2, <1>3, <1>7
  <2>2. t[Len(t)] = q[Len(q)]
    BY <1>1, <2>1
  <2>3. QED
    BY <1>1, <2>1, <2>2 DEF Unrepeated
<1>8. QED
  BY <1>1, <1>2, <1>4, <1>5, <1>6, <1>7 DEF t

LEMMA ItemKeeps ==
  ASSUME NaverInv, NEW o \in {"yielded", "known", "skipped"}, TakeItem(o)
  PROVE  NaverInv'
<1> DEFINE x == Head(queue)
           rest == Tail(queue)
<1>1. PICK c : c = At
  OBVIOUS
<1>2. PICK posts : posts = board[c]
  OBVIOUS
<1>3. /\ crawlAt = "page" /\ queue # <<>> /\ ((o = "known") = (Incremental /\ <<c, x>> \in knownIds))
      /\ \A item \in knownIds' : item \in knownIds \/ item = <<c, x>>
      /\ UNCHANGED <<siteTraits, board, category, signatures, savedPage, kept, goal, arrived, deleted, lost>>
      /\ unread' = (unread \/ (boardKind = "news" /\ o = "skipped"))
  BY <1>1 DEF TakeItem, ghosts, runCounts, Met, Item
<1>4. \/ /\ Leave("limit") /\ UNCHANGED <<queue, handled, resumePage>>
         /\ boardKind = "attachment" /\ o = "yielded"
      \/ /\ queue' = rest /\ handled' = handled \cup {<<c, x>>}
         /\ resumePage' \in {page, resumePage}
         /\ newOnPage' = (newOnPage \/ CountsAsNew(o))
         /\ UNCHANGED <<crawlAt, endedBy, page>>
  BY <1>1 DEF TakeItem, Item
<1>5. /\ NaverTypes /\ posts \in Seq(Posts) /\ queue \in Seq(Posts) /\ c \in Boards /\ page \in Nat \ {0}
      /\ category \in 1 .. Len(Categories) /\ c = Categories[category]
  BY <1>1, <1>2, AtIsABoard DEF NaverInv, NaverTypes, At
<1>6. /\ x \in Posts /\ rest \in Seq(Posts) /\ ToSet(queue) = {x} \cup ToSet(rest)
      /\ x \in ToSet(queue) /\ \A y \in ToSet(rest) : y \in ToSet(queue)
  BY <1>3, <1>5, HeadIsTaken
<1>7. CASE /\ Leave("limit") /\ UNCHANGED <<queue, handled, resumePage>>
           /\ boardKind = "attachment" /\ o = "yielded"
  <2>1. crawlAt' = "end" /\ endedBy' = "limit" /\ page' = page /\ (unread' <=> unread)
    BY <1>3, <1>7 DEF Leave
  <2>2. \A item \in knownIds' : item \in knownIds \/ \E y \in ToSet(queue) : item = <<At, y>>
    BY <1>1, <1>3, <1>6
  <2>3. QED
    BY <1>3, <1>7, <2>1, <2>2, ListIsLeft
<1> HIDE DEF x, rest
<1>8. CASE /\ queue' = rest /\ handled' = handled \cup {<<c, x>>}
           /\ resumePage' \in {page, resumePage}
           /\ newOnPage' = (newOnPage \/ CountsAsNew(o))
           /\ UNCHANGED <<crawlAt, endedBy, page>>
  <2>1. /\ board' = board /\ category' = category /\ page' = page /\ signatures' = signatures /\ goal' = goal
        /\ lost' = lost /\ arrived' = arrived /\ deleted' = deleted /\ kept' = kept /\ savedPage' = savedPage
        /\ boardKind' = boardKind /\ boardMode' = boardMode /\ At' = c /\ Boards' = Boards /\ crawlAt' = crawlAt
        /\ (Research' <=> Research) /\ (Incremental' <=> Incremental) /\ Walked' = Walked
    BY <1>1, <1>3, <1>8 DEF siteTraits, At, Boards, Research, Incremental, Walked
  <2>2. resumePage' \in Nat
    BY <1>8 DEF NaverInv, NaverTypes
  <2>3. NaverTypes'
    BY <1>5, <1>6, <1>8, <2>1, <2>2 DEF NaverTypes
  <2>4. BoardsGrow'
    BY <2>1 DEF NaverInv, BoardsGrow
  <2>5. MetAreOld'
    <3>1. /\ \A y \in goal : y <= Len(posts) + lost
          /\ \A y \in ToSet(queue) : y <= Len(posts) + lost
          /\ \A s \in signatures : s[1] <= Len(posts) + lost
          /\ \A y \in Posts : <<c, y>> \in knownIds => y <= Len(posts) + lost
      BY <1>1, <1>2, <1>3 DEF NaverInv, MetAreOld
    <3>2. \A y \in Posts : <<c, y>> \in knownIds' => <<c, y>> \in knownIds \/ y = x
      BY <1>3
    <3>3. \A y \in Posts : <<c, y>> \in knownIds' => y <= Len(posts) + lost
      BY <1>6, <3>1, <3>2
    <3>4. \A y \in ToSet(rest) : y <= Len(posts) + lost
      BY <1>6, <3>1
    <3>5. QED
      BY <1>2, <1>8, <2>1, <3>1, <3>3, <3>4 DEF MetAreOld
  <2>6. CategoriesMet'
    <3>1. \A item \in knownIds : \E i \in 1 .. category : item[1] = Categories[i]
      BY DEF NaverInv, CategoriesMet
    <3>2. category \in 1 .. category /\ <<c, x>>[1] = Categories[category]
      BY <1>5, CategoryIsABoard
    <3>3. QED
      BY <1>3, <2>1, <3>1, <3>2 DEF CategoriesMet
  <2>7. PlacesMet'
    <3>1. \A k \in 1 .. Len(posts) :
            /\ <<c, posts[k]>> \in knownIds => k <= Walked + arrived
            /\ \A s \in signatures : s[1] = posts[k] => k + PageSize <= Walked + 1 + arrived
            /\ posts[k] \in ToSet(queue) => k <= Walked + arrived
      BY <1>1, <1>2, <1>3 DEF NaverInv, PlacesMet
    <3>2. \A k \in 1 .. Len(posts) :
            /\ <<c, posts[k]>> \in knownIds' => <<c, posts[k]>> \in knownIds \/ posts[k] = x
            /\ posts[k] \in ToSet(rest) => posts[k] \in ToSet(queue)
      BY <1>3, <1>6
    <3>3. \A k \in 1 .. Len(posts) :
            /\ <<c, posts[k]>> \in knownIds' => k <= Walked + arrived
            /\ \A s \in signatures : s[1] = posts[k] => k + PageSize <= Walked + 1 + arrived
            /\ posts[k] \in ToSet(rest) => k <= Walked + arrived
      BY <1>6, <3>1, <3>2
    <3>4. QED
      BY <1>2, <1>8, <2>1, <3>3 DEF PlacesMet
  <2> DEFINE got == GotOf(c, handled) \cup ToSet(queue)
  <2>8. GotOf(c, handled') \cup ToSet(rest) = got
    BY <1>6, <1>8 DEF GotOf
  <2>9. Covered'
    <3>1. /\ Cardinality(Left(posts, page + 1, goal, got)) <= deleted /\ Unrepeated(queue)
          /\ Incremental /\ arrived < PageSize =>
               \/ Cardinality(Unmet(posts, goal, got)) <= deleted
               \/ newOnPage \/ unread
               \/ <<c, queue[Len(queue)]>> \notin knownIds
      BY <1>1, <1>2, <1>3 DEF NaverInv, Covered
    <3>2. Unrepeated(rest)
      BY <1>3, <1>5, <3>1, HeadIsTaken DEF rest
    <3>3. ASSUME Incremental, <<c, queue[Len(queue)]>> \notin knownIds
          PROVE  \/ newOnPage' \/ unread'
                 \/ rest # <<>> /\ <<c, rest[Len(rest)]>> \notin knownIds'
      <4>1. CASE rest = <<>>
        <5>1. queue[Len(queue)] = x
          BY <1>3, <1>5, <4>1, HeadIsTaken DEF rest, x
        <5>2. o # "known"
          BY <1>3, <3>3, <5>1
        <5>3. QED
          BY <1>3, <1>8, <5>2 DEF CountsAsNew
      <4>2. CASE rest # <<>>
        <5>1. rest[Len(rest)] = queue[Len(queue)] /\ queue[Len(queue)] # x
          BY <1>3, <1>5, <3>1, <4>2, HeadIsTaken DEF rest, x
        <5>2. <<c, rest[Len(rest)]>> # <<c, x>>
          BY <5>1
        <5>3. QED
          BY <1>3, <3>3, <4>2, <5>1, <5>2
      <4>3. QED
        BY <4>1, <4>2
    <3>4. (newOnPage => newOnPage') /\ (unread => unread')
      BY <1>3, <1>8
    <3>5. Incremental /\ arrived < PageSize =>
             \/ Cardinality(Unmet(posts, goal, got)) <= deleted
             \/ newOnPage' \/ unread'
             \/ rest # <<>> /\ <<c, rest[Len(rest)]>> \notin knownIds'
      BY <3>1, <3>3, <3>4
    <3> HIDE DEF got
    <3>6. QED
      BY <1>2, <1>3, <1>8, <2>1, <2>8, <3>1, <3>2, <3>5 DEF Covered
  <2>10. EndCovered'
    BY <1>3, <2>1 DEF EndCovered
  <2>11. Behind'
    <3> DEFINE met == GotOf(c, kept \cup handled)
               after == GotOf(c, kept \cup handled')
    <3>1. met \subseteq after /\ after \cup ToSet(rest) = met \cup ToSet(queue)
      BY <1>6, <1>8 DEF GotOf
    <3>2. ~Research =>
            /\ savedPage > 0 => Cardinality(Left(posts, savedPage, 1 .. FirstPosts, GotOf(c, kept))) <= lost
            /\ resumePage <= page
            /\ Cardinality(Left(posts, page, 1 .. FirstPosts, met)) <= lost
            /\ Cardinality(Left(posts, page + 1, 1 .. FirstPosts, met \cup ToSet(queue))) <= lost
      BY <1>1, <1>2, <1>3 DEF NaverInv, Behind
    <3>3. Left(posts, page, 1 .. FirstPosts, after) \subseteq Left(posts, page, 1 .. FirstPosts, met)
      BY <3>1 DEF Left
    <3>4. Left(posts, page, 1 .. FirstPosts, met) \subseteq Posts
      BY <1>5, BeforeIsPosted DEF Left
    <3>5. /\ Cardinality(Left(posts, page, 1 .. FirstPosts, after)) \in Nat
          /\ Cardinality(Left(posts, page, 1 .. FirstPosts, met)) \in Nat
          /\ Cardinality(Left(posts, page, 1 .. FirstPosts, after)) <= Cardinality(Left(posts, page, 1 .. FirstPosts, met))
      BY <3>3, <3>4, PostsAreFew
    <3>6. lost \in Nat /\ (resumePage <= page => resumePage' <= page)
      BY <1>5, <1>8 DEF NaverTypes
    <3>7. Cardinality(Left(posts, page, 1 .. FirstPosts, met)) <= lost =>
            Cardinality(Left(posts, page, 1 .. FirstPosts, after)) <= lost
      BY <3>5, <3>6
    <3> HIDE DEF met
    <3>8. ~Research =>
            /\ savedPage > 0 => Cardinality(Left(posts, savedPage, 1 .. FirstPosts, GotOf(c, kept))) <= lost
            /\ resumePage' <= page
            /\ Cardinality(Left(posts, page, 1 .. FirstPosts, after)) <= lost
            /\ Cardinality(Left(posts, page + 1, 1 .. FirstPosts, after \cup ToSet(rest))) <= lost
      BY <3>1, <3>2, <3>6, <3>7
    <3>9. QED
      BY <1>2, <1>8, <2>1, <3>8 DEF Behind
  <2>12. QED
    BY <2>3, <2>4, <2>5, <2>6, <2>7, <2>9, <2>10, <2>11 DEF NaverInv
<1>9. QED
  BY <1>4, <1>7, <1>8

LEMMA PageEndKeeps ==
  ASSUME NaverInv, PageEnds
  PROVE  NaverInv'
<1> DEFINE got == GotOf(At, handled)
           met == GotOf(At, kept \cup handled)
<1>1. /\ crawlAt = "page" /\ queue = <<>>
      /\ UNCHANGED <<siteTraits, board, category, signatures, knownIds, queue, resumePage, savedPage, handled, kept,
           goal, arrived, deleted, lost, unread>>
      /\ \/ Leave("known") /\ repeatPages' = StopRepeatPages
         \/ Leave("limit")
         \/ TurnPage
      /\ repeatPages' = IF Incremental /\ ~newOnPage THEN repeatPages + 1 ELSE 0
  BY DEF PageEnds, ghosts
<1>2. ToSet(queue) = {} /\ got \cup ToSet(queue) = got /\ met \cup ToSet(queue) = met
  BY <1>1 DEF ToSet
<1>3. /\ Cardinality(Left(board[At], page + 1, goal, got)) <= deleted
      /\ Incremental /\ arrived < PageSize =>
           Cardinality(Unmet(board[At], goal, got)) <= deleted \/ newOnPage \/ unread
      /\ ~Research => Cardinality(Left(board[At], page + 1, 1 .. FirstPosts, met)) <= lost
  BY <1>1, <1>2 DEF NaverInv, Covered, Behind
<1>4. CASE Leave("limit")
  <2>1. crawlAt' = "end" /\ endedBy' = "limit" /\ page' = page
    BY <1>4 DEF Leave
  <2>2. QED
    BY <1>1, <2>1, ListIsLeft
<1>5. CASE Leave("known") /\ repeatPages' = StopRepeatPages
  <2>1. crawlAt' = "end" /\ endedBy' = "known" /\ page' = page
    BY <1>5 DEF Leave
  <2>2. Incremental /\ ~newOnPage
    BY <1>1, <1>5, NaverAssumption
  <2>3. QED
    BY <1>1, <1>3, <2>1, <2>2, ListIsLeft
<1>6. CASE TurnPage
  <2>1. crawlAt' = "list" /\ page' = page + 1
    BY <1>6 DEF TurnPage, PageAfter
  <2>2. QED
    BY <1>1, <1>3, <2>1, PageIsTurned
<1>7. QED
  BY <1>1, <1>4, <1>5, <1>6

(* Whether its checkpoint is saved or not, the crawl is over.               *)
LEMMA BoardOverKeeps ==
  ASSUME NaverInv, crawlAt # "off", CrawlOver,
         \/ savedPage' = resumePage /\ kept' = kept \cup handled
         \/ UNCHANGED <<savedPage, kept>>
  PROVE  NaverInv'
<1> DEFINE c == Head(Categories)
           posts == board[c]
<1>1. /\ crawlAt' = "off" /\ category' = 1 /\ page' = 1 /\ signatures' = {} /\ knownIds' = {} /\ queue' = <<>>
      /\ resumePage' = 0 /\ goal' = {} /\ arrived' = 0 /\ deleted' = 0
      /\ board' = board /\ lost' = lost /\ boardKind' = boardKind /\ Boards' = Boards /\ (Research' <=> Research)
  BY DEF CrawlOver, siteTraits, Boards, Research
<1>2. NaverTypes /\ savedPage' \in Nat
  BY DEF NaverInv, NaverTypes
<1>3. NaverTypes'
  <2>1. 1 \in 1 .. Len(Categories) /\ queue' \in Seq(Posts)
    BY <1>1, CategoryIsABoard
  <2>2. QED
    BY <1>1, <1>2, <2>1 DEF NaverTypes
<1>4. BoardsGrow' /\ MetAreOld' /\ CategoriesMet' /\ PlacesMet' /\ Covered' /\ EndCovered'
  BY <1>1 DEF NaverInv, BoardsGrow, MetAreOld, CategoriesMet, PlacesMet, Covered, EndCovered
<1>5. Behind'
  <2>1. SUFFICES ASSUME ~Research, savedPage' > 0
                 PROVE  Cardinality(Left(posts, savedPage', 1 .. FirstPosts, GotOf(c, kept'))) <= lost
    <3>1. At' = c
      BY <1>1, CategoryIsABoard DEF At
    <3>2. QED
      BY <1>1, <2>1, <3>1 DEF Behind
  <2>2. At = c /\ posts \in Seq(Posts) /\ lost \in Nat /\ page \in Nat \ {0}
    BY <1>2, <2>1, AtIsABoard DEF NaverTypes
  <2>3. CASE savedPage' = resumePage /\ kept' = kept \cup handled
    <3>1. resumePage <= page /\ Cardinality(Left(posts, page, 1 .. FirstPosts, GotOf(c, kept'))) <= lost
      BY <2>1, <2>2, <2>3 DEF NaverInv, Behind
    <3>2. savedPage' \in Nat \ {0} /\ savedPage' <= page
      BY <1>2, <2>1, <2>3, <3>1
    <3>3. Left(posts, savedPage', 1 .. FirstPosts, GotOf(c, kept'))
            \subseteq Left(posts, page, 1 .. FirstPosts, GotOf(c, kept'))
      BY <2>2, <3>2, BeforeOrdered DEF Left
    <3>4. Left(posts, page, 1 .. FirstPosts, GotOf(c, kept')) \subseteq Posts
      BY <2>2, BeforeIsPosted DEF Left
    <3> DEFINE after == Cardinality(Left(posts, savedPage', 1 .. FirstPosts, GotOf(c, kept')))
               was == Cardinality(Left(posts, page, 1 .. FirstPosts, GotOf(c, kept')))
    <3>5. after \in Nat /\ was \in Nat /\ after <= was /\ was <= lost
      BY <3>1, <3>3, <3>4, PostsAreFew
    <3> HIDE DEF after, was
    <3>6. after <= lost
      BY <2>2, <3>5
    <3>7. QED
      BY <3>6 DEF after
  <2>4. CASE UNCHANGED <<savedPage, kept>>
    BY <2>1, <2>2, <2>4 DEF NaverInv, Behind
  <2>5. QED
    BY <2>3, <2>4
<1>6. QED
  BY <1>3, <1>4, <1>5 DEF NaverInv

(* Every step of the site and of the crawl keeps the invariant.             *)
LEMMA NaverStep == NaverInv /\ [NaverNext]_boardVars => NaverInv'
<1> SUFFICES ASSUME NaverInv, [NaverNext]_boardVars PROVE NaverInv'
  OBVIOUS
<1>1. CASE EmptyList
  BY <1>1, EmptyListKeeps
<1>2. CASE FetchList
  BY <1>2, FetchListKeeps
<1>3. CASE PageEnds
  BY <1>3, PageEndKeeps
<1>4. CASE BoardEnds \/ BoardStopped
  BY <1>4, BoardOverKeeps DEF BoardEnds, BoardStopped, SaveScope
<1>5. CASE BoardRaises
  BY <1>5, BoardOverKeeps DEF BoardRaises
<1>6. ASSUME NEW o \in {"yielded", "known", "skipped"}, TakeItem(o) PROVE NaverInv'
  BY <1>6, ItemKeeps
<1>7. ASSUME NEW limit \in PageLimits, NextCategory(limit) PROVE NaverInv'
  BY <1>7, NextBegins
<1>8. ASSUME NEW limit \in PageLimits, StartBoard(limit) PROVE NaverInv'
  BY <1>8, BoardStarts
<1>9. ASSUME NEW c \in Boards, PostArrives(c) PROVE NaverInv'
  BY <1>9, ArrivalKeeps
<1>10. ASSUME NEW c \in Boards, NEW n \in DOMAIN board[c], PostVanishes(c, n) PROVE NaverInv'
  BY <1>10, VanishingKeeps
<1>11. CASE UNCHANGED boardVars
  <2>1. /\ At' = At /\ Boards' = Boards /\ (Research' <=> Research) /\ (Incremental' <=> Incremental)
        /\ Walked' = Walked
    BY <1>11 DEF boardVars, At, Boards, Research, Incremental, Walked
  <2>2. NaverTypes' /\ BoardsGrow' /\ MetAreOld' /\ CategoriesMet'
    BY <1>11, <2>1 DEF boardVars, NaverInv, NaverTypes, BoardsGrow, MetAreOld, CategoriesMet
  <2>3. PlacesMet' /\ Covered' /\ EndCovered' /\ Behind'
    BY <1>11, <2>1 DEF boardVars, NaverInv, PlacesMet, Covered, EndCovered, Behind
  <2>4. QED
    BY <2>2, <2>3 DEF NaverInv
<1>12. QED
  BY <1>1, <1>2, <1>3, <1>4, <1>5, <1>6, <1>7, <1>8, <1>9, <1>10, <1>11 DEF NaverNext, BoardGoesOn

LEMMA InvCoversLists == NaverInv => ListIsCovered
<1>1. NaverInv => ListIsCovered
  <2>1. SUFFICES ASSUME NaverInv, crawlAt = "end", endedBy # "limit", arrived < PageSize, endedBy = "known" => ~unread
                 PROVE  Cardinality(Missed(goal \cap ToSet(board[At]))) <= deleted
    BY DEF ListIsCovered
  <2>2. Missed(goal \cap ToSet(board[At])) = Unmet(board[At], goal, GotOf(At, handled))
    <3>1. goal \subseteq Posts
      BY <2>1 DEF NaverInv, NaverTypes
    <3>2. QED
      BY <3>1 DEF Missed, Unmet, GotOf
  <2>3. QED
    BY <2>1, <2>2 DEF NaverInv, EndCovered
<1>2. QED
  BY <1>1

(* A list that is left because nothing more is to be had was seen from the  *)
(* page it was begun at to its end, but for as many posts as vanished.      *)
THEOREM ListsAreCovered == NaverSpec => []ListIsCovered
BY InvCoversLists, NaverStarts, NaverStep, PTL DEF NaverSpec

LEMMA InvLeavesNone == NaverInv => NothingBehindTheCheckpoint
<1>1. NaverInv => NothingBehindTheCheckpoint
  <2> DEFINE c == Head(Categories)
             behind == Before(board[c], savedPage)
             left == {p \in behind : p <= FirstPosts /\ <<c, p>> \notin kept}
  <2>1. SUFFICES ASSUME NaverInv, ~Research, savedPage > 0
                 PROVE  Cardinality(left) <= lost
    BY DEF NothingBehindTheCheckpoint
  <2>2. At = c /\ board[c] \in Seq(Posts) /\ savedPage \in Nat \ {0}
    BY <2>1, AtIsABoard DEF NaverInv, NaverTypes
  <2>3. behind \subseteq Posts /\ Posts \subseteq Nat \ {0} /\ FirstPosts \in Nat
    BY <2>2, BeforeIsPosted, NaverAssumption DEF Posts
  <2>4. left = Left(board[c], savedPage, 1 .. FirstPosts, GotOf(c, kept))
    <3>1. ASSUME NEW p \in behind PROVE p \in Posts /\ (p <= FirstPosts <=> p \in 1 .. FirstPosts)
      <4> HIDE DEF behind
      <4>1. p \in Posts /\ p \in Nat \ {0}
        BY <2>3, <3>1
      <4>2. QED
        BY <2>3, <4>1
    <3>2. Left(board[c], savedPage, 1 .. FirstPosts, GotOf(c, kept))
            = {p \in behind : p \in 1 .. FirstPosts /\ ~(p \in Posts /\ <<c, p>> \in kept)}
      BY DEF Left, GotOf
    <3> HIDE DEF behind, c
    <3>3. QED
      BY <3>1, <3>2
  <2>5. Cardinality(Left(board[At], savedPage, 1 .. FirstPosts, GotOf(At, kept))) <= lost
    BY <2>1 DEF NaverInv, Behind
  <2>6. QED
    BY <2>2, <2>4, <2>5
<1>2. QED
  BY <1>1

(* No page before the one a run resumes at holds a post that was there from *)
(* the first and that no run has kept, but for as many as vanished.         *)
THEOREM NothingIsLeftBehind == NaverSpec => []NothingBehindTheCheckpoint
BY InvLeavesNone, NaverStarts, NaverStep, PTL DEF NaverSpec

(* What a crawl counts and names beside that: pages that showed nothing new *)
(* are fewer than stop it, until it has stopped.                            *)
NaverTraits == boardKind \in BoardKinds /\ boardMode \in {"incremental", "full"} /\ pastEnd \in {"empty", "last"}
NaverCounts ==
  /\ emptyPages \in 0 .. StopEmptyPages /\ repeatPages \in 0 .. StopRepeatPages
  /\ crawlAt \in {"list", "page"} => repeatPages < StopRepeatPages
  /\ pagesLeft \in Nat /\ filesLeft \in 0 .. AttachmentLimit
NaverNames ==
  /\ newOnPage \in BOOLEAN /\ endedBy \in {"none", "limit", "empty", "repeated", "known"}
  /\ knownIds \subseteq BoardPosts /\ handled \subseteq BoardPosts /\ kept \subseteq BoardPosts
NaverRest == NaverTraits /\ NaverCounts /\ NaverNames

LEMMA NaverNumbers ==
  ASSUME NaverCounts
  PROVE  /\ StopEmptyPages \in Nat \ {0} /\ StopRepeatPages \in Nat \ {0} /\ AttachmentLimit \in Nat
         /\ emptyPages \in Nat /\ repeatPages \in Nat /\ filesLeft \in Nat /\ pagesLeft \in Nat
         /\ repeatPages <= StopRepeatPages /\ filesLeft <= AttachmentLimit /\ emptyPages <= StopEmptyPages
BY NaverAssumption DEF NaverCounts

LEMMA NaverZeros ==
  /\ 0 \in 0 .. StopEmptyPages /\ 0 \in 0 .. StopRepeatPages /\ 0 < StopRepeatPages
  /\ AttachmentLimit \in 0 .. AttachmentLimit /\ 0 \in Nat
<1>1. StopEmptyPages \in Nat /\ StopRepeatPages \in Nat \ {0} /\ AttachmentLimit \in Nat
  BY NaverAssumption
<1> QED BY <1>1

LEMMA CrawlMoves ==
  ASSUME NaverRest, siteTraits' = siteTraits, NaverCounts', newOnPage' \in BOOLEAN,
         endedBy' \in {endedBy, "none", "limit", "empty", "repeated", "known"},
         UNCHANGED knownIds \/ knownIds' = {}, UNCHANGED handled \/ handled' = {},
         UNCHANGED kept \/ kept' = kept \cup handled
  PROVE  NaverRest'
<1>1. BoardPosts' = BoardPosts
  BY DEF siteTraits, BoardPosts, Boards, Research, Posts
<1>2. NaverTraits'
  BY DEF siteTraits, NaverRest, NaverTraits
<1>3. NaverNames'
  BY <1>1 DEF NaverRest, NaverNames
<1> QED BY <1>2, <1>3 DEF NaverRest

LEMMA CategoryCounts ==
  ASSUME NaverRest, NEW c, NEW p, BeginCategory(c, p), NEW limit \in PageLimits, pagesLeft' = limit,
         filesLeft' \in 0 .. AttachmentLimit
  PROVE  NaverCounts' /\ newOnPage' \in BOOLEAN /\ endedBy' = "none"
<1>1. emptyPages' = 0 /\ repeatPages' = 0 /\ newOnPage' = FALSE /\ endedBy' = "none"
  BY DEF BeginCategory
<1>2. limit \in Nat
  BY NaverAssumption
<1> QED BY <1>1, <1>2, NaverZeros DEF NaverCounts

LEMMA OverCounts ==
  ASSUME NaverRest, CrawlOver PROVE NaverCounts' /\ newOnPage' \in BOOLEAN /\ endedBy' = "none"
<1>1. emptyPages' = 0 /\ repeatPages' = 0 /\ newOnPage' = FALSE /\ endedBy' = "none" /\ crawlAt' = "off"
      /\ pagesLeft' = 0 /\ filesLeft' = AttachmentLimit
  BY DEF CrawlOver
<1> QED BY <1>1, NaverZeros DEF NaverCounts

LEMMA TurnCounts ==
  ASSUME NaverRest, TurnPage \/ \E cause \in {"limit", "empty", "repeated", "known"} : Leave(cause)
  PROVE  pagesLeft' \in Nat /\ endedBy' \in {endedBy, "none", "limit", "empty", "repeated", "known"}
BY NaverNumbers DEF NaverRest, TurnPage, Leave

LEMMA NaverStepOrRest == NaverTypes /\ NaverRest /\ [NaverNext]_boardVars => NaverRest'
<1> SUFFICES ASSUME NaverTypes, NaverRest, [NaverNext]_boardVars PROVE NaverRest'
  OBVIOUS
<1>1. NaverCounts
  BY DEF NaverRest
<1>2. ASSUME EmptyList PROVE NaverRest'
  <2>1. /\ siteTraits' = siteTraits /\ UNCHANGED <<repeatPages, filesLeft, newOnPage, knownIds, handled, kept>>
        /\ crawlAt = "list"
    BY <1>2 DEF EmptyList
  <2>2. TurnPage \/ \E cause \in {"limit", "empty", "repeated", "known"} : Leave(cause)
    <3>1. TurnPage \/ Leave("limit") \/ Leave("empty")
      BY <1>2 DEF EmptyList
    <3> QED BY <3>1
  <2>3. emptyPages' = emptyPages \/ (emptyPages + 1 < StopEmptyPages /\ emptyPages' = emptyPages + 1)
    BY <1>2 DEF EmptyList
  <2>4. emptyPages' \in 0 .. StopEmptyPages
    BY <1>1, <2>3, NaverNumbers
  <2>5. NaverCounts'
    BY <1>1, <2>1, <2>2, <2>4, TurnCounts DEF NaverCounts
  <2> QED BY <2>1, <2>2, <2>5, TurnCounts, CrawlMoves DEF NaverRest, NaverNames
<1>3. ASSUME FetchList PROVE NaverRest'
  <2>1. /\ siteTraits' = siteTraits /\ UNCHANGED <<repeatPages, filesLeft, knownIds, handled, kept, pagesLeft>>
        /\ crawlAt = "list" /\ emptyPages' = 0
    BY <1>3 DEF FetchList, Leave
  <2>2. newOnPage' \in BOOLEAN /\ endedBy' \in {endedBy, "repeated"}
    BY <1>3 DEF FetchList, Leave, NaverRest, NaverNames
  <2>3. NaverCounts'
    BY <1>1, <2>1, NaverNumbers DEF NaverCounts
  <2> QED BY <2>1, <2>2, <2>3, CrawlMoves
<1>4. ASSUME PageEnds PROVE NaverRest'
  <2>1. /\ siteTraits' = siteTraits /\ UNCHANGED <<emptyPages, filesLeft, newOnPage, knownIds, handled, kept>>
        /\ crawlAt = "page"
    BY <1>4 DEF PageEnds
  <2>2. repeatPages' = 0 \/ repeatPages' = repeatPages + 1
    BY <1>4 DEF PageEnds
  <2>3. repeatPages' \in 0 .. StopRepeatPages
    BY <1>1, <2>1, <2>2, NaverNumbers DEF NaverCounts
  <2>4. \/ repeatPages' = StopRepeatPages /\ Leave("known")
        \/ repeatPages' # StopRepeatPages /\ (Leave("limit") \/ TurnPage)
    BY <1>4 DEF PageEnds
  <2>5. TurnPage \/ \E cause \in {"limit", "empty", "repeated", "known"} : Leave(cause)
    BY <2>4
  <2>6. crawlAt' \in {"list", "page"} => repeatPages' < StopRepeatPages
    BY <2>3, <2>4, NaverNumbers, <1>1 DEF Leave
  <2>7. NaverCounts'
    BY <1>1, <2>1, <2>3, <2>5, <2>6, TurnCounts DEF NaverCounts
  <2> QED BY <2>1, <2>5, <2>7, TurnCounts, CrawlMoves DEF NaverRest, NaverNames
<1>5. ASSUME BoardEnds \/ BoardStopped \/ BoardRaises PROVE NaverRest'
  <2>1. CrawlOver /\ (kept' = kept \/ kept' = kept \cup handled)
    BY <1>5 DEF BoardEnds, BoardStopped, BoardRaises, SaveScope
  <2>2. siteTraits' = siteTraits /\ knownIds' = {} /\ handled' = {}
    BY <2>1 DEF CrawlOver
  <2> QED BY <2>1, <2>2, OverCounts, CrawlMoves
<1>6. ASSUME NEW o \in {"yielded", "known", "skipped"}, TakeItem(o) PROVE NaverRest'
  <2>1. /\ siteTraits' = siteTraits /\ UNCHANGED <<emptyPages, repeatPages, pagesLeft, kept>>
        /\ crawlAt = "page" /\ queue # <<>> /\ knownIds' \in {knownIds \cup {Item}, {}}
    BY <1>6 DEF TakeItem, runCounts, Leave
  <2>2. Item \in BoardPosts
    <3>1. At \in Boards
      BY AtIsABoard
    <3>2. Head(queue) \in Posts
      BY <2>1 DEF NaverTypes
    <3> QED BY <3>1, <3>2 DEF Item, BoardPosts
  <2>3. /\ handled' \in {handled, handled \cup {Item}} /\ newOnPage' \in BOOLEAN
        /\ endedBy' \in {endedBy, "limit"}
        /\ filesLeft' = filesLeft \/ (filesLeft # 0 /\ filesLeft' = filesLeft - 1)
    <3>1. CASE boardKind = "attachment" /\ o = "yielded" /\ filesLeft = 0
      BY <1>6, <3>1 DEF TakeItem, Leave, NaverRest, NaverNames
    <3>2. CASE ~(boardKind = "attachment" /\ o = "yielded" /\ filesLeft = 0)
      <4>1. /\ handled' = handled \cup {Item} /\ endedBy' = endedBy
            /\ newOnPage' = (newOnPage \/ CountsAsNew(o))
            /\ filesLeft' = IF o = "yielded" /\ boardKind = "attachment" THEN filesLeft - 1 ELSE filesLeft
        BY <1>6, <3>2 DEF TakeItem
      <4>2. newOnPage' \in BOOLEAN
        BY <4>1, Zenon
      <4> QED BY <3>2, <4>1, <4>2
    <3> QED BY <3>1, <3>2
  <2>4. filesLeft' \in 0 .. AttachmentLimit
    BY <1>1, <2>3, NaverNumbers
  <2>5. NaverCounts'
    BY <1>1, <2>1, <2>4 DEF NaverCounts
  <2>6. BoardPosts' = BoardPosts
    BY <2>1 DEF siteTraits, BoardPosts, Boards, Research, Posts
  <2>7. NaverTraits' /\ NaverNames'
    BY <2>1, <2>2, <2>3, <2>6 DEF siteTraits, NaverRest, NaverTraits, NaverNames
  <2> QED BY <2>5, <2>7 DEF NaverRest
<1>7. ASSUME NEW limit \in PageLimits, NextCategory(limit) \/ StartBoard(limit) PROVE NaverRest'
  <2>1. \E c, p : BeginCategory(c, p)
    BY <1>7 DEF NextCategory, StartBoard
  <2>2. /\ siteTraits' = siteTraits /\ pagesLeft' = limit /\ filesLeft' \in {filesLeft, AttachmentLimit}
        /\ UNCHANGED kept /\ (UNCHANGED knownIds \/ knownIds' = {}) /\ (UNCHANGED handled \/ handled' = {})
    BY <1>7 DEF NextCategory, StartBoard
  <2>3. filesLeft' \in 0 .. AttachmentLimit
    BY <1>1, <2>2, NaverNumbers
  <2> QED BY <2>1, <2>2, <2>3, CategoryCounts, CrawlMoves
<1>8. ASSUME NEW c \in Boards, PostArrives(c) \/ \E n \in DOMAIN board[c] : PostVanishes(c, n) PROVE NaverRest'
  <2>1. UNCHANGED <<siteTraits, runCounts, crawlAt, pagesLeft, filesLeft, newOnPage, endedBy, knownIds, handled, kept>>
    BY <1>8 DEF PostArrives, PostVanishes
  <2> QED BY <1>1, <2>1, CrawlMoves DEF runCounts, NaverCounts, NaverRest, NaverNames
<1>9. ASSUME UNCHANGED boardVars PROVE NaverRest'
  BY <1>1, <1>9, CrawlMoves DEF boardVars, siteTraits, NaverCounts, NaverRest, NaverNames
<1> QED BY <1>2, <1>3, <1>4, <1>5, <1>6, <1>7, <1>8, <1>9 DEF NaverNext, BoardGoesOn

(* What the walks keep, they keep without anything being fair.               *)
LEMMA NaverSafely ==
  NaverInit /\ [][NaverNext]_boardVars =>
    [](NaverTypeOK /\ ListIsCovered /\ NothingBehindTheCheckpoint)
<1>1. NaverInit => NaverRest
  <2> QED BY NaverZeros DEF NaverInit, NaverRest, NaverTraits, NaverCounts, NaverNames
<1>2. NaverInv => NaverTypes
  BY DEF NaverInv
<1>3. NaverTypes /\ NaverRest => NaverTypeOK
  BY DEF NaverTypes, NaverRest, NaverTraits, NaverCounts, NaverNames, NaverTypeOK
<1> QED BY <1>1, <1>2, <1>3, NaverStarts, NaverStep, NaverStepOrRest, InvCoversLists, InvLeavesNone, PTL

(* A crawl keeps to the pages, counts and limits its code can come to, and   *)
(* yields no post but of a board it walks.                                  *)
THEOREM NaverTypesHold == NaverSpec => []NaverTypeOK
BY NaverSafely, PTL DEF NaverSpec

(* A walk is finite, whatever arrives and vanishes meanwhile: the pages it   *)
(* may yet begin.  For research, those with a list it has not been shown,    *)
(* and between two such as many empty ones as do not stop it.  With a limit, *)
(* what is left of it.  Where nothing follows the last page, those up to the *)
(* posts there can be.  Otherwise, for the posts it does not know yet, and   *)
(* between two such as many pages without one as do not stop it.             *)
PageLists == UNION {[1 .. n -> Posts] : n \in 0 .. PageSize}
Unshown == Cardinality(PageLists \ signatures)
Unfamiliar == Cardinality(BoardPosts \ knownIds)
AllPosts == FirstPosts + MaxArrivals
PagesFrom(p) == IF p <= AllPosts THEN AllPosts + 1 - p ELSE 0

ResearchPages == Unshown * (StopEmptyPages + 1) + (StopEmptyPages - emptyPages)
LimitedPages == IF crawlAt = "page" THEN pagesLeft - 1 ELSE pagesLeft
NumberedPages == PagesFrom(IF crawlAt = "page" THEN page + 1 ELSE page)
RepeatsLeft ==
  IF crawlAt = "page" THEN IF newOnPage THEN StopRepeatPages ELSE StopRepeatPages - repeatPages - 1
  ELSE StopRepeatPages - repeatPages
FamiliarPages == Unfamiliar * StopRepeatPages + RepeatsLeft
PagesToGo ==
  IF Research THEN ResearchPages
  ELSE IF pagesLeft > 0 THEN LimitedPages
  ELSE IF pastEnd = "empty" THEN NumberedPages
  ELSE FamiliarPages

PageSteps == PageSize + 2
CategorySteps == (Cardinality(PageLists) * (StopEmptyPages + 1) + StopEmptyPages) * PageSteps + 2
CategoriesToGo == IF Research THEN (Len(Categories) - category) * CategorySteps ELSE 0
WalkLeft ==
  CASE crawlAt = "off" -> 0
    [] crawlAt = "end" -> CategoriesToGo + 1
    [] crawlAt = "list" -> CategoriesToGo + PagesToGo * PageSteps + 2
    [] OTHER -> CategoriesToGo + PagesToGo * PageSteps + Len(queue) + 3

WalkIsFinite == WalkLeft \in Nat
WalkGoesDown ==
  [][crawlAt # "off" /\ ~EndGoesUnnoticed
       => WalkLeft' < WalkLeft \/ (board' # board /\ WalkLeft' = WalkLeft)]_boardVars

(* The walk that is excepted: it is not over of itself while there is a post. *)
Walking == crawlAt \in {"list", "page"} /\ EndGoesUnnoticed /\ board[At] # <<>>
WalkGoesRound == [][Walking /\ BoardGoesOn => crawlAt' \in {"list", "page"}]_boardVars

LEMMA TimesGrow ==
  ASSUME NEW m \in Nat, NEW n \in Nat, NEW w \in Nat, m <= n
  PROVE  m * w \in Nat /\ n * w \in Nat /\ m * w <= n * w /\ (m < n => m * w + w <= n * w)
<1>1. \A d, v \in Nat : (m + d) * v = m * v + d * v /\ d * v \in Nat /\ m * v \in Nat
  OBVIOUS
<1>2. \A d, v \in Nat : (d + 1) * v = d * v + v /\ d * v \in Nat
  OBVIOUS
<1> DEFINE a == m * w
           b == (n - m) * w
           c == n * w
<1>3. n - m \in Nat /\ m + (n - m) = n
  OBVIOUS
<1>4. c = a + b /\ a \in Nat /\ b \in Nat
  BY <1>1, <1>3
<1>5. m < n => b >= w
  <2> SUFFICES ASSUME m < n PROVE b >= w
    OBVIOUS
  <2>1. PICK d \in Nat : n - m = d + 1
    <3>1. n - m - 1 \in Nat /\ n - m = (n - m - 1) + 1
      OBVIOUS
    <3> QED BY <3>1
  <2>2. b = d * w + w /\ d * w \in Nat
    BY <1>2, <2>1
  <2> DEFINE e == d * w
  <2>3. b = e + w /\ e \in Nat
    BY <2>2
  <2> HIDE DEF b, e
  <2> QED BY <1>4, <2>3
<1> HIDE DEF a, b, c
<1>6. a \in Nat /\ c \in Nat /\ a <= c /\ (m < n => a + w <= c)
  BY <1>4, <1>5
<1> QED BY <1>6 DEF a, c

LEMMA PageListsAreFinite ==
  /\ IsFiniteSet(PageLists) /\ Cardinality(PageLists) \in Nat
  /\ \A s \in Seq(Posts) : Len(s) <= PageSize => s \in PageLists
<1> DEFINE Entries == (1 .. PageSize) \X Posts
           f == [s \in PageLists |-> {<<i, s[i]>> : i \in DOMAIN s}]
<1>1. IsFiniteSet(SUBSET Entries)
  <2>1. IsFiniteSet(1 .. PageSize) /\ IsFiniteSet(Posts)
    BY PageSizeIs, FS_Interval, PostsAreFew
  <2>2. IsFiniteSet(Entries)
    BY <2>1, FS_Product
  <2> QED BY <2>2, FS_SUBSET
<1>2. \A s \in PageLists : \E n \in 0 .. PageSize : s \in [1 .. n -> Posts]
  BY DEF PageLists
<1>3. ASSUME NEW s \in PageLists PROVE f[s] \in SUBSET Entries
  <2>1. PICK n \in 0 .. PageSize : s \in [1 .. n -> Posts]
    BY <1>2
  <2>2. ASSUME NEW i \in DOMAIN s PROVE <<i, s[i]>> \in Entries
    <3>1. i \in 1 .. n /\ s[i] \in Posts
      BY <2>1
    <3>2. i \in 1 .. PageSize
      BY <3>1, PageSizeIs
    <3> QED BY <3>1, <3>2
  <2> QED BY <2>2
<1>4. ASSUME NEW s \in PageLists, NEW t \in PageLists, f[s] = f[t] PROVE s = t
  <2>1. PICK m \in 0 .. PageSize : s \in [1 .. m -> Posts]
    BY <1>2
  <2>2. PICK n \in 0 .. PageSize : t \in [1 .. n -> Posts]
    BY <1>2
  <2>3. \A i \in DOMAIN s : i \in DOMAIN t /\ s[i] = t[i]
    <3> SUFFICES ASSUME NEW i \in DOMAIN s PROVE i \in DOMAIN t /\ s[i] = t[i]
      OBVIOUS
    <3>1. <<i, s[i]>> \in f[t]
      BY <1>4
    <3> QED BY <3>1
  <2>4. \A i \in DOMAIN t : i \in DOMAIN s
    <3> SUFFICES ASSUME NEW i \in DOMAIN t PROVE i \in DOMAIN s
      OBVIOUS
    <3>1. <<i, t[i]>> \in f[s]
      BY <1>4
    <3> QED BY <3>1
  <2>5. DOMAIN s = DOMAIN t
    BY <2>3, <2>4
  <2> QED BY <2>1, <2>2, <2>3, <2>5
<1>5. f \in Injection(PageLists, SUBSET Entries)
  <2>1. f \in [PageLists -> SUBSET Entries]
    BY <1>3
  <2> HIDE DEF f
  <2> QED BY <2>1, <1>4 DEF Injection, IsInjective
<1>6. IsFiniteSet(PageLists)
  BY <1>1, <1>5, FS_Injection
<1>7. ASSUME NEW s \in Seq(Posts), Len(s) <= PageSize PROVE s \in PageLists
  <2>1. s \in [1 .. Len(s) -> Posts] /\ Len(s) \in Nat
    BY LenProperties, ElementOfSeq
  <2>2. Len(s) \in 0 .. PageSize
    BY <1>7, <2>1, PageSizeIs
  <2> QED BY <2>1, <2>2 DEF PageLists
<1> QED BY <1>6, <1>7, FS_CardinalityType

(* Why it is finite: the posts there can be are few, and a walk without a   *)
(* limit is one that a page past the end or a known page ends.              *)
BoardsFit == \A c \in Boards : Len(board[c]) <= AllPosts
WalkInv == NaverInv /\ NaverRest /\ BoardsFit

LEMMA WalkConstants ==
  /\ AllPosts \in Nat /\ PageSteps \in Nat /\ PageSteps = PageSize + 2 /\ PageSize \in Nat
  /\ StopEmptyPages \in Nat \ {0} /\ StopRepeatPages \in Nat \ {0} /\ Cardinality(PageLists) \in Nat
  /\ Cardinality(PageLists) * (StopEmptyPages + 1) + StopEmptyPages \in Nat /\ CategorySteps \in Nat
<1>1. AllPosts \in Nat /\ StopEmptyPages \in Nat \ {0} /\ StopRepeatPages \in Nat \ {0}
  BY NaverAssumption DEF AllPosts
<1>2. PageSteps \in Nat /\ PageSteps = PageSize + 2 /\ PageSize \in Nat
  BY PageSizeIs DEF PageSteps
<1>3. Cardinality(PageLists) \in Nat
  BY PageListsAreFinite
<1>4. \A m, n \in Nat : m * n \in Nat
  OBVIOUS
<1> DEFINE a == Cardinality(PageLists) * (StopEmptyPages + 1)
           b == (a + StopEmptyPages) * PageSteps
<1>5. a \in Nat
  BY <1>1, <1>3, <1>4
<1>6. a + StopEmptyPages \in Nat
  <2> HIDE DEF a
  <2> QED BY <1>1, <1>5
<1>7. b \in Nat
  BY <1>2, <1>4, <1>6
<1>8. CategorySteps = b + 2
  BY DEF CategorySteps
<1>9. CategorySteps \in Nat
  <2> HIDE DEF b
  <2> QED BY <1>7, <1>8
<1> QED BY <1>1, <1>2, <1>3, <1>6, <1>9

LEMMA BoardPostsAreFinite == IsFiniteSet(BoardPosts)
<1>1. IsFiniteSet(Boards)
  <2>1. CASE ~Research
    BY <2>1, FS_Singleton DEF Boards
  <2>2. CASE Research
    <3> DEFINE S == 1 .. Len(Categories)
               f == [i \in S |-> Categories[i]]
    <3>1. Len(Categories) \in Nat /\ DOMAIN Categories = S
      BY CategoryIsABoard, NaverAssumption, LenProperties
    <3>2. IsFiniteSet(S)
      BY <3>1, FS_Interval
    <3>3. f \in Surjection(S, Boards)
      BY <2>2, <3>1 DEF Boards, ToSet, Surjection
    <3> QED BY <3>2, <3>3, FS_Surjection
  <2> QED BY <2>1, <2>2
<1>2. IsFiniteSet(Posts)
  BY PostsAreFew
<1> QED BY <1>1, <1>2, FS_Product DEF BoardPosts

LEMMA WalkCounts ==
  /\ Unshown \in Nat /\ Unshown <= Cardinality(PageLists) /\ Unfamiliar \in Nat
  /\ IsFiniteSet(PageLists \ signatures) /\ IsFiniteSet(BoardPosts \ knownIds)
<1>1. IsFiniteSet(PageLists \ signatures) /\ Cardinality(PageLists \ signatures) <= Cardinality(PageLists)
  BY PageListsAreFinite, FS_Subset
<1>2. IsFiniteSet(BoardPosts \ knownIds)
  BY BoardPostsAreFinite, FS_Subset
<1> QED BY <1>1, <1>2, FS_CardinalityType DEF Unshown, Unfamiliar

LEMMA PagesFromIs ==
  ASSUME NEW p \in Nat \ {0}
  PROVE  PagesFrom(p) \in Nat /\ (p <= AllPosts => PagesFrom(p) = PagesFrom(p + 1) + 1)
BY WalkConstants DEF PagesFrom

LEMMA PagesToGoTyped ==
  ASSUME NaverTypes, NaverRest, crawlAt \in {"list", "page"}
  PROVE  PagesToGo \in Nat
<1>1. CASE Research
  <2>1. Unshown * (StopEmptyPages + 1) \in Nat
    BY WalkConstants, WalkCounts, TimesGrow
  <2>2. StopEmptyPages - emptyPages \in Nat
    BY NaverNumbers DEF NaverRest
  <2> DEFINE a == Unshown * (StopEmptyPages + 1)
  <2>3. PagesToGo = a + (StopEmptyPages - emptyPages)
    BY <1>1 DEF PagesToGo, ResearchPages
  <2> HIDE DEF a
  <2> QED BY <2>1, <2>2, <2>3 DEF a
<1>2. CASE ~Research /\ pagesLeft > 0
  BY <1>2, NaverNumbers DEF NaverRest, PagesToGo, LimitedPages
<1>3. CASE ~Research /\ ~(pagesLeft > 0) /\ pastEnd = "empty"
  <2>1. page \in Nat \ {0} /\ page + 1 \in Nat \ {0}
    BY DEF NaverTypes
  <2> QED BY <1>3, <2>1, PagesFromIs DEF PagesToGo, NumberedPages
<1>4. CASE ~Research /\ ~(pagesLeft > 0) /\ pastEnd # "empty"
  <2>1. RepeatsLeft \in Nat
    <3>1. repeatPages < StopRepeatPages /\ repeatPages \in Nat /\ StopRepeatPages \in Nat
      BY NaverNumbers DEF NaverRest, NaverCounts
    <3> QED BY <3>1 DEF RepeatsLeft
  <2>2. Unfamiliar * StopRepeatPages \in Nat
    BY WalkConstants, WalkCounts, TimesGrow
  <2> DEFINE a == Unfamiliar * StopRepeatPages
  <2>3. PagesToGo = a + RepeatsLeft
    BY <1>4 DEF PagesToGo, FamiliarPages
  <2> HIDE DEF a
  <2> QED BY <2>1, <2>2, <2>3 DEF a
<1> QED BY <1>1, <1>2, <1>3, <1>4

LEMMA CategoriesToGoTyped ==
  ASSUME NaverTypes
  PROVE  /\ CategoriesToGo \in Nat
         /\ Research /\ category < Len(Categories) =>
              /\ (Len(Categories) - (category + 1)) * CategorySteps \in Nat
              /\ CategoriesToGo = (Len(Categories) - (category + 1)) * CategorySteps + CategorySteps
<1>1. category \in Nat /\ category <= Len(Categories) /\ Len(Categories) \in Nat
  BY CategoryIsABoard DEF NaverTypes
<1>2. CASE ~Research
  BY <1>2 DEF CategoriesToGo
<1>3. CASE Research
  <2>1. CategoriesToGo = (Len(Categories) - category) * CategorySteps
    BY <1>3 DEF CategoriesToGo
  <2>2. Len(Categories) - category \in Nat
    BY <1>1
  <2>3. CategoriesToGo \in Nat
    BY <2>1, <2>2, WalkConstants, TimesGrow
  <2>4. ASSUME category < Len(Categories)
        PROVE  /\ (Len(Categories) - (category + 1)) * CategorySteps \in Nat
               /\ CategoriesToGo = (Len(Categories) - (category + 1)) * CategorySteps + CategorySteps
    <3>0. Len(Categories) - (category + 1) \in Nat
      BY <1>1, <2>4
    <3>1. PICK d \in Nat : d = Len(Categories) - (category + 1)
      BY <3>0
    <3>2. Len(Categories) - category = d + 1
      BY <1>1, <3>1
    <3>3. \A m, n \in Nat : (m + 1) * n = m * n + n /\ m * n \in Nat
      OBVIOUS
    <3>4. (d + 1) * CategorySteps = d * CategorySteps + CategorySteps /\ d * CategorySteps \in Nat
      BY <3>3, WalkConstants
    <3> QED BY <2>1, <3>1, <3>2, <3>4
  <2> QED BY <2>3, <2>4
<1> QED BY <1>2, <1>3

LEMMA WalkTyped ==
  ASSUME NaverTypes, NaverRest
  PROVE  /\ WalkLeft \in Nat /\ (crawlAt # "off" => WalkLeft > 0)
         /\ crawlAt \in {"list", "page"} => PagesToGo * PageSteps \in Nat
<1>1. CategoriesToGo \in Nat /\ crawlAt \in {"off", "list", "page", "end"} /\ Len(queue) \in Nat
  BY CategoriesToGoTyped, LenProperties DEF NaverTypes
<1>2. crawlAt \in {"list", "page"} => PagesToGo * PageSteps \in Nat
  BY PagesToGoTyped, WalkConstants, TimesGrow
<1> DEFINE a == PagesToGo * PageSteps
<1>3. /\ crawlAt = "off" => WalkLeft = 0
      /\ crawlAt = "end" => WalkLeft = CategoriesToGo + 1
      /\ crawlAt = "list" => WalkLeft = CategoriesToGo + a + 2
      /\ crawlAt = "page" => WalkLeft = CategoriesToGo + a + Len(queue) + 3
  BY DEF WalkLeft
<1> HIDE DEF a
<1> QED BY <1>1, <1>2, <1>3 DEF a

WalkCounted == WalkLeft \in Nat /\ (crawlAt \in {"list", "page"} => PagesToGo \in Nat)

LEMMA CountedAfter == NaverTypes' /\ NaverRest' => WalkCounted'
<1>1. NaverTypes /\ NaverRest => WalkCounted
  BY PagesToGoTyped, WalkTyped DEF WalkCounted
<1> QED BY <1>1, PTL

(* The steps of a walk, by what they leave of its pages.                    *)
LEMMA WalkIsLeft ==
  ASSUME NaverTypes, NaverRest, crawlAt \in {"list", "page"}, crawlAt' = "end",
         siteTraits' = siteTraits, category' = category
  PROVE  WalkLeft' < WalkLeft
<1> DEFINE c == CategoriesToGo
           a == PagesToGo * PageSteps
<1>1. c \in Nat /\ a \in Nat /\ Len(queue) \in Nat
  BY CategoriesToGoTyped, WalkTyped, LenProperties DEF NaverTypes
<1>2. CategoriesToGo' = c
  BY DEF CategoriesToGo, Research, siteTraits
<1>3. WalkLeft' = c + 1
  BY <1>2 DEF WalkLeft
<1>4. WalkLeft = c + a + 2 \/ WalkLeft = c + a + Len(queue) + 3
  BY DEF WalkLeft
<1> HIDE DEF c, a
<1> QED BY <1>1, <1>3, <1>4

LEMMA PageIsBegun ==
  ASSUME NaverTypes, NaverRest, crawlAt = "list", crawlAt' = "page", siteTraits' = siteTraits, category' = category,
         PagesToGo' \in Nat, PagesToGo' < PagesToGo, Len(queue') \in 0 .. PageSize
  PROVE  WalkLeft' < WalkLeft
<1> DEFINE c == CategoriesToGo
           a == PagesToGo * PageSteps
           b == PagesToGo' * PageSteps
<1>1. c \in Nat /\ PagesToGo \in Nat
  BY CategoriesToGoTyped, PagesToGoTyped
<1>2. CategoriesToGo' = c
  BY DEF CategoriesToGo, Research, siteTraits
<1>3. PagesToGo' <= PagesToGo
  BY <1>1
<1>4. a \in Nat /\ b \in Nat /\ b + PageSteps <= a
  BY <1>1, <1>3, WalkConstants, TimesGrow
<1>5. PageSteps' = PageSteps
  BY DEF PageSteps
<1>6. WalkLeft = c + a + 2
  BY DEF WalkLeft
<1>7. WalkLeft' = c + b + Len(queue') + 3
  BY <1>2, <1>5 DEF WalkLeft
<1> HIDE DEF c, a, b
<1> QED BY <1>1, <1>4, <1>6, <1>7, WalkConstants

LEMMA PageFollows ==
  ASSUME NaverTypes, NaverRest, crawlAt \in {"list", "page"}, crawlAt' = "list",
         siteTraits' = siteTraits, category' = category,
         PagesToGo' \in Nat, PagesToGo' <= PagesToGo, crawlAt = "list" => PagesToGo' < PagesToGo
  PROVE  WalkLeft' < WalkLeft
<1> DEFINE c == CategoriesToGo
           a == PagesToGo * PageSteps
           b == PagesToGo' * PageSteps
<1>1. c \in Nat /\ PagesToGo \in Nat /\ Len(queue) \in Nat
  BY CategoriesToGoTyped, PagesToGoTyped, LenProperties DEF NaverTypes
<1>2. CategoriesToGo' = c
  BY DEF CategoriesToGo, Research, siteTraits
<1>3. a \in Nat /\ b \in Nat /\ b <= a /\ (crawlAt = "list" => b + PageSteps <= a)
  BY <1>1, WalkConstants, TimesGrow
<1>4. \/ crawlAt = "list" /\ WalkLeft = c + a + 2
      \/ crawlAt = "page" /\ WalkLeft = c + a + Len(queue) + 3
  BY DEF WalkLeft
<1>5. WalkLeft' = c + b + 2
  BY <1>2 DEF WalkLeft, PageSteps
<1> HIDE DEF c, a, b
<1> QED BY <1>1, <1>3, <1>4, <1>5, WalkConstants

LEMMA ItemIsTaken ==
  ASSUME NaverTypes, NaverRest, crawlAt = "page", crawlAt' = "page", siteTraits' = siteTraits, category' = category,
         PagesToGo' \in Nat, PagesToGo' <= PagesToGo, Len(queue') \in Nat, Len(queue') < Len(queue)
  PROVE  WalkLeft' < WalkLeft
<1> DEFINE c == CategoriesToGo
           a == PagesToGo * PageSteps
           b == PagesToGo' * PageSteps
<1>1. c \in Nat /\ PagesToGo \in Nat /\ Len(queue) \in Nat
  BY CategoriesToGoTyped, PagesToGoTyped, LenProperties DEF NaverTypes
<1>2. CategoriesToGo' = c
  BY DEF CategoriesToGo, Research, siteTraits
<1>3. a \in Nat /\ b \in Nat /\ b <= a
  BY <1>1, WalkConstants, TimesGrow
<1>4. WalkLeft = c + a + Len(queue) + 3
  BY DEF WalkLeft
<1>5. WalkLeft' = c + b + Len(queue') + 3
  BY <1>2 DEF WalkLeft, PageSteps
<1> HIDE DEF c, a, b
<1> QED BY <1>1, <1>3, <1>4, <1>5

(* The pages left depend on what the site shows in no way.                  *)
LEMMA SiteLeavesWalk ==
  ASSUME UNCHANGED <<siteTraits, runCounts, crawlAt, category, page, pagesLeft, queue, newOnPage, knownIds>>
  PROVE  WalkLeft' = WalkLeft
<1>1. Research' = Research /\ BoardPosts' = BoardPosts /\ PageSteps' = PageSteps /\ CategorySteps' = CategorySteps
  BY DEF siteTraits, Research, BoardPosts, Boards, Posts, PageSteps, CategorySteps, PageLists
<1>2. Unshown' = Unshown /\ Unfamiliar' = Unfamiliar
  BY <1>1 DEF Unshown, Unfamiliar, runCounts, PageLists, Posts
<1>3. PagesToGo' = PagesToGo
  BY <1>1, <1>2 DEF PagesToGo, ResearchPages, LimitedPages, NumberedPages, PagesFrom, AllPosts, FamiliarPages,
    RepeatsLeft, runCounts, siteTraits
<1>4. CategoriesToGo' = CategoriesToGo
  BY <1>1 DEF CategoriesToGo
<1> QED BY <1>1, <1>3, <1>4 DEF WalkLeft

LEMMA PageIsSmall ==
  ASSUME NEW posts \in Seq(Posts), NEW q \in Nat \ {0}
  PROVE  Slice(posts, q) \in Seq(Posts) /\ Len(Slice(posts, q)) \in 0 .. PageSize
<1> DEFINE a == UpTo(posts, q - 1)
           b == UpTo(posts, q)
           slice == Slice(posts, q)
<1>1. slice \in Seq(Posts) /\ Len(slice) = b - a
  BY SliceIs
<1>2. Len(slice) \in Nat
  BY <1>1, LenProperties
<1>3. b <= a + PageSize /\ a \in Nat /\ b \in Nat
  <2> DEFINE f == FirstOf(q)
             l == LastOf(q)
  <2>1. /\ a \in Nat /\ b \in Nat /\ f \in Nat /\ l = f + PageSize /\ Len(posts) \in Nat
        /\ a = (IF f < Len(posts) THEN f ELSE Len(posts)) /\ b = (IF l < Len(posts) THEN l ELSE Len(posts))
    <3>1. Edges(posts, q)
      BY NamedEdges, Zenon
    <3> QED BY <3>1 DEF Edges
  <2> HIDE DEF a, b, f, l
  <2> QED BY <2>1, PageSizeIs
<1> HIDE DEF a, b, slice
<1>4. Len(slice) \in 0 .. PageSize
  BY <1>1, <1>2, <1>3, PageSizeIs
<1> QED BY <1>1, <1>4 DEF slice

(* A page that shows something where nothing follows the last one is one of  *)
(* as many as there can be posts.                                           *)
LEMMA PagesEnd ==
  ASSUME NEW posts \in Seq(Posts), NEW p \in Nat \ {0}, Slice(posts, p) # <<>>, Len(posts) <= AllPosts
  PROVE  p <= AllPosts
<1> DEFINE a == UpTo(posts, p - 1)
           b == UpTo(posts, p)
           f == FirstOf(p)
<1>1. Slice(posts, p) \in Seq(Posts) /\ Len(Slice(posts, p)) = b - a
  BY SliceIs
<1>2. b - a # 0
  BY <1>1, EmptySeq
<1>3. /\ a \in Nat /\ b \in Nat /\ f \in Nat /\ Len(posts) \in Nat
      /\ a = (IF f < Len(posts) THEN f ELSE Len(posts))
      /\ b = (IF LastOf(p) < Len(posts) THEN LastOf(p) ELSE Len(posts))
      /\ LastOf(p) = f + PageSize
  <2>1. Edges(posts, p)
    BY NamedEdges, Zenon
  <2> QED BY <2>1 DEF Edges
<1>4. f >= p - 1
  <2>1. p - 1 \in Nat
    OBVIOUS
  <2>2. \A m \in Nat, w \in Nat \ {0} : m * w >= m
    <3> SUFFICES ASSUME NEW m \in Nat, NEW w \in Nat \ {0} PROVE m * w >= m
      OBVIOUS
    <3>1. w - 1 \in Nat /\ w = (w - 1) + 1
      OBVIOUS
    <3>2. \A v \in Nat : m * (v + 1) = m * v + m /\ m * v \in Nat
      OBVIOUS
    <3>3. m * w = m * (w - 1) + m /\ m * (w - 1) \in Nat
      BY <3>1, <3>2
    <3> DEFINE e == m * (w - 1)
    <3>4. m * w = e + m /\ e \in Nat
      BY <3>3
    <3> HIDE DEF e
    <3> QED BY <3>4
  <2>3. PageSize \in Nat \ {0}
    BY PageSizeIs
  <2>4. (p - 1) * PageSize >= p - 1
    BY <2>1, <2>2, <2>3
  <2> QED BY <2>4 DEF FirstOf
<1> HIDE DEF a, b, f
<1>5. f < Len(posts)
  BY <1>2, <1>3, PageSizeIs
<1> QED BY <1>3, <1>4, <1>5, WalkConstants

LEMMA SameTraits ==
  ASSUME siteTraits' = siteTraits
  PROVE  /\ Research' = Research /\ BoardPosts' = BoardPosts /\ Boards' = Boards /\ boardKind' = boardKind
         /\ boardMode' = boardMode /\ pastEnd' = pastEnd /\ Incremental' = Incremental /\ PageSteps' = PageSteps
         /\ UNCHANGED signatures => Unshown' = Unshown
         /\ UNCHANGED knownIds => Unfamiliar' = Unfamiliar
BY DEF siteTraits, Research, BoardPosts, Boards, Posts, Incremental, PageSteps, Unshown, Unfamiliar, PageLists

(* Which pages are left to go, by the kind of the walk.                     *)
LEMMA PagesOfResearch == Research => PagesToGo = Unshown * (StopEmptyPages + 1) + (StopEmptyPages - emptyPages)
BY DEF PagesToGo, ResearchPages

LEMMA PagesOfOthers ==
  ~Research => /\ pagesLeft > 0 => PagesToGo = LimitedPages
               /\ ~(pagesLeft > 0) /\ pastEnd = "empty" => PagesToGo = NumberedPages
               /\ ~(pagesLeft > 0) /\ pastEnd # "empty" => PagesToGo = Unfamiliar * StopRepeatPages + RepeatsLeft
BY DEF PagesToGo, FamiliarPages

LEMMA PagesOfResearchAfter ==
  siteTraits' = siteTraits /\ Research =>
    PagesToGo' = Unshown' * (StopEmptyPages + 1) + (StopEmptyPages - emptyPages')
<1>1. Research' => PagesToGo' = Unshown' * (StopEmptyPages + 1) + (StopEmptyPages - emptyPages')
  BY DEF PagesToGo, ResearchPages
<1> QED BY <1>1, SameTraits

LEMMA PagesOfOthersAfter ==
  siteTraits' = siteTraits /\ ~Research =>
    /\ pagesLeft' > 0 => PagesToGo' = LimitedPages'
    /\ ~(pagesLeft' > 0) /\ pastEnd = "empty" => PagesToGo' = NumberedPages'
    /\ ~(pagesLeft' > 0) /\ pastEnd # "empty" => PagesToGo' = Unfamiliar' * StopRepeatPages + RepeatsLeft'
<1>1. siteTraits' = siteTraits => Research' = Research /\ pastEnd' = pastEnd
  BY SameTraits
<1> QED BY <1>1 DEF PagesToGo, FamiliarPages

LEMMA EmptyListGoesOn ==
  ASSUME WalkInv, EmptyList, WalkCounted'
  PROVE  WalkLeft' < WalkLeft
<1>1. /\ NaverTypes /\ NaverRest /\ crawlAt = "list" /\ siteTraits' = siteTraits
      /\ UNCHANGED <<category, signatures, knownIds>>
  BY DEF WalkInv, NaverInv, EmptyList
<1>2. CASE crawlAt' = "end"
  BY <1>1, <1>2, WalkIsLeft
<1>3. CASE crawlAt' # "end"
  <2>1. Research /\ emptyPages + 1 < StopEmptyPages /\ emptyPages' = emptyPages + 1 /\ TurnPage
    BY <1>3 DEF EmptyList, Leave
  <2>2. crawlAt' = "list" /\ PagesToGo' \in Nat
    BY <2>1 DEF TurnPage, WalkCounted
  <2> DEFINE u == Unshown * (StopEmptyPages + 1)
  <2>3. PagesToGo = u + (StopEmptyPages - emptyPages)
    BY <2>1, PagesOfResearch
  <2>4. PagesToGo' = u + (StopEmptyPages - (emptyPages + 1))
    <3>1. Unshown' = Unshown
      BY <1>1, SameTraits
    <3> QED BY <1>1, <2>1, <3>1, PagesOfResearchAfter
  <2>5. u \in Nat /\ emptyPages \in Nat /\ StopEmptyPages \in Nat
    BY <1>1, WalkConstants, WalkCounts, TimesGrow, NaverNumbers DEF NaverRest
  <2> HIDE DEF u
  <2>6. PagesToGo' < PagesToGo
    BY <2>3, <2>4, <2>5
  <2>7. PagesToGo' <= PagesToGo
    BY <2>3, <2>4, <2>5
  <2> QED BY <1>1, <2>2, <2>6, <2>7, PageFollows
<1> QED BY <1>2, <1>3

LEMMA FetchListGoesOn ==
  ASSUME WalkInv, FetchList, WalkCounted'
  PROVE  WalkLeft' < WalkLeft
<1>1. /\ NaverTypes /\ NaverRest /\ crawlAt = "list" /\ siteTraits' = siteTraits
      /\ UNCHANGED <<category, knownIds, board, page, pagesLeft, repeatPages>> /\ emptyPages' = 0
  BY DEF WalkInv, NaverInv, FetchList, Leave
<1>2. CASE crawlAt' = "end"
  BY <1>1, <1>2, WalkIsLeft
<1>3. CASE crawlAt' # "end"
  <2> DEFINE showing == Shown(At, page)
  <2>1. /\ crawlAt' = "page" /\ queue' = showing /\ newOnPage' = FALSE /\ showing # <<>>
        /\ Research => showing \notin signatures /\ signatures' = signatures \cup {showing}
    BY <1>3 DEF FetchList, Leave, Repeated
  <2>2. board[At] \in Seq(Posts) /\ page \in Nat \ {0} /\ At \in Boards
    BY <1>1, AtIsABoard DEF NaverTypes
  <2>3. showing \in Seq(Posts) /\ Len(showing) \in 0 .. PageSize
    BY <2>2, ShownIsAPage, PageIsSmall DEF ShownFor
  <2>4. PagesToGo' \in Nat /\ PagesToGo \in Nat
    BY <1>1, <2>1, PagesToGoTyped DEF WalkCounted
  <2>5. CASE Research
    <3>1. showing \in PageLists \ signatures
      BY <2>1, <2>3, <2>5, PageListsAreFinite
    <3>2. (PageLists \ signatures)' = (PageLists \ signatures) \ {showing}
      BY <2>1, <2>5 DEF PageLists, Posts
    <3>3. Unshown' = Unshown - 1 /\ Unshown \in Nat /\ Unshown' \in Nat
      <4>1. Cardinality((PageLists \ signatures) \ {showing}) = Cardinality(PageLists \ signatures) - 1
        BY <3>1, WalkCounts, FS_RemoveElement
      <4>2. Cardinality(PageLists \ signatures) # 0
        BY <3>1, WalkCounts, FS_EmptySet
      <4>3. Unshown' = Cardinality((PageLists \ signatures)')
        BY DEF Unshown
      <4>4. Unshown' = Cardinality((PageLists \ signatures) \ {showing})
        BY <3>2, <4>3
      <4>5. Unshown' = Unshown - 1 /\ Unshown # 0
        BY <4>1, <4>2, <4>4 DEF Unshown
      <4> QED BY <4>5, WalkCounts
    <3> DEFINE u == Unshown * (StopEmptyPages + 1)
               v == Unshown' * (StopEmptyPages + 1)
    <3>4. u \in Nat /\ v \in Nat /\ v + (StopEmptyPages + 1) <= u
      <4>1. Unshown' <= Unshown /\ Unshown' < Unshown /\ StopEmptyPages + 1 \in Nat
        BY <3>3, WalkConstants
      <4> QED BY <3>3, <4>1, TimesGrow
    <3>5. PagesToGo = u + (StopEmptyPages - emptyPages)
      BY <2>5, PagesOfResearch
    <3>6. PagesToGo' = v + (StopEmptyPages - 0)
      BY <1>1, <2>5, PagesOfResearchAfter
    <3>7. StopEmptyPages \in Nat /\ emptyPages \in Nat /\ emptyPages <= StopEmptyPages
      BY <1>1, NaverNumbers DEF NaverRest
    <3> HIDE DEF u, v
    <3>8. PagesToGo' < PagesToGo
      BY <3>4, <3>5, <3>6, <3>7
    <3> QED BY <1>1, <2>1, <2>3, <2>4, <3>8, PageIsBegun
  <2>6. CASE ~Research
    <3>1. pagesLeft \in Nat /\ pagesLeft' = pagesLeft
      BY <1>1, NaverNumbers DEF NaverRest
    <3>2. CASE pagesLeft > 0
      <4>1. PagesToGo = pagesLeft /\ PagesToGo' = pagesLeft - 1
        BY <1>1, <2>1, <2>6, <3>1, <3>2, PagesOfOthers, PagesOfOthersAfter DEF LimitedPages
      <4>2. PagesToGo' < PagesToGo
        BY <3>1, <4>1
      <4> QED BY <1>1, <2>1, <2>3, <2>4, <4>2, PageIsBegun
    <3>3. CASE ~(pagesLeft > 0) /\ pastEnd = "empty"
      <4>1. PagesToGo = PagesFrom(page) /\ PagesToGo' = PagesFrom(page + 1)
        BY <1>1, <2>1, <2>6, <3>1, <3>3, PagesOfOthers, PagesOfOthersAfter
          DEF NumberedPages, PagesFrom, AllPosts
      <4>2. showing = Slice(board[At], page)
        BY <3>3 DEF Shown
      <4>3. page <= AllPosts
        <5>1. Len(board[At]) <= AllPosts
          BY <2>2 DEF WalkInv, BoardsFit
        <5> QED BY <2>1, <2>2, <4>2, <5>1, PagesEnd
      <4>4. PagesToGo' < PagesToGo
        <5>1. page + 1 \in Nat \ {0}
          BY <2>2
        <5>2. PagesFrom(page + 1) \in Nat
          BY <5>1, PagesFromIs
        <5>3. PagesFrom(page) = PagesFrom(page + 1) + 1
          BY <2>2, <4>3, PagesFromIs
        <5> QED BY <4>1, <5>2, <5>3
      <4> QED BY <1>1, <2>1, <2>3, <2>4, <4>4, PageIsBegun
    <3>4. CASE ~(pagesLeft > 0) /\ pastEnd # "empty"
      <4> DEFINE u == Unfamiliar * StopRepeatPages
      <4>1. PagesToGo = u + (StopRepeatPages - repeatPages)
        BY <1>1, <2>6, <3>4, PagesOfOthers DEF RepeatsLeft
      <4>2. PagesToGo' = u + (StopRepeatPages - repeatPages - 1)
        <5>1. RepeatsLeft' = StopRepeatPages - repeatPages - 1
          BY <1>1, <2>1 DEF RepeatsLeft
        <5>2. Unfamiliar' = Unfamiliar
          BY <1>1, SameTraits
        <5> QED BY <1>1, <2>6, <3>1, <3>4, <5>1, <5>2, PagesOfOthersAfter
      <4>3. u \in Nat /\ repeatPages \in Nat /\ StopRepeatPages \in Nat
        BY <1>1, WalkConstants, WalkCounts, TimesGrow, NaverNumbers DEF NaverRest
      <4> HIDE DEF u
      <4>4. PagesToGo' < PagesToGo
        BY <4>1, <4>2, <4>3
      <4> QED BY <1>1, <2>1, <2>3, <2>4, <4>4, PageIsBegun
    <3> QED BY <3>2, <3>3, <3>4
  <2> QED BY <2>5, <2>6
<1> QED BY <1>2, <1>3

LEMMA ItemGoesOn ==
  ASSUME WalkInv, ~EndGoesUnnoticed, NEW o \in {"yielded", "known", "skipped"}, TakeItem(o), WalkCounted'
  PROVE  WalkLeft' < WalkLeft
<1>1. /\ NaverTypes /\ NaverRest /\ crawlAt = "page" /\ queue # <<>> /\ siteTraits' = siteTraits
      /\ UNCHANGED <<category, page, pagesLeft, emptyPages, repeatPages, signatures>>
      /\ (o = "known") = Met /\ knownIds' = IF Incremental THEN knownIds \cup {Item} ELSE {}
  BY DEF WalkInv, NaverInv, TakeItem, Leave, runCounts
<1>2. CASE crawlAt' = "end"
  BY <1>1, <1>2, WalkIsLeft
<1>3. CASE crawlAt' # "end"
  <2>1. crawlAt' = "page" /\ queue' = Tail(queue) /\ newOnPage' = (newOnPage \/ CountsAsNew(o))
    BY <1>1, <1>3 DEF TakeItem, Leave
  <2>2. Len(queue') \in Nat /\ Len(queue') < Len(queue) /\ Head(queue) \in Posts
    <3>1. queue \in Seq(Posts) /\ Len(queue) \in Nat \ {0}
      BY <1>1, EmptySeq DEF NaverTypes
    <3>2. Head(queue) \in Posts /\ Len(Tail(queue)) = Len(queue) - 1
      BY <1>1, <3>1, HeadTailProperties
    <3> QED BY <2>1, <3>1, <3>2
  <2>3. PagesToGo' \in Nat /\ PagesToGo \in Nat
    BY <1>1, <2>1, PagesToGoTyped DEF WalkCounted
  <2>4. PagesToGo' <= PagesToGo
    <3>1. pagesLeft \in Nat
      BY <1>1, NaverNumbers DEF NaverRest
    <3>2. CASE Research
      <4>1. PagesToGo' = PagesToGo
        BY <1>1, <3>2, SameTraits, PagesOfResearch, PagesOfResearchAfter
      <4> QED BY <2>3, <4>1
    <3>3. CASE ~Research /\ pagesLeft > 0
      <4>1. PagesToGo' = PagesToGo
        BY <1>1, <2>1, <3>3, PagesOfOthers, PagesOfOthersAfter DEF LimitedPages
      <4> QED BY <2>3, <4>1
    <3>4. CASE ~Research /\ ~(pagesLeft > 0) /\ pastEnd = "empty"
      <4>1. PagesToGo' = PagesToGo
        BY <1>1, <2>1, <3>4, PagesOfOthers, PagesOfOthersAfter DEF NumberedPages, PagesFrom, AllPosts
      <4> QED BY <2>3, <4>1
    <3>5. CASE ~Research /\ ~(pagesLeft > 0) /\ pastEnd # "empty"
      <4>1. Incremental
        <5>1. pagesLeft = 0
          BY <3>1, <3>5
        <5> QED BY <1>1, <3>5, <5>1 DEF NaverTypes, NaverRest, NaverTraits, EndGoesUnnoticed, Incremental
      <4>2. Item \in BoardPosts
        BY <1>1, <2>2, AtIsABoard DEF Item, BoardPosts
      <4> DEFINE u == Unfamiliar * StopRepeatPages
                 v == Unfamiliar' * StopRepeatPages
      <4>3. PagesToGo = u + RepeatsLeft /\ PagesToGo' = v + RepeatsLeft'
        BY <1>1, <3>5, PagesOfOthers, PagesOfOthersAfter
      <4>4. CASE Item \in knownIds
        <5>1. o = "known" /\ knownIds' = knownIds
          BY <1>1, <4>1, <4>4 DEF Met
        <5>2. newOnPage' = newOnPage
          <6>1. newOnPage \in BOOLEAN /\ ~CountsAsNew(o)
            BY <1>1, <5>1 DEF NaverRest, NaverNames, CountsAsNew
          <6> QED BY <2>1, <6>1
        <5>3. RepeatsLeft' = RepeatsLeft
          BY <1>1, <2>1, <5>2 DEF RepeatsLeft
        <5>4. Unfamiliar' = Unfamiliar
          BY <1>1, <5>1, SameTraits
        <5>5. PagesToGo' = PagesToGo
          BY <4>3, <5>3, <5>4
        <5> QED BY <2>3, <5>5
      <4>5. CASE Item \notin knownIds
        <5>1. (BoardPosts \ knownIds)' = (BoardPosts \ knownIds) \ {Item}
          BY <1>1, <4>1, SameTraits
        <5>2. Cardinality((BoardPosts \ knownIds) \ {Item}) = Cardinality(BoardPosts \ knownIds) - 1
          BY <4>2, <4>5, WalkCounts, FS_RemoveElement
        <5>3. Cardinality(BoardPosts \ knownIds) # 0
          BY <4>2, <4>5, WalkCounts, FS_EmptySet
        <5>4. Unfamiliar' = Cardinality((BoardPosts \ knownIds)')
          BY DEF Unfamiliar
        <5>5. Unfamiliar' = Cardinality((BoardPosts \ knownIds) \ {Item})
          BY <5>1, <5>4
        <5>6. Unfamiliar' = Unfamiliar - 1 /\ Unfamiliar # 0
          BY <5>2, <5>3, <5>5 DEF Unfamiliar
        <5>7. Unfamiliar \in Nat /\ Unfamiliar' \in Nat /\ Unfamiliar' <= Unfamiliar /\ Unfamiliar' < Unfamiliar
          BY <5>6, WalkCounts
        <5>8. u \in Nat /\ v \in Nat /\ v + StopRepeatPages <= u
          BY <5>7, WalkConstants, TimesGrow
        <5>9. RepeatsLeft \in Nat /\ RepeatsLeft' \in Int /\ RepeatsLeft' <= StopRepeatPages
          <6>1. repeatPages \in Nat /\ repeatPages < StopRepeatPages /\ StopRepeatPages \in Nat
            BY <1>1, NaverNumbers DEF NaverRest, NaverCounts
          <6> QED BY <1>1, <2>1, <6>1 DEF RepeatsLeft
        <5>10. StopRepeatPages \in Nat
          BY WalkConstants
        <5> DEFINE r == RepeatsLeft
                   s == RepeatsLeft'
        <5>11. PagesToGo = u + r /\ PagesToGo' = v + s /\ r \in Nat /\ s \in Int /\ s <= StopRepeatPages
          BY <4>3, <5>9
        <5> HIDE DEF u, v, r, s
        <5> QED BY <5>8, <5>10, <5>11
      <4> QED BY <4>4, <4>5
    <3> QED BY <3>2, <3>3, <3>4, <3>5
  <2> QED BY <1>1, <2>1, <2>2, <2>3, <2>4, ItemIsTaken
<1> QED BY <1>2, <1>3

LEMMA PageEndGoesOn ==
  ASSUME WalkInv, ~EndGoesUnnoticed, PageEnds, WalkCounted'
  PROVE  WalkLeft' < WalkLeft
<1>1. /\ NaverTypes /\ NaverRest /\ crawlAt = "page" /\ siteTraits' = siteTraits
      /\ UNCHANGED <<category, emptyPages, signatures, knownIds, newOnPage>>
      /\ repeatPages' = IF Incremental /\ ~newOnPage THEN repeatPages + 1 ELSE 0
  BY DEF WalkInv, NaverInv, PageEnds
<1>2. CASE crawlAt' = "end"
  BY <1>1, <1>2, WalkIsLeft
<1>3. CASE crawlAt' # "end"
  <2>1. crawlAt' = "list" /\ page' = page + 1 /\ pagesLeft # 1
        /\ pagesLeft' = IF pagesLeft = 0 THEN 0 ELSE pagesLeft - 1
    BY <1>3 DEF PageEnds, Leave, TurnPage, PageAfter
  <2>2. PagesToGo' \in Nat /\ PagesToGo \in Nat
    BY <1>1, <2>1, PagesToGoTyped DEF WalkCounted
  <2>3. pagesLeft \in Nat
    BY <1>1, NaverNumbers DEF NaverRest
  <2>4. PagesToGo' = PagesToGo
    <3>1. CASE Research
      BY <1>1, <3>1, SameTraits, PagesOfResearch, PagesOfResearchAfter
    <3>2. CASE ~Research /\ pagesLeft > 0
      <4>1. pagesLeft' = pagesLeft - 1 /\ pagesLeft' > 0
        BY <2>1, <2>3, <3>2
      <4>2. PagesToGo = pagesLeft - 1
        BY <1>1, <3>2, PagesOfOthers DEF LimitedPages
      <4>3. PagesToGo' = pagesLeft'
        BY <1>1, <2>1, <3>2, <4>1, PagesOfOthersAfter DEF LimitedPages
      <4> QED BY <4>1, <4>2, <4>3
    <3>3. CASE ~Research /\ ~(pagesLeft > 0) /\ pastEnd = "empty"
      <4>1. pagesLeft' = 0
        BY <2>1, <2>3, <3>3
      <4>2. PagesToGo' = PagesFrom(page + 1)
        BY <1>1, <2>1, <3>3, <4>1, PagesOfOthersAfter DEF NumberedPages, PagesFrom, AllPosts
      <4>3. PagesToGo = PagesFrom(page + 1)
        BY <1>1, <3>3, PagesOfOthers DEF NumberedPages
      <4> QED BY <4>2, <4>3
    <3>4. CASE ~Research /\ ~(pagesLeft > 0) /\ pastEnd # "empty"
      <4>1. pagesLeft' = 0 /\ pagesLeft = 0
        BY <2>1, <2>3, <3>4
      <4>2. Incremental
        BY <1>1, <3>4, <4>1 DEF NaverTypes, NaverRest, NaverTraits, EndGoesUnnoticed, Incremental
      <4>3. RepeatsLeft' = RepeatsLeft
        <5>1. repeatPages \in Nat /\ StopRepeatPages \in Nat
          BY <1>1, WalkConstants, NaverNumbers DEF NaverRest
        <5> QED BY <1>1, <2>1, <4>2, <5>1 DEF RepeatsLeft
      <4>4. Unfamiliar' = Unfamiliar
        BY <1>1, SameTraits
      <4> QED BY <1>1, <3>4, <4>1, <4>3, <4>4, PagesOfOthers, PagesOfOthersAfter
    <3> QED BY <3>1, <3>2, <3>3, <3>4
  <2>5. PagesToGo' <= PagesToGo
    BY <2>2, <2>4
  <2> QED BY <1>1, <2>1, <2>2, <2>5, PageFollows
<1> QED BY <1>2, <1>3

LEMMA CategoryGoesOn ==
  ASSUME WalkInv, NEW limit \in PageLimits, NextCategory(limit)
  PROVE  WalkLeft' < WalkLeft
<1>1. /\ NaverTypes /\ crawlAt = "end" /\ Research /\ category < Len(Categories) /\ siteTraits' = siteTraits
      /\ crawlAt' = "list" /\ category' = category + 1 /\ emptyPages' = 0 /\ signatures' = {}
  BY DEF WalkInv, NaverInv, NextCategory, BeginCategory
<1> DEFINE later == (Len(Categories) - (category + 1)) * CategorySteps
           pages == Cardinality(PageLists) * (StopEmptyPages + 1) + StopEmptyPages
           steps == pages * PageSteps
<1>2. later \in Nat /\ WalkLeft = later + CategorySteps + 1
  <2>1. later \in Nat /\ CategoriesToGo = later + CategorySteps
    BY <1>1, CategoriesToGoTyped
  <2>2. WalkLeft = CategoriesToGo + 1
    BY <1>1 DEF WalkLeft
  <2> QED BY <2>1, <2>2
<1>3. CategorySteps = steps + 2 /\ steps \in Nat
  <2>1. pages \in Nat /\ PageSteps \in Nat
    BY WalkConstants
  <2> HIDE DEF pages
  <2>2. steps \in Nat
    BY <2>1, TimesGrow
  <2> QED BY <2>2 DEF CategorySteps, pages
<1>4. WalkLeft' = later + steps + 2
  <2>1. Unshown' = Cardinality(PageLists)
    <3>1. (PageLists \ signatures)' = PageLists
      BY <1>1 DEF PageLists, Posts
    <3> QED BY <3>1 DEF Unshown
  <2>2. PagesToGo' = Cardinality(PageLists) * (StopEmptyPages + 1) + (StopEmptyPages - 0)
    BY <1>1, <2>1, PagesOfResearchAfter
  <2>3. PagesToGo' = pages
    <3> DEFINE a == Cardinality(PageLists) * (StopEmptyPages + 1)
    <3>1. StopEmptyPages - 0 = StopEmptyPages
      BY WalkConstants
    <3> QED BY <2>2, <3>1
  <2>4. CategoriesToGo' = later
    BY <1>1, SameTraits DEF CategoriesToGo, CategorySteps, PageSteps, PageLists, Posts
  <2> HIDE DEF later, pages
  <2>5. WalkLeft' = CategoriesToGo' + PagesToGo' * PageSteps + 2
    BY <1>1 DEF WalkLeft, PageSteps
  <2> QED BY <2>3, <2>4, <2>5
<1> HIDE DEF later, steps
<1> QED BY <1>2, <1>3, <1>4

(* The site changes a board by a post more or less, and never has more posts *)
(* than there can be.                                                       *)
LEMMA BoardChanges ==
  ASSUME NaverTypes, BoardsFit, NEW c \in Boards, PostArrives(c) \/ \E n \in DOMAIN board[c] : PostVanishes(c, n)
  PROVE  /\ board' # board /\ BoardsFit'
         /\ UNCHANGED <<siteTraits, runCounts, crawlAt, category, page, pagesLeft, queue, newOnPage, knownIds>>
<1>1. UNCHANGED <<siteTraits, runCounts, crawlAt, category, page, pagesLeft, queue, newOnPage, knownIds>>
  BY DEF PostArrives, PostVanishes
<1>2. Boards' = Boards /\ AllPosts' = AllPosts
  BY <1>1, SameTraits DEF AllPosts
<1>3. /\ board \in [Boards -> Seq(Posts)] /\ lost \in Nat /\ AllPosts \in Nat
      /\ \A d \in Boards : board[d] \in Seq(Posts) /\ Len(board[d]) \in Nat /\ Len(board[d]) <= AllPosts
  BY WalkConstants, LenProperties DEF NaverTypes, BoardsFit
<1>4. ASSUME PostArrives(c) PROVE board' # board /\ BoardsFit'
  <2> DEFINE x == Len(board[c]) + lost + 1
             after == <<x>> \o board[c]
  <2>1. /\ board' = [board EXCEPT ![c] = after] /\ lost' = lost
        /\ \A d \in Boards : Len(board[d]) + lost < AllPosts
    BY <1>4 DEF PostArrives, AllPosts
  <2>2. x \in Posts
    <3>1. Len(board[c]) + lost < AllPosts
      BY <2>1
    <3> QED BY <1>3, <3>1 DEF AllPosts, Posts
  <2>3. Len(after) = Len(board[c]) + 1
    BY <1>3, <2>2, ArrivalIs
  <2> HIDE DEF after
  <2>4. board'[c] = after /\ \A d \in Boards : d # c => board'[d] = board[d]
    BY <1>3, <2>1
  <2>5. board' # board
    BY <1>3, <2>3, <2>4
  <2>6. ASSUME NEW d \in Boards PROVE Len(board'[d]) <= AllPosts
    <3>1. Len(board'[d]) = Len(board[d]) \/ Len(board'[d]) = Len(board[d]) + 1
      BY <2>3, <2>4
    <3>2. Len(board[d]) + lost < AllPosts /\ Len(board[d]) \in Nat
      BY <1>3, <2>1
    <3> QED BY <1>3, <3>1, <3>2
  <2> QED BY <1>2, <2>5, <2>6 DEF BoardsFit
<1>5. ASSUME NEW n \in DOMAIN board[c], PostVanishes(c, n) PROVE board' # board /\ BoardsFit'
  <2> DEFINE after == RemoveAt(board[c], n)
  <2>1. board' = [board EXCEPT ![c] = after]
    BY <1>5 DEF PostVanishes
  <2>2. n \in 1 .. Len(board[c])
    BY <1>3, LenProperties
  <2>3. Len(after) = Len(board[c]) - 1
    BY <1>3, <2>2, VanishingIs
  <2> HIDE DEF after
  <2>4. board'[c] = after /\ \A d \in Boards : d # c => board'[d] = board[d]
    BY <1>3, <2>1
  <2>5. board' # board
    BY <1>3, <2>3, <2>4
  <2>6. ASSUME NEW d \in Boards PROVE Len(board'[d]) <= AllPosts
    <3>1. Len(board'[d]) = Len(board[d]) \/ Len(board'[d]) = Len(board[d]) - 1
      BY <2>3, <2>4
    <3> QED BY <1>3, <3>1
  <2> QED BY <1>2, <2>5, <2>6 DEF BoardsFit
<1> QED BY <1>1, <1>4, <1>5

LEMMA WalkStarts == NaverInit => WalkInv
<1> SUFFICES ASSUME NaverInit PROVE WalkInv
  OBVIOUS
<1>1. NaverInv
  BY NaverStarts
<1>2. NaverRest
  BY NaverZeros DEF NaverInit, NaverRest, NaverTraits, NaverCounts, NaverNames
<1>3. BoardsFit
  <2>1. FirstPosts \in Nat /\ FirstPosts <= AllPosts
    BY NaverAssumption DEF AllPosts
  <2>2. ASSUME NEW c \in Boards PROVE Len(board[c]) = FirstPosts
    <3>1. board[c] = [n \in 1 .. FirstPosts |-> FirstPosts + 1 - n]
      BY DEF NaverInit
    <3>2. board[c] \in Seq(Posts)
      BY <1>1 DEF NaverInv, NaverTypes
    <3> QED BY <2>1, <3>1, <3>2, LenProperties
  <2> QED BY <2>1, <2>2 DEF BoardsFit
<1> QED BY <1>1, <1>2, <1>3 DEF WalkInv

LEMMA BoardsStay ==
  ASSUME WalkInv, BoardGoesOn \/ BoardStopped \/ BoardRaises \/ (\E limit \in PageLimits : StartBoard(limit))
  PROVE  BoardsFit'
<1>1. siteTraits' = siteTraits /\ board' = board
  BY DEF BoardGoesOn, EmptyList, FetchList, PageEnds, BoardEnds, TakeItem, NextCategory, BoardStopped, BoardRaises,
    StartBoard, SaveScope, CrawlOver
<1> QED BY <1>1, SameTraits DEF WalkInv, BoardsFit, AllPosts

LEMMA WalkStep == WalkInv /\ [NaverNext]_boardVars => WalkInv' /\ WalkCounted'
<1> SUFFICES ASSUME WalkInv, [NaverNext]_boardVars PROVE WalkInv' /\ WalkCounted'
  OBVIOUS
<1>1. NaverInv' /\ NaverRest' /\ NaverTypes /\ NaverTypes'
  <2>1. NaverInv /\ NaverRest /\ NaverTypes
    BY DEF WalkInv, NaverInv
  <2>2. NaverInv' /\ NaverRest'
    BY <2>1, NaverStep, NaverStepOrRest
  <2> QED BY <2>1, <2>2 DEF NaverInv
<1>2. WalkCounted'
  BY <1>1, CountedAfter
<1>3. BoardsFit'
  <2>1. CASE BoardGoesOn \/ BoardStopped \/ BoardRaises \/ (\E limit \in PageLimits : StartBoard(limit))
    BY <2>1, BoardsStay
  <2>2. ASSUME NEW c \in Boards, PostArrives(c) \/ \E n \in DOMAIN board[c] : PostVanishes(c, n)
        PROVE  BoardsFit'
    BY <1>1, <2>2, BoardChanges DEF WalkInv
  <2>3. CASE UNCHANGED boardVars
    <3>1. siteTraits' = siteTraits /\ board' = board
      BY <2>3 DEF boardVars, siteTraits
    <3> QED BY <3>1, SameTraits DEF WalkInv, BoardsFit, AllPosts
  <2> QED BY <2>1, <2>2, <2>3 DEF NaverNext
<1> QED BY <1>1, <1>2, <1>3 DEF WalkInv

LEMMA WalkGoesOn ==
  WalkInv /\ NaverNext =>
    (crawlAt # "off" /\ ~EndGoesUnnoticed => WalkLeft' < WalkLeft \/ (board' # board /\ WalkLeft' = WalkLeft))
<1> SUFFICES ASSUME WalkInv, NaverNext, crawlAt # "off", ~EndGoesUnnoticed
             PROVE  WalkLeft' < WalkLeft \/ (board' # board /\ WalkLeft' = WalkLeft)
  OBVIOUS
<1>1. WalkCounted'
  BY WalkStep
<1>2. CASE EmptyList
  BY <1>1, <1>2, EmptyListGoesOn
<1>3. CASE FetchList
  BY <1>1, <1>3, FetchListGoesOn
<1>4. CASE PageEnds
  BY <1>1, <1>4, PageEndGoesOn
<1>5. CASE BoardEnds \/ BoardStopped \/ BoardRaises
  <2>1. crawlAt' = "off"
    BY <1>5 DEF BoardEnds, BoardStopped, BoardRaises, SaveScope, CrawlOver
  <2>2. WalkLeft' = 0
    BY <2>1 DEF WalkLeft
  <2>3. WalkLeft \in Nat /\ WalkLeft > 0
    BY WalkTyped DEF WalkInv, NaverInv
  <2> QED BY <2>2, <2>3
<1>6. ASSUME NEW o \in {"yielded", "known", "skipped"}, TakeItem(o) PROVE WalkLeft' < WalkLeft
  BY <1>1, <1>6, ItemGoesOn
<1>7. ASSUME NEW limit \in PageLimits, NextCategory(limit) PROVE WalkLeft' < WalkLeft
  BY <1>7, CategoryGoesOn
<1>8. ASSUME NEW limit \in PageLimits PROVE ~StartBoard(limit)
  BY DEF StartBoard
<1>9. ASSUME NEW c \in Boards, PostArrives(c) \/ \E n \in DOMAIN board[c] : PostVanishes(c, n)
      PROVE  board' # board /\ WalkLeft' = WalkLeft
  BY <1>9, BoardChanges, SiteLeavesWalk DEF WalkInv, NaverInv
<1> QED BY <1>2, <1>3, <1>4, <1>5, <1>6, <1>7, <1>8, <1>9 DEF NaverNext, BoardGoesOn

(* The last page again is never an empty one.                               *)
LEMMA AlwaysShown ==
  ASSUME NEW c, board[c] \in Seq(Posts), board[c] # <<>>, NEW p \in Nat \ {0}, pastEnd = "last"
  PROVE  Shown(c, p) # <<>>
<1>1. ASSUME NEW q \in Nat \ {0}, FirstOf(q) < Len(board[c]) PROVE Slice(board[c], q) # <<>>
  <2>1. Edges(board[c], q)
    BY NamedEdges, Zenon
  <2>2. Len(Slice(board[c], q)) = UpTo(board[c], q) - UpTo(board[c], q - 1)
    BY SliceIs
  <2>3. UpTo(board[c], q) - UpTo(board[c], q - 1) > 0
    BY <1>1, <2>1, PageSizeIs DEF Edges
  <2> QED BY <2>2, <2>3, EmptySeq
<1> DEFINE last == LastPage(board[c])
<1>2. last \in Nat \ {0} /\ FirstOf(last) \in Nat /\ FirstOf(last) < Len(board[c]) /\ Len(board[c]) \in Nat
  BY LastPageIs, LenProperties DEF FirstOf
<1>3. Shown(c, p) = Slice(board[c], IF p <= last THEN p ELSE last)
  BY DEF Shown
<1> HIDE DEF last
<1>4. CASE p <= last
  <2>1. p - 1 \in Nat /\ last - 1 \in Nat /\ p - 1 <= last - 1
    BY <1>2, <1>4
  <2>2. FirstOf(p) <= FirstOf(last) /\ FirstOf(p) \in Nat
    BY <2>1, PageSizeIs, TimesGrow DEF FirstOf
  <2>3. FirstOf(p) < Len(board[c])
    BY <1>2, <2>2
  <2> QED BY <1>1, <1>3, <1>4, <2>3
<1>5. CASE ~(p <= last)
  BY <1>1, <1>2, <1>3, <1>5
<1> QED BY <1>4, <1>5

LEMMA WalkIsEndless == WalkInv /\ Walking /\ BoardGoesOn => crawlAt' \in {"list", "page"}
<1> SUFFICES ASSUME WalkInv, Walking, BoardGoesOn PROVE crawlAt' \in {"list", "page"}
  OBVIOUS
<1>1. /\ NaverTypes /\ NaverRest /\ At \in Boards /\ board[At] \in Seq(Posts) /\ page \in Nat \ {0}
      /\ pagesLeft = 0 /\ pastEnd = "last" /\ ~Research /\ ~Incremental
  BY AtIsABoard DEF WalkInv, NaverInv, NaverTypes, Walking, EndGoesUnnoticed, Incremental, Research
<1>2. ~EmptyList /\ ~BoardEnds /\ \A limit \in PageLimits : ~NextCategory(limit)
  BY <1>1, AlwaysShown DEF Walking, EmptyList, BoardEnds, NextCategory
<1>3. CASE FetchList
  BY <1>1, <1>3 DEF FetchList
<1>4. ASSUME NEW o \in {"yielded", "known", "skipped"}, TakeItem(o) PROVE crawlAt' = "page"
  BY <1>1, <1>4 DEF TakeItem, Research
<1>5. CASE PageEnds
  <2>1. repeatPages' = 0 /\ StopRepeatPages # 0
    BY <1>1, <1>5, NaverAssumption DEF PageEnds
  <2> QED BY <1>1, <1>5, <2>1 DEF PageEnds, TurnPage
<1> QED BY <1>2, <1>3, <1>4, <1>5 DEF BoardGoesOn

(* A walk over the pages of a board is finite, for any boards, page sizes    *)
(* and limits, unless its end goes unnoticed: what is left of it is a       *)
(* natural number that every step of the walk makes smaller, and that posts *)
(* which arrive or vanish meanwhile never make larger.  The walk whose end   *)
(* goes unnoticed is never over of itself.                                  *)
THEOREM WalkRunsOut == NaverSpec => []WalkIsFinite /\ WalkGoesDown /\ WalkGoesRound
<1>1. WalkInv => WalkIsFinite
  BY WalkTyped DEF WalkInv, NaverInv, WalkIsFinite
<1>2. WalkInv /\ [NaverNext]_boardVars =>
        [crawlAt # "off" /\ ~EndGoesUnnoticed
           => WalkLeft' < WalkLeft \/ (board' # board /\ WalkLeft' = WalkLeft)]_boardVars
  BY WalkGoesOn
<1>3. WalkInv /\ [NaverNext]_boardVars =>
        [Walking /\ BoardGoesOn => crawlAt' \in {"list", "page"}]_boardVars
  BY WalkIsEndless
<1>4. WalkInv /\ [NaverNext]_boardVars => WalkInv'
  BY WalkStep
<1> QED BY <1>1, <1>2, <1>3, <1>4, WalkStarts, PTL DEF NaverSpec, WalkGoesDown, WalkGoesRound

-----------------------------------------------------------------------------
(* HKEX: why a process goes on only with all it was asked for.  A search    *)
(* misses only what is released on or after a day, the last one asked for or *)
(* the one its process began on; it is stored with that day, also when it   *)
(* is taken from the cache of another dataset.                              *)
USE HkexAssumption

(* What is left of the datasets is always an end of their list.             *)
Ends == {ReportDatasets, <<"financial_report_instrument", "attachment">>, <<"attachment">>, <<>>}

(* The day from which the searches of this process may lack reports.        *)
Limit(asked) == IF dateOption = 0 THEN asked.to ELSE startedOn

HTypes ==
  /\ today \in Days /\ releasedOn \in [Reports -> 0 .. LastDay]
  /\ hkexMode \in HkexModes \cup {"off"}
  /\ dateFrom \in Days /\ dateOption \in 0 .. LastDay /\ typesAsked \subseteq ReportTypes /\ startedOn \in Days
  /\ datasetsLeft \in Ends /\ request \in HkexRequests
  /\ typesLeft \subseteq ReportTypes /\ found \subseteq Reports /\ searchDone \in BOOLEAN
  /\ searchCache \subseteq HkexRequests \X SUBSET Reports
  /\ scopeState \in [DatasetNames -> HkexRequests] /\ recordsKept \in [DatasetNames -> SUBSET Reports]
  /\ answersUpTo \in [DatasetNames -> Days]

(* Whatever the days asked for, those that are answered for have come.      *)
HDays ==
  /\ startedOn <= today /\ Limit(request) <= today
  /\ \A c \in searchCache : Limit(c[1]) <= today
  /\ \A d \in DatasetNames : answersUpTo[d] <= today

(* What is asked for and released early enough is found or has its search   *)
(* still to come.                                                           *)
HSearch ==
  /\ \A r \in Reports :
       TypeOf[r] \in request.types /\ releasedOn[r] \in request.from .. request.to /\ releasedOn[r] < Limit(request)
         => TypeOf[r] \in typesLeft \/ r \in found
  /\ searchDone => typesLeft = {}
  /\ searchDone \/ typesLeft # {} => datasetsLeft # <<>> /\ request.types # {}
  /\ datasetsLeft # <<>> => typesAsked # {}
  /\ hkexMode = "off" => datasetsLeft = <<>> /\ request = NoRequest /\ typesLeft = {} /\ ~searchDone

HCache == \A c \in searchCache : HasAll(c[2], c[1], Limit(c[1]))

HKept == \A d \in DatasetNames : HasAll(recordsKept[d], scopeState[d], answersUpTo[d])

HInv == HTypes /\ HDays /\ HSearch /\ HCache /\ HKept

LEMMA NamesOfDatasets == DatasetNames = {"financial_report", "financial_report_instrument", "attachment"}
BY DEF DatasetNames, ReportDatasets

LEMMA EndsOfList ==
  ASSUME NEW s \in Ends, s # <<>>
  PROVE  /\ Head(s) \in DatasetNames /\ Tail(s) \in Ends
         /\ Tail(s) # ReportDatasets /\ Tail(s) # s
         /\ s \in Seq(DatasetNames)
<1>1. s = ReportDatasets \/ s = <<"financial_report_instrument", "attachment">> \/ s = <<"attachment">>
  BY DEF Ends
<1>2. CASE s = ReportDatasets
  BY <1>2, NamesOfDatasets DEF Ends, ReportDatasets
<1>3. CASE s = <<"financial_report_instrument", "attachment">>
  BY <1>3, NamesOfDatasets DEF Ends, ReportDatasets
<1>4. CASE s = <<"attachment">>
  BY <1>4, NamesOfDatasets DEF Ends, ReportDatasets
<1>5. QED
  BY <1>1, <1>2, <1>3, <1>4

LEMMA NothingLeft == <<>> \in Ends
BY DEF Ends

LEMMA NoRequestTyped == NoRequest \in HkexRequests /\ NoRequest.to = 1 /\ NoRequest.types = {}
BY DEF NoRequest, HkexRequests, Days

LEMMA HkexStarts == HkexInit => HInv
<1> SUFFICES ASSUME HkexInit PROVE HInv
  OBVIOUS
<1>1. HTypes
  <2>1. /\ scopeState \in [DatasetNames -> HkexRequests] /\ recordsKept \in [DatasetNames -> SUBSET Reports]
        /\ answersUpTo \in [DatasetNames -> Days]
    BY NoRequestTyped DEF HkexInit, Days
  <2>2. today \in Days /\ releasedOn \in [Reports -> 0 .. LastDay] /\ hkexMode \in HkexModes \cup {"off"}
    BY DEF HkexInit, Days
  <2>3. dateFrom \in Days /\ dateOption \in 0 .. LastDay /\ typesAsked \subseteq ReportTypes /\ startedOn \in Days
    BY DEF HkexInit, Days
  <2>4. datasetsLeft \in Ends /\ request \in HkexRequests
    BY NothingLeft, NoRequestTyped DEF HkexInit
  <2>5. /\ typesLeft \subseteq ReportTypes /\ found \subseteq Reports /\ searchDone \in BOOLEAN
        /\ searchCache \subseteq HkexRequests \X SUBSET Reports
    BY DEF HkexInit
  <2>6. QED
    BY <2>1, <2>2, <2>3, <2>4, <2>5 DEF HTypes
<1>2. HDays
  BY NoRequestTyped DEF HkexInit, HDays, Limit
<1>3. HSearch
  BY NoRequestTyped DEF HkexInit, HSearch
<1>4. HCache /\ HKept
  BY NoRequestTyped DEF HkexInit, HCache, HKept, HasAll
<1>5. QED
  BY <1>1, <1>2, <1>3, <1>4 DEF HInv

LEMMA InvImplies == HInv => HkexTypeOK
<1> SUFFICES ASSUME HInv PROVE HkexTypeOK
  OBVIOUS
<1>1. datasetsLeft \in Seq(DatasetNames)
  <2>1. <<>> \in Seq(DatasetNames)
    OBVIOUS
  <2>2. datasetsLeft \in Ends
    BY DEF HInv, HTypes
  <2>3. QED
    BY <2>1, <2>2, EndsOfList
<1>2. QED
  BY <1>1 DEF HInv, HTypes, HkexTypeOK

-----------------------------------------------------------------------------
(* Steps                                                                    *)

LEMMA LimitTyped == ASSUME HInv, NEW asked \in HkexRequests PROVE Limit(asked) \in Days
BY DEF HInv, HTypes, HkexRequests, Limit

LEMMA ReleaseKeeps == ASSUME HInv, NEW r \in Reports, Release(r) PROVE HInv'
<1> USE DEF Release, scope, commandLine, hkexStored
<1>0. /\ today \in Nat /\ today > 0 /\ releasedOn \in [Reports -> 0 .. LastDay] /\ request \in HkexRequests
      /\ releasedOn' = [releasedOn EXCEPT ![r] = today]
  BY DEF HInv, HTypes, Days
<1>1. HTypes'
  BY DEF HInv, HTypes, Days
<1>2. HDays'
  BY DEF HInv, HDays, Limit
<1>3. HSearch'
  <2>1. \A t \in Reports : releasedOn'[t] < Limit(request) => releasedOn'[t] = releasedOn[t]
    BY <1>0, LimitTyped DEF HInv, HDays, Days
  <2>2. Limit(request)' = Limit(request)
    BY DEF Limit
  <2>3. QED
    BY <2>1, <2>2 DEF HInv, HSearch
<1>4. HCache'
  <2> SUFFICES ASSUME NEW c \in searchCache PROVE HasAll(c[2], c[1], Limit(c[1]))'
    BY DEF HCache
  <2>1. c[1] \in HkexRequests /\ HasAll(c[2], c[1], Limit(c[1])) /\ Limit(c[1]) <= today
    BY DEF HInv, HTypes, HDays, HCache
  <2>2. Limit(c[1]) \in Nat
    BY <2>1, LimitTyped DEF Days
  <2>3. HasAll(c[2], c[1], Limit(c[1]))' <=> \A t \in Reports :
          TypeOf[t] \in c[1].types /\ releasedOn'[t] \in c[1].from .. c[1].to /\ releasedOn'[t] < Limit(c[1])
            => t \in c[2]
    BY DEF HasAll, Limit
  <2>4. \A t \in Reports : releasedOn'[t] < Limit(c[1]) => releasedOn'[t] = releasedOn[t]
    BY <1>0, <2>1, <2>2
  <2>5. QED
    BY <2>1, <2>3, <2>4 DEF HasAll
<1>5. HKept'
  <2> SUFFICES ASSUME NEW d \in DatasetNames
               PROVE  HasAll(recordsKept[d], scopeState[d], answersUpTo[d])'
    BY DEF HKept
  <2>1. /\ scopeState[d] \in HkexRequests /\ answersUpTo[d] \in Nat /\ answersUpTo[d] <= today
        /\ HasAll(recordsKept[d], scopeState[d], answersUpTo[d])
    BY DEF HInv, HTypes, HDays, HKept, Days
  <2>2. \A t \in Reports : releasedOn'[t] < answersUpTo[d] => releasedOn'[t] = releasedOn[t]
    BY <1>0, <2>1
  <2>3. QED
    BY <2>1, <2>2 DEF HasAll
<1>6. QED
  BY <1>1, <1>2, <1>3, <1>4, <1>5 DEF HInv

(* Steps that leave the reports and the stored records alone.               *)
LEMMA KeptStays ==
  ASSUME HInv, UNCHANGED <<releasedOn, hkexStored>> PROVE HKept'
BY DEF HInv, HKept, HasAll, hkexStored

LEMMA CacheStays ==
  ASSUME HInv, UNCHANGED <<releasedOn, dateOption, startedOn, searchCache>> \/ searchCache' = {} PROVE HCache'
BY DEF HInv, HCache, HasAll, Limit

LEMMA MidnightKeeps == ASSUME HInv, Midnight PROVE HInv'
<1> USE DEF Midnight, scope, commandLine, hkexStored
<1>1. HTypes'
  BY DEF HInv, HTypes, Days
<1>2. HDays'
  <2>1. today \in Nat /\ today' = today + 1 /\ startedOn \in Nat /\ Limit(request) \in Nat
    BY LimitTyped DEF HInv, HTypes, Days
  <2>2. \A c \in searchCache : Limit(c[1]) \in Nat
    BY LimitTyped DEF HInv, HTypes, Days
  <2>3. \A d \in DatasetNames : answersUpTo[d] \in Nat
    BY DEF HInv, HTypes, Days
  <2>4. Limit(request)' = Limit(request) /\ \A c \in searchCache : Limit(c[1])' = Limit(c[1])
    BY DEF Limit
  <2>5. QED
    BY <2>1, <2>2, <2>3, <2>4 DEF HInv, HDays
<1>3. HSearch'
  BY DEF HInv, HSearch, Limit
<1>4. QED
  BY <1>1, <1>2, <1>3, KeptStays, CacheStays DEF HInv

LEMMA StartKeeps == ASSUME HInv, NEW command \in HkexCommands, StartHkex(command) PROVE HInv'
<1> USE DEF StartHkex, world, scope
<1>0. /\ command.mode \in HkexModes /\ command.from \in 0 .. LastDay /\ command.to \in 0 .. LastDay
      /\ command.types \subseteq ReportTypes /\ command.types # {}
      /\ today \in Days /\ request = NoRequest /\ typesLeft = {} /\ ~searchDone
  <2>1. command \in [mode : HkexModes, from : 0 .. LastDay, to : 0 .. LastDay, types : (SUBSET ReportTypes) \ {{}}]
    BY HkexAssumption
  <2>2. hkexMode = "off" /\ HInv
    OBVIOUS
  <2> HIDE DEF StartHkex
  <2>3. today \in Days /\ request = NoRequest /\ typesLeft = {} /\ ~searchDone
    BY <2>2 DEF HInv, HTypes, HSearch
  <2>4. /\ command.mode \in HkexModes /\ command.from \in 0 .. LastDay /\ command.to \in 0 .. LastDay
        /\ command.types \in (SUBSET ReportTypes) \ {{}}
    BY <2>1
  <2>5. QED
    BY <2>3, <2>4
<1>1. HTypes'
  <2>1. dateFrom' \in Days
    BY <1>0 DEF Lookback, Days
  <2>2. dateOption' \in 0 .. LastDay /\ typesAsked' \subseteq ReportTypes /\ startedOn' \in Days
    BY <1>0 DEF Days
  <2>3. datasetsLeft' \in Ends /\ searchCache' \subseteq HkexRequests \X SUBSET Reports
    BY DEF Ends
  <2>4. hkexMode' \in HkexModes \cup {"off"}
    BY <1>0
  <2>5. UNCHANGED <<today, releasedOn, request, typesLeft, found, searchDone, scopeState, recordsKept, answersUpTo>>
    BY DEF hkexStored
  <2> HIDE DEF StartHkex
  <2>6. QED
    BY <2>1, <2>2, <2>3, <2>4, <2>5 DEF HInv, HTypes
<1>2. HDays'
  <2>1. Limit(request)' <= today'
    BY <1>0, NoRequestTyped DEF Limit, Days
  <2>2. QED
    BY <1>0, <2>1 DEF HInv, HDays, Days, hkexStored
<1>3. HSearch'
  BY <1>0, NoRequestTyped DEF HInv, HSearch, HkexModes, ReportDatasets
<1>4. QED
  BY <1>1, <1>2, <1>3, KeptStays, CacheStays DEF HInv

LEMMA SkipKeeps == ASSUME HInv, SkipReports PROVE HInv'
<1> USE DEF SkipReports, AtScope, world, scope, commandLine
<1>0. datasetsLeft \in Ends /\ datasetsLeft # <<>> /\ datasetsLeft' = Tail(datasetsLeft) /\ request = NoRequest
  BY DEF HInv, HTypes
<1>1. HTypes'
  BY <1>0, EndsOfList DEF HInv, HTypes, hkexStored
<1>2. HDays'
  BY DEF HInv, HDays, Limit, hkexStored
<1>3. HSearch'
  BY <1>0, NoRequestTyped DEF HInv, HSearch
<1>4. QED
  BY <1>1, <1>2, <1>3, KeptStays, CacheStays DEF HInv

LEMMA AskedTyped ==
  ASSUME HInv
  PROVE  AskedFor \in HkexRequests /\ AskedFor.types = typesAsked /\ Limit(AskedFor) <= today
BY DEF HInv, HTypes, HDays, AskedFor, HkexRequests, Days, Limit

LEMMA BeginKeeps == ASSUME HInv, BeginReports PROVE HInv'
<1> USE DEF BeginReports, AtScope, world, commandLine
<1>0. /\ AskedFor \in HkexRequests /\ AskedFor.types = typesAsked /\ Limit(AskedFor) <= today
      /\ request' = AskedFor /\ Limit(request)' = Limit(AskedFor)
      /\ typesAsked # {} /\ hkexMode # "off" /\ datasetsLeft # <<>>
      /\ UNCHANGED <<today, releasedOn, hkexMode, dateFrom, dateOption, typesAsked, startedOn, datasetsLeft,
                     searchCache, scopeState, recordsKept, answersUpTo>>
  BY AskedTyped DEF HInv, HSearch, Limit, hkexStored
<1>1. HDays'
  BY <1>0 DEF HInv, HDays, Limit
<1>2. CASE CacheHit(AskedFor) # {}
  <2>1. PICK c \in CacheHit(AskedFor) : found' = c[2] /\ searchDone' = TRUE /\ typesLeft' = {}
    BY <1>2
  <2>2. c \in searchCache /\ c[1] = AskedFor /\ c[2] \subseteq Reports /\ HasAll(c[2], AskedFor, Limit(AskedFor))
    BY <2>1 DEF CacheHit, HInv, HTypes, HCache
  <2>3. HTypes'
    <3>1. typesLeft' \subseteq ReportTypes /\ found' \subseteq Reports /\ searchDone' \in BOOLEAN
      BY <2>1, <2>2
    <3> HIDE DEF BeginReports
    <3>2. QED
      BY <1>0, <3>1 DEF HInv, HTypes
  <2>4. HSearch'
    BY <1>0, <2>1, <2>2 DEF HInv, HSearch, HasAll
  <2>5. QED
    BY <1>0, <1>1, <2>3, <2>4, KeptStays, CacheStays DEF HInv, hkexStored
<1>3. CASE CacheHit(AskedFor) = {}
  <2>1. searchDone' = FALSE /\ typesLeft' = typesAsked /\ found' = {}
    BY <1>3
  <2>2. HTypes'
    <3>1. typesLeft' \subseteq ReportTypes /\ found' \subseteq Reports /\ searchDone' \in BOOLEAN
      BY <2>1 DEF HInv, HTypes
    <3> HIDE DEF BeginReports
    <3>2. QED
      BY <1>0, <3>1 DEF HInv, HTypes
  <2>3. HSearch'
    BY <1>0, <2>1 DEF HInv, HSearch
  <2>4. QED
    BY <1>0, <1>1, <2>2, <2>3, KeptStays, CacheStays DEF HInv, hkexStored
<1>4. QED
  BY <1>2, <1>3

(* A search of one type finds all of the request that is released by then.  *)
LEMMA SearchKeeps == ASSUME HInv, NEW t \in ReportTypes, SearchType(t) PROVE HInv'
<1> USE DEF SearchType, world, commandLine
<1>0. /\ request \in HkexRequests /\ Results(t) \subseteq Reports /\ releasedOn \in [Reports -> 0 .. LastDay]
      /\ Limit(request)' = Limit(request) /\ datasetsLeft # <<>> /\ request.types # {} /\ hkexMode # "off"
  BY DEF HInv, HTypes, HSearch, Results, Limit
<1>1. \A r \in Reports :
        TypeOf[r] \in request.types /\ releasedOn[r] \in request.from .. request.to /\ releasedOn[r] < Limit(request)
          => TypeOf[r] \in typesLeft' \/ r \in found'
  BY <1>0 DEF HInv, HSearch, Results
<1>2. HTypes'
  <2>1. typesLeft' \subseteq ReportTypes /\ found' \subseteq Reports /\ searchDone' \in BOOLEAN
    BY <1>0 DEF HInv, HTypes
  <2>2. searchCache' \subseteq HkexRequests \X SUBSET Reports
    BY <1>0, <2>1 DEF HInv, HTypes
  <2>3. UNCHANGED <<today, releasedOn, hkexMode, dateFrom, dateOption, typesAsked, startedOn, datasetsLeft, request,
                    scopeState, recordsKept, answersUpTo>>
    BY DEF hkexStored
  <2> HIDE DEF SearchType
  <2>4. QED
    BY <2>1, <2>2, <2>3 DEF HInv, HTypes
<1>3. HDays'
  BY <1>0 DEF HInv, HDays, Limit, hkexStored
<1>4. HSearch'
  BY <1>0, <1>1 DEF HInv, HSearch
<1>5. HCache'
  <2>1. CASE searchDone'
    <3>1. \A r \in Reports :
            TypeOf[r] \in request.types /\ releasedOn[r] \in request.from .. request.to /\ releasedOn[r] < Limit(request)
              => r \in found'
      BY <1>1, <2>1
    <3>2. searchCache' = searchCache \cup {<<request, found'>>}
      BY <2>1
    <3>3. \A c \in searchCache : HasAll(c[2], c[1], Limit(c[1]))'
      BY DEF HInv, HCache, HasAll, Limit
    <3>4. \A c \in searchCache' : HasAll(c[2], c[1], Limit(c[1]))'
      <4> SUFFICES ASSUME NEW c \in searchCache', c \notin searchCache PROVE HasAll(c[2], c[1], Limit(c[1]))'
        BY <3>3
      <4>1. c[1] = request /\ c[2] = found'
        BY <3>2
      <4>2. UNCHANGED releasedOn /\ Limit(c[1])' = Limit(request)
        BY <4>1 DEF Limit
      <4>3. QED
        BY <3>1, <4>1, <4>2 DEF HasAll
    <3>5. QED
      BY <3>4 DEF HCache
  <2>2. CASE ~searchDone'
    BY <2>2, CacheStays
  <2>3. QED
    BY <2>1, <2>2
<1>6. QED
  BY <1>2, <1>3, <1>4, <1>5, KeptStays DEF HInv

LEMMA OverKeeps == ASSUME HInv, ReportsOver PROVE HInv'
<1> USE DEF ReportsOver, LeaveScope, world, commandLine
<1> DEFINE d == Head(datasetsLeft)
<1>0. /\ request \in HkexRequests /\ HasAll(found, request, SearchedOn) /\ found \subseteq Reports
      /\ SearchedOn \in Days /\ SearchedOn <= today
  BY LimitTyped DEF HInv, HTypes, HDays, HSearch, HasAll, SearchedOn, Limit
<1>1. datasetsLeft \in Ends /\ datasetsLeft # <<>>
  BY DEF HInv, HTypes, HSearch
<1>2. d \in DatasetNames /\ Tail(datasetsLeft) \in Ends
  BY <1>1, EndsOfList
<1>3. /\ scopeState' = [scopeState EXCEPT ![d] = request]
      /\ recordsKept' = [recordsKept EXCEPT ![d] = @ \cup found]
      /\ answersUpTo' = [answersUpTo EXCEPT ![d] = SearchedOn]
      /\ UNCHANGED <<today, releasedOn, hkexMode, dateFrom, dateOption, typesAsked, startedOn, searchCache>>
      /\ request' = NoRequest /\ typesLeft' = {} /\ found' = {} /\ searchDone' = FALSE
      /\ datasetsLeft' = Tail(datasetsLeft)
      /\ scopeState \in [DatasetNames -> HkexRequests] /\ recordsKept \in [DatasetNames -> SUBSET Reports]
      /\ answersUpTo \in [DatasetNames -> Days]
  BY DEF HInv, HTypes
<1> HIDE DEF d, ReportsOver
<1>4. HTypes'
  <2>1. /\ scopeState' \in [DatasetNames -> HkexRequests] /\ recordsKept' \in [DatasetNames -> SUBSET Reports]
        /\ answersUpTo' \in [DatasetNames -> Days]
    BY <1>0, <1>2, <1>3
  <2>2. datasetsLeft' \in Ends /\ request' \in HkexRequests
    BY <1>2, <1>3, NoRequestTyped
  <2>3. typesLeft' \subseteq ReportTypes /\ found' \subseteq Reports /\ searchDone' \in BOOLEAN
    BY <1>3
  <2>4. QED
    BY <1>3, <2>1, <2>2, <2>3 DEF HInv, HTypes
<1>5. HDays'
  <2>1. \A e \in DatasetNames : answersUpTo'[e] <= today
    BY <1>0, <1>2, <1>3 DEF HInv, HDays
  <2>2. Limit(request)' <= today'
    BY <1>3, NoRequestTyped DEF Limit, HInv, HTypes, HDays, Days
  <2>3. \A c \in searchCache' : Limit(c[1])' <= today'
    BY <1>3 DEF Limit, HInv, HDays
  <2>4. QED
    BY <1>3, <2>1, <2>2, <2>3 DEF HInv, HDays
<1>6. HSearch'
  BY <1>1, <1>3, NoRequestTyped DEF HInv, HSearch
<1>7. HKept'
  <2> SUFFICES ASSUME NEW e \in DatasetNames
               PROVE  HasAll(recordsKept[e], scopeState[e], answersUpTo[e])'
    BY DEF HKept
  <2>1. CASE e = d
    BY <1>0, <1>2, <1>3, <2>1 DEF HasAll
  <2>2. CASE e # d
    BY <1>3, <2>2 DEF HInv, HKept, HasAll
  <2>3. QED
    BY <2>1, <2>2
<1>8. QED
  BY <1>3, <1>4, <1>5, <1>6, <1>7, CacheStays DEF HInv

LEMMA EndKeeps == ASSUME HInv, HkexEnds PROVE HInv'
<1> DEFINE d == Head(datasetsLeft)
<1>0. /\ hkexMode' = "off" /\ datasetsLeft' = <<>> /\ searchCache' = {}
      /\ dateFrom' = 1 /\ dateOption' = 0 /\ typesAsked' = {} /\ startedOn' = 1
      /\ request' = NoRequest /\ typesLeft' = {} /\ found' = {} /\ searchDone' = FALSE
      /\ UNCHANGED <<today, releasedOn, scopeState, answersUpTo>>
  BY DEF HkexEnds, LeaveScope, world
<1>1. recordsKept' \in [DatasetNames -> SUBSET Reports] /\ HKept'
  <2>1. CASE searchDone
    <3>0. datasetsLeft \in Ends /\ datasetsLeft # <<>>
      BY <2>1 DEF HInv, HTypes, HSearch
    <3>1. d \in DatasetNames
      BY <3>0, EndsOfList
    <3>2. PICK taken \in SUBSET found : recordsKept' = [recordsKept EXCEPT ![d] = @ \cup taken]
      BY <2>1 DEF HkexEnds
    <3>3. taken \subseteq Reports /\ recordsKept \in [DatasetNames -> SUBSET Reports]
      BY <3>2 DEF HInv, HTypes
    <3> HIDE DEF d
    <3>4. HKept'
      BY <1>0, <3>1, <3>2, <3>3 DEF HInv, HKept, HasAll
    <3>5. QED
      BY <3>1, <3>2, <3>3, <3>4
  <2>2. CASE ~searchDone
    <3>1. UNCHANGED recordsKept
      BY <2>2 DEF HkexEnds
    <3>2. QED
      BY <1>0, <3>1, KeptStays DEF HInv, HTypes, hkexStored
  <2>3. QED
    BY <2>1, <2>2
<1>2. HTypes'
  <2>1. hkexMode' \in HkexModes \cup {"off"} /\ searchDone' \in BOOLEAN /\ datasetsLeft' \in Ends
    BY <1>0, NothingLeft
  <2>2. dateFrom' \in Days /\ dateOption' \in 0 .. LastDay /\ typesAsked' \subseteq ReportTypes /\ startedOn' \in Days
    BY <1>0 DEF Days
  <2>3. /\ request' \in HkexRequests /\ typesLeft' \subseteq ReportTypes /\ found' \subseteq Reports
        /\ searchCache' \subseteq HkexRequests \X SUBSET Reports
    BY <1>0, NoRequestTyped
  <2>4. QED
    BY <1>0, <1>1, <2>1, <2>2, <2>3 DEF HInv, HTypes
<1>3. HDays' /\ HSearch'
  BY <1>0, NoRequestTyped DEF HInv, HTypes, HDays, HSearch, Limit, Days
<1>4. QED
  BY <1>0, <1>1, <1>2, <1>3, CacheStays DEF HInv

LEMMA StutterKeeps == ASSUME HInv, UNCHANGED hkexVars PROVE HInv'
BY DEF hkexVars, HInv, HTypes, HDays, HSearch, HCache, HKept, HasAll, Limit

(* A dataset is left behind by a crawl that is over, which has found all of *)
(* its request, or because its stored request is the one asked for.         *)
LEMMA HkexGoesOn ==
  ASSUME HInv, HkexNext, datasetsLeft # <<>>, datasetsLeft' = Tail(datasetsLeft), hkexMode' # "off",
         NEW d, d = Head(datasetsLeft)
  PROVE  HasAll(recordsKept'[d], IF searchDone THEN request ELSE AskedFor, answersUpTo'[d])
<1>0. /\ datasetsLeft \in Ends /\ d \in DatasetNames
      /\ Tail(datasetsLeft) # datasetsLeft /\ Tail(datasetsLeft) # ReportDatasets
  BY EndsOfList DEF HInv, HTypes
<1>1. SkipReports \/ ReportsOver
  <2>1. ASSUME NEW r \in Reports, Release(r) PROVE FALSE
    BY <1>0, <2>1 DEF Release
  <2>2. ASSUME Midnight \/ BeginReports PROVE FALSE
    BY <1>0, <2>2 DEF Midnight, BeginReports
  <2>3. ASSUME NEW command \in HkexCommands, StartHkex(command) PROVE FALSE
    BY <1>0, <2>3 DEF StartHkex
  <2>4. ASSUME NEW t \in ReportTypes, SearchType(t) PROVE FALSE
    BY <1>0, <2>4 DEF SearchType
  <2>5. ASSUME HkexEnds PROVE FALSE
    BY <2>5 DEF HkexEnds
  <2>6. QED
    BY <2>1, <2>2, <2>3, <2>4, <2>5 DEF HkexNext
<1>2. CASE SkipReports
  <2>1. ~searchDone /\ scopeState[d] = AskedFor /\ UNCHANGED <<recordsKept, answersUpTo>>
    BY <1>2, NoRequestTyped DEF SkipReports, AtScope, SameRequest, hkexStored, HInv, HSearch
  <2>2. HasAll(recordsKept[d], scopeState[d], answersUpTo[d])
    BY <1>0 DEF HInv, HKept
  <2>3. QED
    BY <2>1, <2>2
<1>3. CASE ReportsOver
  <2>1. searchDone /\ HasAll(found, request, SearchedOn)
    BY <1>3 DEF ReportsOver, HInv, HSearch, HasAll, SearchedOn, Limit
  <2>2. recordsKept'[d] = recordsKept[d] \cup found /\ answersUpTo'[d] = SearchedOn
    BY <1>0, <1>3 DEF ReportsOver, HInv, HTypes
  <2>3. QED
    BY <2>1, <2>2 DEF HasAll
<1>4. QED
  BY <1>1, <1>2, <1>3

(* The inductive invariant: types, days that have come, and searches, cached *)
(* results and stored records that miss nothing before their day.           *)
THEOREM HkexInvariant == HkexSpec => []HInv
<1>1. HInv /\ [HkexNext]_hkexVars => HInv'
  BY ReleaseKeeps, MidnightKeeps, StartKeeps, SkipKeeps, BeginKeeps, SearchKeeps, OverKeeps, EndKeeps,
     StutterKeeps DEF HkexNext
<1>2. QED
  BY <1>1, HkexStarts, PTL DEF HkexSpec

(* A process goes on from a dataset only with every report it was asked for, *)
(* for any reports, types, days, commands and processes.                    *)
THEOREM AllAskedIsKept == HkexSpec => GoesOnWithAllAsked
<1>1. HInv /\ [HkexNext]_hkexVars =>
        [datasetsLeft # <<>> /\ datasetsLeft' = Tail(datasetsLeft) /\ hkexMode' # "off" =>
           LET d == Head(datasetsLeft)
           IN  HasAll(recordsKept'[d], IF searchDone THEN request ELSE AskedFor, answersUpTo'[d])]_hkexVars
  BY HkexGoesOn
<1>2. QED
  BY <1>1, HkexInvariant, PTL DEF HkexSpec, GoesOnWithAllAsked

================================================================================
