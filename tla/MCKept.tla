-------------------------------- MODULE MCKept --------------------------------
(* What must be kept, one part of the system at a time: keptPart says which  *)
(* one runs, the others keep their initial state.                            *)
EXTENDS Warehouse, HistoryCompaction, WarehouseQuery, SequentialCrawl, Watermark,
        NaverPages, KabutanMonths, TossLists, HkexReports, CrawlSettings

CONSTANTS u, c1, c2, p1, p2, p3, p4, p5, stock1, stock2, annual, interim

VARIABLE keptPart

KeptParts == {"warehouse", "history", "query", "sequential", "watermark",
          "naver", "kabutan", "toss", "hkex", "settings"}

AlikeCompactors == Permutations(Compactors)

\* History: two posts in one partition and three in the other, so that counts tell files apart.
PostsPartition == p1 :> 1 @@ p2 :> 1 @@ p3 :> 2 @@ p4 :> 2 @@ p5 :> 2
ASSUME PostsToldApart == CountsTellApart

\* Queries: partitions of a day, of four days, and files from before buckets.
Layout(time, days, buckets, legacy, relations) ==
  [time |-> time, days |-> days, buckets |-> buckets, legacy |-> legacy, relations |-> relations]
QueriedLayouts ==
  {Layout("event", 1, 2, {}, FALSE), Layout("event", 4, 1, {2}, FALSE),
   Layout("event", 2, 2, {}, TRUE), Layout("crawled", 1, 2, {}, FALSE)}
Row(event, found_, instrument, related) ==
  [event |-> event, crawled |-> found_, instrument |-> instrument, related |-> related]
StoredRows == {Row(4, 7, stock1, {}), Row(3, 5, stock2, {stock1}), Row(-1, 4, stock1, {})}
Hashes == stock1 :> 2 @@ stock2 :> 3
Asked(names, first, last, zone, columns, limit) ==
  [instruments |-> names, first |-> first, last |-> last, zone |-> zone,
   columns |-> columns, limit |-> limit]
Periods == {<<-1, -1>>, <<1, 1>>, <<2, -1>>, <<1, 2>>}
AskedQuestions ==
  {Asked(names, d[1], d[2], zone, Projected, 0) :
     names \in {{}, {stock1}}, d \in Periods, zone \in {-1, 1}}
  \cup {Asked(names, -1, -1, 0, columns, 1) : names \in {{stock2}, {stock1, stock2}}, columns \in {{}, Projected}}

\* The sequential runtime: one record in two versions, one in another partition.
Content(uid, version) == [uid |-> uid, version |-> version]
SeqContents == {Content("a", 1), Content("a", 2), Content("b", 1)}
SeqPartitions == "a" :> 1 @@ "b" :> 2
SeqOffers == "s" :> {Content("a", 1), Content("b", 1)} @@ "t" :> {Content("a", 1), Content("a", 2)}

TwoCategories == <<"company", "market">>
BoardRuns == [k \in BoardKinds |-> IF k = "forum" THEN 2 ELSE 1]

\* Kabutan: a month within a page, one of two pages, one of one page, one to come.
MonthArticles == <<2, 3, 2, 0>>
MonthLocked == <<2, 2, 0, 0>>

ReportTypesOf == annual :> "annual" @@ interim :> "interim"
\* The full profile, with nothing typed, one type, or days to come; the incremental one.
Typed(mode, from, to, types) == [mode |-> mode, from |-> from, to |-> to, types |-> types]
ReportCommands ==
  {Typed("full", 0, 0, ReportTypes), Typed("full", 0, 0, {"annual"}), Typed("full", 2, 3, ReportTypes),
   Typed("incremental", 0, 0, ReportTypes), Typed("incremental", 2, 0, {"annual"})}

InstrumentLists == {<< >>, <<"a", "b", "a">>}
InstrumentFiles == {<< >>, <<"b", "c">>}
Rollout == <<"c", "a", "d">>

\* The one of its initial states in which a part waits that does not run.
HistoryRests ==
  /\ \A id \in OldIds : \A r \in catalog[id].rows : r.version = 1
  /\ catalog[LocalId].rows = {} /\ \A post \in OldPosts : seen[post] = Legacy
QueryRests == layout = Layout("event", 1, 2, {}, FALSE)
NaverWaits == boardKind = "forum" /\ boardMode = "full" /\ pastEnd = "empty"

KeptInit ==
  /\ keptPart \in KeptParts
  /\ Init /\ HistoryInit /\ QueryInit /\ SequentialInit /\ WatermarkInit
  /\ NaverInit /\ KabutanInit /\ TossInit /\ HkexInit /\ SettingsInit
  /\ keptPart # "history" => HistoryRests
  /\ keptPart # "query" => QueryRests
  /\ keptPart # "naver" => NaverWaits

stored_ == <<vars, historyVars, queryVars>>
crawled_ == <<seqVars, watermarkVars>>
sites_ == <<boardVars, kabutanVars, tossVars, hkexVars>>
keptVars == <<keptPart, stored_, crawled_, sites_, settingsVars>>

KeptNext ==
  \/ keptPart = "warehouse" /\ Next
     /\ UNCHANGED <<keptPart, historyVars, queryVars, crawled_, sites_, settingsVars>>
  \/ keptPart = "history" /\ HistoryNext
     /\ UNCHANGED <<keptPart, vars, queryVars, crawled_, sites_, settingsVars>>
  \/ keptPart = "query" /\ QueryNext
     /\ UNCHANGED <<keptPart, vars, historyVars, crawled_, sites_, settingsVars>>
  \/ keptPart = "sequential" /\ SequentialNext
     /\ UNCHANGED <<keptPart, stored_, watermarkVars, sites_, settingsVars>>
  \/ keptPart = "watermark" /\ WatermarkNext
     /\ UNCHANGED <<keptPart, stored_, seqVars, sites_, settingsVars>>
  \/ keptPart = "naver" /\ NaverNext
     /\ UNCHANGED <<keptPart, stored_, crawled_, kabutanVars, tossVars, hkexVars, settingsVars>>
  \/ keptPart = "kabutan" /\ KabutanNext
     /\ UNCHANGED <<keptPart, stored_, crawled_, boardVars, tossVars, hkexVars, settingsVars>>
  \/ keptPart = "toss" /\ TossNext
     /\ UNCHANGED <<keptPart, stored_, crawled_, boardVars, kabutanVars, hkexVars, settingsVars>>
  \/ keptPart = "hkex" /\ HkexNext
     /\ UNCHANGED <<keptPart, stored_, crawled_, boardVars, kabutanVars, tossVars, settingsVars>>
  \/ keptPart = "settings" /\ SettingsNext
     /\ UNCHANGED <<keptPart, stored_, crawled_, sites_>>

KeptSpec == KeptInit /\ [][KeptNext]_keptVars

(* Every component keeps to the values its code can give its state. *)
KeptTypeOK ==
  /\ keptPart = "warehouse" => TypeOK
  /\ keptPart = "history" => HistoryTypeOK
  /\ keptPart = "query" => QueryTypeOK
  /\ keptPart = "sequential" => SequentialTypeOK
  /\ keptPart = "watermark" => WatermarkTypeOK
  /\ keptPart = "naver" => NaverTypeOK
  /\ keptPart = "kabutan" => KabutanTypeOK
  /\ keptPart = "toss" => TossTypeOK
  /\ keptPart = "hkex" => HkexTypeOK
  /\ keptPart = "settings" => SettingsTypeOK
===============================================================================
