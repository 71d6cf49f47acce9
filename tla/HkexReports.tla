------------------------------ MODULE HkexReports ------------------------------
(***************************************************************************)
(* HKEXnews: the reports of a stock, their relations and their PDFs are    *)
(* three datasets of one search by type and by the days from and to.  A    *)
(* process searches once for all of them, and a full crawl leaves out a    *)
(* dataset whose stored request is the one it asks; reports are released   *)
(* meanwhile, and midnight passes.  Day 1 stands for the day HKEXnews      *)
(* begins with, 1 April 1999.  The types of a request are a set: the same  *)
(* ones in another order are another request to the code, and it crawls    *)
(* again.                                                                  *)
(***************************************************************************)
EXTENDS Naturals, Sequences

CONSTANTS
  Reports, ReportTypes,
  TypeOf,        \* the type of each report
  LookbackDays,  \* --report-lookback-days, or 400
  HkexCommands,  \* what is typed: [mode, from, to, types], 0 for a day that is not
  LastDay, MaxHkexRuns \* bounds

Days == 1 .. LastDay
ReportDatasets == <<"financial_report", "financial_report_instrument", "attachment">>
DatasetNames == {ReportDatasets[k] : k \in DOMAIN ReportDatasets}
HkexModes == {"full", "incremental"}
HkexRequests == [from : Days, to : Days, types : SUBSET ReportTypes]
NoRequest == [from |-> 1, to |-> 1, types |-> {}]

ASSUME HkexAssumption ==
  /\ TypeOf \in [Reports -> ReportTypes] /\ LastDay \in Nat \ {0} /\ MaxHkexRuns \in Nat
  /\ LookbackDays \in Nat \ {0}
  /\ HkexCommands \subseteq [mode : HkexModes, from : 0 .. LastDay, to : 0 .. LastDay,
                             types : (SUBSET ReportTypes) \ {{}}]

VARIABLES
  today,
  releasedOn,   \* the day of each report, 0 before
  hkexMode,     \* "off" between processes
  dateFrom,     \* hkex_report_date_from
  dateOption,   \* hkex_report_date_to, 0 for none
  typesAsked,   \* hkex_report_types
  datasetsLeft,
  request,      \* what the scope in work asks for, or NoRequest
  typesLeft,    \* the types search_reports has yet to ask for
  found,        \* what it has found
  searchCache,  \* _report_search_cache: the reports of a request
  searchDone,   \* the scope yields its reports
  scopeState,   \* stored checkpoints: the request that is complete
  recordsKept,  \* durable records, each by its report
  hkexRuns,
  startedOn,    \* history: the day the process began
  answersUpTo   \* history: the day from which the stored request may lack reports

commandLine == <<hkexMode, dateFrom, dateOption, typesAsked, startedOn>>
world == <<today, releasedOn>>
scope == <<request, typesLeft, found, searchDone>>
hkexStored == <<scopeState, recordsKept, answersUpTo>>
hkexVars == <<today, releasedOn, hkexMode, dateFrom, dateOption, typesAsked, datasetsLeft, request, typesLeft, found,
  searchCache, searchDone, scopeState, recordsKept, hkexRuns, startedOn, answersUpTo>>

HkexTypeOK ==
  /\ today \in Days /\ releasedOn \in [Reports -> 0 .. LastDay]
  /\ hkexMode \in HkexModes \cup {"off"}
  /\ dateFrom \in Days /\ dateOption \in 0 .. LastDay /\ typesAsked \subseteq ReportTypes /\ startedOn \in Days
  /\ datasetsLeft \in Seq(DatasetNames) /\ request \in HkexRequests
  /\ typesLeft \subseteq ReportTypes /\ found \subseteq Reports /\ searchDone \in BOOLEAN
  /\ searchCache \subseteq HkexRequests \X SUBSET Reports
  /\ scopeState \in [DatasetNames -> HkexRequests] /\ recordsKept \in [DatasetNames -> SUBSET Reports]
  /\ answersUpTo \in [DatasetNames -> Days]

HkexInit ==
  /\ today = 1 /\ releasedOn = [r \in Reports |-> 0]
  /\ hkexMode = "off" /\ dateFrom = 1 /\ dateOption = 0 /\ typesAsked = {} /\ startedOn = 1
  /\ datasetsLeft = <<>> /\ request = NoRequest /\ typesLeft = {} /\ found = {}
  /\ searchCache = {} /\ searchDone = FALSE
  /\ scopeState = [d \in DatasetNames |-> NoRequest] /\ recordsKept = [d \in DatasetNames |-> {}]
  /\ answersUpTo = [d \in DatasetNames |-> 1] /\ hkexRuns = 0

Release(r) ==
  /\ releasedOn[r] = 0 /\ releasedOn' = [releasedOn EXCEPT ![r] = today]
  /\ UNCHANGED <<today, commandLine, datasetsLeft, scope, searchCache, hkexStored, hkexRuns>>

Midnight ==
  /\ today < LastDay /\ today' = today + 1
  /\ UNCHANGED <<releasedOn, commandLine, datasetsLeft, scope, searchCache, hkexStored, hkexRuns>>

Lookback == IF today > LookbackDays THEN today - LookbackDays ELSE 1

(* A process of a profile crawls the three datasets, in this order.  The    *)
(* incremental profile fixes both days when the process begins; the full    *)
(* one asks from the first day, to the day of each scope.  A typed day may  *)
(* be one to come.                                                          *)
StartHkex(command) ==
  /\ hkexMode = "off" /\ hkexRuns < MaxHkexRuns /\ hkexRuns' = hkexRuns + 1
  /\ command.to > 0 => command.from <= command.to
  /\ hkexMode' = command.mode /\ typesAsked' = command.types /\ startedOn' = today
  /\ dateFrom' = IF command.from > 0 THEN command.from ELSE IF command.mode = "full" THEN 1 ELSE Lookback
  /\ dateOption' = IF command.to = 0 /\ command.mode = "incremental" THEN today ELSE command.to
  /\ datasetsLeft' = ReportDatasets /\ searchCache' = {}
  /\ UNCHANGED <<world, scope, hkexStored>>

(* The request of a scope; one from a day behind its last raises, and the   *)
(* process can only end.                                                    *)
AskedFor == [from |-> dateFrom, to |-> IF dateOption = 0 THEN today ELSE dateOption, types |-> typesAsked]

AtScope == datasetsLeft # <<>> /\ request = NoRequest /\ AskedFor.from <= AskedFor.to

(* Mutation: the days are no part of the signature.                         *)
SameTypes == hkexMode = "full" /\ scopeState[Head(datasetsLeft)].types = typesAsked

(* is_checkpoint_durable_complete: the signature holds types and days.      *)
SameRequest == hkexMode = "full" /\ scopeState[Head(datasetsLeft)] = AskedFor

SkipReports ==
  /\ AtScope /\ SameRequest
  /\ datasetsLeft' = Tail(datasetsLeft)
  /\ UNCHANGED <<world, commandLine, scope, searchCache, hkexStored, hkexRuns>>

CacheHit(asked) == {c \in searchCache : c[1] = asked}

BeginReports ==
  /\ AtScope /\ ~SameRequest
  /\ request' = AskedFor
  /\ IF CacheHit(AskedFor) # {}
     THEN searchDone' = TRUE /\ typesLeft' = {} /\ found' = (CHOOSE c \in CacheHit(AskedFor) : TRUE)[2]
     ELSE searchDone' = FALSE /\ typesLeft' = typesAsked /\ found' = {}
  /\ UNCHANGED <<world, commandLine, datasetsLeft, searchCache, hkexStored, hkexRuns>>

Results(t) == {r \in Reports : TypeOf[r] = t /\ releasedOn[r] \in request.from .. request.to}

(* One search for each type; a stock that is not found has no reports.      *)
SearchType(t) ==
  /\ t \in typesLeft /\ typesLeft' = typesLeft \ {t}
  /\ found' = found \cup Results(t)
  /\ searchDone' = (typesLeft' = {})
  /\ searchCache' = IF searchDone' THEN searchCache \cup {<<request, found'>>} ELSE searchCache
  /\ UNCHANGED <<world, commandLine, datasetsLeft, request, hkexStored, hkexRuns>>

LeaveScope == request' = NoRequest /\ typesLeft' = {} /\ found' = {} /\ searchDone' = FALSE

(* A search may be as old as its process, or as its last day if none was    *)
(* typed.                                                                   *)
SearchedOn == IF dateOption = 0 THEN request.to ELSE startedOn

(* Whatever the mode, the scope's state is replaced.                        *)
ReportsOver ==
  /\ searchDone /\ LeaveScope /\ datasetsLeft' = Tail(datasetsLeft)
  /\ recordsKept' = [recordsKept EXCEPT ![Head(datasetsLeft)] = @ \cup found]
  /\ scopeState' = [scopeState EXCEPT ![Head(datasetsLeft)] = request]
  /\ answersUpTo' = [answersUpTo EXCEPT ![Head(datasetsLeft)] = SearchedOn]
  /\ UNCHANGED <<world, commandLine, searchCache, hkexRuns>>

(* The process is over: at its end, or by a stop or a failure that keeps     *)
(* some of the records and leaves the other datasets out.                   *)
HkexEnds ==
  /\ hkexMode # "off" /\ hkexMode' = "off" /\ LeaveScope
  /\ datasetsLeft' = <<>> /\ dateFrom' = 1 /\ dateOption' = 0 /\ typesAsked' = {} /\ startedOn' = 1
  /\ searchCache' = {}
  /\ IF searchDone
     THEN \E taken \in SUBSET found :
            recordsKept' = [recordsKept EXCEPT ![Head(datasetsLeft)] = @ \cup taken]
     ELSE UNCHANGED recordsKept
  /\ UNCHANGED <<world, scopeState, answersUpTo, hkexRuns>>

HkexNext ==
  \/ \E r \in Reports : Release(r)
  \/ Midnight \/ SkipReports \/ BeginReports \/ ReportsOver \/ HkexEnds
  \/ \E command \in HkexCommands : StartHkex(command)
  \/ \E t \in ReportTypes : SearchType(t)

HkexSpec == HkexInit /\ [][HkexNext]_hkexVars

------------------------------------------------------------------------------
(* What a request must have of a dataset by a day.                          *)
HasAll(kept, asked, day) ==
  \A r \in Reports :
    TypeOf[r] \in asked.types /\ releasedOn[r] \in asked.from .. asked.to /\ releasedOn[r] < day => r \in kept

(* A process goes on from a dataset only when every report it was asked for, *)
(* by type and by days, is kept, though the search may be another dataset's *)
(* and midnight may have passed since, or the whole crawl another process's *)
(* that was asked the same: all that were released before the day asked up  *)
(* to or, where a last day was typed, before the process that searched      *)
(* began.                                                                   *)
GoesOnWithAllAsked ==
  [][datasetsLeft # <<>> /\ datasetsLeft' = Tail(datasetsLeft) /\ hkexMode' # "off" =>
       LET d == Head(datasetsLeft)
       IN  HasAll(recordsKept'[d], IF searchDone THEN request ELSE AskedFor, answersUpTo'[d])]_hkexVars

=============================================================================
