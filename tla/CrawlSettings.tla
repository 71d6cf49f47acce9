---------------------------- MODULE CrawlSettings ----------------------------
(* What one crawl command does with what was typed: cli/main.py turns the   *)
(* flags and the profile into options, app_factory.py turns the options     *)
(* into a context, core/bootstrap.py recovers, crawls and reports, and the  *)
(* exit code is all that a scheduler sees.  Here an operator walks a list   *)
(* of instruments slice by slice (--instrument-offset, --instrument-limit), *)
(* retyping a command that did not exit with 0.                             *)
EXTENDS Naturals, Sequences, FiniteSets, SequencesExt

CONSTANTS
  CommandSites,     \* sites a command may name: "naver", "toss", "hkex"
  ListedOptions,    \* what --instrument may list: a set of sequences
  FileOptions,      \* what --instruments-file may hold: a set of sequences, << >> when not given
  RolloutUniverse,  \* the file a profile reads when nothing else is named
  Market,           \* the instruments the Toss screener shows
  SliceSizes,       \* --instrument-limit of a sweep
  PageFlags,        \* page limits an operator types; 0 is a flag that is not typed
  MaxCommands       \* bound: commands of a sweep

ASSUME SettingsAssumption ==
  /\ CommandSites \subseteq {"naver", "toss", "hkex"}
  /\ \A s \in ListedOptions \cup FileOptions \cup {RolloutUniverse} : s \in Seq(ToSet(s))
  /\ RolloutUniverse # << >>
  /\ SliceSizes \subseteq Nat \ {0}
  /\ PageFlags \subseteq Nat
  /\ MaxCommands \in Nat \ {0}

VARIABLES
  command,     \* what the operator types again and again, but for the offset
  at,          \* --instrument-offset of the next command
  stage,       \* how far the command is: idle, built, crawling, over
  toCrawl,       \* instruments of this command not crawled yet
  sliceDone,     \* instruments this command crawled
  swept,       \* instruments crawled by the commands that exited with 0
  exitCode,    \* exit code of the last command, NotExited before
  typed        \* commands typed so far

settingsVars == <<command, at, stage, toCrawl, sliceDone, swept, exitCode, typed>>

Exits == [success |-> 0, blocked |-> 2, failed |-> 3, misconfigured |-> 4, interrupted |-> 130]
NotExited == 1
NotTyped == 0
Unbounded == 3000
PagedDatasets == {"forum", "news", "research"}
NoCommand == [site |-> "none"]

(* What can be typed: a site, one of its profiles or none, its lists and its *)
(* limits, of which one dataset has one of its own.                          *)
Commands ==
  {c \in [site : CommandSites, profile : {"none", "full", "incremental", "backfill"},
          listed : ListedOptions, file : FileOptions, limit : SliceSizes, maxPages : PageFlags,
          pages : {[x \in PagedDatasets |-> IF x = d THEN flag ELSE NotTyped] :
                     d \in PagedDatasets, flag \in PageFlags},
          recoveryOnly : BOOLEAN] :
     c.profile = "backfill" => c.site = "toss"}

(* normalize_repeated: the first of each, in the order given. *)
Deduplicated(names) ==
  LET firsts == {n \in DOMAIN names : \A k \in 1 .. n - 1 : names[k] # names[n]}
      Nth(k) == CHOOSE n \in firsts : Cardinality({m \in firsts : m <= n}) = k
  IN  [k \in 1 .. Cardinality(firsts) |-> names[Nth(k)]]

(* The profile names its universe only when the operator names neither list. *)
FileRead(c) ==
  IF c.file = << >> /\ c.listed = << >> /\ c.profile # "none" THEN RolloutUniverse ELSE c.file

AllInstruments(c) == Deduplicated(Deduplicated(c.listed) \o Deduplicated(FileRead(c)))

From(names, offset) == SubSeq(names, offset + 1, Len(names))
UpToLimit(names, limit) == SubSeq(names, 1, IF limit < Len(names) THEN limit ELSE Len(names))

(* A bug to tell apart: the limit taken before the offset. *)
InstrumentSliceBefore(names, offset, limit) == From(UpToLimit(names, limit), offset)

(* The offset first, then the limit. *)
InstrumentSlice(names, offset, limit) == UpToLimit(From(names, offset), limit)

(* parse_args: the page limits a profile sets where the operator set none. *)
ProfilePages(c, d) ==
  IF c.pages[d] # NotTyped THEN c.pages[d]
  ELSE IF \/ d = "forum" /\ c.site = "naver" /\ c.profile = "full"
          \/ d \in {"forum", "news"} /\ c.site = "toss" /\ c.profile \in {"full", "incremental"}
       THEN 1 ELSE NotTyped

(* make_crawl_context: --max-pages for every dataset, then each one's own. *)
ContextPages(c, d) == IF ProfilePages(c, d) # NotTyped THEN ProfilePages(c, d) ELSE c.maxPages

(* The plugins' own limits, where the context carries none. *)
PagesOf(c, d) ==
  IF ContextPages(c, d) # NotTyped THEN ContextPages(c, d)
  ELSE IF c.site = "naver" THEN 1 ELSE Unbounded

(* What discover of the site yields for the instruments of the context. *)
TossDiscovers(names) == IF names = << >> THEN Market ELSE ToSet(names)
Discovered(c, names) == IF c.site = "toss" THEN TossDiscovers(names) ELSE ToSet(names)

SettingsTypeOK ==
  /\ command \in Commands \cup {NoCommand}
  /\ at \in Nat
  /\ stage \in {"idle", "built", "crawling", "over"}
  /\ toCrawl \subseteq (ToSet(RolloutUniverse) \cup Market \cup
                      UNION {ToSet(s) : s \in ListedOptions \cup FileOptions})
  /\ sliceDone \cap toCrawl = {}
  /\ exitCode \in {NotExited} \cup {Exits[e] : e \in DOMAIN Exits}
  /\ typed \in 0..MaxCommands

SettingsInit ==
  /\ command = NoCommand /\ at = 0 /\ stage = "idle" /\ typed = 0
  /\ toCrawl = {} /\ sliceDone = {} /\ swept = {} /\ exitCode = NotExited

(* The operator settles on a command that parse_args accepts. *)
ChooseCommand ==
  /\ command = NoCommand
  /\ command' \in Commands
  /\ UNCHANGED <<at, stage, toCrawl, sliceDone, swept, exitCode, typed>>

(* The operator stops when the offset has passed the last instrument. *)
MoreToSweep == at = 0 \/ at < Len(AllInstruments(command))

Exit(code) == stage' = "over" /\ exitCode' = code

BootstrapBuilt == stage' = "built" /\ exitCode' = NotExited
ConfigurationRefused == Exit(Exits.misconfigured)

(* The command is parsed and the bootstrap built, or the configuration is refused. *)
Build ==
  /\ command # NoCommand /\ stage \in {"idle", "over"} /\ MoreToSweep /\ typed < MaxCommands
  /\ typed' = typed + 1 /\ sliceDone' = {} /\ toCrawl' = {}
  /\ BootstrapBuilt \/ ConfigurationRefused
  /\ UNCHANGED <<command, at, swept>>

(* The next offset is typed only after a command that crawled and exited with 0. *)
Exited(code) ==
  /\ Exit(code)
  /\ IF code = Exits.success /\ ~command.recoveryOnly
     THEN at' = at + command.limit /\ swept' = swept \cup sliceDone
     ELSE UNCHANGED <<at, swept>>

RecoveryOnlyEnds == command.recoveryOnly /\ toCrawl' = {} /\ Exited(Exits.success)

(* Startup recovery lets the crawl go on, blocks it, or raises, as may the   *)
(* preflight and, after a recovery that ends the command, its manifest;     *)
(* --recovery-only ends here.  Discovery follows, and fails for HKEX        *)
(* without instruments.                                                     *)
Recover ==
  /\ stage = "built"
  /\ LET names == InstrumentSlice(AllInstruments(command), at, command.limit)
     IN \/ toCrawl' = {} /\ (Exited(Exits.blocked) \/ Exited(Exits.failed))
        \/ RecoveryOnlyEnds
        \/ /\ ~command.recoveryOnly
           /\ IF command.site = "hkex" /\ names = << >>
              THEN toCrawl' = {} /\ Exited(Exits.failed)
              ELSE /\ toCrawl' = Discovered(command, names) /\ stage' = "crawling"
                   /\ UNCHANGED <<at, swept, exitCode>>
  /\ UNCHANGED <<command, sliceDone, typed>>

(* One instrument is crawled, in the order the workers come to it. *)
CrawlInstrument ==
  /\ stage = "crawling"
  /\ \E i \in toCrawl : toCrawl' = toCrawl \ {i} /\ sliceDone' = sliceDone \cup {i}
  /\ UNCHANGED <<command, at, stage, swept, exitCode, typed>>

(* Something raises, if it be the last flush: the exception leaves the      *)
(* runtime and the bootstrap.                                               *)
CrawlRaises ==
  /\ stage = "crawling"
  /\ Exited(Exits.failed)
  /\ UNCHANGED <<command, toCrawl, sliceDone, typed>>

(* CrawlBootstrap.run: a run that did not raise is a success unless it was interrupted. *)
BootstrapSucceeds(interrupted) == ~interrupted

(* The runtime returns, everything crawled or interrupted before that; then *)
(* the manifest is written, whose failure is a failure of the command.      *)
RuntimeReturns ==
  /\ stage = "crawling"
  /\ \E interrupted \in BOOLEAN :
       /\ interrupted \/ toCrawl = {}
       /\ \/ Exited(IF BootstrapSucceeds(interrupted) THEN Exits.success ELSE Exits.interrupted)
          \/ command.profile # "none" /\ Exited(Exits.failed)
  /\ UNCHANGED <<command, toCrawl, sliceDone, typed>>

SettingsNext ==
  ChooseCommand \/ Build \/ Recover \/ CrawlInstrument \/ CrawlRaises \/ RuntimeReturns

SettingsSpec == SettingsInit /\ [][SettingsNext]_settingsVars

(* What the operator reads off the exit code is so: after 0 nothing of the  *)
(* slice is left to crawl, and a startup that was blocked or could not be   *)
(* configured has crawled nothing.                                          *)
ExitTellsWhatWasCrawled ==
  /\ exitCode = Exits.success => toCrawl = {}
  /\ exitCode \in {Exits.blocked, Exits.misconfigured} => sliceDone = {}

(* Slices typed one after the other crawl the list, each instrument in one  *)
(* slice only: after every exit with 0 the instruments swept are those up   *)
(* to the offset, and what is being crawled is none of them.  A command     *)
(* that names no instrument at all has no list to sweep.                    *)
SweepIsExact ==
  command # NoCommand /\ AllInstruments(command) # << >> =>
    /\ swept = ToSet(UpToLimit(AllInstruments(command), at))
    /\ stage = "crawling" => (toCrawl \cup sliceDone) \cap swept = {}

(* No page limit that was typed is exceeded: not the dataset's own, and,    *)
(* where that one is not typed, not the limit of all datasets.              *)
TypedLimitsHold ==
  command # NoCommand => \A d \in PagedDatasets :
    LET limit == IF command.pages[d] # NotTyped THEN command.pages[d] ELSE command.maxPages
    IN limit # NotTyped => PagesOf(command, d) <= limit

(* Whatever is typed, stopped and typed again, a sweep crawls what was      *)
(* typed, within its limits, and the exit codes tell how far it came.       *)
CommandDoesAsTyped == ExitTellsWhatWasCrawled /\ SweepIsExact /\ TypedLimitsHold
=============================================================================
