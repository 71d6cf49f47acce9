------------------------------ MODULE PartsProofs ------------------------------
(* The parts of the system that are checked together, each on its own: a run *)
(* of MCKept or of MCEnds is a run of each of its parts, so that whatever the *)
(* modules of proofs show of a part holds of the whole run.  None of it      *)
(* rests on what is fair.                                                    *)
EXTENDS MCKept, MCEnds, SequentialProofs, WarehouseProofs, SiteProofs, MachineryProofs

------------------------------------------------------------------------------
(* What must be kept. *)

KeptParted ==
  /\ Spec /\ HistorySpec /\ QuerySpecification /\ SequentialSpec /\ WatermarkSpec
  /\ NaverInit /\ [][NaverNext]_boardVars
  /\ KabutanSpec /\ TossSpec /\ HkexSpec /\ SettingsSpec

\* One part goes on, and the state of every other stays.
LEMMA KeptStep ==
  ASSUME [KeptNext]_keptVars
  PROVE  /\ [Next]_vars /\ [HistoryNext]_historyVars /\ [QueryNext]_queryVars
         /\ [SequentialNext]_seqVars /\ [WatermarkNext]_watermarkVars /\ [NaverNext]_boardVars
         /\ [KabutanNext]_kabutanVars /\ [TossNext]_tossVars /\ [HkexNext]_hkexVars
         /\ [SettingsNext]_settingsVars
BY DEF KeptNext, keptVars, stored_, crawled_, sites_

(* A run of MCKept is a run of each component: what one does never shows in *)
(* the variables of another.                                                *)
THEOREM KeptByParts == KeptSpec => KeptParted
<1>1. KeptInit => /\ Init /\ HistoryInit /\ QueryInit /\ SequentialInit /\ WatermarkInit
                  /\ NaverInit /\ KabutanInit /\ TossInit /\ HkexInit /\ SettingsInit
  BY DEF KeptInit
<1> QED BY <1>1, KeptStep, PTL
  DEF KeptSpec, KeptParted, Spec, HistorySpec, QuerySpecification, SequentialSpec, WatermarkSpec,
      KabutanSpec, TossSpec, HkexSpec, SettingsSpec

(* Every component keeps to the values its code can give its state, in every *)
(* state of a run of any of them.                                           *)
THEOREM KeptTypes == KeptSpec => []KeptTypeOK
<1>1. HistorySpec => []HistoryTypeOK
  BY HistoryTypes, PostsToldApart
<1>2. HInv => HkexTypeOK
  BY InvImplies
<1>3. /\ TypeOK /\ HistoryTypeOK /\ QueryTypeOK /\ SequentialTypeOK /\ WatermarkTypeOK /\ NaverTypeOK
      /\ KabutanTypeOK /\ TossTypeOK /\ HkexTypeOK /\ SettingsTypeOK
      => KeptTypeOK
  BY DEF KeptTypeOK
<1> QED BY <1>1, <1>2, <1>3, KeptByParts, WarehouseTypes, QueryTypes, SequentialTypes, WatermarkTypes,
           NaverSafely, AcceptedMonthsAreCovered, TossTellsNextCrawl, HkexInvariant, SettingsTypes, PTL
        DEF KeptParted

(* What the run checks of its parts holds of all of it, at every step and    *)
(* for every value of the constants: a part that waits keeps its promise.   *)
THEOREM KeptRunIsSafe ==
  KeptSpec => /\ [](SeenIsActive /\ QueryAnswers /\ RefusesTwoVersionsOnly /\ WatermarkIsPrefix)
              /\ [](ListIsCovered /\ NothingBehindTheCheckpoint /\ AcceptedMonthIsCovered)
              /\ [](NextCrawlIsTold /\ CommandDoesAsTyped)
              /\ KeepsNewest /\ HistoryKeepsNewest /\ SequentialKeepsPromise /\ FreeFullIsComplete
              /\ GoesOnWithAllAsked
<1>1. HistorySpec => []SeenIsActive /\ HistoryKeepsNewest
  BY SeenStaysActive, HistoryStaysNewest, PostsToldApart
<1> QED BY <1>1, KeptByParts, QueriesAnswer, RefusalIsTwoVersions, WatermarkExact, NaverSafely,
           AcceptedMonthsAreCovered, TossTellsNextCrawl, AllAskedIsKept, SweepsAsTyped,
           CompactionInvisible, SequentialImplements, FreeFullLeavesNone, PTL
        DEF KeptParted

------------------------------------------------------------------------------
(* What must end. *)

EndsParted ==
  /\ Spec
  /\ PlatformInit /\ [][PlatformNext]_platformVars
  /\ PipelineInit /\ [][PipelineNext]_pipelineVars
  /\ VersionsInit /\ [][VersionsNext]_versionVars
  /\ BrowserInit /\ [][BrowserNext]_browserVars
  /\ HttpInit /\ [][HttpNext]_httpVars
  /\ NaverInit /\ [][NaverNext]_boardVars

LEMMA EndsStep ==
  ASSUME [EndsNext]_endsVars
  PROVE  /\ [Next]_vars /\ [PlatformNext]_platformVars /\ [PipelineNext]_pipelineVars
         /\ [VersionsNext]_versionVars /\ [BrowserNext]_browserVars /\ [HttpNext]_httpVars
         /\ [NaverNext]_boardVars
BY DEF EndsNext, endsVars

(* A run of MCEnds is, but for what is fair, a run of each component.       *)
THEOREM EndsByParts == EndsSpec => EndsParted
<1>1. EndsInit => /\ Init /\ PlatformInit /\ PipelineInit /\ VersionsInit /\ BrowserInit
                  /\ HttpInit /\ NaverInit
  BY DEF EndsInit
<1> QED BY <1>1, EndsStep, PTL DEF EndsSpec, EndsParted, Spec

(* Every component keeps to the values its code can give its state, in every *)
(* state of a run of any of them.                                           *)
THEOREM EndsTypes == EndsSpec => []EndsTypeOK
<1>1. /\ TypeOK /\ PlatformTypeOK /\ PipelineTypeOK /\ VersionsTypeOK /\ BrowserTypeOK
      /\ HttpTypeOK /\ NaverTypeOK
      => EndsTypeOK
  BY DEF EndsTypeOK
<1> QED BY <1>1, EndsByParts, WarehouseTypes, PlatformSafely, PipelineSafely, VersionsSafely,
           PoolSafely, HttpSafely, NaverSafely, PTL DEF EndsParted

(* What holds meanwhile: workers, slots, hashes and reports are sound in     *)
(* every state of such a run, whether or not anything in it is fair.        *)
THEOREM EndsRunIsSafe ==
  EndsSpec => [](/\ WorkersAreSound /\ PlatformHonest /\ NoCircularWait /\ SlotsAreFew
                 /\ AttemptsInOrder /\ NeverAhead /\ (pipeline = "returned" => Delivered))
BY EndsByParts, PlatformSafely, PipelineSafely, VersionsSafely, PoolSafely, HttpSafely, PTL
DEF EndsParted
================================================================================
