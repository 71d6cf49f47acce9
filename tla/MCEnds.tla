-------------------------------- MODULE MCEnds --------------------------------
(* What must end or settle, one part of the system at a time: endsPart says  *)
(* which one runs, the others keep their initial state.                      *)
EXTENDS Warehouse, PlatformSites, BoundedPipeline, SeenVersions, BrowserPool, HttpRequests,
        NaverPages

VARIABLE endsPart

EndsParts == {"warehouse", "platform", "pipeline", "versions", "browser", "http", "naver"}

\* Each stage works on one of the sites at a time.
OneSlot == [stage \in Stages |-> 1]

\* Two stages of two workers, with room for one item before each.
TwoByTwo == <<2, 2>>
OneEach == <<1, 1>>

\* Two channels of one lease each.
LeaseChannels == "l" :> "forum" @@ "m" :> "news"
ChannelLimits == "forum" :> 1 @@ "news" :> 1

CategoriesTwo == <<"company", "market">>
OneRunEach == [k \in BoardKinds |-> 1]

\* The one of its initial states in which a part waits that does not run.
BoardWaits == boardKind = "forum" /\ boardMode = "full" /\ pastEnd = "empty"

EndsInit ==
  /\ endsPart \in EndsParts
  /\ Init /\ PlatformInit /\ PipelineInit /\ VersionsInit /\ BrowserInit /\ HttpInit /\ NaverInit
  /\ endsPart # "naver" => BoardWaits

EndsNext ==
  \/ endsPart = "warehouse" /\ Next
     /\ UNCHANGED <<endsPart, platformVars, pipelineVars, versionVars, browserVars, httpVars, boardVars>>
  \/ endsPart = "platform" /\ PlatformNext
     /\ UNCHANGED <<endsPart, vars, pipelineVars, versionVars, browserVars, httpVars, boardVars>>
  \/ endsPart = "pipeline" /\ PipelineNext
     /\ UNCHANGED <<endsPart, vars, platformVars, versionVars, browserVars, httpVars, boardVars>>
  \/ endsPart = "versions" /\ VersionsNext
     /\ UNCHANGED <<endsPart, vars, platformVars, pipelineVars, browserVars, httpVars, boardVars>>
  \/ endsPart = "browser" /\ BrowserNext
     /\ UNCHANGED <<endsPart, vars, platformVars, pipelineVars, versionVars, httpVars, boardVars>>
  \/ endsPart = "http" /\ HttpNext
     /\ UNCHANGED <<endsPart, vars, platformVars, pipelineVars, versionVars, browserVars, boardVars>>
  \/ endsPart = "naver" /\ NaverNext
     /\ UNCHANGED <<endsPart, vars, platformVars, pipelineVars, versionVars, browserVars, httpVars>>

\* The fairness of the part that runs, as its module states it; one that waits owes nothing.
EndsFairness ==
  /\ \A f \in Files : WF_vars(endsPart = "warehouse" /\ FinishBatch(f))
  /\ \A c \in Compactors : WF_vars(endsPart = "warehouse" /\ Compact(c))
  /\ WF_platformVars(endsPart = "platform" /\ PlatformGoesOn)
  /\ WF_pipelineVars(endsPart = "pipeline" /\ PipelineGoesOn)
  /\ \A d \in Documents : WF_versionVars(endsPart = "versions" /\ ReadPage(d))
  /\ \A r \in DocVersions : /\ SF_versionVars(endsPart = "versions" /\ BufferVersion(r))
                            /\ WF_versionVars(endsPart = "versions" /\ CommitVersion(r))
  /\ \A l \in Leases : SF_browserVars(endsPart = "browser" /\ LeaseGoesOn(l))
  /\ WF_httpVars(endsPart = "http" /\ Tick)
  /\ WF_httpVars(endsPart = "http" /\ \E r \in Requests : RequestGoesOn(r))
  /\ WF_boardVars(endsPart = "naver" /\ BoardGoesOn)

endsVars ==
  <<endsPart, vars, platformVars, pipelineVars, versionVars, browserVars, httpVars, boardVars>>

EndsSpec ==
  /\ EndsInit
  /\ [][EndsNext]_endsVars
  /\ EndsFairness

(* Every component keeps to the values its code can give its state. *)
EndsTypeOK ==
  /\ endsPart = "warehouse" => TypeOK
  /\ endsPart = "platform" => PlatformTypeOK
  /\ endsPart = "pipeline" => PipelineTypeOK
  /\ endsPart = "versions" => VersionsTypeOK
  /\ endsPart = "browser" => BrowserTypeOK
  /\ endsPart = "http" => HttpTypeOK
  /\ endsPart = "naver" => NaverTypeOK
===============================================================================
