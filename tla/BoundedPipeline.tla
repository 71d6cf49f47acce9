----------------------------- MODULE BoundedPipeline -----------------------------
(***************************************************************************)
(* BoundedAsyncPipeline: a producer, stages with workers of their own, a   *)
(* bounded queue before each, and one end marker per worker to bring a     *)
(* stage to its end.  The parallel upload and catalog workers are the same *)
(* with one stage, whose handler calls in a thread.  gather raises what    *)
(* the first task raises and leaves the others running.                    *)
(* A handler returns its item or None; the fan-out of a list or tuple,     *)
(* whose elements the worker puts one by one, is left out.                 *)
(***************************************************************************)
EXTENDS Naturals, Sequences, FiniteSets, SequencesExt

CONSTANTS
  PipelineItems, \* the source
  StageWorkers,  \* the workers of each stage, in the order of the stages
  QueueSizes

ASSUME PipelineAssumption ==
  /\ IsFiniteSet(PipelineItems)
  /\ PipelineItems \cap {"end", "get", "ending", "returned", "raised"} = {}
  /\ StageWorkers \in Seq(Nat \ {0}) /\ StageWorkers # <<>>
  /\ QueueSizes \in Seq(Nat \ {0}) /\ Len(QueueSizes) = Len(StageWorkers)

VARIABLES
  pipeline,   \* idle, running, returned, raised
  source,     \* the items the producer has yet to put
  endsLeft,   \* the markers it has yet to put
  queues,     \* of items and markers, one per stage
  worker,     \* what each worker is about
  putLeft,    \* what it has yet to put into the next queue
  finished,   \* finished_counts
  results,    \* outputs
  noResult    \* items a handler answered with None

pipelineVars == <<pipeline, source, endsLeft, queues, worker, putLeft, finished, results, noResult>>

StageNumbers == DOMAIN StageWorkers
PipelineWorkers == UNION {{<<k, n>> : n \in 1 .. StageWorkers[k]} : k \in StageNumbers}
FinalStage == Len(StageWorkers)
EndMarker == "end"
Queued == Seq(PipelineItems \cup {EndMarker})

PipelineTypeOK ==
  /\ pipeline \in {"idle", "running", "returned", "raised"}
  /\ source \subseteq PipelineItems /\ endsLeft \in 0 .. StageWorkers[1]
  /\ queues \in [StageNumbers -> Queued]
  /\ \A k \in StageNumbers : Len(queues[k]) <= QueueSizes[k]
  /\ worker \in [PipelineWorkers -> PipelineItems \cup {"get", "ending", "returned", "raised"}]
  /\ putLeft \in [PipelineWorkers -> Queued]
  /\ finished \in [StageNumbers -> Nat]
  /\ results \in Seq(PipelineItems) /\ noResult \subseteq PipelineItems

PipelineInit ==
  /\ pipeline = "idle" /\ source = PipelineItems /\ endsLeft = StageWorkers[1]
  /\ queues = [k \in StageNumbers |-> <<>>]
  /\ worker = [w \in PipelineWorkers |-> "get"] /\ putLeft = [w \in PipelineWorkers |-> <<>>]
  /\ finished = [k \in StageNumbers |-> 0]
  /\ results = <<>> /\ noResult = {}

StartPipeline ==
  /\ pipeline = "idle" /\ pipeline' = "running"
  /\ UNCHANGED <<source, endsLeft, queues, worker, putLeft, finished, results, noResult>>

Started == pipeline \in {"running", "raised"}   \* the tasks live on

HasRoom(k) == Len(queues[k]) < QueueSizes[k]

(* Mutation: one marker for the stage.                                      *)
OneEnd(k) == <<EndMarker>>

EndsOf(k) == [i \in 1 .. StageWorkers[k] |-> EndMarker]

Produce(x) ==
  /\ Started /\ x \in source /\ HasRoom(1)
  /\ source' = source \ {x}
  /\ queues' = [queues EXCEPT ![1] = Append(@, x)]
  /\ UNCHANGED <<pipeline, endsLeft, worker, putLeft, finished, results, noResult>>

ProduceEnd ==
  /\ Started /\ source = {} /\ endsLeft > 0 /\ HasRoom(1)
  /\ endsLeft' = endsLeft - 1
  /\ queues' = [queues EXCEPT ![1] = Append(@, EndMarker)]
  /\ UNCHANGED <<pipeline, source, worker, putLeft, finished, results, noResult>>

(* The source raises: the producer ends and puts no marker; so does gather. *)
SourceRaises ==
  /\ Started /\ endsLeft = StageWorkers[1]
  /\ source' = {} /\ endsLeft' = 0 /\ pipeline' = "raised"
  /\ UNCHANGED <<queues, worker, putLeft, finished, results, noResult>>

LastOfStage(k) == finished[k] + 1 = StageWorkers[k]

GetEnd(w) ==
  LET k == w[1] IN
  /\ Started /\ worker[w] = "get"
  /\ queues[k] # <<>> /\ Head(queues[k]) = EndMarker
  /\ queues' = [queues EXCEPT ![k] = Tail(@)]
  /\ finished' = [finished EXCEPT ![k] = @ + 1]
  /\ putLeft' = [putLeft EXCEPT ![w] =
       IF LastOfStage(k) /\ k < FinalStage THEN EndsOf(k + 1) ELSE <<>>]
  /\ worker' = [worker EXCEPT ![w] = "ending"]
  /\ UNCHANGED <<pipeline, source, endsLeft, results, noResult>>

GetItem(w) ==
  LET k == w[1] IN
  /\ Started /\ worker[w] = "get"
  /\ queues[k] # <<>> /\ Head(queues[k]) # EndMarker
  /\ worker' = [worker EXCEPT ![w] = Head(queues[k])]
  /\ queues' = [queues EXCEPT ![k] = Tail(@)]
  /\ UNCHANGED <<pipeline, source, endsLeft, putLeft, finished, results, noResult>>

(* The handler returns the item, or nothing.                                *)
Handle(w, keeps) ==
  LET x == worker[w] IN
  /\ Started /\ x \in PipelineItems
  /\ worker' = [worker EXCEPT ![w] = "get"]
  /\ noResult' = IF keeps THEN noResult ELSE noResult \cup {x}
  /\ IF w[1] = FinalStage
     THEN results' = (IF keeps THEN Append(results, x) ELSE results) /\ UNCHANGED putLeft
     ELSE putLeft' = [putLeft EXCEPT ![w] = IF keeps THEN <<x>> ELSE <<>>] /\ UNCHANGED results
  /\ UNCHANGED <<pipeline, source, endsLeft, queues, finished>>

PutNext(w) ==
  LET k == w[1] + 1 IN
  /\ Started /\ putLeft[w] # <<>> /\ HasRoom(k)
  /\ queues' = [queues EXCEPT ![k] = Append(@, Head(putLeft[w]))]
  /\ putLeft' = [putLeft EXCEPT ![w] = Tail(@)]
  /\ UNCHANGED <<pipeline, source, endsLeft, worker, finished, results, noResult>>

WorkerReturns(w) ==
  /\ Started /\ worker[w] = "ending" /\ putLeft[w] = <<>>
  /\ worker' = [worker EXCEPT ![w] = "returned"]
  /\ UNCHANGED <<pipeline, source, endsLeft, queues, putLeft, finished, results, noResult>>

(* The handler raises: so does gather, and nobody cancels the others.       *)
HandlerRaises(w) ==
  /\ Started /\ worker[w] \in PipelineItems
  /\ worker' = [worker EXCEPT ![w] = "raised"] /\ pipeline' = "raised"
  /\ UNCHANGED <<source, endsLeft, queues, putLeft, finished, results, noResult>>

Gathered ==
  /\ pipeline = "running" /\ endsLeft = 0
  /\ \A w \in PipelineWorkers : worker[w] = "returned"
  /\ pipeline' = "returned"
  /\ UNCHANGED <<source, endsLeft, queues, worker, putLeft, finished, results, noResult>>

(* A worker that still puts gets nothing.                                   *)
WorkerGoesOn(w) ==
  \/ putLeft[w] = <<>> /\ (GetEnd(w) \/ GetItem(w))
  \/ \E keeps \in BOOLEAN : Handle(w, keeps)
  \/ PutNext(w) \/ WorkerReturns(w)

PipelineGoesOn ==
  \/ \E x \in source : Produce(x)
  \/ ProduceEnd \/ Gathered
  \/ \E w \in PipelineWorkers : WorkerGoesOn(w)

PipelineNext ==
  \/ StartPipeline \/ PipelineGoesOn
  \/ SourceRaises \/ \E w \in PipelineWorkers : HandlerRaises(w)

(* A ready task goes on: finitely many steps lead to the end.               *)
PipelineFairness == WF_pipelineVars(PipelineGoesOn)

PipelineSpec == PipelineInit /\ [][PipelineNext]_pipelineVars /\ PipelineFairness

------------------------------------------------------------------------------
(* A run that returns has given each item of the source to every stage and   *)
(* lost none between the queues, whatever order the workers of a stage took  *)
(* its end markers in.                                                      *)
Delivered ==
  /\ pipeline = "returned"
  /\ ToSet(results) = PipelineItems \ noResult
  /\ Len(results) = Cardinality(ToSet(results))

(* run has an end: it raises, also when all workers of a stage have died and *)
(* their queue is full, or it has delivered.                                *)
PipelineEnds == pipeline = "running" ~> (pipeline = "raised" \/ Delivered)

=============================================================================
