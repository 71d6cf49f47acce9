------------------------------- MODULE Watermark -------------------------------
(* ContiguousWatermark: sequence numbers complete in any order, more than    *)
(* once perhaps; current moves over those without a gap.                    *)

EXTENDS Naturals

CONSTANTS MaxSequence, WatermarkStart

ASSUME WatermarkAssumption == MaxSequence \in Nat /\ WatermarkStart \in 0 .. MaxSequence

VARIABLES
  current,
  completed,  \* _completed: those behind the first gap
  marked      \* what has been marked, for the properties

watermarkVars == <<current, completed, marked>>

Sequences == 1 .. MaxSequence

WatermarkTypeOK ==
  /\ current \in WatermarkStart .. MaxSequence
  /\ completed \subseteq Sequences /\ marked \subseteq Sequences

WatermarkInit == current = WatermarkStart /\ completed = {} /\ marked = {}

(* Mutation: one step at most.                                              *)
MovesOnce(n, done) == n = IF current + 1 \in done THEN current + 1 ELSE current

(* The while loop: as far as numbers without a gap are completed.           *)
MovesTo(n, done) ==
  /\ (current + 1) .. n \subseteq done
  /\ n + 1 \notin done

MarkComplete(q) ==
  /\ marked' = marked \cup {q}
  /\ IF q <= current
     THEN UNCHANGED <<current, completed>>
     ELSE \E n \in current .. MaxSequence :
            /\ MovesTo(n, completed \cup {q})
            /\ current' = n
            /\ completed' = (completed \cup {q}) \ ((current + 1) .. n)

WatermarkNext == \E q \in Sequences : MarkComplete(q)

WatermarkSpec == WatermarkInit /\ [][WatermarkNext]_watermarkVars

(* current is the end of the longest prefix that is complete, and what waits *)
(* behind the gap is exactly what was marked there: nothing is forgotten,   *)
(* nothing is passed over.                                                  *)
WatermarkIsPrefix ==
  /\ (WatermarkStart + 1) .. current \subseteq marked
  /\ current + 1 \notin marked
  /\ completed = {q \in marked : q > current}

=============================================================================
