------------------------------ MODULE DurableCrawl ------------------------------
(* What every run of the crawler, interrupted or not, promises about its    *)
(* durable state: records become durable and stay so, and a checkpoint,     *)
(* once saved, only ever covers durable records and never loses a mark.     *)
(* Nothing is said of buffers, queues, files, manifests or processes.       *)

CONSTANTS Scopes, Records, Complete

VARIABLES
  durable,     \* records that are uploaded, verified, cataloged and seen
  checkpoint   \* the marks of each scope's checkpoint: records and Complete

Covered(cp) ==
  /\ cp \in [Scopes -> SUBSET (Records \cup {Complete})]
  /\ \A s \in Scopes : cp[s] \ {Complete} \subseteq durable

Init == durable \subseteq Records /\ Covered(checkpoint)

(* Some records become durable.                                             *)
Store ==
  /\ durable \subseteq durable' /\ durable' \subseteq Records
  /\ UNCHANGED checkpoint

(* Checkpoints of some scopes are saved; a batch may finish several scopes. *)
Save ==
  /\ Covered(checkpoint')
  /\ \A s \in Scopes : checkpoint[s] \subseteq checkpoint'[s]
  /\ UNCHANGED durable

Next == Store \/ Save

Spec == Init /\ [][Next]_<<durable, checkpoint>>

=============================================================================
