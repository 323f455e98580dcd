---------------------------- MODULE MCIndexOutbox ----------------------------
(* Instances of IndexOutbox for TLC.  A behaviour belongs to one scene:      *)
(* "writes", of one URI that is never removed, with losses of the index and  *)
(* reconciliation, or "moves", of all URIs, with short histories.            *)
EXTENDS IndexOutbox

CONSTANTS u1, u2, t1, Scenes

VARIABLE scene

TwoUris == u1 :> t1 @@ u2 :> t1

\* The bounds of a scene: what its writers touch and how much they enqueue.
Within ==
  /\ scene = "writes" => entries'[u2] = NULL
  /\ scene = "moves" => Len(outbox') <= 2 /\ \A u \in Uris, v \in 2..MaxVersion : versions'[u][v] = NULL

IndexNext ==
  /\ \/ scene = "writes" /\ WriteNext
     \/ scene = "moves" /\ OutboxNext
  /\ Within
  /\ UNCHANGED scene

IndexInit == OutboxInit /\ scene \in Scenes

IndexSpec == IndexInit /\ [][IndexNext]_<<vars, scene>> /\ WorkerFairness

(* The closed-form numbering of batch_write, where the history is long enough *)
(* to show it.  It does not look at what the workers do: one state of theirs, *)
(* before the first claim, stands for all.                                    *)
BatchesNumbered ==
  scene = "writes" /\ index = NoPoints /\ (\A i \in Ids : outbox[i].attempts = 0) => BatchIsSequential
=============================================================================
