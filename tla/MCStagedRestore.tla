---------------------------- MODULE MCStagedRestore ----------------------------
(* Two snapshots, and the worker of a dead host beside the next host's. *)
EXTENDS StagedRestore, TLC

CONSTANTS w1, w2, s1, s2

MCWorkers   == {w1, w2}
MCSnapshots == {s1, s2}

\* w2, the worker of the next host, finds one snapshot and one marker, and only
\* markers are handled from then on.  What removes snapshots is explored with w1
\* alone: deletions and sweeps are not guarded against a second worker.
Bounded ==
  pc[w2] # "off" =>
    /\ intents = 1 /\ harmed = {} /\ Cardinality({s \in Snapshots : store[s] # "unused"}) = 1
    /\ \A w \in Workers : pc[w] \notin {"restoring", "editing", "sweeping", "deleting"}

\* No action tells two snapshots apart.
MCSymmetry == Permutations(MCSnapshots)
================================================================================
