-------------------------- MODULE MCTrainerGameContext --------------------------
(* TrainerGameContext on small instances. *)
EXTENDS TrainerGameContext

CONSTANTS
  MaxWaiting,  \* bound on the events that wait
  MaxOps       \* bound on the requests in flight and queued

Bounded == Len(main) <= MaxWaiting /\ Len(host.ops) <= MaxOps
================================================================================
