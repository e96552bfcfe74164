------------------------ MODULE MCTrainerBackendSession ------------------------
(* Three requests that need a trusted target over a queue of one: two of them *)
(* replace one another in it, the third finds it full.                        *)
EXTENDS TrainerBackendSession, TLC

CONSTANTS r1, r2, plain, k

MCRequests == {r1, r2, plain}
MCKey == [r \in MCRequests |-> IF r = plain THEN NoKey ELSE k]

\* r1 and r2 are alike, so r1 is sent first.  The game's process is replaced, or
\* the worker is stopped, not both; and where a second worker comes on top of
\* that, two requests meet it.
Bounded ==
  /\ r2 \in asked => r1 \in asked
  /\ lifetime + stops <= 2
  /\ gen + lifetime + stops <= 3 \/ plain \notin asked
================================================================================
