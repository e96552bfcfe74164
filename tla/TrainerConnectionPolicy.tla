------------------------ MODULE TrainerConnectionPolicy ------------------------
(***************************************************************************)
(* TrainerConnectionPolicy (Sources/Core/Host/TrainerConnectionPolicy.swift)*)
(* is a value without effects: each of its mutating methods is an operator *)
(* from a policy to the next one.                                          *)
(***************************************************************************)
EXTENDS Naturals

\* targetRunning, connectRequested, backendRestartRequested,
\* automaticConnectionSuppressed, backgroundConnectionAllowed,
\* targetExitRefreshRequested, observedLaunchGeneration, awaitingDefinitiveLaunch
NewPolicy ==
  [running |-> FALSE, connect |-> FALSE, restart |-> FALSE, suppressed |-> FALSE,
   background |-> FALSE, exitRefresh |-> FALSE, generation |-> 0, awaiting |-> FALSE]

TargetStateChanged(p, running, allow) ==
  IF p.running = running THEN p
  ELSE IF running
  THEN [p EXCEPT !.running = TRUE, !.suppressed = FALSE,
                 !.restart = @ \/ allow, !.connect = @ \/ allow]
  ELSE [p EXCEPT !.running = FALSE, !.exitRefresh = TRUE, !.restart = FALSE,
                 !.connect = FALSE, !.suppressed = FALSE, !.background = FALSE,
                 !.awaiting = FALSE]

TargetLaunched(p) ==
  [p EXCEPT !.running = TRUE, !.awaiting = FALSE, !.exitRefresh = TRUE,
            !.suppressed = FALSE, !.background = TRUE, !.restart = TRUE, !.connect = TRUE]

\* A process seen before its launch is reported waits for that report.
ObserveTarget(p, running, generation, allow) ==
  LET seen == TargetStateChanged(p, running, allow)
      held == [seen EXCEPT !.awaiting = @ \/ (running /\ ~p.running /\ ~allow),
                           !.generation = generation]
  IN IF p.generation # generation /\ running THEN TargetLaunched(held) ELSE held

Settled(p) == p.running /\ ~p.awaiting

TargetActivated(p) ==
  IF Settled(p) THEN [p EXCEPT !.restart = TRUE, !.connect = TRUE] ELSE p

BackendBecameAvailable(p) ==
  [p EXCEPT !.restart = FALSE, !.connect = @ \/ Settled(p)]

BackendBecameUnavailable(p) == [p EXCEPT !.restart = @ \/ Settled(p)]

UserWillToggleConnection(p, connected) ==
  [p EXCEPT !.suppressed = connected, !.background = FALSE,
            !.connect = @ /\ ~connected]

\* Mutant: an observed disconnect ends the refresh of the exit, process or not.
ConnectionChangedSettled(p, connected) ==
  IF connected
  THEN [p EXCEPT !.connect = FALSE, !.suppressed = FALSE, !.background = FALSE]
  ELSE [p EXCEPT !.exitRefresh = FALSE, !.connect = FALSE]

ConnectionChanged(p, connected) ==
  IF connected
  THEN [p EXCEPT !.connect = FALSE, !.suppressed = FALSE, !.background = FALSE]
  ELSE [p EXCEPT !.exitRefresh = @ /\ p.running]

\* The three consume operations: when the policy decides, and what remains of it.
\* Mutant: the refresh is taken while the request in flight may still answer.
ConsumesExitRefreshBusy(p, available, busy) == p.exitRefresh /\ available

ConsumesExitRefresh(p, available, busy) == p.exitRefresh /\ available /\ ~busy

ConsumesRestart(p, available, busy, enabled) ==
  p.restart /\ Settled(p) /\ ~available /\ ~busy /\ enabled

ConsumesConnect(p, available, busy, connected, enabled) ==
  p.connect /\ Settled(p) /\ ~p.suppressed /\ available /\ ~busy /\ ~connected /\ enabled

AfterConnect(p) == [p EXCEPT !.connect = FALSE, !.background = FALSE]
================================================================================
