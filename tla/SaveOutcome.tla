------------------------------ MODULE SaveOutcome ------------------------------
(***************************************************************************)
(* What a caller of a Core Save transaction may rely on: the effect on the *)
(* live save files that each way of ending it stands for.  SaveTransaction *)
(* implements this contract; StagedRestore is built on it.                 *)
(***************************************************************************)

VARIABLES
  active,  \* a transaction is running
  effect,  \* of the last transaction on the files it owns:
           \*   "none"     not touched, or rolled back and verified
           \*   "unknown"  touched, and neither target nor baseline verified
           \*   "applied"  the target was installed and verified
  result   \* how the last transaction ended

outcomeVars == <<active, effect, result>>

Effects == {"none", "unknown", "applied"}
Results == {"none", "success", "busy", "failed", "prepInterrupted", "rolledBack",
            "interrupted", "rollbackFailed", "lost"}

\* The results that can stand for an effect.  An interruption or the loss of the
\* process stands for any: the caller must not infer one.  A failed rollback can
\* have had nothing to undo, when the interrupt came just before the first replace.
Reports(e) ==
  {"interrupted", "lost"} \cup
  CASE e = "none"    -> {"busy", "failed", "prepInterrupted", "rolledBack", "rollbackFailed"}
    [] e = "unknown" -> {"rollbackFailed"}
    [] OTHER         -> {"success"}

OutcomeInit == active = FALSE /\ effect = "none" /\ result = "none"

Start ==
  /\ ~active
  /\ active' = TRUE /\ effect' = "none" /\ result' = "none"

Touch  == active /\ effect = "none" /\ effect' = "unknown" /\ UNCHANGED <<active, result>>
Commit == active /\ effect = "unknown" /\ effect' = "applied" /\ UNCHANGED <<active, result>>
Undo   == active /\ effect = "unknown" /\ effect' = "none" /\ UNCHANGED <<active, result>>

Report(r) ==
  /\ active /\ r \in Reports(effect)
  /\ active' = FALSE /\ result' = r
  /\ UNCHANGED effect

OutcomeNext == Start \/ Touch \/ Commit \/ Undo \/ \E r \in Results : Report(r)

OutcomeSpec == OutcomeInit /\ [][OutcomeNext]_outcomeVars
================================================================================
