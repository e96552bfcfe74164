------------------------- MODULE SaveTransactionProofs -------------------------
(* Theorems about SaveTransaction for every set of files, contents and calls,  *)
(* about what it reports, and that it implements SaveOutcome.                  *)
EXTENDS SaveTransaction, TLAPS

\* Stages in which nothing was mutated, and stages between capture and the end.
Before == {"recheck", "captureStopped", "captured", "prepare", "baseline", "stopped",
           "probe", "baselineAgain", "stoppedAgain"}
During == {"install", "delete", "installed", "validate", "validated", "survived"}
Middle == Before \cup During \cup RollbackStages

\* The recovery directory holds the baseline from the end of the capture to the
\* end of the transaction.
CopyInv ==
  /\ pc \in {"idle", "capture"} => base = NoFiles /\ copy = NoFiles
  /\ pc = "copy" => hasCopy /\ \A k \in Keys \ todo : copy[k] = base[k]
  /\ pc \in Middle => hasCopy /\ copy = base

\* The code's progress set and the proven effect agree on whether anything was
\* mutated, and nothing unproven reaches the removal of the directory.
EffectInv ==
  /\ pc \in {"idle", "capture", "copy"} \cup Before => mutated = {} /\ touched = {}
  /\ pc \in {"capture", "copy"} \cup Before => effect = "none"
  /\ pc \in During => touched \subseteq mutated /\ effect # "applied"
  /\ pc \in During /\ mutated = {} => effect = "none"
  /\ pc = "clean" => effect # "unknown"

EvidenceInv == TypeOK /\ CopyInv /\ EffectInv /\ LastCopyKept

--------------------------------------------------------------------------------
LEMMA OpWellFormed ==
  ASSUME TypeOK
  PROVE  op \in Request /\ WellFormed(op)
BY RequestsAssumption DEF TypeOK

LEMMA StageAfterType ==
  ASSUME NEW stage \in Stages
  PROVE  StageAfter(stage) \in Stages
BY DEF StageAfter, Stages, VerifyStages, BaselineStages, TargetStages, StoppedStages

LEMMA ScopeType ==
  ASSUME TypeOK, NEW stage \in Stages
  PROVE  Scope(stage) \subseteq Keys
<1>1. op.owned \subseteq Keys
  BY OpWellFormed DEF Request
<1>. QED
  BY <1>1 DEF Scope, Owned, RollbackFiles, Present

LEMMA EnterType ==
  ASSUME TypeOK, NEW stage \in Stages, Enter(stage)
  PROVE  pc' \in Stages /\ todo' \subseteq Keys /\ unseen' \subseteq Keys
BY ScopeType DEF Enter, TypeOK

LEMMA RaiseWithType ==
  ASSUME TypeOK, NEW verdict \in Outcomes, NEW progress \in SUBSET Keys,
         RaiseWith(verdict, progress),
         live' \in SaveSet, touched' \subseteq Keys, effect' \in {"none", "unknown", "applied"}
  PROVE  TypeOK'
<1>1. pc' \in Stages /\ todo' \subseteq Keys /\ unseen' \subseteq Keys
  <2>1. CASE progress = {}
    <3>1. Enter("clean") BY <2>1 DEF RaiseWith
    <3>. QED BY <3>1, EnterType DEF Stages
  <2>2. CASE progress # {}
    <3>1. Enter("rollback") BY <2>2 DEF RaiseWith
    <3>. QED BY <3>1, EnterType DEF Stages
  <2>. QED BY <2>1, <2>2
<1>2. outcome' \in Outcomes
  BY DEF RaiseWith, Outcomes
<1>. QED
  BY <1>1, <1>2 DEF RaiseWith, TypeOK, game

LEMMA RaiseType ==
  ASSUME TypeOK, NEW verdict \in Outcomes, Raise(verdict)
  PROVE  TypeOK'
BY RaiseWithType DEF Raise, TypeOK

LEMMA RaceType == Race \in Outcomes
BY DEF Race, Outcomes

LEMMA PartType ==
  ASSUME NEW files \in SaveSet, NEW keys \in SUBSET Keys
  PROVE  Part(files, keys) \in SaveSet
BY DEF Part, SaveSet, Cells

LEMMA NoFilesType == NoFiles \in SaveSet
BY DEF NoFiles, SaveSet, Cells

LEMMA RemainsType ==
  ASSUME TypeOK, NEW left \in Remains
  PROVE  left \subseteq SaveSet
BY PartType DEF Remains, TypeOK

LEMMA EndType ==
  ASSUME TypeOK, NEW verdict \in Outcomes, NEW left \in SUBSET SaveSet, End(verdict, left)
  PROVE  TypeOK'
BY NoFilesType DEF End, TypeOK, game, Stages

LEMMA StoreType ==
  ASSUME TypeOK, NEW k \in Keys, pc \in Stages, Store(k, Content(pc, k))
  PROVE  live' \in SaveSet /\ touched' \subseteq Keys /\ effect' \in {"none", "unknown", "applied"}
<1>1. op.target \in SaveSet
  BY OpWellFormed DEF Request
<1>2. Content(pc, k) \in Cells
  BY <1>1 DEF Content, TypeOK, SaveSet, Cells
<1>. QED
  BY <1>2 DEF Store, TypeOK, SaveSet

--------------------------------------------------------------------------------
\* Type correctness.
LEMMA TypeInit == Init => TypeOK
<1>1. SomeRequest \in Requests
  BY RequestsAssumption DEF SomeRequest
<1>. SUFFICES ASSUME Init PROVE TypeOK
  OBVIOUS
<1>2. live \in SaveSet /\ running \in BOOLEAN /\ op \in Requests
  BY <1>1 DEF Init
<1>3. pc \in Stages /\ outcome \in Outcomes
  BY DEF Init, Stages, Outcomes
<1>4. base \in SaveSet /\ copy \in SaveSet /\ preserved \in SaveSet
  BY NoFilesType DEF Init
<1>. QED
  BY <1>2, <1>3, <1>4 DEF Init, TypeOK

LEMMA TypeStep == TypeOK /\ [Next]_vars => TypeOK'
<1>. SUFFICES ASSUME TypeOK, [Next]_vars PROVE TypeOK'
  OBVIOUS
<1>1. CASE Launch
  BY <1>1 DEF Launch, TypeOK, code, ghost
<1>2. CASE Quit
  BY <1>2 DEF Quit, TypeOK, code, ghost
<1>3. ASSUME NEW k \in Keys, NEW content \in Cells, GameWrite(k, content) PROVE TypeOK'
  BY <1>3 DEF GameWrite, TypeOK, code, SaveSet
<1>4. ASSUME NEW r \in Requests, Begin(r) PROVE TypeOK'
  BY <1>4, NoFilesType DEF Begin, TypeOK, game, Stages, Outcomes
<1>5. CASE StartCapture
  <2>1. CASE Raise("busy")
    BY <2>1, RaiseType DEF Outcomes
  <2>2. CASE ~Raise("busy")
    BY <1>5, <2>2 DEF StartCapture, TypeOK, game, ghost, Stages, Present
  <2>. QED BY <2>1, <2>2
<1>6. CASE CheckRequest
  <2>1. CASE Raise("failed")
    BY <2>1, RaiseType DEF Outcomes
  <2>2. CASE Enter(StageAfter("captured"))
    <3>1. pc' \in Stages /\ todo' \subseteq Keys /\ unseen' \subseteq Keys
      BY <2>2, StageAfterType, EnterType DEF Stages
    <3>2. CASE Raise("failed") BY <3>2, RaiseType DEF Outcomes
    <3>3. CASE ~Raise("failed")
      BY <1>6, <3>1, <3>3 DEF CheckRequest, TypeOK, game
    <3>. QED BY <3>2, <3>3
  <2>. QED BY <1>6, <2>1, <2>2 DEF CheckRequest
<1>7. CASE Prepare
  <2>1. pc' \in Stages /\ todo' \subseteq Keys /\ unseen' \subseteq Keys
    BY <1>7, StageAfterType, EnterType DEF Prepare, Stages
  <2>. QED BY <1>7, <2>1, NoFilesType DEF Prepare, SnapshotRows, TypeOK, game
<1>8. ASSUME NEW k \in Keys, HashBefore(k) PROVE TypeOK'
  BY <1>8 DEF HashBefore, TypeOK, game, ghost, SaveSet
<1>9. ASSUME NEW k \in Keys, CopyFile(k) PROVE TypeOK'
  <2>1. CASE live[k] = base[k]
    BY <1>9, <2>1 DEF CopyFile, TypeOK, game, ghost, SaveSet
  <2>2. CASE live[k] # base[k]
    BY <1>9, <2>2, RaiseType, RaceType DEF CopyFile
  <2>. QED BY <2>1, <2>2
<1>10. ASSUME NEW k \in Keys, VerifyFile(k) PROVE TypeOK'
  <2>1. CASE live[k] = Expected(pc)[k]
    BY <1>10, <2>1 DEF VerifyFile, TypeOK, game, ghost
  <2>2. CASE live[k] # Expected(pc)[k]
    <3>1. CASE pc = "restored"
      <4>1. End("rollbackFailed", {copy})
        BY <1>10, <2>2, <3>1 DEF VerifyFile, Mismatch
      <4>. QED BY <4>1, EndType DEF Outcomes, TypeOK
    <3>2. CASE pc # "restored"
      BY <1>10, <2>2, <3>2, RaiseType, RaceType DEF VerifyFile, Mismatch
    <3>. QED BY <3>1, <3>2
  <2>. QED BY <2>1, <2>2
<1>11. CASE StageDone
  <2>1. pc' \in Stages /\ todo' \subseteq Keys /\ unseen' \subseteq Keys
    BY <1>11, StageAfterType, EnterType DEF StageDone, TypeOK
  <2>2. outcome' \in Outcomes
    BY <1>11 DEF StageDone, TypeOK, Outcomes
  <2>. QED BY <1>11, <2>1, <2>2 DEF StageDone, TypeOK, game
<1>12. CASE EnsureStopped
  <2>1. CASE ~hot /\ running
    BY <1>12, <2>1, RaiseType DEF EnsureStopped, Outcomes
  <2>2. CASE ~(~hot /\ running)
    <3>1. pc' \in Stages /\ todo' \subseteq Keys /\ unseen' \subseteq Keys
      BY <1>12, <2>2, StageAfterType, EnterType DEF EnsureStopped, TypeOK
    <3>. QED BY <1>12, <2>2, <3>1 DEF EnsureStopped, TypeOK, game
  <2>. QED BY <2>1, <2>2
<1>13. CASE BusyProbe
  <2>1. CASE Raise("busy")
    BY <2>1, RaiseType DEF Outcomes
  <2>2. CASE ~Raise("busy")
    <3>1. pc' \in Stages /\ todo' \subseteq Keys /\ unseen' \subseteq Keys
      BY <1>13, <2>2, StageAfterType, EnterType DEF BusyProbe, TypeOK
    <3>. QED BY <1>13, <2>2, <3>1 DEF BusyProbe, TypeOK, game
  <2>. QED BY <2>1, <2>2
<1>14. CASE Validate
  <2>1. CASE \A k \in op.owned : live[k] = op.target[k]
    <3>1. pc' \in Stages /\ todo' \subseteq Keys /\ unseen' \subseteq Keys
      BY <1>14, <2>1, StageAfterType, EnterType DEF Validate, TypeOK
    <3>. QED BY <1>14, <2>1, <3>1 DEF Validate, TypeOK, game
  <2>2. CASE ~\A k \in op.owned : live[k] = op.target[k]
    <3>1. Raise("failed") BY <1>14, <2>2 DEF Validate
    <3>. QED BY <3>1, RaiseType DEF Outcomes
  <2>. QED BY <2>1, <2>2
<1>15. ASSUME NEW k \in Keys, Mutate(k) PROVE TypeOK'
  <2>1. live' \in SaveSet /\ touched' \subseteq Keys /\ effect' \in {"none", "unknown", "applied"}
    <3>1. CASE pc = "delete" /\ live[k] = Absent
      BY <1>15, <3>1 DEF Mutate, TypeOK
    <3>2. CASE ~(pc = "delete" /\ live[k] = Absent)
      BY <1>15, <3>2, StoreType DEF Mutate, TypeOK
    <3>. QED BY <3>1, <3>2
  <2>2. mutated' \subseteq Keys
    BY <1>15 DEF Mutate, Progress, TypeOK
  <2>. QED BY <1>15, <2>1, <2>2 DEF Mutate, TypeOK, game
<1>16. ASSUME NEW k \in Keys, NEW verdict \in Outcomes, MutateThenFault(k, verdict)
       PROVE  TypeOK'
  <2>1. live' \in SaveSet /\ touched' \subseteq Keys /\ effect' \in {"none", "unknown", "applied"}
    BY <1>16, StoreType DEF MutateThenFault, TypeOK
  <2>2. Progress(k) \in SUBSET Keys
    BY DEF Progress, TypeOK
  <2>. QED BY <1>16, <2>1, <2>2, RaiseWithType DEF MutateThenFault
<1>17. ASSUME NEW k \in Keys, MarkThenInterrupt(k) PROVE TypeOK'
  BY <1>17, RaiseWithType DEF MarkThenInterrupt, TypeOK, Outcomes
<1>18. ASSUME NEW k \in Keys, Rollback(k) PROVE TypeOK'
  <2>1. live' \in SaveSet /\ touched' \subseteq Keys /\ effect' \in {"none", "unknown", "applied"}
    BY <1>18, StoreType DEF Rollback, TypeOK
  <2>. QED BY <1>18, <2>1 DEF Rollback, TypeOK, game
<1>19. CASE Error
  BY <1>19, RaiseType DEF Error, Outcomes
<1>20. CASE Interrupt
  BY <1>20, RaiseType DEF Interrupt, Outcomes
<1>21. ASSUME NEW verdict \in Outcomes, RollbackFault(verdict) PROVE TypeOK'
  BY <1>21, EndType DEF RollbackFault, TypeOK
<1>22. CASE Clean
  <2>1. PICK left \in Remains, verdict \in {outcome, "interrupted"} : End(verdict, left)
    BY <1>22 DEF Clean
  <2>. QED BY <2>1, EndType, RemainsType DEF TypeOK, Outcomes
<1>23. CASE Kill
  <2>1. PICK left \in Remains : End("lost", left)
    BY <1>23 DEF Kill
  <2>. QED BY <2>1, EndType, RemainsType DEF Outcomes
<1>24. CASE UNCHANGED vars
  BY <1>24 DEF TypeOK, vars, code, ghost, game
<1>. QED
  BY <1>1, <1>2, <1>3, <1>4, <1>5, <1>6, <1>7, <1>8, <1>9, <1>10, <1>11, <1>12, <1>13,
     <1>14, <1>15, <1>16, <1>17, <1>18, <1>19, <1>20, <1>21, <1>22, <1>23, <1>24
  DEF Next, Game, Step, Faults

\* Every variable stays in the set the code keeps it in.
THEOREM TypeCorrect == Spec => []TypeOK
BY TypeInit, TypeStep, PTL DEF Spec

--------------------------------------------------------------------------------
(* The recovery directory: EvidenceInv is inductive. *)

Evidence == CopyInv /\ EffectInv /\ LastCopyKept

LEMMA PcCases ==
  ASSUME TypeOK
  PROVE  pc \in {"idle", "capture", "copy", "clean"} \cup Before \cup During \cup RollbackStages
BY DEF TypeOK, Stages, VerifyStages, BaselineStages, TargetStages, StoppedStages, Before,
       During, RollbackStages

LEMMA RaiseWithEvidence ==
  ASSUME EvidenceInv, NEW verdict, NEW progress \in SUBSET Keys, RaiseWith(verdict, progress),
         pc \notin RollbackStages \cup {"idle", "clean"},
         pc \notin During => progress = {},
         progress = {} => effect' = "none"
  PROVE  Evidence'
<1>1. pc' = IF progress = {} THEN "clean" ELSE "rollback"
  BY DEF RaiseWith, Enter
<1>2. pc \in During => hasCopy /\ copy = base
  BY DEF EvidenceInv, CopyInv, Middle
<1>3. CopyInv'
  BY <1>1, <1>2 DEF RaiseWith, CopyInv, Middle, Before, During, RollbackStages
<1>4. EffectInv'
  BY <1>1 DEF EffectInv, Before, During
<1>5. LastCopyKept'
  BY DEF EvidenceInv, LastCopyKept, RaiseWith
<1>. QED
  BY <1>3, <1>4, <1>5 DEF Evidence

LEMMA RaiseEvidence ==
  ASSUME EvidenceInv, NEW verdict, Raise(verdict),
         pc \notin RollbackStages \cup {"idle", "clean"}
  PROVE  Evidence'
<1>1. mutated \in SUBSET Keys
  BY DEF EvidenceInv, TypeOK
<1>2. pc \notin During => mutated = {}
  BY PcCases DEF EvidenceInv, EffectInv
<1>3. mutated = {} => effect' = "none"
  BY PcCases DEF EvidenceInv, EffectInv, Raise
<1>. QED
  BY <1>1, <1>2, <1>3, RaiseWithEvidence DEF Raise

LEMMA EndEvidence ==
  ASSUME EvidenceInv, NEW verdict, NEW left, End(verdict, left), pc # "idle",
         pc # "clean" => left = {copy}
  PROVE  Evidence'
<1>1. CopyInv' /\ EffectInv'
  BY DEF End, CopyInv, EffectInv, Middle, Before, During, RollbackStages
<1>2. CASE effect = "unknown"
  <2>1. pc # "clean" /\ hasCopy /\ copy = base
    BY <1>2, PcCases DEF EvidenceInv, EffectInv, CopyInv, Middle
  <2>. QED
    BY <1>1, <1>2, <2>1 DEF End, EvidenceInv, LastCopyKept, Evidence
<1>3. CASE effect # "unknown"
  BY <1>1, <1>3 DEF End, EvidenceInv, LastCopyKept, Evidence
<1>. QED
  BY <1>2, <1>3

\* A step that goes on to the next stage without changing what Evidence is about.
LEMMA EnterEvidence ==
  ASSUME EvidenceInv, pc \in (Before \cup During \cup RollbackStages) \ {"restored"},
         Enter(StageAfter(pc)), StageAfter(pc) # "clean",
         UNCHANGED <<base, copy, hasCopy, mutated, kept, touched, effect, owed>>
  PROVE  Evidence'
<1>1. /\ pc \in Before => pc' \in Before \cup {"install"}
      /\ pc \in During => pc' \in During
      /\ pc \in RollbackStages => pc' \in RollbackStages
  BY DEF Enter, StageAfter, Before, During, RollbackStages
<1>2. CopyInv'
  BY <1>1 DEF EvidenceInv, CopyInv, Middle, Before, During, RollbackStages
<1>3. EffectInv'
  BY <1>1 DEF EvidenceInv, EffectInv, Before, During, RollbackStages
<1>. QED
  BY <1>2, <1>3 DEF Evidence, EvidenceInv, LastCopyKept

LEMMA EvidenceInit == Init => EvidenceInv
<1>. SUFFICES ASSUME Init PROVE EvidenceInv
  OBVIOUS
<1>1. TypeOK BY TypeInit
<1>. QED
  BY <1>1 DEF Init, EvidenceInv, CopyInv, EffectInv, LastCopyKept, Middle, Before, During,
              RollbackStages

LEMMA EvidenceStep == EvidenceInv /\ [Next]_vars => EvidenceInv'
<1>. SUFFICES ASSUME EvidenceInv, [Next]_vars PROVE EvidenceInv'
  OBVIOUS
<1>t. TypeOK /\ TypeOK'
  BY TypeStep DEF EvidenceInv
<1>. SUFFICES Evidence'
  BY <1>t DEF EvidenceInv, Evidence
<1>. USE DEF EvidenceInv
<1>1. CASE Game
  BY <1>1 DEF Game, Launch, Quit, GameWrite, code, ghost, Evidence, CopyInv, EffectInv, LastCopyKept
<1>2. ASSUME NEW r \in Requests, Begin(r) PROVE Evidence'
  BY <1>2 DEF Begin, Evidence, CopyInv, EffectInv, LastCopyKept, Middle, Before, During,
              RollbackStages
<1>3. CASE StartCapture
  <2>1. CASE Raise("busy")
    BY <1>3, <2>1, RaiseEvidence DEF StartCapture, RollbackStages
  <2>2. CASE ~Raise("busy")
    <3>1. CopyInv'
      BY <1>3, <2>2 DEF StartCapture, CopyInv, NoFiles, Middle, Before, During, RollbackStages
    <3>. QED
      BY <1>3, <2>2, <3>1 DEF StartCapture, Evidence, EffectInv, LastCopyKept, ghost,
                              Before, During
  <2>. QED BY <2>1, <2>2
<1>4. CASE CheckRequest
  <2>1. CASE Raise("failed")
    BY <1>4, <2>1, RaiseEvidence DEF CheckRequest, RollbackStages
  <2>2. CASE ~Raise("failed")
    BY <1>4, <2>2, EnterEvidence DEF CheckRequest, Before, StageAfter
  <2>. QED BY <2>1, <2>2
<1>5. CASE Prepare
  BY <1>5, EnterEvidence DEF Prepare, Before, StageAfter
<1>6. ASSUME NEW k \in Keys, HashBefore(k) PROVE Evidence'
  <2>1. CopyInv'
    BY <1>6 DEF HashBefore, CopyInv, Middle, Before, During, RollbackStages, TypeOK, SaveSet
  <2>. QED BY <1>6, <2>1 DEF HashBefore, Evidence, EffectInv, LastCopyKept, ghost
<1>7. ASSUME NEW k \in Keys, CopyFile(k) PROVE Evidence'
  <2>1. CASE live[k] = base[k]
    <3>1. CopyInv'
      BY <1>7, <2>1 DEF CopyFile, CopyInv, Middle, Before, During, RollbackStages, TypeOK, SaveSet
    <3>. QED BY <1>7, <2>1, <3>1 DEF CopyFile, Evidence, EffectInv, LastCopyKept, ghost
  <2>2. CASE live[k] # base[k]
    BY <1>7, <2>2, RaiseEvidence DEF CopyFile, RollbackStages
  <2>. QED BY <2>1, <2>2
<1>8. ASSUME NEW k \in Keys, VerifyFile(k) PROVE Evidence'
  <2>1. CASE live[k] = Expected(pc)[k]
    BY <1>8, <2>1 DEF VerifyFile, VerifyStages, BaselineStages, TargetStages, Evidence, CopyInv,
                      EffectInv, LastCopyKept, ghost
  <2>2. CASE live[k] # Expected(pc)[k] /\ pc = "restored"
    <3>1. End("rollbackFailed", {copy})
      BY <1>8, <2>2 DEF VerifyFile, Mismatch
    <3>. QED BY <2>2, <3>1, EndEvidence
  <2>3. CASE live[k] # Expected(pc)[k] /\ pc # "restored"
    <3>1. Raise(Race) /\ pc \notin RollbackStages \cup {"idle", "clean"}
      BY <1>8, <2>3 DEF VerifyFile, Mismatch, VerifyStages, BaselineStages, TargetStages,
                        RollbackStages
    <3>. QED BY <3>1, RaiseEvidence
  <2>. QED BY <2>1, <2>2, <2>3
<1>9. CASE StageDone
  <2>1. CASE pc = "copy"
    <3>1. pc' = "recheck" /\ effect' = effect
      BY <1>9, <2>1 DEF StageDone, Enter, StageAfter
    <3>2. copy = base
      BY <1>9, <2>1 DEF StageDone, CopyInv, TypeOK, SaveSet
    <3>3. CopyInv'
      BY <1>9, <2>1, <3>1, <3>2 DEF StageDone, CopyInv, Middle, Before
    <3>. QED BY <1>9, <2>1, <3>1, <3>3 DEF StageDone, Evidence, EffectInv, LastCopyKept, Before, During
  <2>2. CASE pc # "copy" /\ StageAfter(pc) # "clean"
    <3>1. pc \in (Before \cup During \cup RollbackStages) \ {"restored"}
      BY <1>9, <2>2 DEF StageDone, VerifyStages, BaselineStages, TargetStages, Before, During,
                        RollbackStages, StageAfter
    <3>. QED BY <1>9, <2>2, <3>1, EnterEvidence DEF StageDone
  <2>3. CASE StageAfter(pc) = "clean"
    <3>1. pc' = "clean" /\ effect' # "unknown"
      BY <1>9, <2>3 DEF StageDone, Enter
    <3>. QED
      BY <1>9, <3>1 DEF StageDone, Evidence, CopyInv, EffectInv, LastCopyKept, Middle, Before,
                        During, RollbackStages
  <2>. QED BY <2>1, <2>2, <2>3
<1>10. CASE EnsureStopped
  <2>1. CASE ~hot /\ running
    BY <1>10, <2>1, RaiseEvidence DEF EnsureStopped, StoppedStages, RollbackStages
  <2>2. CASE ~(~hot /\ running)
    BY <1>10, <2>2, EnterEvidence DEF EnsureStopped, StoppedStages, Before, StageAfter
  <2>. QED BY <2>1, <2>2
<1>11. CASE BusyProbe
  <2>1. CASE Raise("busy")
    BY <1>11, <2>1, RaiseEvidence DEF BusyProbe, RollbackStages
  <2>2. CASE ~Raise("busy")
    BY <1>11, <2>2, EnterEvidence DEF BusyProbe, Before, StageAfter
  <2>. QED BY <2>1, <2>2
<1>12. CASE Validate
  <2>1. CASE \A k \in op.owned : live[k] = op.target[k]
    BY <1>12, <2>1, EnterEvidence DEF Validate, During, StageAfter
  <2>2. CASE ~\A k \in op.owned : live[k] = op.target[k]
    BY <1>12, <2>2, RaiseEvidence DEF Validate, RollbackStages
  <2>. QED BY <2>1, <2>2
<1>13. ASSUME NEW k \in Keys, Mutate(k) PROVE Evidence'
  <2>1. pc \in During /\ pc' = pc /\ UNCHANGED <<base, copy, hasCopy, kept, owed>>
    BY <1>13 DEF Mutate, During
  <2>2. \/ UNCHANGED <<mutated, touched, effect>>
        \/ effect' = "unknown" /\ mutated' = mutated \cup {k} /\ touched' = touched \cup {k}
    BY <1>13 DEF Mutate, Store, Progress
  <2>3. CopyInv'
    BY <2>1 DEF CopyInv, During
  <2>4. EffectInv'
    BY <2>1, <2>2 DEF EffectInv, During, Before
  <2>. QED BY <2>1, <2>3, <2>4 DEF Evidence, LastCopyKept
<1>14. ASSUME NEW k \in Keys, NEW verdict \in Outcomes, MutateThenFault(k, verdict)
       PROVE  Evidence'
  <2>1. Progress(k) \in SUBSET Keys /\ Progress(k) # {}
    BY DEF Progress, TypeOK
  <2>. QED
    BY <1>14, <2>1, RaiseWithEvidence DEF MutateThenFault, During, RollbackStages
<1>15. ASSUME NEW k \in Keys, MarkThenInterrupt(k) PROVE Evidence'
  <2>1. mutated \cup {k} \in SUBSET Keys /\ mutated \cup {k} # {}
    BY DEF TypeOK
  <2>. QED
    BY <1>15, <2>1, RaiseWithEvidence DEF MarkThenInterrupt, During, RollbackStages
<1>16. ASSUME NEW k \in Keys, Rollback(k) PROVE Evidence'
  BY <1>16 DEF Rollback, Store, Evidence, CopyInv, EffectInv, LastCopyKept, Before, During,
               RollbackStages
<1>17. CASE Error
  BY <1>17, RaiseEvidence DEF Error, Raisable
<1>18. CASE Interrupt
  BY <1>18, RaiseEvidence DEF Interrupt, Raisable
<1>19. ASSUME NEW verdict \in Outcomes, RollbackFault(verdict) PROVE Evidence'
  BY <1>19, EndEvidence DEF RollbackFault, RollbackStages
<1>20. CASE Clean
  <2>1. PICK left \in Remains, verdict \in {outcome, "interrupted"} : End(verdict, left)
    BY <1>20 DEF Clean
  <2>. QED BY <1>20, <2>1, EndEvidence DEF Clean
<1>21. CASE Kill
  <2>1. PICK left \in Remains : (pc # "clean" => left = {copy}) /\ End("lost", left)
    BY <1>21 DEF Kill
  <2>. QED BY <1>21, <2>1, EndEvidence DEF Kill
<1>22. CASE UNCHANGED vars
  BY <1>22 DEF vars, code, ghost, Evidence, CopyInv, EffectInv, LastCopyKept
<1>. QED
  BY <1>1, <1>2, <1>3, <1>4, <1>5, <1>6, <1>7, <1>8, <1>9, <1>10, <1>11, <1>12, <1>13,
     <1>14, <1>15, <1>16, <1>17, <1>18, <1>19, <1>20, <1>21, <1>22
  DEF Next, Step, Faults

\* The last recoverable copy is never destroyed: when a transaction ends with
\* neither target nor baseline verified, its whole baseline stays on disk.
THEOREM LastCopyKeptAlways == Spec => []LastCopyKept
<1>1. EvidenceInv => LastCopyKept
  BY DEF EvidenceInv
<1>. QED
  BY EvidenceInit, EvidenceStep, <1>1, PTL DEF Spec
--------------------------------------------------------------------------------
(* What SaveTransaction reports when it ends, which files it touches, and that *)
(* it implements SaveOutcome.                                                 *)

\* Each decisive verification has seen the files it has passed, and what differs
\* since was written by the game.
Seen(files, keys) == \A k \in keys : live[k] = files[k] \/ k \in unseen

\* The last look at the process before the mutation.
LastCheck == IF op.kind = "replace" THEN "stoppedAgain" ELSE "stopped"

\* The stages that a transaction can be in, and what it has decided by then.
PathInv ==
  /\ op.kind = "restore" =>
       pc \notin {"probe", "baselineAgain", "stoppedAgain", "validate", "validated"}
  /\ ~hot => pc # "survived"
  /\ pc \in {"capture", "copy"} \cup Before \cup During => outcome = "none"
  /\ pc \in RollbackStages => outcome \in {"rolledBack", "interrupted"} /\ effect # "applied"

SeenInv ==
  /\ pc = LastBaseline => Seen(base, op.owned \ todo)
  /\ pc = LastCheck => Seen(base, op.owned)
  /\ pc \in {"install", "delete"} => Seen(base, op.owned \ touched)
  /\ pc = FinalTarget => Seen(op.target, op.owned \ todo)
  /\ pc = "restored" => Seen(base, op.owned \ todo)

ReportInv ==
  pc = "clean" =>
    /\ outcome \in {"success", "busy", "failed", "prepInterrupted", "rolledBack", "interrupted"}
    /\ effect = IF outcome = "success" THEN "applied" ELSE "none"

\* What is installed is never empty.
InstallInv ==
  /\ pc = "install" /\ effect = "none" => todo = Scope("install")
  /\ pc \in During \ {"install"} => effect = "unknown"

SnapshotInv ==
  pc \in {"baseline", "stopped", "probe", "baselineAgain", "stoppedAgain"} \cup During
    /\ op.preserve => preserved = base

ColdInv == pc = "install" /\ ~hot /\ running => lateLaunch

Report ==
  /\ PathInv /\ SeenInv /\ ReportInv /\ InstallInv /\ SnapshotInv /\ ColdInv
  /\ OutcomeTrue /\ PreWriteKept

OutcomeInv == EvidenceInv /\ Report

Verdicts == {"busy", "failed", "prepInterrupted", "interrupted"}

--------------------------------------------------------------------------------
LEMMA RaiseWithReport ==
  ASSUME OutcomeInv, NEW verdict \in Verdicts, NEW progress \in SUBSET Keys,
         RaiseWith(verdict, progress),
         pc \notin RollbackStages \cup {"idle", "clean"},
         effect' # "applied",
         progress = {} => effect' = "none" /\ touched' = {}
  PROVE  Report'
<1>1. pc' = IF progress = {} THEN "clean" ELSE "rollback"
  BY DEF RaiseWith, Enter
<1>2. outcome' = IF progress = {} THEN verdict
                 ELSE IF verdict \in {"prepInterrupted", "interrupted"} THEN "interrupted"
                 ELSE "rolledBack"
  BY DEF RaiseWith
<1>3. PathInv'
  BY <1>1, <1>2 DEF PathInv, Before, During, RollbackStages
<1>4. SeenInv'
  BY <1>1 DEF SeenInv, LastBaseline, FinalTarget, LastCheck
<1>5. ReportInv'
  BY <1>1, <1>2 DEF ReportInv, Verdicts
<1>6. InstallInv' /\ SnapshotInv' /\ ColdInv'
  BY <1>1 DEF InstallInv, SnapshotInv, ColdInv, During
<1>7. OutcomeTrue' /\ PreWriteKept'
  BY <1>1, <1>2 DEF OutcomeTrue, PreWriteKept, Verdicts
<1>. QED
  BY <1>3, <1>4, <1>5, <1>6, <1>7 DEF Report

LEMMA RaiseReport ==
  ASSUME OutcomeInv, NEW verdict \in Verdicts, Raise(verdict),
         pc \notin RollbackStages \cup {"idle", "clean"}
  PROVE  Report'
<1>1. mutated \in SUBSET Keys /\ pc \in {"capture", "copy"} \cup Before \cup During
  BY PcCases DEF OutcomeInv, EvidenceInv, TypeOK
<1>2. effect # "applied" /\ (mutated = {} => effect = "none" /\ touched = {})
  BY <1>1 DEF OutcomeInv, EvidenceInv, EffectInv
<1>. QED
  BY <1>1, <1>2, RaiseWithReport DEF Raise

LEMMA RaceVerdict == Race \in Verdicts
BY DEF Race, Verdicts

LEMMA EndReport ==
  ASSUME OutcomeInv, NEW verdict, NEW left, End(verdict, left)
  PROVE  Report'
BY DEF End, Report, PathInv, SeenInv, ReportInv, InstallInv, SnapshotInv, ColdInv, OutcomeTrue,
       PreWriteKept, Before, During, RollbackStages, LastBaseline, FinalTarget, LastCheck

\* The game changes files and its own process only.
LEMMA GameReport ==
  ASSUME OutcomeInv, Game
  PROVE  Report'
<1>1. UNCHANGED <<code, touched, effect, op>> /\ PathInv' /\ ReportInv' /\ InstallInv' /\ SnapshotInv'
      /\ PreWriteKept'
  BY DEF Game, Launch, Quit, GameWrite, code, ghost, OutcomeInv, Report, PathInv, ReportInv,
         InstallInv, SnapshotInv, PreWriteKept, Scope, Owned, RollbackFiles, Present
<1>2. pc \in Window => /\ unseen \subseteq unseen'
                        /\ \A k \in Keys : live'[k] = live[k] \/ k \in unseen'
  <2>1. ASSUME NEW k \in Keys, NEW content \in Cells, GameWrite(k, content), pc \in Window
        PROVE  unseen' = unseen \cup {k} /\ \A j \in Keys \ {k} : live'[j] = live[j]
    BY <2>1 DEF GameWrite, OutcomeInv, EvidenceInv, TypeOK, SaveSet
  <2>2. ASSUME Launch \/ Quit PROVE live' = live /\ unseen' = unseen
    BY <2>2 DEF Launch, Quit, ghost
  <2>. QED BY <2>1, <2>2 DEF Game
<1>o. op.owned \subseteq Keys
  BY OpWellFormed DEF OutcomeInv, EvidenceInv, Request
<1>3. SeenInv'
  <2>1. pc \in {LastBaseline, FinalTarget, "restored", "install", "delete", LastCheck}
          => pc \in Window
    BY OpWellFormed DEF Window, Decisive, LastBaseline, LastCheck, OutcomeInv, EvidenceInv,
       Request
  <2>. QED
    BY <1>1, <1>2, <1>o, <2>1 DEF SeenInv, Seen, OutcomeInv, Report, code, LastBaseline, FinalTarget, LastCheck
<1>4. ColdInv'
  BY DEF Game, Launch, Quit, GameWrite, code, ghost, OutcomeInv, Report, ColdInv
<1>5. OutcomeTrue'
  <2>1. pc = "clean" => pc \in Window
    BY DEF Window
  <2>. QED
    BY <1>1, <1>2, <1>o, <2>1 DEF OutcomeTrue, Seen, OutcomeInv, Report, code
<1>. QED
  BY <1>1, <1>3, <1>4, <1>5 DEF Report

LEMMA InstallsSomething ==
  ASSUME TypeOK
  PROVE  Scope("install") # {}
<1>. USE OpWellFormed
<1>1. op.kind \in {"restore", "replace"} BY DEF Request
<1>2. CASE op.kind = "restore"
  <2>1. op.owned = Keys /\ Present(op.target) # {} BY <1>2 DEF WellFormed
  <2>. QED BY <2>1 DEF Scope, Present
<1>3. CASE op.kind = "replace"
  <2>1. op.owned # {} /\ op.owned \subseteq Present(op.target) BY <1>3 DEF WellFormed
  <2>. QED BY <2>1 DEF Scope
<1>. QED BY <1>1, <1>2, <1>3

\* A step that goes on to the next stage, with the work of its own stage done.
LEMMA EnterReport ==
  ASSUME OutcomeInv, pc \in {"copy"} \cup Before \cup During \cup RollbackStages,
         Enter(StageAfter(pc)), StageAfter(pc) # "clean",
         pc \in VerifyStages \cup {"install", "delete"} => todo = {},
         pc \in StoppedStages => hot \/ ~running,
         IF pc = "prepare" THEN op.preserve => preserved' = base ELSE preserved' = preserved,
         UNCHANGED <<live, op, hot, base, outcome, touched, effect, running, lateLaunch>>
  PROVE  Report'
<1>. USE DEF OutcomeInv, EvidenceInv, Report
<1>1. /\ pc' = StageAfter(pc) /\ todo' = Scope(pc')
      /\ unseen' = IF pc' \in Decisive THEN {} ELSE unseen
  BY DEF Enter
<1>k. op.kind \in {"restore", "replace"} /\ op.owned \subseteq Keys
  BY OpWellFormed DEF Request
<1>2. PathInv'
  BY <1>1, <1>k DEF PathInv, StageAfter, Before, During, RollbackStages
<1>3. todo' = IF pc' \in VerifyStages \ {"recheck"} THEN op'.owned ELSE Scope(pc')
  BY <1>1 DEF Scope, Owned, VerifyStages, BaselineStages, TargetStages
<1>4. SeenInv'
  <2>1. pc' \in {LastBaseline', FinalTarget', "restored"} => todo' = op'.owned
    BY <1>3 DEF LastBaseline, FinalTarget, VerifyStages, BaselineStages, TargetStages
  <2>2. pc' = LastCheck' => pc = LastBaseline /\ unseen' = unseen
    BY <1>1, <1>k DEF StageAfter, LastCheck, LastBaseline, Decisive, FinalTarget, Before, During,
                      RollbackStages, PathInv
  <2>3. pc' = "install" => pc = LastCheck /\ unseen' = unseen
    BY <1>1, <1>k DEF StageAfter, LastCheck, LastBaseline, Decisive, FinalTarget, Before, During,
                      RollbackStages, PathInv
  <2>4. pc' = "delete" => pc = "install" /\ unseen' = unseen
    BY <1>1 DEF StageAfter, LastBaseline, Decisive, FinalTarget, Before, During, RollbackStages
  <2>5. LastBaseline \in VerifyStages
    BY DEF LastBaseline, VerifyStages, BaselineStages
  <2>. QED
    BY <2>1, <2>2, <2>3, <2>4, <2>5 DEF SeenInv, Seen
<1>5. InstallInv'
  <2>1. pc' = "install" => todo' = Scope("install")'
    BY <1>1 DEF Scope
  <2>2. pc' \in During \ {"install"} => pc \in During
    BY <1>1 DEF StageAfter, Before, During, RollbackStages
  <2>3. pc \in During => effect \in {"none", "unknown"}
    BY DEF EffectInv, TypeOK
  <2>4. pc = "install" => effect # "none"
    BY InstallsSomething DEF InstallInv
  <2>. QED
    BY <2>1, <2>2, <2>3, <2>4 DEF InstallInv
<1>6. SnapshotInv'
  BY <1>1 DEF SnapshotInv, StageAfter, Before, During, RollbackStages
<1>7. ColdInv'
  BY <1>1 DEF ColdInv, StageAfter, StoppedStages, Before, During, RollbackStages
<1>8. ReportInv' /\ OutcomeTrue' /\ PreWriteKept'
  BY <1>1 DEF ReportInv, OutcomeTrue, PreWriteKept
<1>. QED
  BY <1>2, <1>4, <1>5, <1>6, <1>7, <1>8

\* The last target verification passes, or that of a rollback.
LEMMA DecidedReport ==
  ASSUME OutcomeInv, StageDone, StageAfter(pc) = "clean"
  PROVE  Report'
<1>. USE DEF OutcomeInv, EvidenceInv, Report
<1>1. pc' = "clean" /\ todo = {} /\ unseen' = unseen
  BY DEF StageDone, Enter, Decisive, LastBaseline, FinalTarget
<1>k. op.kind \in {"restore", "replace"}
  BY OpWellFormed DEF Request
<1>2. pc \in {FinalTarget, "restored"}
  BY <1>k DEF StageDone, StageAfter, FinalTarget, PathInv, VerifyStages, BaselineStages, TargetStages
<1>3. UNCHANGED <<live, op, hot, base, preserved, touched>>
  BY DEF StageDone
<1>4. CASE pc = "restored"
  <2>1. outcome' = outcome /\ outcome \in {"rolledBack", "interrupted"} /\ effect' = "none"
    BY <1>4 DEF StageDone, PathInv, RollbackStages, TargetStages, StageAfter
  <2>2. Seen(base, op.owned)
    BY <1>1, <1>4 DEF SeenInv
  <2>3. OutcomeTrue'
    BY <1>1, <1>3, <2>1, <2>2 DEF OutcomeTrue, Seen
  <2>. QED
    BY <1>1, <2>1, <2>3 DEF PathInv, SeenInv, ReportInv, InstallInv, SnapshotInv, ColdInv,
         PreWriteKept, Before, During, RollbackStages, LastBaseline, LastCheck, FinalTarget
<1>5. CASE pc = FinalTarget
  <2>1. pc \in TargetStages /\ pc # "restored" /\ pc \in During
    BY <1>5 DEF FinalTarget, TargetStages, During
  <2>2. outcome' = "success" /\ effect' = "applied"
    BY <2>1 DEF StageDone
  <2>3. Seen(op.target, op.owned)
    BY <1>1, <1>5 DEF SeenInv
  <2>4. OutcomeTrue'
    BY <1>1, <1>3, <2>2, <2>3 DEF OutcomeTrue, Seen
  <2>5. PreWriteKept'
    BY <1>1, <1>3, <2>1 DEF PreWriteKept, SnapshotInv
  <2>. QED
    BY <1>1, <2>2, <2>4, <2>5 DEF PathInv, SeenInv, ReportInv, InstallInv, SnapshotInv, ColdInv,
         Before, During, RollbackStages, LastBaseline, LastCheck, FinalTarget
<1>. QED BY <1>2, <1>4, <1>5

\* A file was replaced or deleted, and the loop goes on.
LEMMA MutateReport ==
  ASSUME OutcomeInv, NEW k \in Keys, Mutate(k)
  PROVE  Report'
<1>. USE DEF OutcomeInv, EvidenceInv, Report
<1>1. /\ pc \in {"install", "delete"} /\ todo' = todo \ {k}
      /\ UNCHANGED <<pc, op, hot, base, copy, preserved, outcome, unseen, running, lateLaunch>>
  BY DEF Mutate, game
<1>2. \/ UNCHANGED <<live, touched, effect>> /\ pc = "delete"
      \/ /\ effect' = "unknown" /\ touched' = touched \cup {k}
         /\ \A j \in Keys \ {k} : live'[j] = live[j]
  BY DEF Mutate, Store, TypeOK, SaveSet
<1>3. op.owned \subseteq Keys
  BY OpWellFormed DEF Request
<1>4. SeenInv'
  BY <1>1, <1>2, <1>3 DEF SeenInv, Seen, LastBaseline, LastCheck, FinalTarget
<1>5. InstallInv'
  BY <1>1, <1>2 DEF InstallInv, During
<1>. QED
  BY <1>1, <1>4, <1>5 DEF PathInv, ReportInv, SnapshotInv, ColdInv, OutcomeTrue, PreWriteKept,
       Before, During, RollbackStages

\* Nothing that Report is about changed but the work that is left.
LEMMA SameReport ==
  ASSUME OutcomeInv, pc \notin {"install"} \cup VerifyStages,
         UNCHANGED <<live, pc, op, hot, preserved, outcome, touched, effect, unseen, running,
                     lateLaunch>>,
         pc \in Before \cup During \cup RollbackStages \cup {"clean"} => base' = base
  PROVE  Report'
BY DEF OutcomeInv, Report, PathInv, SeenInv, Seen, ReportInv, InstallInv, SnapshotInv, ColdInv,
       OutcomeTrue, PreWriteKept, Before, During, RollbackStages, LastBaseline, LastCheck,
       FinalTarget, VerifyStages, BaselineStages, TargetStages

\* A file matches.
LEMMA MatchReport ==
  ASSUME OutcomeInv, NEW k \in Keys, pc \in VerifyStages, live[k] = Expected(pc)[k],
         todo' = todo \ {k},
         UNCHANGED <<live, pc, op, hot, base, preserved, outcome, touched, effect, unseen, running,
                     lateLaunch>>
  PROVE  Report'
<1>. USE DEF OutcomeInv, Report
<1>1. /\ pc = LastBaseline => live[k] = base[k]
      /\ pc = "restored" => live[k] = base[k]
      /\ pc = FinalTarget => live[k] = op.target[k]
  BY DEF Expected, LastBaseline, FinalTarget, BaselineStages
<1>2. SeenInv'
  BY <1>1 DEF SeenInv, Seen, LastBaseline, LastCheck, FinalTarget, VerifyStages, BaselineStages,
              TargetStages
<1>3. InstallInv'
  BY DEF InstallInv, VerifyStages, BaselineStages, TargetStages
<1>. QED
  BY <1>2, <1>3 DEF PathInv, ReportInv, SnapshotInv, ColdInv, OutcomeTrue, PreWriteKept, Before,
       During, RollbackStages

LEMMA RollbackReport ==
  ASSUME OutcomeInv, NEW k \in Keys, Rollback(k)
  PROVE  Report'
BY DEF Rollback, Store, game, OutcomeInv, Report, PathInv, SeenInv, ReportInv, InstallInv,
       SnapshotInv, ColdInv, OutcomeTrue, PreWriteKept, Before, During, RollbackStages,
       LastBaseline, LastCheck, FinalTarget

LEMMA OutcomeInitial == Init => OutcomeInv
<1>. SUFFICES ASSUME Init PROVE Report
  BY EvidenceInit DEF OutcomeInv
<1>. QED
  BY DEF Init, Report, PathInv, SeenInv, ReportInv, InstallInv, SnapshotInv, ColdInv, OutcomeTrue,
         PreWriteKept, Before, During, RollbackStages, LastBaseline, LastCheck, FinalTarget

LEMMA OutcomeStep == OutcomeInv /\ [Next]_vars => OutcomeInv'
<1>. SUFFICES ASSUME OutcomeInv, [Next]_vars PROVE Report'
  BY EvidenceStep DEF OutcomeInv
<1>t. TypeOK /\ EvidenceInv
  BY DEF OutcomeInv, EvidenceInv
<1>. USE DEF game, ghost
<1>1. CASE Game
  BY <1>1, GameReport
<1>2. ASSUME NEW r \in Requests, Begin(r) PROVE Report'
  BY <1>2 DEF Begin, Report, PathInv, SeenInv, ReportInv, InstallInv, SnapshotInv, ColdInv,
              OutcomeTrue, PreWriteKept, Before, During, RollbackStages, LastBaseline, LastCheck,
              FinalTarget
<1>3. CASE StartCapture
  <2>1. CASE Raise("busy")
    BY <1>3, <2>1, RaiseReport DEF StartCapture, RollbackStages, Verdicts
  <2>2. CASE ~Raise("busy")
    BY <1>3, <2>2 DEF StartCapture, OutcomeInv, Report, PathInv, SeenInv, ReportInv, InstallInv,
         SnapshotInv, ColdInv, OutcomeTrue, PreWriteKept, Before, During, RollbackStages,
         LastBaseline, LastCheck, FinalTarget
  <2>. QED BY <2>1, <2>2
<1>4. CASE CheckRequest
  <2>1. CASE Raise("failed")
    BY <1>4, <2>1, RaiseReport DEF CheckRequest, RollbackStages, Verdicts
  <2>2. CASE ~Raise("failed")
    BY <1>4, <2>2, EnterReport DEF CheckRequest, Before, StageAfter, VerifyStages, BaselineStages,
                                   TargetStages, StoppedStages
  <2>. QED BY <2>1, <2>2
<1>5. CASE Prepare
  <2>1. copy = base
    BY <1>5, <1>t DEF Prepare, EvidenceInv, CopyInv, Middle, Before
  <2>. QED
    BY <1>5, <2>1, EnterReport DEF Prepare, SnapshotRows, Before, StageAfter, VerifyStages,
                                   BaselineStages, TargetStages, StoppedStages
<1>6. ASSUME NEW k \in Keys, HashBefore(k) PROVE Report'
  BY <1>6, SameReport DEF HashBefore, VerifyStages, BaselineStages, TargetStages, Before, During,
                          RollbackStages
<1>7. ASSUME NEW k \in Keys, CopyFile(k) PROVE Report'
  <2>1. CASE live[k] = base[k]
    BY <1>7, <2>1, SameReport DEF CopyFile, VerifyStages, BaselineStages, TargetStages, Before,
                                  During, RollbackStages
  <2>2. CASE live[k] # base[k]
    BY <1>7, <2>2, RaiseReport, RaceVerdict DEF CopyFile, RollbackStages
  <2>. QED BY <2>1, <2>2
<1>8. ASSUME NEW k \in Keys, VerifyFile(k) PROVE Report'
  <2>1. CASE live[k] = Expected(pc)[k]
    BY <1>8, <2>1, MatchReport DEF VerifyFile
  <2>2. CASE live[k] # Expected(pc)[k] /\ pc = "restored"
    <3>1. End("rollbackFailed", {copy})
      BY <1>8, <2>2 DEF VerifyFile, Mismatch
    <3>. QED BY <3>1, EndReport
  <2>3. CASE live[k] # Expected(pc)[k] /\ pc # "restored"
    <3>1. Raise(Race) /\ pc \notin RollbackStages \cup {"idle", "clean"}
      BY <1>8, <2>3 DEF VerifyFile, Mismatch, VerifyStages, BaselineStages, TargetStages,
                        RollbackStages
    <3>. QED BY <3>1, RaiseReport, RaceVerdict
  <2>. QED BY <2>1, <2>2, <2>3
<1>9. CASE StageDone
  <2>1. CASE StageAfter(pc) = "clean"
    BY <1>9, <2>1, DecidedReport
  <2>2. CASE StageAfter(pc) # "clean"
    <3>1. pc \in {"copy"} \cup Before \cup During \cup RollbackStages /\ pc \notin StoppedStages
          /\ pc # "prepare"
      BY <1>9 DEF StageDone, VerifyStages, BaselineStages, TargetStages, Before, During,
                  RollbackStages, StoppedStages
    <3>. QED
      BY <1>9, <2>2, <3>1, EnterReport DEF StageDone
  <2>. QED BY <2>1, <2>2
<1>10. CASE EnsureStopped
  <2>1. CASE ~hot /\ running
    BY <1>10, <2>1, RaiseReport DEF EnsureStopped, StoppedStages, RollbackStages, Verdicts
  <2>2. CASE ~(~hot /\ running)
    BY <1>10, <1>t, <2>2, EnterReport DEF EnsureStopped, StoppedStages, Before, StageAfter,
         VerifyStages, BaselineStages, TargetStages, TypeOK
  <2>. QED BY <2>1, <2>2
<1>11. CASE BusyProbe
  <2>1. CASE Raise("busy")
    BY <1>11, <2>1, RaiseReport DEF BusyProbe, RollbackStages, Verdicts
  <2>2. CASE ~Raise("busy")
    BY <1>11, <2>2, EnterReport DEF BusyProbe, Before, StageAfter, VerifyStages, BaselineStages,
         TargetStages, StoppedStages
  <2>. QED BY <2>1, <2>2
<1>12. CASE Validate
  <2>1. CASE \A k \in op.owned : live[k] = op.target[k]
    BY <1>12, <2>1, EnterReport DEF Validate, During, StageAfter, VerifyStages, BaselineStages,
         TargetStages, StoppedStages
  <2>2. CASE ~\A k \in op.owned : live[k] = op.target[k]
    BY <1>12, <2>2, RaiseReport DEF Validate, RollbackStages, Verdicts
  <2>. QED BY <2>1, <2>2
<1>13. ASSUME NEW k \in Keys, Mutate(k) PROVE Report'
  BY <1>13, MutateReport
<1>14. ASSUME NEW k \in Keys, NEW verdict \in Outcomes, MutateThenFault(k, verdict)
       PROVE  Report'
  <2>1. Progress(k) \in SUBSET Keys /\ Progress(k) # {}
    BY <1>t DEF Progress, TypeOK
  <2>. QED
    BY <1>14, <2>1, RaiseWithReport DEF MutateThenFault, Store, RollbackStages, Verdicts
<1>15. ASSUME NEW k \in Keys, MarkThenInterrupt(k) PROVE Report'
  <2>1. mutated \cup {k} \in SUBSET Keys /\ mutated \cup {k} # {}
    BY <1>t DEF TypeOK
  <2>2. effect # "applied"
    BY <1>15, <1>t DEF MarkThenInterrupt, EvidenceInv, EffectInv, During
  <2>. QED
    BY <1>15, <2>1, <2>2, RaiseWithReport DEF MarkThenInterrupt, RollbackStages, Verdicts
<1>16. ASSUME NEW k \in Keys, Rollback(k) PROVE Report'
  BY <1>16, RollbackReport
<1>17. CASE Error
  BY <1>17, RaiseReport DEF Error, Raisable, Verdicts
<1>18. CASE Interrupt
  BY <1>18, RaiseReport DEF Interrupt, Raisable, Verdicts
<1>19. ASSUME NEW verdict \in Outcomes, RollbackFault(verdict) PROVE Report'
  BY <1>19, EndReport DEF RollbackFault
<1>20. CASE Clean
  BY <1>20, EndReport DEF Clean
<1>21. CASE Kill
  BY <1>21, EndReport DEF Kill
<1>22. CASE UNCHANGED vars
  BY <1>22 DEF vars, code, OutcomeInv, Report, PathInv, SeenInv, Seen, ReportInv, InstallInv,
       SnapshotInv, ColdInv, OutcomeTrue, PreWriteKept, LastBaseline, LastCheck, FinalTarget, Scope,
       Owned, RollbackFiles, Present
<1>. QED
  BY <1>1, <1>2, <1>3, <1>4, <1>5, <1>6, <1>7, <1>8, <1>9, <1>10, <1>11, <1>12, <1>13,
     <1>14, <1>15, <1>16, <1>17, <1>18, <1>19, <1>20, <1>21, <1>22
  DEF Next, Step, Faults

--------------------------------------------------------------------------------
\* What a finished transaction reports of the files it owns is true, whatever
\* the game, the faults and the interrupts did: refusals touched nothing, a
\* success left the target and a rollback the baseline, but for what the game
\* wrote since the last verification began.
THEOREM OutcomeTrueAlways == Spec => []OutcomeTrue
<1>1. OutcomeInv => OutcomeTrue
  BY DEF OutcomeInv, Report
<1>. QED
  BY OutcomeInitial, OutcomeStep, <1>1, PTL DEF Spec

\* No file is overwritten for the first time with contents that neither the
\* rollback copy holds nor the game wrote after the last look at the baseline.
THEOREM OverwriteKnownAlways == Spec => []OverwriteKnown
<1>1. OutcomeInv => OverwriteKnown
  BY DEF OutcomeInv, Report, SeenInv, Seen, OverwriteKnown
<1>. QED
  BY OutcomeInitial, OutcomeStep, <1>1, PTL DEF Spec

\* A cold transaction starts to mutate under a running game only when the game
\* was launched after the last stopped check.
THEOREM ColdStartAlways == Spec => []ColdStart
<1>1. OutcomeInv => ColdStart
  BY DEF OutcomeInv, Report, ColdInv, ColdStart
<1>. QED
  BY OutcomeInitial, OutcomeStep, <1>1, PTL DEF Spec

\* A successful call that was to preserve the current files made a snapshot of
\* every one of them.
THEOREM PreWriteKeptAlways == Spec => []PreWriteKept
<1>1. OutcomeInv => PreWriteKept
  BY DEF OutcomeInv, Report
<1>. QED
  BY OutcomeInitial, OutcomeStep, <1>1, PTL DEF Spec

-----------------------------------------------------------------------------
(* Owned files, and the refinement of SaveOutcome *)

\* The files that a loop of the mutation or of the rollback has still to visit
\* are files of the request.
WorkInv == pc \in {"install", "delete", "rollback", "rollbackDelete"} => todo \subseteq op.owned

LEMMA WorkStep == WorkInv /\ [Next]_vars => WorkInv'
<1>. SUFFICES ASSUME WorkInv, [Next]_vars PROVE WorkInv'
  OBVIOUS
<1>e. ASSUME NEW stage, Enter(stage), op' = op PROVE WorkInv'
  BY <1>e DEF Enter, WorkInv, Scope, Owned, RollbackFiles, VerifyStages, BaselineStages, TargetStages
<1>r. ASSUME NEW verdict, NEW progress, RaiseWith(verdict, progress) PROVE WorkInv'
  BY <1>r, <1>e DEF RaiseWith
<1>s. ASSUME NEW verdict, Raise(verdict) PROVE WorkInv'
  BY <1>s, <1>r DEF Raise
<1>d. ASSUME NEW verdict, NEW left, End(verdict, left) PROVE WorkInv'
  BY <1>d DEF End, WorkInv
<1>1. CASE Game \/ UNCHANGED vars
  BY <1>1 DEF Game, Launch, Quit, GameWrite, code, vars, WorkInv
<1>2. ASSUME NEW r \in Requests, Begin(r) PROVE WorkInv'
  BY <1>2 DEF Begin, WorkInv
<1>3. CASE StartCapture
  BY <1>3, <1>s DEF StartCapture, WorkInv
<1>4. CASE CheckRequest \/ Prepare \/ StageDone \/ EnsureStopped \/ BusyProbe \/ Validate
  <2>1. (\E verdict \in {"failed", "busy"} : Raise(verdict))
        \/ (op' = op /\ \E stage \in {"install"} \cup {StageAfter(pc)} \cup
              {StageAfter(s) : s \in Stages} : Enter(stage))
    BY <1>4 DEF CheckRequest, Prepare, StageDone, EnsureStopped, BusyProbe, Validate, Stages
  <2>. QED BY <2>1, <1>e, <1>s
<1>5. ASSUME NEW k \in Keys, HashBefore(k) \/ Mutate(k) \/ Rollback(k) PROVE WorkInv'
  BY <1>5 DEF HashBefore, Mutate, Rollback, WorkInv
<1>6. ASSUME NEW k \in Keys, CopyFile(k) PROVE WorkInv'
  BY <1>6, <1>s DEF CopyFile, WorkInv
<1>7. ASSUME NEW k \in Keys, VerifyFile(k) PROVE WorkInv'
  BY <1>7, <1>s, <1>d DEF VerifyFile, Mismatch, WorkInv
<1>8. CASE Error \/ Interrupt
  BY <1>8, <1>s DEF Error, Interrupt
<1>9. ASSUME NEW k \in Keys,
             MarkThenInterrupt(k) \/ \E verdict \in Outcomes : MutateThenFault(k, verdict)
      PROVE  WorkInv'
  BY <1>9, <1>r DEF MarkThenInterrupt, MutateThenFault
<1>10. ASSUME NEW verdict \in Outcomes, RollbackFault(verdict) PROVE WorkInv'
  BY <1>10, <1>d DEF RollbackFault
<1>11. CASE Clean \/ Kill
  BY <1>11, <1>d DEF Clean, Kill
<1>. QED
  BY <1>1, <1>2, <1>3, <1>4, <1>5, <1>6, <1>7, <1>8, <1>9, <1>10, <1>11 DEF Next, Step, Faults

--------------------------------------------------------------------------------
OwnedOnly == \A k \in Keys \ op.owned : live'[k] = live[k] \/ writes' = writes + 1

LEMMA OwnedStep == TypeOK /\ WorkInv /\ [Next]_vars => [OwnedOnly]_vars
<1>. SUFFICES ASSUME TypeOK, WorkInv, Next PROVE OwnedOnly
  OBVIOUS
<1>u. live' = live => OwnedOnly
  BY DEF OwnedOnly
<1>s. ASSUME NEW k \in Keys, NEW content, Store(k, content), k \in op.owned PROVE OwnedOnly
  BY <1>s DEF Store, OwnedOnly, TypeOK, SaveSet
<1>r. ASSUME NEW verdict, Raise(verdict) PROVE OwnedOnly
  BY <1>r, <1>u DEF Raise
<1>d. ASSUME NEW verdict, NEW left, End(verdict, left) PROVE OwnedOnly
  BY <1>d, <1>u DEF End
<1>1. CASE Game
  BY <1>1, <1>u DEF Game, Launch, Quit, GameWrite, OwnedOnly
<1>2. ASSUME NEW r \in Requests, Begin(r) PROVE OwnedOnly
  BY <1>2, <1>u DEF Begin
<1>3. CASE StartCapture \/ CheckRequest \/ Prepare \/ StageDone \/ EnsureStopped \/ BusyProbe
           \/ Validate
  BY <1>3, <1>r, <1>u DEF StartCapture, CheckRequest, Prepare, StageDone, EnsureStopped, BusyProbe,
                          Validate
<1>4. ASSUME NEW k \in Keys, HashBefore(k) \/ CopyFile(k) \/ VerifyFile(k) \/ MarkThenInterrupt(k)
      PROVE  OwnedOnly
  BY <1>4, <1>r, <1>d, <1>u DEF HashBefore, CopyFile, VerifyFile, Mismatch, MarkThenInterrupt
<1>5. ASSUME NEW k \in Keys, Mutate(k) PROVE OwnedOnly
  BY <1>5, <1>s, <1>u DEF Mutate, WorkInv
<1>6. ASSUME NEW k \in Keys, Rollback(k) PROVE OwnedOnly
  BY <1>6, <1>s DEF Rollback, WorkInv
<1>7. ASSUME NEW k \in Keys, NEW verdict \in Outcomes, MutateThenFault(k, verdict) PROVE OwnedOnly
  BY <1>7, <1>s DEF MutateThenFault, WorkInv
<1>8. CASE Error \/ Interrupt
  BY <1>8, <1>r DEF Error, Interrupt
<1>9. ASSUME NEW verdict \in Outcomes, RollbackFault(verdict) PROVE OwnedOnly
  BY <1>9, <1>d DEF RollbackFault
<1>10. CASE Clean \/ Kill
  BY <1>10, <1>d DEF Clean, Kill
<1>. QED
  BY <1>1, <1>2, <1>3, <1>4, <1>5, <1>6, <1>7, <1>8, <1>9, <1>10 DEF Next, Step, Faults

\* A step of the transaction, its rollback included, changes no declared file
\* that the request does not own; only the game does.
THEOREM OnlyOwnedAlways == Spec => OnlyOwned
<1>1. Init => WorkInv
  BY DEF Init, WorkInv
<1>. QED
  BY <1>1, WorkStep, TypeInit, TypeStep, OwnedStep, PTL DEF Spec, OnlyOwned, OwnedOnly

--------------------------------------------------------------------------------
(* The refinement: what of it a step is, by what the step does to pc, effect     *)
(* and outcome.                                                                  *)

Kept == [Contract!OutcomeNext]_(Contract!outcomeVars)

LEMMA Stutter ==
  ASSUME pc # "idle", pc' # "idle", effect' = effect
  PROVE  Kept
BY DEF Kept, Contract!outcomeVars

LEMMA StoreKept ==
  ASSUME pc # "idle", pc' # "idle", effect \in {"none", "unknown"}, effect' = "unknown"
  PROVE  Kept
BY DEF Kept, Contract!outcomeVars, Contract!OutcomeNext, Contract!Touch

LEMMA RaiseKept ==
  ASSUME NEW verdict, Raise(verdict), pc # "idle"
  PROVE  Kept
BY Stutter DEF Raise, RaiseWith, Enter

LEMMA EndKept ==
  ASSUME NEW verdict \in Contract!Reports(effect), NEW left, End(verdict, left), pc # "idle",
         effect \in {"none", "unknown", "applied"}
  PROVE  Kept
<1>1. verdict \in Contract!Results
  BY DEF Contract!Results, Contract!Reports
<1>2. Contract!Report(verdict)
  BY DEF End, Contract!Report
<1>. QED
  BY <1>1, <1>2 DEF Kept, Contract!OutcomeNext

LEMMA DecidedKept ==
  ASSUME OutcomeInv, StageDone, StageAfter(pc) = "clean"
  PROVE  Kept
<1>. USE DEF OutcomeInv, EvidenceInv, Report
<1>1. pc \in {FinalTarget, "restored"}
  <2>1. op.kind \in {"restore", "replace"}
    BY OpWellFormed DEF Request
  <2>. QED
    BY <2>1 DEF StageDone, StageAfter, FinalTarget, PathInv, VerifyStages, BaselineStages,
                TargetStages
<1>2. pc # "idle" /\ pc' = "clean"
  BY <1>1 DEF StageDone, Enter, FinalTarget
<1>3. CASE pc = "restored"
  <2>1. effect' = "none" /\ effect \in {"none", "unknown"}
    BY <1>3 DEF StageDone, TypeOK, PathInv, RollbackStages
  <2>. QED
    BY <1>2, <2>1, Stutter
    DEF Kept, Contract!outcomeVars, Contract!OutcomeNext, Contract!Undo
<1>4. CASE pc = FinalTarget
  <2>1. effect' = "applied" /\ effect = "unknown"
    BY <1>4 DEF StageDone, InstallInv, During, FinalTarget
  <2>. QED
    BY <1>2, <2>1 DEF Kept, Contract!outcomeVars, Contract!OutcomeNext, Contract!Commit
<1>. QED BY <1>1, <1>3, <1>4

LEMMA ContractStep == OutcomeInv /\ [Next]_vars => Kept
<1>. SUFFICES ASSUME OutcomeInv, [Next]_vars PROVE Kept
  OBVIOUS
<1>t. TypeOK /\ EvidenceInv /\ Report
  BY DEF OutcomeInv, EvidenceInv
<1>1. CASE Game \/ UNCHANGED vars
  <2>1. UNCHANGED <<pc, effect, outcome>>
    BY <1>1 DEF Game, Launch, Quit, GameWrite, code, ghost, vars
  <2>. QED BY <2>1 DEF Kept, Contract!outcomeVars
<1>2. ASSUME NEW r \in Requests, Begin(r) PROVE Kept
  BY <1>2 DEF Begin, Kept, Contract!OutcomeNext, Contract!Start
<1>3. CASE StartCapture
  BY <1>3, RaiseKept, Stutter DEF StartCapture, ghost
<1>4. CASE CheckRequest \/ Prepare \/ EnsureStopped \/ BusyProbe \/ Validate
  <2>1. pc # "idle" /\ StageAfter(pc) # "idle"
    BY <1>4 DEF CheckRequest, Prepare, EnsureStopped, BusyProbe, Validate, StoppedStages, StageAfter
  <2>. QED
    BY <1>4, <2>1, RaiseKept, Stutter
    DEF CheckRequest, Prepare, EnsureStopped, BusyProbe, Validate, Enter, StageAfter
<1>5. CASE StageDone
  <2>1. pc # "idle" /\ StageAfter(pc) # "idle"
    BY <1>5 DEF StageDone, StageAfter, VerifyStages, BaselineStages, TargetStages
  <2>. QED
    BY <1>5, <2>1, DecidedKept, Stutter DEF StageDone, Enter
<1>6. ASSUME NEW k \in Keys, HashBefore(k) \/ CopyFile(k) PROVE Kept
  BY <1>6, RaiseKept, Stutter DEF HashBefore, CopyFile, ghost
<1>7. ASSUME NEW k \in Keys, VerifyFile(k) PROVE Kept
  <2>1. pc # "idle"
    BY <1>7 DEF VerifyFile, VerifyStages, BaselineStages, TargetStages
  <2>2. CASE pc = "restored" /\ End("rollbackFailed", {copy})
    <3>1. effect \in {"none", "unknown"}
      BY <1>t, <2>2 DEF TypeOK, Report, PathInv, RollbackStages
    <3>. QED BY <2>2, <3>1, EndKept DEF Contract!Reports
  <2>. QED
    BY <1>7, <2>1, <2>2, RaiseKept, Stutter DEF VerifyFile, Mismatch, ghost
<1>e. pc \in During => effect \in {"none", "unknown"}
  BY <1>t DEF EvidenceInv, EffectInv, TypeOK
<1>8. ASSUME NEW k \in Keys, Mutate(k) PROVE Kept
  BY <1>8, <1>e, StoreKept, Stutter DEF Mutate, Store, During
<1>9. ASSUME NEW k \in Keys, NEW verdict \in Outcomes, MutateThenFault(k, verdict) PROVE Kept
  BY <1>9, <1>e, StoreKept DEF MutateThenFault, Store, During, RaiseWith, Enter
<1>10. ASSUME NEW k \in Keys, MarkThenInterrupt(k) PROVE Kept
  BY <1>10, Stutter DEF MarkThenInterrupt, RaiseWith, Enter
<1>r. pc \in RollbackStages => effect \in {"none", "unknown"}
  BY <1>t DEF TypeOK, Report, PathInv
<1>11. ASSUME NEW k \in Keys, Rollback(k) PROVE Kept
  BY <1>11, <1>r, StoreKept DEF Rollback, Store, RollbackStages
<1>12. CASE Error \/ Interrupt
  BY <1>12, RaiseKept DEF Error, Interrupt, Raisable
<1>13. ASSUME NEW verdict \in Outcomes, RollbackFault(verdict) PROVE Kept
  BY <1>13, <1>r, EndKept DEF RollbackFault, RollbackStages, Contract!Reports
<1>14. CASE Clean
  <2>1. PICK left \in Remains, verdict \in {outcome, "interrupted"} : End(verdict, left)
    BY <1>14 DEF Clean
  <2>2. verdict \in Contract!Reports(effect)
    BY <1>14, <1>t DEF Clean, Report, ReportInv, Contract!Reports
  <2>. QED BY <1>14, <1>t, <2>1, <2>2, EndKept DEF Clean, TypeOK
<1>15. CASE Kill
  <2>1. PICK left \in Remains : End("lost", left)
    BY <1>15 DEF Kill
  <2>. QED BY <1>15, <1>t, <2>1, EndKept DEF Kill, TypeOK, Contract!Reports
<1>. QED
  BY <1>1, <1>2, <1>3, <1>4, <1>5, <1>6, <1>7, <1>8, <1>9, <1>10, <1>11, <1>12, <1>13,
     <1>14, <1>15 DEF Next, Step, Faults

\* The transaction implements the contract its callers are built on: each of its
\* steps is a step of SaveOutcome or leaves it unchanged, so that no result is
\* reported for an effect it does not stand for.
THEOREM ContractKept == Spec => KeepsContract
<1>1. Init => Contract!OutcomeInit
  BY DEF Init, Contract!OutcomeInit
<1>. QED
  BY <1>1, OutcomeInitial, OutcomeStep, ContractStep, PTL
  DEF Spec, KeepsContract, Contract!OutcomeSpec, Kept
================================================================================
