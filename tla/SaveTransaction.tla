---------------------------- MODULE SaveTransaction ----------------------------
(***************************************************************************)
(* SaveRestoreTransaction (Backend/core/save_restore.py): one whole-set    *)
(* restore or one selected replacement of the live save files, while the   *)
(* game may launch, quit and write the same files between any two steps,   *)
(* any call may raise, the worker may get a KeyboardInterrupt (SIGTERM)    *)
(* and the process may be killed.                                          *)
(*                                                                         *)
(* A digest is modelled by the content it is the digest of.  The order in  *)
(* which a loop visits the files is left open.                             *)
(***************************************************************************)
EXTENDS Integers, FiniteSets

CONSTANTS
  Keys,       \* declared save files: the code's (rootId, relativePath)
  Bytes,      \* contents a save file can have
  Absent,     \* the content of a key that has no file
  Requests,   \* the restore and replace_files calls that callers make
  MaxWrites,  \* bound on the writes of the game
  MaxTxns     \* bound on the transactions started

Cells   == Bytes \cup {Absent}
SaveSet == [Keys -> Cells]
NoFiles == [k \in Keys |-> Absent]
Present(files) == {k \in Keys : files[k] # Absent}

\* A call: the files to install, the files it owns (all of them for a restore),
\* whether the current files go to a snapshot first, and for a replacement the
\* digests it expects to find unless the document is version-pinned.
Request == [kind : {"restore", "replace"}, target : SaveSet, owned : SUBSET Keys,
            preserve : BOOLEAN, pinned : BOOLEAN, expected : SaveSet]

WellFormed(r) ==
  /\ r.kind = "restore" => r.owned = Keys /\ Present(r.target) # {}
  /\ r.kind = "replace" => /\ r.owned # {}
                           /\ r.owned \subseteq Present(r.target)
                           /\ r.preserve

ASSUME AbsentAssumption == Absent \notin Bytes
ASSUME RequestsAssumption ==
  Requests # {} /\ Requests \subseteq Request /\ \A r \in Requests : WellFormed(r)
ASSUME BoundsAssumption == MaxWrites \in Nat /\ MaxTxns \in Nat

VARIABLES
  live,       \* the real save files
  running,    \* is the game's process alive
  pc,         \* the stage the transaction is in
  op,         \* its request
  hot,        \* target_running: the process state observed before it began
  todo,       \* files the current loop has still to visit
  base,       \* baseline_hashes
  copy,       \* bytes in the .rollback-* directory
  hasCopy,    \* that directory exists
  preserved,  \* files of the pre-restore/pre-edit snapshot this call created
  mutated,    \* the code's progress set
  outcome,    \* how the last transaction ended
  kept,       \* contents of .rollback-* directories left behind
  \* history, read by the properties only:
  touched,    \* files this transaction really replaced or deleted
  effect,     \* what is proven of them, see SaveOutcome
  owed,       \* baselines of transactions that ended with neither verified
  unseen,     \* files the game wrote since the verification in force began
  lateLaunch, \* the game runs and was launched while files were installed
  writes, txns

code  == <<pc, op, hot, todo, base, copy, hasCopy, preserved, mutated, outcome, kept>>
ghost == <<touched, effect, owed, unseen>>
game  == <<running, lateLaunch, writes>>
vars  == <<live, code, ghost, game, txns>>

BaselineStages == {"recheck", "baseline", "baselineAgain", "restored"}
TargetStages   == {"installed", "validated", "survived"}
VerifyStages   == BaselineStages \cup TargetStages
StoppedStages  == {"captureStopped", "stopped", "stoppedAgain"}
Stages == VerifyStages \cup StoppedStages \cup
          {"idle", "capture", "copy", "captured", "prepare", "probe", "install",
           "delete", "validate", "rollback", "rollbackDelete", "clean"}

Outcomes == {"none", "success", "busy", "failed", "prepInterrupted", "rolledBack",
             "interrupted", "rollbackFailed", "lost"}

\* Before the first call there is no request; any value stands for it.
SomeRequest == CHOOSE r \in Requests : TRUE

Init ==
  /\ live \in SaveSet /\ running \in BOOLEAN
  /\ pc = "idle" /\ op = SomeRequest /\ hot = FALSE /\ todo = {}
  /\ base = NoFiles /\ copy = NoFiles /\ hasCopy = FALSE /\ preserved = NoFiles
  /\ mutated = {} /\ outcome = "none" /\ kept = {}
  /\ touched = {} /\ effect = "none" /\ owed = {} /\ unseen = {} /\ lateLaunch = FALSE
  /\ writes = 0 /\ txns = 0

\* The verifications that decide: the last one of the baseline before mutation,
\* the last one of the target, and the rollback's.
LastBaseline == IF op.kind = "replace" THEN "baselineAgain" ELSE "baseline"
FinalTarget  == IF hot THEN "survived"
                ELSE IF op.kind = "replace" THEN "validated" ELSE "installed"
Decisive     == {LastBaseline, FinalTarget, "restored"}

\* The stages that begin with one and end where its result is used.
Window == Decisive \cup {"install", "delete", "clean"} \cup
          (IF op.kind = "replace" THEN {"stoppedAgain"} ELSE {"stopped"})

--------------------------------------------------------------------------------
(* The game: it shares the files with the transaction and knows nothing of it. *)

Launch ==
  /\ ~running
  /\ running' = TRUE /\ lateLaunch' = (pc = "install")
  /\ UNCHANGED <<live, code, ghost, writes, txns>>

Quit ==
  /\ running
  /\ running' = FALSE /\ lateLaunch' = FALSE
  /\ UNCHANGED <<live, code, ghost, writes, txns>>

GameWrite(k, content) ==
  /\ running /\ writes < MaxWrites /\ content # live[k]
  /\ live' = [live EXCEPT ![k] = content]
  /\ unseen' = IF pc \in Window THEN unseen \cup {k} ELSE unseen
  /\ writes' = writes + 1
  /\ UNCHANGED <<running, lateLaunch, code, touched, effect, owed, txns>>

--------------------------------------------------------------------------------
(* Stages.  A stage with a loop starts with its work in todo. *)

\* What the mutation, its verification and its rollback may touch: lines 266-269.
Owned == op.owned

RollbackFiles == Owned \cap Present(base)

Scope(stage) ==
  CASE stage = "recheck"             -> Keys
    [] stage \in VerifyStages \ {"recheck"} -> Owned
    [] stage = "install"             -> op.owned \cap Present(op.target)
    [] stage = "delete"              -> (Owned \cap Present(base)) \ Present(op.target)
    [] stage = "rollback"            -> RollbackFiles
    [] stage = "rollbackDelete"      -> (Owned \cap Present(op.target)) \ Present(base)
    [] OTHER                         -> {}

\* The stage that follows a stage that went well.
StageAfter(stage) ==
  CASE stage = "copy"           -> "recheck"
    [] stage = "recheck"        -> "captureStopped"
    [] stage = "captureStopped" -> "captured"
    [] stage = "captured"       -> "prepare"
    [] stage = "prepare"        -> "baseline"
    [] stage = "baseline"       -> "stopped"
    [] stage = "stopped"        -> IF op.kind = "replace" THEN "probe" ELSE "install"
    [] stage = "probe"          -> "baselineAgain"
    [] stage = "baselineAgain"  -> "stoppedAgain"
    [] stage = "stoppedAgain"   -> "install"
    [] stage = "install"        -> "delete"
    [] stage = "delete"         -> "installed"
    [] stage = "installed"      -> IF op.kind = "replace" THEN "validate"
                                   ELSE IF hot THEN "survived" ELSE "clean"
    [] stage = "validate"       -> "validated"
    [] stage = "validated"      -> IF hot THEN "survived" ELSE "clean"
    [] stage = "rollback"       -> "rollbackDelete"
    [] stage = "rollbackDelete" -> "restored"
    [] OTHER                    -> "clean"

Enter(stage) ==
  /\ pc' = stage /\ todo' = Scope(stage)
  /\ unseen' = IF stage \in Decisive THEN {} ELSE unseen

\* An exception, or a KeyboardInterrupt, before anything was mutated ends the
\* transaction; afterwards it starts the rollback, which remembers in outcome
\* what to report (lines 329-364).
RaiseWith(verdict, progress) ==
  /\ mutated' = progress
  /\ IF progress = {}
     THEN Enter("clean") /\ outcome' = verdict
     ELSE /\ Enter("rollback")
          /\ outcome' = IF verdict \in {"prepInterrupted", "interrupted"}
                        THEN "interrupted" ELSE "rolledBack"
  /\ UNCHANGED <<op, hot, base, copy, hasCopy, preserved, kept, owed, game, txns>>

Raise(verdict) == RaiseWith(verdict, mutated) /\ UNCHANGED <<live, touched, effect>>

Race == IF hot THEN "busy" ELSE "failed"

\* The .rollback-* directory of a transaction that ends: nothing of it is left,
\* or the part that a failed or interrupted removal did not reach.
Part(files, keys) == [k \in Keys |-> IF k \in keys THEN files[k] ELSE Absent]
Remains == {{}} \cup {{Part(copy, keys)} : keys \in SUBSET Keys}

\* The transaction is over, and left is what it leaves in the recovery directory.
End(verdict, left) ==
  /\ pc' = "idle" /\ todo' = {} /\ outcome' = verdict
  /\ kept' = IF hasCopy THEN kept \cup left ELSE kept
  /\ owed' = IF effect = "unknown" THEN owed \cup {base} ELSE owed
  /\ base' = NoFiles /\ copy' = NoFiles /\ hasCopy' = FALSE
  /\ mutated' = {} /\ touched' = {} /\ unseen' = {}
  /\ UNCHANGED <<live, op, hot, preserved, effect, game, txns>>

--------------------------------------------------------------------------------
(* Capture of the rollback copy: lines 69-109. *)

Begin(r) ==
  /\ pc = "idle" /\ txns < MaxTxns
  /\ op' = r /\ hot' = running
  /\ pc' = "capture" /\ todo' = {} /\ outcome' = "none" /\ preserved' = NoFiles
  /\ effect' = "none" /\ txns' = txns + 1
  /\ UNCHANGED <<live, base, copy, hasCopy, mutated, kept, touched, owed, unseen, game>>

\* The cold target is checked, the busy probe is asked for a hot target or a
\* replacement, and the directory is made for the files that exist now.
StartCapture ==
  /\ pc = "capture"
  /\ \/ /\ hot \/ ~running
        /\ pc' = "copy" /\ todo' = Present(live) /\ hasCopy' = TRUE
        /\ UNCHANGED <<live, op, hot, base, copy, preserved, mutated, outcome, kept,
                       ghost, game, txns>>
     \/ /\ (~hot /\ running) \/ hot \/ op.kind = "replace"
        /\ Raise("busy")

\* The digest of the next file; a file deleted meanwhile raises.
HashBefore(k) ==
  /\ pc = "copy" /\ k \in todo /\ \A j \in todo : base[j] = Absent
  /\ live[k] # Absent
  /\ base' = [base EXCEPT ![k] = live[k]]
  /\ UNCHANGED <<live, pc, op, hot, todo, copy, hasCopy, preserved, mutated, outcome, kept,
                 ghost, game, txns>>

\* Its bytes are copied, and hashed again on both sides.
CopyFile(k) ==
  /\ pc = "copy" /\ k \in todo /\ base[k] # Absent
  /\ IF live[k] = base[k]
     THEN /\ copy' = [copy EXCEPT ![k] = live[k]] /\ todo' = todo \ {k}
          /\ UNCHANGED <<live, pc, op, hot, base, hasCopy, preserved, mutated, outcome, kept,
                         ghost, game, txns>>
     ELSE Raise(Race)

\* The checks between capture and mutation of a replacement: lines 430-444.
CheckRequest ==
  /\ pc = "captured"
  /\ IF /\ op.kind = "replace"
        /\ \E k \in op.owned : base[k] = Absent \/ (~op.pinned /\ op.expected[k] # base[k])
     THEN Raise("failed")
     ELSE /\ Enter(StageAfter("captured"))
          /\ UNCHANGED <<live, op, hot, base, copy, hasCopy, preserved, mutated, outcome, kept,
                         touched, effect, owed, game, txns>>

\* The destinations are captured and the current files go to a snapshot that
\* holds the whole captured set, not only the owned files: lines 265, 277-285.
SnapshotOwnedRows == Part(copy, op.owned)

SnapshotRows == copy

\* The snapshot is taken after the last look at the baseline.
PrepareUnverified ==
  /\ pc = "prepare"
  /\ preserved' = IF op.preserve THEN SnapshotRows ELSE NoFiles
  /\ Enter("stopped")
  /\ UNCHANGED <<live, op, hot, base, copy, hasCopy, mutated, outcome, kept, touched, effect,
                 owed, game, txns>>

Prepare ==
  /\ pc = "prepare"
  /\ preserved' = IF op.preserve THEN SnapshotRows ELSE NoFiles
  /\ Enter(StageAfter("prepare"))
  /\ UNCHANGED <<live, op, hot, base, copy, hasCopy, mutated, outcome, kept, touched, effect, owed, game, txns>>

--------------------------------------------------------------------------------
(* Verification (lines 94-99, 117-124), the stopped checks and the busy probe. *)

Expected(stage) == IF stage \in BaselineStages THEN base ELSE op.target

\* A file that does not match: a race before mutation, a failure after it.
MismatchTolerated == IF pc = "restored" THEN End("rolledBack", {}) ELSE Raise(Race)

Mismatch == IF pc = "restored" THEN End("rollbackFailed", {copy}) ELSE Raise(Race)

VerifyFile(k) ==
  /\ pc \in VerifyStages /\ k \in todo
  /\ IF live[k] = Expected(pc)[k]
     THEN /\ todo' = todo \ {k}
          /\ UNCHANGED <<live, pc, op, hot, base, copy, hasCopy, preserved, mutated, outcome,
                         kept, ghost, game, txns>>
     ELSE Mismatch

\* The loop is over.  Success is decided where the last target verification
\* passes, a completed rollback where the baseline does.
StageDone ==
  /\ pc \in VerifyStages \cup {"copy", "install", "delete", "rollback", "rollbackDelete"}
  /\ todo = {}
  /\ Enter(StageAfter(pc))
  /\ outcome' = IF pc \in TargetStages /\ StageAfter(pc) = "clean" THEN "success" ELSE outcome
  /\ effect' = IF StageAfter(pc) # "clean" THEN effect
               ELSE IF pc = "restored" THEN "none" ELSE "applied"
  /\ UNCHANGED <<live, op, hot, base, copy, hasCopy, preserved, mutated, kept, touched, owed,
                 game, txns>>

EnsureStopped ==
  /\ pc \in StoppedStages
  /\ IF ~hot /\ running
     THEN Raise("busy")
     ELSE /\ Enter(StageAfter(pc))
          /\ UNCHANGED <<live, op, hot, base, copy, hasCopy, preserved, mutated, outcome, kept,
                         touched, effect, owed, game, txns>>

BusyProbe ==
  /\ pc = "probe"
  /\ \/ Raise("busy")
     \/ /\ Enter(StageAfter("probe"))
        /\ UNCHANGED <<live, op, hot, base, copy, hasCopy, preserved, mutated, outcome, kept,
                       touched, effect, owed, game, txns>>

\* post_install_verify: the codec reads the installed document back.
Validate ==
  /\ pc = "validate"
  /\ IF \A k \in op.owned : live[k] = op.target[k]
     THEN /\ Enter(StageAfter("validate"))
          /\ UNCHANGED <<live, op, hot, base, copy, hasCopy, preserved, mutated, outcome, kept,
                         touched, effect, owed, game, txns>>
     ELSE Raise("failed")

--------------------------------------------------------------------------------
(* Mutation and rollback: lines 145-175, 212-235, 339-349. *)

Store(k, content) ==
  /\ live' = [live EXCEPT ![k] = content]
  /\ touched' = touched \cup {k} /\ effect' = "unknown"

\* What install and delete put at a file, and what the rollback does.
Content(stage, k) ==
  CASE stage = "install"  -> op.target[k]
    [] stage = "rollback" -> copy[k]
    [] OTHER              -> Absent

\* The progress set a failed step leaves: the file was added to it before the
\* replace, and only an OSError of the replace itself takes it out again.
ProgressForgets(k) == mutated

Progress(k) == mutated \cup {k}

\* os.replace or os.unlink, then fsync of the directory.
Mutate(k) ==
  /\ pc \in {"install", "delete"} /\ k \in todo
  /\ IF pc = "delete" /\ live[k] = Absent
     THEN UNCHANGED <<live, mutated, touched, effect>>
     ELSE Store(k, Content(pc, k)) /\ mutated' = Progress(k)
  /\ todo' = todo \ {k}
  /\ UNCHANGED <<pc, op, hot, base, copy, hasCopy, preserved, outcome, kept, owed,
                 unseen, game, txns>>

\* The file was replaced and then fsync raised, or the interrupt came.
MutateThenFault(k, verdict) ==
  /\ pc \in {"install", "delete"} /\ k \in todo
  /\ verdict \in {"failed", "prepInterrupted"}
  /\ pc = "delete" => live[k] # Absent
  /\ Store(k, Content(pc, k))
  /\ RaiseWith(verdict, Progress(k))

\* The interrupt came between progress.add and os.replace.
MarkThenInterrupt(k) ==
  /\ pc \in {"install", "delete"} /\ k \in todo
  /\ RaiseWith("prepInterrupted", mutated \cup {k})
  /\ UNCHANGED <<live, touched, effect>>

Rollback(k) ==
  /\ pc \in {"rollback", "rollbackDelete"} /\ k \in todo
  /\ Store(k, Content(pc, k))
  /\ todo' = todo \ {k}
  /\ UNCHANGED <<pc, op, hot, base, copy, hasCopy, preserved, mutated, outcome, kept,
                 owed, unseen, game, txns>>

--------------------------------------------------------------------------------
(* Exceptions, interruption, cleanup and the death of the process. *)

RollbackStages == {"rollback", "rollbackDelete", "restored"}
Raisable == Stages \ (RollbackStages \cup {"idle", "clean"})

\* Any call may raise: OSError, a resolver error, an unsafe path.
Error ==
  /\ pc \in Raisable
  /\ pc = "captured" => op.kind = "replace"
  /\ Raise("failed")

\* Before the capture's try, and between the capture and the apply's try, a
\* KeyboardInterrupt is not turned into SaveRestorePreparationInterrupted.
Interrupt ==
  /\ pc \in Raisable
  /\ Raise(IF pc \in {"capture", "captured"} THEN "interrupted" ELSE "prepInterrupted")

\* cleanup_rollback left true.
RollbackFaultCleans(verdict) ==
  /\ pc \in RollbackStages
  /\ verdict \in {"rollbackFailed", "interrupted"}
  /\ End(verdict, {})

\* The rollback itself fails or is interrupted: the copy stays (lines 350-358).
RollbackFault(verdict) ==
  /\ pc \in RollbackStages
  /\ verdict \in {"rollbackFailed", "interrupted"}
  /\ End(verdict, {copy})

\* remove_owned_save_tree: it may fail part way, and be interrupted.
Clean ==
  /\ pc = "clean"
  /\ \E left \in Remains, verdict \in {outcome, "interrupted"} : End(verdict, left)

\* SIGKILL or power loss.
Kill ==
  /\ pc # "idle"
  /\ \E left \in Remains :
       /\ pc # "clean" => left = {copy}
       /\ End("lost", left)

--------------------------------------------------------------------------------
Game == Launch \/ Quit \/ \E k \in Keys, content \in Cells : GameWrite(k, content)

Step ==
  \/ \E r \in Requests : Begin(r)
  \/ StartCapture \/ CheckRequest \/ Prepare
  \/ \E k \in Keys : HashBefore(k) \/ CopyFile(k) \/ VerifyFile(k) \/ Mutate(k) \/ Rollback(k)
  \/ StageDone \/ EnsureStopped \/ BusyProbe \/ Validate \/ Clean

Faults ==
  \/ Error \/ Interrupt \/ Kill
  \/ \E verdict \in Outcomes : RollbackFault(verdict)
  \/ \E k \in Keys : \/ MarkThenInterrupt(k)
                     \/ \E verdict \in Outcomes : MutateThenFault(k, verdict)

Next == Game \/ Step \/ Faults

Spec == Init /\ [][Next]_vars

--------------------------------------------------------------------------------
(* Properties *)

\* Every variable stays in the set the code keeps it in.
TypeOK ==
  /\ live \in SaveSet /\ running \in BOOLEAN
  /\ pc \in Stages /\ op \in Requests /\ hot \in BOOLEAN /\ todo \subseteq Keys
  /\ base \in SaveSet /\ copy \in SaveSet /\ hasCopy \in BOOLEAN
  /\ preserved \in SaveSet /\ mutated \subseteq Keys /\ outcome \in Outcomes
  /\ kept \subseteq SaveSet
  /\ touched \subseteq Keys /\ effect \in {"none", "unknown", "applied"} /\ owed \subseteq SaveSet
  /\ unseen \subseteq Keys /\ lateLaunch \in BOOLEAN
  /\ writes \in Nat /\ txns \in Nat

\* The last recoverable copy is never destroyed: a transaction that mutated and
\* ended with neither its target nor its baseline verified (a failed or an
\* interrupted rollback, a killed worker) left a directory with every file of
\* its baseline (ENGINEERING_INVARIANTS.md, Core Save, Restore).
LastCopyKept == owed \subseteq kept

\* What a finished transaction reports is true of the files it owns: refusals
\* and failures before mutation touched nothing, a success had every file at its
\* target and a rollback every file at its baseline when last verified, so that a
\* difference is a write the game made during or after that verification.
OutcomeTrue ==
  pc = "clean" =>
    /\ outcome \in {"busy", "failed", "prepInterrupted"} => touched = {}
    /\ outcome = "success" =>
         \A k \in op.owned : live[k] = op.target[k] \/ k \in unseen
    /\ outcome = "rolledBack" =>
         \A k \in op.owned : live[k] = base[k] \/ k \in unseen

\* A file that the transaction is about to overwrite for the first time holds
\* the captured baseline, or what the game wrote after the last baseline
\* verification began: a write made while the copy, the snapshot or the busy
\* probe took their time is never overwritten.
OverwriteKnown ==
  pc \in {"install", "delete"} =>
    \A k \in op.owned \ touched : live[k] = base[k] \/ k \in unseen

\* A cold transaction that begins to mutate while the game runs can only have
\* missed a launch that came after its last check of the process.
ColdStart ==
  pc = "install" /\ ~hot /\ touched = {} /\ running => lateLaunch

\* A transaction changes no file that it does not own, in its rollback either:
\* what the game wrote to other declared files survives.
OnlyOwned ==
  [][\A k \in Keys \ op.owned : live'[k] = live[k] \/ writes' = writes + 1]_vars

\* A successful replacement left a snapshot of every file that existed before
\* it, the ones it does not own too.
PreWriteKept ==
  pc = "clean" /\ outcome = "success" /\ op.preserve => preserved = base

\* The transaction keeps the contract that its callers rely on.
Contract == INSTANCE SaveOutcome
  WITH active <- pc # "idle", result <- IF pc = "idle" THEN outcome ELSE "none"

KeepsContract == Contract!OutcomeSpec
================================================================================
