----------------------------- MODULE SnapshotStore -----------------------------
(***************************************************************************)
(* The snapshots of Core Save: how SaveSnapshotStore.create_snapshot       *)
(* copies a save that the game may be writing, what rename, protect and    *)
(* delete do to the manifests, and which copies SaveBackupRetention may    *)
(* remove after an edit (Backend/core/save_snapshots.py,                   *)
(* save_retention.py, and their callers in save_service.py).               *)
(*                                                                         *)
(* One worker serves one request at a time, and may die at every step.     *)
(* The transaction of an edit or a restore is SaveTransaction's, and the   *)
(* staged restore is StagedRestore's: here they are their ends.  A         *)
(* snapshot becomes visible by one rename, so what a dead worker leaves    *)
(* in a staging directory is never a snapshot, and is left out.            *)
(***************************************************************************)
EXTENDS Integers, FiniteSets, Sequences, Folds, Functions

CONSTANTS
  Files,         \* save files, by root and relative path
  HotBackup,     \* hotBackup of the module
  Attempts,      \* of a copy under a running game; 4 in the code
  Policies,      \* budgets the user may set: [maxCount, maxBytes]
  MaxSnapshots,  \* bound on the snapshots created
  MaxBackups,    \* bound on the snapshots before a manual one, whose copying reads no other
  MaxStates      \* bound on the states of the live save during one request

ASSUME PolicyAssumption == \A p \in Policies : p.maxCount \in Nat \ {0} /\ p.maxBytes \in Nat \ {0}
ASSUME BoundsAssumption ==
  /\ HotBackup \in BOOLEAN /\ Attempts \in Nat \ {0}
  /\ MaxBackups \in 0 .. MaxSnapshots
  /\ MaxSnapshots \in Nat \ {0} /\ MaxStates \in Nat \ {0}

Ids   == 1 .. MaxSnapshots     \* by createdAtNs
NoId  == 0
NoSave == [f \in {} |-> 0]

VARIABLES
  trail,     \* the states of the live save since the request began, the present one
             \* last; empty when there is no request
  snapshots, \* the snap-* directories: what the manifest says, the size, and whether
             \* the files still match the manifest
  used,      \* ids given out
  policy,    \* automatic-backup-policy.json
  pending,   \* the snapshot a staged restore needs
  unsure,    \* an applying marker is there: the outcome of a staged restore is unknown
  recovery,  \* a .rollback-* directory is there
  pc, job,   \* where the worker is, and on what
  \* history:
  applied,   \* snapshots whose edit was applied and verified
  cherished  \* snapshots the user made, named or asked to keep

disk == <<pending, unsure, recovery, policy>>
vars == <<trail, disk, snapshots, used, pc, job, applied, cherished>>

Live == trail[Len(trail)]

Put(fn, x, y) == [i \in DOMAIN fn \cup {x} |-> IF i = x THEN y ELSE fn[i]]

NoJob == [origin |-> "manual", retries |-> 0, todo |-> {}, before |-> 0,
          copied |-> NoSave, id |-> NoId, keep |-> {}, hold |-> FALSE, rows |-> {}, left |-> {}]

\* The manifest can be read and says what a manifest may say, and the files
\* that are there are the ones it lists, with their digests.
Valid(id) == id \in DOMAIN snapshots /\ snapshots[id].valid

\* A snapshot of an older version has no origin, and is read as protected.
Legacy == [origin |-> "unclassified", protected |-> TRUE, retentionEligible |-> FALSE,
           size |-> Cardinality(Files), valid |-> TRUE]

\* What the list of the snapshots says of one: the manifest is believed only
\* when everything has been verified.
Row(id) ==
  IF Valid(id) THEN snapshots[id]
  ELSE [snapshots[id] EXCEPT !.origin = "unclassified", !.protected = TRUE, !.retentionEligible = FALSE]
Inventory == [id \in DOMAIN snapshots |-> Row(id)]

\* What deletion does to a directory: it is gone, or, when that fails half
\* way, no longer what its manifest says.
Deleted(id) == [i \in DOMAIN snapshots \ {id} |-> snapshots[i]]
Damaged(id) == [snapshots EXCEPT ![id].valid = FALSE]

\* _update_metadata: verify, change, replace the manifest at once.
Update(id, manifest) == Valid(id) /\ snapshots' = [snapshots EXCEPT ![id] = manifest]

Init ==
  /\ trail = <<>>
  /\ \/ snapshots = [id \in {} |-> Legacy] /\ used = 0 /\ cherished = {}
     \/ snapshots = [id \in {1} |-> Legacy] /\ used = 1 /\ cherished = {1}
  /\ policy \in [budget : Policies, valid : {TRUE}]
  /\ pending = NoId /\ unsure = FALSE /\ recovery = FALSE
  /\ pc = "idle" /\ job = NoJob /\ applied = {}

-----------------------------------------------------------------------------
\* The game, and what else happens to the disk.

\* What the game saves has never been there before: it holds the time played.
\* Contents are numbered afresh by each request, and only a copy looks at them:
\* what the game does to a transaction is SaveTransaction's.
Afresh(files) == [f \in files |-> 1]
Becomes(save) == Len(trail) < MaxStates /\ trail' = Append(trail, save)
Rewritten(save, f) == Put(save, f, Len(trail) + 1)
Removed(save, f)   == [g \in DOMAIN save \ {f} |-> save[g]]

GameWrites ==
  /\ pc \in {"resolving", "copying", "verifying"}
  /\ \E f \in Files : \/ Becomes(Rewritten(Live, f))
                      \/ f \in DOMAIN Live /\ Becomes(Removed(Live, f))
  /\ UNCHANGED <<pending, unsure, recovery, policy, snapshots, used, pc, job,
                 applied, cherished>>

\* Damage to the disk.  A sweep does not look at what it has listed again.
Harm ==
  /\ pc # "sweeping"
  /\ \/ \E id \in DOMAIN snapshots :
          /\ snapshots' = Damaged(id)
          /\ cherished' = cherished \ {id} /\ UNCHANGED policy
     \/ policy' = [policy EXCEPT !.valid = FALSE] /\ UNCHANGED <<snapshots, cherished>>
  /\ UNCHANGED <<trail, pending, unsure, recovery, used, pc, job, applied>>

\* The user looks at the recovery directory and removes it.
RecoveryResolved ==
  /\ recovery /\ recovery' = FALSE
  /\ UNCHANGED <<trail, pending, unsure, policy, snapshots, used, pc, job,
                 applied, cherished>>

-----------------------------------------------------------------------------
\* create_snapshot

\* The worker has answered.
Done == pc' = "idle" /\ job' = NoJob /\ trail' = <<>>
Go(stage, next) == pc' = stage /\ job' = next /\ UNCHANGED trail

\* The game runs, or does not (and may be launched at once): a copy under a
\* running game has more than one attempt, where the module allows it at all.
Backup ==
  /\ pc = "idle" /\ used < MaxBackups
  /\ \E files \in SUBSET Files : trail' = <<Afresh(files)>>
  /\ \E hot \in {HotBackup, FALSE} :
       job' = [NoJob EXCEPT !.retries = IF hot THEN Attempts - 1 ELSE 0]
  /\ pc' = "resolving"
  /\ UNCHANGED <<disk, snapshots, used, applied, cherished>>

\* _SaveSnapshotRace: the staging directory is removed; a hot copy is tried
\* again.
Race ==
  IF job.retries > 0
  THEN Go("resolving", [job EXCEPT !.retries = @ - 1, !.todo = {}, !.before = 0, !.copied = NoSave])
  ELSE Done

Resolve ==
  /\ pc = "resolving"
  /\ IF DOMAIN Live = {} THEN Done
     ELSE Go("copying", [job EXCEPT !.todo = DOMAIN Live])
  /\ UNCHANGED <<disk, snapshots, used, applied, cherished>>

\* The rows are sorted; which order that is makes no difference.
First(files) == CHOOSE f \in files : TRUE

\* The digest before a file is copied; a file that is gone ends the request.
HashBefore ==
  /\ pc = "copying" /\ job.before = 0
  /\ LET f == First(job.todo) IN
     IF f \in DOMAIN Live THEN Go("copying", [job EXCEPT !.before = Live[f]]) ELSE Done
  /\ UNCHANGED <<disk, snapshots, used, applied, cherished>>

\* The copy, and the digests of the copy and of the file after it.
CopyFile ==
  /\ pc = "copying" /\ job.before # 0
  /\ LET f == First(job.todo) IN
     CASE f \notin DOMAIN Live      -> Done
       [] f \in DOMAIN Live /\ Live[f] # job.before -> Race
       [] f \in DOMAIN Live /\ Live[f] = job.before ->
            Go(IF job.todo = {f} THEN "verifying" ELSE "copying",
               [job EXCEPT !.before = 0, !.todo = @ \ {f}, !.copied = Put(@, f, Live[f])])
  /\ UNCHANGED <<disk, snapshots, used, applied, cherished>>

\* A mutant: the copies are published without another look at the save.
VerifyNothing ==
  /\ pc = "verifying" /\ Go("publishing", job)
  /\ UNCHANGED <<disk, snapshots, used, applied, cherished>>

\* The save is resolved again (todo is empty: not yet), and one that has gone
\* altogether ends the request; then each file is read once more.
VerifyCopy ==
  /\ pc = "verifying"
  /\ IF job.todo = {}
     THEN CASE DOMAIN Live = {} -> Done
            [] DOMAIN Live \notin {{}, DOMAIN job.copied} -> Race
            [] DOMAIN Live # {} /\ DOMAIN Live = DOMAIN job.copied ->
                 Go("verifying", [job EXCEPT !.todo = DOMAIN Live])
     ELSE LET f == First(job.todo) IN
          CASE f \notin DOMAIN Live -> Done
            [] f \in DOMAIN Live /\ Live[f] # job.copied[f] -> Race
            [] f \in DOMAIN Live /\ Live[f] = job.copied[f] ->
                 Go(IF job.todo = {f} THEN "publishing" ELSE "verifying", [job EXCEPT !.todo = @ \ {f}])
  /\ UNCHANGED <<disk, snapshots, used, applied, cherished>>

\* The manifest is written and the staging directory gets the snapshot's name.
\* A name given by the user protects a copy; only a manual backup takes one.
Manifest(origin, named, size) ==
  [origin |-> origin, protected |-> origin # "automaticPreEdit" \/ named, retentionEligible |-> FALSE,
   size |-> size, valid |-> TRUE]

MayBeNamed(origin) == IF origin = "manual" THEN BOOLEAN ELSE {FALSE}

Publish ==
  /\ pc = "publishing"
  /\ \/ /\ used < MaxSnapshots /\ used' = used + 1
        /\ \E named \in MayBeNamed(job.origin) :
             snapshots' = Put(snapshots, used', Manifest(job.origin, named, Cardinality(DOMAIN job.copied)))
        /\ cherished' = IF job.origin = "automaticPreEdit" THEN cherished ELSE cherished \cup {used'}
        /\ IF job.origin = "manual" THEN Done
           ELSE Go("applying", [job EXCEPT !.id = used'])
     \/ Done /\ UNCHANGED <<snapshots, used, cherished>>
  /\ UNCHANGED <<disk, applied>>

-----------------------------------------------------------------------------
\* replace_files and restore.  The snapshot is made of the private copies of
\* the save that the transaction has captured, which nothing changes.

BeginEdit ==
  /\ pc = "idle" /\ used < MaxSnapshots
  /\ \E origin \in {"automaticPreEdit", "preRestore"}, files \in (SUBSET Files) \ {{}} :
       /\ trail' = <<Afresh(files)>>
       /\ job' = [NoJob EXCEPT !.origin = origin, !.copied = Afresh(files)]
  /\ pc' = "publishing"
  /\ UNCHANGED <<disk, snapshots, used, applied, cherished>>

\* The transaction has removed its rollback directory when it returns, unless
\* that fails.
ApplyEdit ==
  /\ pc = "applying"
  /\ recovery' \in {recovery, TRUE}
  /\ IF job.origin = "automaticPreEdit"
     THEN Go("checkpoint", job) /\ applied' = applied \cup {job.id}
     ELSE Done /\ UNCHANGED applied
  /\ UNCHANGED <<pending, unsure, policy, snapshots, used, cherished>>

\* It fails, with the save as it was or with a rollback that failed too.
EditFails ==
  /\ pc = "applying" /\ Done /\ recovery' \in {recovery, TRUE}
  /\ UNCHANGED <<pending, unsure, policy, snapshots, used, applied, cherished>>

\* pending_restore: a marker whose snapshot cannot be verified is put aside.
Pending == IF unsure \/ pending = NoId \/ Valid(pending) THEN pending ELSE NoId

\* What the checkpoint after a verified edit looks at first.
Checkpoint ==
  /\ pc = "checkpoint" /\ pending' = Pending
  /\ Go("confirming", [job EXCEPT !.keep = {Pending, job.id} \ {NoId}, !.hold = recovery \/ unsure])
  /\ UNCHANGED <<unsure, recovery, policy, snapshots, used, applied, cherished>>

-----------------------------------------------------------------------------
\* after_successful_edit

Eligible == {id \in DOMAIN Inventory :
               /\ Inventory[id].valid /\ Inventory[id].origin = "automaticPreEdit"
               /\ Inventory[id].retentionEligible /\ ~Inventory[id].protected}

\* A failure of the marker's or the checkpoint's file operations.
CleanupFails ==
  /\ pc \in {"checkpoint", "confirming", "sweeping"} /\ Done
  /\ UNCHANGED <<disk, snapshots, used, applied, cherished>>

\* A policy that cannot be read authorizes no deletion, not even the default
\* one; a missing file is the default policy, and valid.
Authorized == policy.valid /\ ~job.hold

\* Until the edit is confirmed its copy is not eligible.
Confirmed(manifest) == [manifest EXCEPT !.retentionEligible = TRUE]

\* confirm_pre_edit, and what keeps the sweep from beginning: the policy, an
\* open recovery, a size that is not known.
Confirm ==
  /\ pc = "confirming"
  /\ IF ~Valid(job.id) THEN Done /\ UNCHANGED snapshots
     ELSE /\ Update(job.id, Confirmed(snapshots[job.id]))
          /\ \/ /\ Authorized
                /\ Go("sweeping", [job EXCEPT !.rows = Eligible', !.left = Eligible'])
             \/ Done
  /\ UNCHANGED <<disk, used, applied, cherished>>

Bytes(ids) == SumFunctionOnSet([id \in ids |-> snapshots[id].size], ids)
\* The retention budget of the policy, in snapshots and in bytes.
WithinBudget(ids) ==
  Cardinality(ids) <= policy.budget.maxCount /\ Bytes(ids) <= policy.budget.maxBytes

\* A mutant: the inputs of a staged restore and the new copy are not pinned.
SparedLast(id) == Cardinality(job.rows) <= 1

\* The oldest row that is left: kept, or removed from the disk.
Spared(id) == id \in job.keep \/ Cardinality(job.rows) <= 1
Oldest == CHOOSE id \in job.left : \A other \in job.left : id <= other

Sweep ==
  /\ pc = "sweeping" /\ job.left # {} /\ ~WithinBudget(job.rows)
  /\ Go("sweeping", [job EXCEPT !.left = @ \ {Oldest}, !.rows = IF Spared(Oldest) THEN @ ELSE @ \ {Oldest}])
  /\ snapshots' = IF Spared(Oldest) THEN snapshots ELSE Deleted(Oldest)
  /\ UNCHANGED <<disk, used, applied, cherished>>

EndSweep ==
  /\ pc = "sweeping" /\ (job.left = {} \/ WithinBudget(job.rows)) /\ Done
  /\ UNCHANGED <<disk, snapshots, used, applied, cherished>>

\* shutil.rmtree stops half way.
RemovalFails ==
  /\ pc = "sweeping" /\ job.left # {} /\ ~WithinBudget(job.rows) /\ ~Spared(Oldest)
  /\ snapshots' = Damaged(Oldest) /\ Done
  /\ UNCHANGED <<disk, used, applied, cherished>>

-----------------------------------------------------------------------------
\* The other requests.  Each reads, changes and replaces one manifest.

\* A mutant: the user's name does not protect the copy.
RenameOnly ==
  /\ pc = "idle" /\ \E id \in DOMAIN snapshots : Valid(id) /\ cherished' = cherished \cup {id}
  /\ UNCHANGED <<trail, disk, snapshots, used, pc, job, applied>>

Rename ==
  /\ pc = "idle"
  /\ \E id \in DOMAIN snapshots :
       /\ Update(id, [snapshots[id] EXCEPT !.protected = TRUE])
       /\ cherished' = cherished \cup {id}
  /\ UNCHANGED <<trail, disk, used, pc, job, applied>>

Protect ==
  /\ pc = "idle"
  /\ \E id \in DOMAIN snapshots, keep \in BOOLEAN :
       /\ Valid(id) /\ snapshots[id].origin = "automaticPreEdit"
       /\ Update(id, [snapshots[id] EXCEPT !.protected = keep])
       /\ cherished' = IF keep THEN cherished \cup {id} ELSE cherished \ {id}
  /\ UNCHANGED <<trail, disk, used, pc, job, applied>>

\* Only what the list shows can be deleted, valid or not.
Listed(id) == id \in DOMAIN Inventory

Delete ==
  /\ pc = "idle" /\ ~unsure /\ pending' = Pending
  /\ \E id \in Ids :
       /\ id # Pending /\ Listed(id)
       /\ snapshots' \in {Deleted(id), Damaged(id)}
       /\ cherished' = cherished \ {id}
  /\ UNCHANGED <<trail, unsure, recovery, policy, used, pc, job, applied>>

ConfigureRetention ==
  /\ pc = "idle" /\ \E b \in Policies : policy' = [budget |-> b, valid |-> TRUE]
  /\ UNCHANGED <<trail, pending, unsure, recovery, snapshots, used, pc, job, applied, cherished>>

\* The marker of a staged restore is written, is claimed by an attempt whose
\* outcome stays unknown, or is gone again.
StageRestore ==
  /\ pc = "idle" /\ ~unsure
  /\ \E id \in DOMAIN snapshots : Valid(id) /\ pending' = id
  /\ UNCHANGED <<trail, unsure, recovery, policy, snapshots, used, pc, job,
                 applied, cherished>>

ApplyStaged ==
  /\ pc = "idle" /\ pending # NoId /\ ~unsure
  /\ \/ unsure' = TRUE /\ UNCHANGED pending
     \/ pending' = NoId /\ UNCHANGED unsure
  /\ UNCHANGED <<trail, recovery, policy, snapshots, used, pc, job, applied, cherished>>

CancelStaged ==
  /\ pc = "idle" /\ (unsure \/ pending # NoId) /\ pending' = NoId /\ unsure' = FALSE
  /\ UNCHANGED <<trail, recovery, policy, snapshots, used, pc, job, applied, cherished>>

\* The worker dies and another takes over; a transaction leaves its rollback
\* directory, and a removal may be half done.
Crash ==
  /\ pc # "idle" /\ Done
  /\ recovery' = (recovery \/ pc = "applying")
  /\ snapshots' \in {snapshots} \cup
       {Damaged(id) :
          id \in IF pc = "sweeping" /\ ~WithinBudget(job.rows)
                 THEN {i \in job.left : i = Oldest /\ ~Spared(i)} ELSE {}}
  /\ UNCHANGED <<pending, unsure, policy, used, applied, cherished>>

Create    == Backup \/ Resolve \/ HashBefore \/ CopyFile \/ VerifyCopy \/ Publish
Edit      == BeginEdit \/ ApplyEdit \/ EditFails \/ Checkpoint
Retention == Confirm \/ Sweep \/ EndSweep \/ RemovalFails \/ CleanupFails
Manage    == Rename \/ Protect \/ Delete \/ ConfigureRetention \/ StageRestore \/ ApplyStaged \/ CancelStaged
Next == Create \/ Edit \/ Retention \/ Manage \/ Crash
        \/ GameWrites \/ Harm \/ RecoveryResolved
Spec == Init /\ [][Next]_vars

-----------------------------------------------------------------------------
\* A snapshot holds the save as it was at one instant of its creation, however
\* the game wrote its files meanwhile: no mixture of two of its states.
Consistent ==
  [][\A id \in DOMAIN snapshots' \ DOMAIN snapshots :
       \E n \in DOMAIN trail : job.copied = trail[n]]_vars

\* Retention removes a copy only if it was made for an edit that was verified,
\* the user has not asked to keep it, no staged restore needs it, no outcome is
\* open, the policy is known, the budget is exceeded, no older copy could go
\* instead, and the copy of the edit just made remains.
EvictionSound ==
  [][\A id \in DOMAIN snapshots \ DOMAIN snapshots' :
       pc = "sweeping" =>
         /\ snapshots[id].origin = "automaticPreEdit" /\ id \in applied /\ id \notin cherished
         /\ id # pending /\ ~unsure /\ policy.valid
         /\ ~(Cardinality(Eligible) <= policy.budget.maxCount /\ Bytes(Eligible) <= policy.budget.maxBytes)
         /\ \A older \in Eligible : older < id => older \in {pending, job.id}
         /\ job.id \in applied /\ job.id # id /\ job.id \in DOMAIN snapshots]_vars

\* What the user made, named or asked to keep is there, and protected, until
\* the user deletes it or something else destroys it.
CherishedKept == \A id \in cherished : Valid(id) /\ snapshots[id].protected

=============================================================================
