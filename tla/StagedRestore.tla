----------------------------- MODULE StagedRestore -----------------------------
(***************************************************************************)
(* The durable side of CoreSaveService (Backend/core/save_service.py): a   *)
(* restore that cannot run now is staged in a marker file, and a later     *)
(* apply_staged claims the marker by a rename before it starts the         *)
(* transaction.  Transactions are those of SaveOutcome.                    *)
(*                                                                         *)
(* A worker serves one request at a time.  When the host dies, its worker  *)
(* still completes the request it is serving, and the worker of the next   *)
(* host may already be at work: the lease of the host is closed on exec    *)
(* and dies with it.  With one worker in Workers this cannot happen.       *)
(***************************************************************************)
EXTENDS Integers, FiniteSets

CONSTANTS
  Workers,     \* backend processes
  NoWorker,    \* the host has none
  Snapshots,   \* snapshot ids
  NoSnapshot,
  Policy,      \* restorePolicy of the module: "stoppedOnly" or "hotPreferred"
  Stageable,   \* stagedRestore of the module
  MaxIntents   \* bound on the restores staged

ASSUME NamesAssumption == NoWorker \notin Workers /\ NoSnapshot \notin Snapshots
ASSUME PolicyAssumption == Policy \in {"stoppedOnly", "hotPreferred"} /\ Stageable \in BOOLEAN
ASSUME BoundAssumption == MaxIntents \in Nat

\* A staged restore: staged-restore.json.  Its number is its order of staging.
Intents  == 1 .. MaxIntents
NoMarker == [intent |-> 0, snapshot |-> NoSnapshot]

\* What a worker works on: the marker it read, or a restore that was not staged.
NoJob == [intent |-> 0, snapshot |-> NoSnapshot, hot |-> FALSE]

VARIABLES
  store,      \* the snapshot directories
  pending,    \* staged-restore.json
  claims,     \* the .staged-restore-applying-* files
  evidence,   \* a .rollback-* directory was left behind
  running,    \* is the game's process alive
  host,       \* the worker of the live host
  pc, job, keep, txn,  \* of each worker: where it is, on what, and its transaction
  \* history:
  intents,    \* restores staged so far
  effects,    \* of the last attempt at each of them, see SaveOutcome
  settled,    \* intents that were acknowledged or cancelled
  harmed      \* snapshots damaged or removed by something else

disk    == <<store, pending, claims, evidence>>
workers == <<host, pc, job, keep, txn>>
history == <<intents, effects, settled, harmed>>
vars    == <<disk, workers, running, history>>

Txn(w) == INSTANCE SaveOutcome
  WITH active <- txn[w].active, effect <- txn[w].effect, result <- txn[w].result

TxnState == [active : BOOLEAN, effect : {"none", "unknown", "applied"},
             result : {"none", "success", "busy", "failed", "prepInterrupted", "rolledBack",
                       "interrupted", "rollbackFailed", "lost"}]
NoTxn    == [active |-> FALSE, effect |-> "none", result |-> "none"]

\* "kept": manual, pre-restore or not confirmed; "auto": open to retention.
Valid(s) == store[s] \in {"kept", "auto"}

Init ==
  /\ store \in [Snapshots -> {"unused", "kept"}]
  /\ pending = NoMarker /\ claims = {} /\ evidence = FALSE
  /\ running \in BOOLEAN /\ host = NoWorker
  /\ pc = [w \in Workers |-> "off"] /\ job = [w \in Workers |-> NoJob]
  /\ keep = [w \in Workers |-> {}] /\ txn = [w \in Workers |-> NoTxn]
  /\ intents = 0 /\ effects = [i \in Intents |-> "none"] /\ settled = {} /\ harmed = {}

--------------------------------------------------------------------------------
(* Workers. *)

Goes(w, stage, on) ==
  /\ pc' = [pc EXCEPT ![w] = stage] /\ job' = [job EXCEPT ![w] = on]

\* The request is answered; an orphaned worker then reads end of file and exits.
Finish(w) ==
  /\ Goes(w, IF w = host THEN "idle" ELSE "off", NoJob)
  /\ txn' = [txn EXCEPT ![w] = NoTxn] /\ keep' = [keep EXCEPT ![w] = {}]
  /\ UNCHANGED host

\* A KeyboardInterrupt unwinds the worker's main loop.
Exit(w) ==
  /\ Goes(w, "off", NoJob)
  /\ txn' = [txn EXCEPT ![w] = NoTxn] /\ keep' = [keep EXCEPT ![w] = {}]
  /\ host' = IF w = host THEN NoWorker ELSE host

StartWorker(w) ==
  /\ host = NoWorker /\ pc[w] = "off"
  /\ host' = w /\ Goes(w, "idle", NoJob)
  /\ UNCHANGED <<disk, running, keep, txn, history>>

HostDies ==
  /\ host # NoWorker
  /\ host' = NoWorker
  /\ pc' = [pc EXCEPT ![host] = IF @ = "idle" THEN "off" ELSE @]
  /\ UNCHANGED <<disk, running, job, keep, txn, history>>

\* The kill of a worker, at any point.  A transaction that has mutated left its copy.
KillWorker(w) ==
  /\ pc[w] # "off"
  /\ Exit(w)
  /\ evidence' \in IF txn[w].active THEN {evidence \/ txn[w].effect = "unknown", TRUE}
                   ELSE {evidence}
  /\ UNCHANGED <<store, pending, claims, running, history>>

ToggleGame == running' = ~running /\ UNCHANGED <<disk, workers, history>>

\* A disk fault, or the user, damages or removes a snapshot.
Harm(s) ==
  /\ store[s] \notin {"unused", "gone"}
  /\ \E status \in {"broken", "gone"} : store' = [store EXCEPT ![s] = status]
  /\ harmed' = harmed \cup {s}
  /\ UNCHANGED <<pending, claims, evidence, workers, running, intents, effects, settled>>

--------------------------------------------------------------------------------
(* Transactions: restore, the edit's replace_files, apply_staged. *)

Started == [active |-> TRUE, effect |-> "none", result |-> "none"]
Refused == [active |-> FALSE, effect |-> "none", result |-> "failed"]

\* restore verifies the snapshot before anything else.
TxnOf(s) == IF Valid(s) THEN Started ELSE Refused

TxnStep(w) ==
  /\ \E t \in TxnState :
       /\ txn' = [txn EXCEPT ![w] = t]
       /\ Txn(w)!Touch \/ Txn(w)!Commit \/ Txn(w)!Undo
       /\ effects' = IF job[w].intent = 0 THEN effects
                     ELSE [effects EXCEPT ![job[w].intent] = t.effect]
  /\ UNCHANGED <<disk, running, host, pc, job, keep, intents, settled, harmed>>

TxnEnd(w) ==
  /\ \E t \in TxnState :
       /\ txn' = [txn EXCEPT ![w] = t]
       /\ \E r \in Txn(w)!Results \ {"lost"} : Txn(w)!Report(r)
       /\ evidence' \in {evidence \/ t.result = "rollbackFailed" \/ t.effect = "unknown",
                         evidence \/ t.result \in {"rollbackFailed", "interrupted"}}
  /\ UNCHANGED <<store, pending, claims, running, host, pc, job, keep, history>>

Ended(w, stage) == pc[w] = stage /\ ~txn[w].active

--------------------------------------------------------------------------------
(* pending_restore: a claim makes the state indeterminate, and a marker whose *)
(* snapshot does not verify is moved away.                                    *)

Indeterminate == claims # {}
Readable == pending # NoMarker /\ Valid(pending.snapshot)

\* Every request that reads the marker may quarantine it.
Quarantine(w) ==
  /\ w = host /\ pc[w] = "idle" /\ ~Indeterminate
  /\ pending # NoMarker /\ ~Valid(pending.snapshot)
  /\ pending' = NoMarker
  /\ UNCHANGED <<store, claims, evidence, workers, running, history>>

--------------------------------------------------------------------------------
(* restore and _stage. *)

Restore(w, s) ==
  /\ w = host /\ pc[w] = "idle" /\ Valid(s)
  /\ IF running /\ Policy = "stoppedOnly"
     THEN Goes(w, "staging", [intent |-> 0, snapshot |-> s, hot |-> TRUE]) /\ UNCHANGED txn
     ELSE /\ Goes(w, "restoring", [intent |-> 0, snapshot |-> s, hot |-> running])
          /\ txn' = [txn EXCEPT ![w] = Started]
  /\ UNCHANGED <<disk, running, host, keep, history>>

\* A busy file set falls back to staging while the game runs.
RestoreEnd(w) ==
  /\ Ended(w, "restoring")
  /\ IF txn[w].result = "busy" /\ (job[w].hot \/ running) /\ Stageable
     THEN /\ Goes(w, "staging", job[w]) /\ txn' = [txn EXCEPT ![w] = NoTxn]
          /\ UNCHANGED <<host, keep>>
     ELSE IF txn[w].result \in {"interrupted", "prepInterrupted"} THEN Exit(w) ELSE Finish(w)
  /\ UNCHANGED <<disk, running, history>>

Stage(w) ==
  /\ pc[w] = "staging"
  /\ IF Stageable /\ ~Indeterminate /\ Valid(job[w].snapshot)
     THEN Goes(w, "writing", job[w]) /\ UNCHANGED <<host, keep, txn>>
     ELSE Finish(w)
  /\ UNCHANGED <<disk, running, history>>

\* The new marker replaces an older one; the write may also fail.
WriteStaged(w) ==
  /\ pc[w] = "writing"
  /\ \/ /\ intents < MaxIntents
        /\ intents' = intents + 1
        /\ pending' = [intent |-> intents + 1, snapshot |-> job[w].snapshot]
     \/ UNCHANGED <<intents, pending>>
  /\ Finish(w)
  /\ UNCHANGED <<store, claims, evidence, running, effects, settled, harmed>>

--------------------------------------------------------------------------------
(* apply_staged and cancel_staged. *)

\* With no readable marker, with a claim, or while the game runs nothing happens.
ApplyStaged(w) ==
  /\ w = host /\ pc[w] = "idle" /\ ~Indeterminate /\ Readable /\ ~running
  /\ Goes(w, "claiming", [intent |-> pending.intent, snapshot |-> pending.snapshot, hot |-> FALSE])
  /\ UNCHANGED <<disk, running, host, keep, txn, history>>

\* The marker is deleted when its restore begins.
ClaimUnlinks(w) ==
  /\ pc[w] = "claiming" /\ pending # NoMarker
  /\ pending' = NoMarker
  /\ Goes(w, "applying", job[w])
  /\ txn' = [txn EXCEPT ![w] = TxnOf(job[w].snapshot)]
  /\ UNCHANGED <<store, claims, evidence, running, host, keep, history>>

\* The rename fails when the marker is gone, and may fail otherwise.
ClaimMarker(w) ==
  /\ pc[w] = "claiming"
  /\ \/ Finish(w) /\ UNCHANGED <<pending, claims>>
     \/ /\ pending # NoMarker
        /\ claims' = claims \cup {[marker |-> pending, run |-> job[w].intent, by |-> w]}
        /\ pending' = NoMarker
        /\ Goes(w, "applying", job[w])
        /\ txn' = [txn EXCEPT ![w] = TxnOf(job[w].snapshot)]
        /\ UNCHANGED <<host, keep>>
  /\ UNCHANGED <<store, evidence, running, history>>

Own(w) == {c \in claims : c.by = w}

\* The claim becomes the pending marker again, unless the rename fails.
PutBack(w) ==
  \/ UNCHANGED <<pending, claims>>
  \/ \E c \in Own(w) : pending' = c.marker /\ claims' = claims \ {c}

\* The failures after which the real save is known to be as it was.
KnownFailuresAndRollbackError == {"busy", "failed", "rolledBack", "prepInterrupted", "rollbackFailed"}

KnownFailures == {"busy", "failed", "rolledBack", "prepInterrupted"}

ApplyFailed(w) ==
  /\ Ended(w, "applying") /\ txn[w].result # "success"
  /\ IF txn[w].result \in KnownFailures THEN PutBack(w) ELSE UNCHANGED <<pending, claims>>
  /\ IF txn[w].result \in {"interrupted", "prepInterrupted"} THEN Exit(w) ELSE Finish(w)
  /\ UNCHANGED <<store, evidence, running, history>>

ApplyDone(w) ==
  /\ Ended(w, "applying") /\ txn[w].result = "success"
  /\ Goes(w, "acking", job[w])
  /\ UNCHANGED <<disk, running, host, keep, txn, history>>

\* The rename to .staged-restore-applied-* acknowledges; a failed one leaves the claim.
Acknowledge(w) ==
  /\ pc[w] = "acking"
  /\ \/ UNCHANGED <<claims, settled>>
     \/ \E c \in Own(w) : claims' = claims \ {c} /\ settled' = settled \cup {c.run, c.marker.intent}
  /\ Finish(w)
  /\ UNCHANGED <<store, pending, evidence, running, intents, effects, harmed>>

\* The pending marker is unlinked before the claims; each unlink may fail.
CancelStaged(w) ==
  /\ w = host /\ pc[w] = "idle"
  /\ \/ /\ pending # NoMarker
        /\ pending' = NoMarker /\ settled' = settled \cup {pending.intent}
     \/ UNCHANGED <<pending, settled>>
  /\ Goes(w, "cancelling", NoJob)
  /\ UNCHANGED <<store, claims, evidence, running, host, keep, txn, intents, effects, harmed>>

CancelClaims(w) ==
  /\ pc[w] = "cancelling"
  /\ \E gone \in SUBSET claims :
       /\ claims' = claims \ gone
       /\ settled' = settled \cup {c.run : c \in gone} \cup {c.marker.intent : c \in gone}
  /\ Finish(w)
  /\ UNCHANGED <<store, pending, evidence, running, intents, effects, harmed>>

--------------------------------------------------------------------------------
(* The other requests that create or remove snapshots. *)

Backup(w, s) ==
  /\ w = host /\ pc[w] = "idle" /\ store[s] = "unused"
  /\ store' = [store EXCEPT ![s] = "kept"]
  /\ UNCHANGED <<pending, claims, evidence, workers, running, history>>

\* Deletion is refused for a pending snapshot and while a claim is there.
DeleteUnpinned(w, s) ==
  /\ w = host /\ pc[w] = "idle" /\ store[s] \notin {"unused", "gone"}
  /\ ~Indeterminate
  /\ Goes(w, "deleting", [NoJob EXCEPT !.snapshot = s])
  /\ UNCHANGED <<disk, running, host, keep, txn, history>>

Delete(w, s) ==
  /\ w = host /\ pc[w] = "idle" /\ store[s] \notin {"unused", "gone"}
  /\ ~Indeterminate /\ ~(Readable /\ pending.snapshot = s)
  /\ Goes(w, "deleting", [NoJob EXCEPT !.snapshot = s])
  /\ UNCHANGED <<disk, running, host, keep, txn, history>>

\* The removal of the directory may stop part way.
Remove(s) == \E status \in {"gone", "broken"} : store' = [store EXCEPT ![s] = status]

DeleteSnapshot(w) ==
  /\ pc[w] = "deleting"
  /\ \/ Remove(job[w].snapshot)
     \/ UNCHANGED store
  /\ Finish(w)
  /\ UNCHANGED <<pending, claims, evidence, running, history>>

Edit(w) ==
  /\ w = host /\ pc[w] = "idle"
  /\ Goes(w, "editing", NoJob) /\ txn' = [txn EXCEPT ![w] = Started]
  /\ UNCHANGED <<disk, running, host, keep, history>>

\* Pinned for the sweep: the snapshot of a readable pending marker.
Pinned == IF Readable THEN {pending.snapshot} ELSE {}

\* A successful edit confirms its pre-edit snapshot and goes on to the retention
\* sweep, which a claim or a left rollback directory pauses.
EditEnd(w) ==
  /\ Ended(w, "editing")
  /\ \/ /\ txn[w].result = "success"
        /\ \E s \in Snapshots :
             /\ store[s] = "unused"
             /\ store' = [store EXCEPT ![s] = "auto"]
             /\ IF Indeterminate \/ evidence
                THEN Finish(w)
                ELSE /\ Goes(w, "sweeping", NoJob)
                     /\ keep' = [keep EXCEPT ![w] = {s} \cup Pinned]
                     /\ txn' = [txn EXCEPT ![w] = NoTxn]
                     /\ UNCHANGED host
     \/ /\ txn[w].result # "success"
        /\ IF txn[w].result \in {"interrupted", "prepInterrupted"} THEN Exit(w) ELSE Finish(w)
        /\ UNCHANGED store
  /\ UNCHANGED <<pending, claims, evidence, running, history>>

\* Which of the eligible snapshots go is SaveRetention's matter.
Sweep(w) ==
  /\ pc[w] = "sweeping"
  /\ \/ \E s \in Snapshots \ keep[w] :
          /\ store[s] = "auto" /\ Remove(s)
          /\ UNCHANGED <<host, pc, job, keep, txn>>
     \/ Finish(w) /\ UNCHANGED store
  /\ UNCHANGED <<pending, claims, evidence, running, history>>

--------------------------------------------------------------------------------
Request(w) ==
  \/ ApplyStaged(w) \/ CancelStaged(w) \/ Quarantine(w) \/ Edit(w)
  \/ \E s \in Snapshots : Restore(w, s) \/ Backup(w, s) \/ Delete(w, s)

Progress(w) ==
  \/ TxnStep(w) \/ TxnEnd(w)
  \/ RestoreEnd(w) \/ Stage(w) \/ WriteStaged(w)
  \/ ClaimMarker(w) \/ ApplyFailed(w) \/ ApplyDone(w) \/ Acknowledge(w) \/ CancelClaims(w)
  \/ DeleteSnapshot(w) \/ EditEnd(w) \/ Sweep(w)

Environment ==
  \/ \E w \in Workers : StartWorker(w) \/ KillWorker(w)
  \/ HostDies \/ ToggleGame
  \/ \E s \in Snapshots : Harm(s)

Next == Environment \/ \E w \in Workers : Request(w) \/ Progress(w)

Spec == Init /\ [][Next]_vars

--------------------------------------------------------------------------------
(* Properties *)

\* An intent that waits to be applied, automatically when the game exits, has
\* never touched the live save: nothing whose outcome is unproven, and nothing
\* that was applied, is offered for replay again, however its worker ended.
NeverReplayed == pending # NoMarker => effects[pending.intent] = "none"

\* An attempt that changed the live save without an acknowledgement stays visible
\* as an applying claim, until the user clears it.
UncertainVisible ==
  \A i \in Intents \ settled : effects[i] # "none" => \E c \in claims : c.run = i

\* The snapshot of a staged restore is never removed by a request or the sweep.
InputKept ==
  \A m \in {c.marker : c \in claims} \cup ({pending} \ {NoMarker}) :
    Valid(m.snapshot) \/ m.snapshot \in harmed
================================================================================
