-------------------------- MODULE StagedRestoreProofs --------------------------
(* Theorems about StagedRestore for every set of snapshots, every policy and *)
(* any number of staged restores, deaths and restarts.                       *)
EXTENDS StagedRestore, TLAPS

Marker == [intent : Intents, snapshot : Snapshots]
Claim  == [marker : Marker, run : Intents, by : Workers]
Job    == [intent : Intents \cup {0}, snapshot : Snapshots \cup {NoSnapshot}, hot : BOOLEAN]

Stages ==
  {"off", "idle", "restoring", "editing", "staging", "writing", "claiming", "applying", "acking",
   "cancelling", "deleting", "sweeping"}

(* The types, and what a worker's transaction and job have to do with where *)
(* it is.                                                                   *)
StoreTypeOK ==
  /\ store \in [Snapshots -> {"unused", "kept", "auto", "broken", "gone"}]
  /\ pending \in Marker \cup {NoMarker} /\ claims \in SUBSET Claim
  /\ evidence \in BOOLEAN /\ running \in BOOLEAN
  /\ intents \in 0 .. MaxIntents /\ effects \in [Intents -> {"none", "unknown", "applied"}]
  /\ harmed \in SUBSET Snapshots

WorkerTypeOK ==
  /\ host \in Workers \cup {NoWorker} /\ pc \in [Workers -> Stages] /\ job \in [Workers -> Job]
  /\ keep \in [Workers -> SUBSET Snapshots] /\ txn \in [Workers -> TxnState]

(* A transaction runs in one of three places, only one of which is for a    *)
(* staged restore, and a known failure leaves the save as it was.           *)
JobOK(w) ==
  /\ txn[w].active => pc[w] \in {"restoring", "editing", "applying"}
  /\ pc[w] \in {"restoring", "editing", "staging", "writing"} => job[w].intent = 0
  /\ pc[w] \in {"restoring", "staging", "writing", "deleting"} => job[w].snapshot \in Snapshots
  /\ pc[w] \in {"claiming", "applying", "acking"} => [intent |-> job[w].intent, snapshot |-> job[w].snapshot] \in Marker
  /\ ~txn[w].active /\ txn[w].result \in KnownFailures => txn[w].effect = "none"

TypeInv == StoreTypeOK /\ WorkerTypeOK /\ \A w \in Workers : JobOK(w)

--------------------------------------------------------------------------------
LEMMA Values ==
  /\ NoJob \in Job /\ NoJob.intent = 0
  /\ Started \in TxnState /\ Refused \in TxnState /\ NoTxn \in TxnState
  /\ ~Refused.active /\ Refused.effect = "none" /\ Started.active /\ Started.effect = "none"
  /\ ~NoTxn.active /\ NoTxn.effect = "none"
BY DEF NoJob, Job, Started, Refused, NoTxn, TxnState

LEMMA InitTypes == Init => TypeInv
<1>. SUFFICES ASSUME Init PROVE TypeInv
  OBVIOUS
<1>1. effects \in [Intents -> {"none", "unknown", "applied"}] /\ intents \in 0 .. MaxIntents
  BY BoundAssumption DEF Init
<1>2. store \in [Snapshots -> {"unused", "kept", "auto", "broken", "gone"}]
  BY DEF Init
<1>3. StoreTypeOK
  BY <1>1, <1>2 DEF Init, StoreTypeOK
<1>4. WorkerTypeOK
  BY Values DEF Init, WorkerTypeOK, Stages
<1>5. \A w \in Workers : JobOK(w)
  BY DEF Init, JobOK, NoTxn, KnownFailures
<1>. QED BY <1>3, <1>4, <1>5 DEF TypeInv

(* A step to another stage.                                                 *)
LEMMA GoesTypes ==
  ASSUME TypeInv, NEW w \in Workers, NEW stage \in Stages, NEW on \in Job, Goes(w, stage, on),
         UNCHANGED <<host, keep>>,
         NEW t \in TxnState, txn' = [txn EXCEPT ![w] = t],
         t.active => stage \in {"restoring", "editing", "applying"},
         stage \in {"restoring", "editing", "staging", "writing"} => on.intent = 0,
         stage \in {"restoring", "staging", "writing", "deleting"} => on.snapshot \in Snapshots,
         stage \in {"claiming", "applying", "acking"} => [intent |-> on.intent, snapshot |-> on.snapshot] \in Marker,
         ~t.active /\ t.result \in KnownFailures => t.effect = "none"
  PROVE  WorkerTypeOK' /\ \A v \in Workers : JobOK(v)'
<1>1. WorkerTypeOK'
  BY DEF TypeInv, WorkerTypeOK, Goes
<1>2. ASSUME NEW v \in Workers, v # w PROVE JobOK(v)'
  BY <1>2 DEF TypeInv, WorkerTypeOK, JobOK, Goes
<1>3. JobOK(w)'
  BY DEF TypeInv, WorkerTypeOK, JobOK, Goes
<1>. QED BY <1>1, <1>2, <1>3

LEMMA MoveTypes ==
  ASSUME TypeInv, NEW w \in Workers, NEW stage \in Stages, NEW on \in Job, Goes(w, stage, on),
         UNCHANGED <<host, keep, txn>>, ~txn[w].active,
         stage \in {"restoring", "editing", "staging", "writing"} => on.intent = 0,
         stage \in {"restoring", "staging", "writing", "deleting"} => on.snapshot \in Snapshots,
         stage \in {"claiming", "applying", "acking"} => [intent |-> on.intent, snapshot |-> on.snapshot] \in Marker
  PROVE  WorkerTypeOK' /\ \A v \in Workers : JobOK(v)'
<1>1. txn[w] \in TxnState /\ txn' = [txn EXCEPT ![w] = txn[w]]
  BY DEF TypeInv, WorkerTypeOK
<1>2. txn[w].result \in KnownFailures => txn[w].effect = "none"
  BY DEF TypeInv, JobOK
<1>. QED BY <1>1, <1>2, GoesTypes

(* The end of a request and of the worker.                                  *)
LEMMA FinishTypes ==
  ASSUME TypeInv, NEW w \in Workers, Finish(w) \/ Exit(w)
  PROVE  WorkerTypeOK' /\ \A v \in Workers : JobOK(v)'
<1>. PICK stage \in {"idle", "off"} : pc' = [pc EXCEPT ![w] = stage]
  BY DEF Finish, Exit, Goes
<1>1. /\ job' = [job EXCEPT ![w] = NoJob] /\ txn' = [txn EXCEPT ![w] = NoTxn]
      /\ keep' = [keep EXCEPT ![w] = {}] /\ host' \in {host, NoWorker}
  BY DEF Finish, Exit, Goes
<1>2. WorkerTypeOK'
  BY <1>1, Values DEF TypeInv, WorkerTypeOK, Stages
<1>3. ASSUME NEW v \in Workers, v # w PROVE JobOK(v)'
  BY <1>1, <1>3 DEF TypeInv, WorkerTypeOK, JobOK
<1>4. JobOK(w)'
  BY <1>1, Values DEF TypeInv, WorkerTypeOK, JobOK
<1>. QED BY <1>2, <1>3, <1>4

LEMMA TxnStepTypes ==
  ASSUME TypeInv, NEW w \in Workers, TxnStep(w)
  PROVE  TypeInv'
<1>1. PICK t \in TxnState :
        /\ txn' = [txn EXCEPT ![w] = t]
        /\ txn[w].active /\ t.active
        /\ effects' = IF job[w].intent = 0 THEN effects
                      ELSE [effects EXCEPT ![job[w].intent] = t.effect]
  BY DEF TxnStep, Txn!Touch, Txn!Commit, Txn!Undo, TypeInv, WorkerTypeOK
<1>2. StoreTypeOK'
  BY <1>1 DEF TypeInv, StoreTypeOK, WorkerTypeOK, TxnStep, TxnState, Job, disk
<1>3. WorkerTypeOK' /\ \A v \in Workers : JobOK(v)'
  BY <1>1 DEF TypeInv, WorkerTypeOK, JobOK, TxnStep
<1>. QED BY <1>2, <1>3 DEF TypeInv

LEMMA TxnEndTypes ==
  ASSUME TypeInv, NEW w \in Workers, TxnEnd(w)
  PROVE  TypeInv' /\ txn'[w].effect = txn[w].effect
<1>1. PICK t \in TxnState :
        /\ txn' = [txn EXCEPT ![w] = t]
        /\ \E r \in Txn(w)!Results \ {"lost"} : Txn(w)!Report(r)
  BY DEF TxnEnd
<1>2. ~t.active /\ t.effect = txn[w].effect /\ (t.result \in KnownFailures => t.effect = "none")
  BY <1>1 DEF Txn!Report, Txn!Reports, KnownFailures, TypeInv, WorkerTypeOK, TxnState
<1>3. StoreTypeOK'
  BY <1>1 DEF TypeInv, StoreTypeOK, WorkerTypeOK, TxnEnd, history
<1>4. WorkerTypeOK' /\ \A v \in Workers : JobOK(v)'
  BY <1>1, <1>2 DEF TypeInv, WorkerTypeOK, JobOK, TxnEnd
<1>. QED BY <1>1, <1>2, <1>3, <1>4 DEF TypeInv, WorkerTypeOK

LEMMA RequestTypes ==
  ASSUME TypeInv, NEW w \in Workers, Request(w)
  PROVE  TypeInv'
<1>. USE Values DEF Stages
<1>1. CASE ApplyStaged(w)
  <2>1. pending \in Marker
    BY <1>1 DEF ApplyStaged, Readable, TypeInv, StoreTypeOK
  <2>2. [intent |-> pending.intent, snapshot |-> pending.snapshot, hot |-> FALSE] \in Job
        /\ [intent |-> pending.intent, snapshot |-> pending.snapshot] \in Marker
    BY <2>1 DEF Marker, Job
  <2>3. ~txn[w].active
    BY <1>1 DEF ApplyStaged, TypeInv, JobOK
  <2>4. StoreTypeOK'
    BY <1>1 DEF ApplyStaged, TypeInv, StoreTypeOK, disk, history
  <2>. QED BY <1>1, <2>2, <2>3, <2>4, MoveTypes DEF ApplyStaged, TypeInv
<1>2. CASE CancelStaged(w)
  <2>1. ~txn[w].active
    BY <1>2 DEF CancelStaged, TypeInv, JobOK
  <2>2. StoreTypeOK'
    BY <1>2 DEF CancelStaged, TypeInv, StoreTypeOK
  <2>. QED BY <1>2, <2>1, <2>2, MoveTypes DEF CancelStaged, TypeInv
<1>3. CASE Quarantine(w)
  BY <1>3 DEF Quarantine, TypeInv, StoreTypeOK, WorkerTypeOK, JobOK, workers, history
<1>4. CASE Edit(w)
  BY <1>4, GoesTypes DEF Edit, TypeInv, StoreTypeOK, WorkerTypeOK, disk, history
<1>5. ASSUME NEW s \in Snapshots, Restore(w, s) PROVE TypeInv'
  <2>1. \A hot \in BOOLEAN : [intent |-> 0, snapshot |-> s, hot |-> hot] \in Job
    BY DEF Job
  <2>2. ~txn[w].active
    BY <1>5 DEF Restore, TypeInv, JobOK
  <2>3. StoreTypeOK' /\ running \in BOOLEAN
    BY <1>5 DEF Restore, TypeInv, StoreTypeOK, disk, history
  <2>4. CASE running /\ Policy = "stoppedOnly"
    BY <1>5, <2>1, <2>2, <2>3, <2>4, MoveTypes DEF Restore, TypeInv
  <2>5. CASE ~(running /\ Policy = "stoppedOnly")
    <3>1. /\ Goes(w, "restoring", [intent |-> 0, snapshot |-> s, hot |-> running])
          /\ txn' = [txn EXCEPT ![w] = Started] /\ UNCHANGED <<host, keep>>
      BY <1>5, <2>5 DEF Restore
    <3>. QED BY <2>1, <2>3, <3>1, GoesTypes DEF TypeInv
  <2>. QED BY <2>4, <2>5
<1>6. ASSUME NEW s \in Snapshots, Backup(w, s) PROVE TypeInv'
  BY <1>6 DEF Backup, TypeInv, StoreTypeOK, WorkerTypeOK, JobOK, workers, history
<1>7. ASSUME NEW s \in Snapshots, Delete(w, s) PROVE TypeInv'
  <2>1. [NoJob EXCEPT !.snapshot = s] \in Job /\ [NoJob EXCEPT !.snapshot = s].snapshot = s
    BY DEF Job, NoJob
  <2>2. ~txn[w].active
    BY <1>7 DEF Delete, TypeInv, JobOK
  <2>3. StoreTypeOK'
    BY <1>7 DEF Delete, TypeInv, StoreTypeOK, disk, history
  <2>. QED BY <1>7, <2>1, <2>2, <2>3, MoveTypes DEF Delete, TypeInv
<1>. QED BY <1>1, <1>2, <1>3, <1>4, <1>5, <1>6, <1>7 DEF Request

LEMMA ProgressTypes ==
  ASSUME TypeInv, NEW w \in Workers, Progress(w)
  PROVE  TypeInv'
<1>. USE Values DEF Stages
<1>1. CASE TxnStep(w) BY <1>1, TxnStepTypes
<1>2. CASE TxnEnd(w)  BY <1>2, TxnEndTypes
<1>3. CASE RestoreEnd(w)
  <2>1. job[w] \in Job /\ job[w].intent = 0 /\ job[w].snapshot \in Snapshots
    BY <1>3 DEF RestoreEnd, Ended, TypeInv, WorkerTypeOK, JobOK
  <2>2. StoreTypeOK'
    BY <1>3 DEF RestoreEnd, TypeInv, StoreTypeOK, disk, history
  <2>3. CASE Goes(w, "staging", job[w]) /\ txn' = [txn EXCEPT ![w] = NoTxn] /\ UNCHANGED <<host, keep>>
    BY <2>1, <2>2, <2>3, GoesTypes DEF TypeInv
  <2>4. CASE Finish(w) \/ Exit(w)
    BY <2>2, <2>4, FinishTypes DEF TypeInv
  <2>. QED BY <1>3, <2>3, <2>4 DEF RestoreEnd
<1>4. CASE Stage(w)
  <2>1. job[w] \in Job /\ job[w].intent = 0 /\ job[w].snapshot \in Snapshots
    BY <1>4 DEF Stage, TypeInv, WorkerTypeOK, JobOK
  <2>2. ~txn[w].active
    BY <1>4 DEF Stage, TypeInv, JobOK
  <2>3. StoreTypeOK'
    BY <1>4 DEF Stage, TypeInv, StoreTypeOK, disk, history
  <2>4. CASE Goes(w, "writing", job[w]) /\ UNCHANGED <<host, keep, txn>>
    BY <2>1, <2>2, <2>3, <2>4, MoveTypes DEF TypeInv
  <2>. QED BY <1>4, <2>3, <2>4, FinishTypes DEF Stage, TypeInv
<1>5. CASE WriteStaged(w)
  <2>1. job[w].snapshot \in Snapshots
    BY <1>5 DEF WriteStaged, TypeInv, JobOK
  <2>2. StoreTypeOK'
    BY <1>5, <2>1, BoundAssumption DEF WriteStaged, TypeInv, StoreTypeOK, Marker, Intents
  <2>. QED BY <1>5, <2>2, FinishTypes DEF WriteStaged, TypeInv
<1>6. CASE ClaimMarker(w)
  <2>1. [intent |-> job[w].intent, snapshot |-> job[w].snapshot] \in Marker /\ job[w] \in Job
    BY <1>6 DEF ClaimMarker, TypeInv, WorkerTypeOK, JobOK
  <2>2. CASE Finish(w) /\ UNCHANGED <<pending, claims>>
    BY <1>6, <2>2, FinishTypes DEF ClaimMarker, TypeInv, StoreTypeOK, history
  <2>3. CASE /\ pending # NoMarker
             /\ claims' = claims \cup {[marker |-> pending, run |-> job[w].intent, by |-> w]}
             /\ pending' = NoMarker
             /\ Goes(w, "applying", job[w])
             /\ txn' = [txn EXCEPT ![w] = TxnOf(job[w].snapshot)]
             /\ UNCHANGED <<host, keep>>
    <3>1. StoreTypeOK'
      BY <1>6, <2>1, <2>3 DEF ClaimMarker, TypeInv, StoreTypeOK, Claim, Marker, history
    <3>2. TxnOf(job[w].snapshot) \in {Started, Refused}
      BY DEF TxnOf
    <3>. QED BY <2>1, <2>3, <3>1, <3>2, GoesTypes DEF TypeInv
  <2>. QED BY <1>6, <2>2, <2>3 DEF ClaimMarker
<1>7. CASE ApplyFailed(w)
  <2>1. StoreTypeOK'
    BY <1>7 DEF ApplyFailed, PutBack, Own, TypeInv, StoreTypeOK, Claim, history
  <2>. QED BY <1>7, <2>1, FinishTypes DEF ApplyFailed, TypeInv
<1>8. CASE ApplyDone(w)
  <2>1. /\ job[w] \in Job /\ [intent |-> job[w].intent, snapshot |-> job[w].snapshot] \in Marker
        /\ ~txn[w].active
    BY <1>8 DEF ApplyDone, Ended, TypeInv, WorkerTypeOK, JobOK
  <2>2. StoreTypeOK'
    BY <1>8 DEF ApplyDone, TypeInv, StoreTypeOK, disk, history
  <2>. QED BY <1>8, <2>1, <2>2, MoveTypes DEF ApplyDone, TypeInv
<1>9. CASE Acknowledge(w)
  <2>1. StoreTypeOK' BY <1>9 DEF Acknowledge, TypeInv, StoreTypeOK
  <2>. QED BY <1>9, <2>1, FinishTypes DEF Acknowledge, TypeInv
<1>10. CASE CancelClaims(w)
  <2>1. StoreTypeOK' BY <1>10 DEF CancelClaims, TypeInv, StoreTypeOK
  <2>. QED BY <1>10, <2>1, FinishTypes DEF CancelClaims, TypeInv
<1>11. CASE DeleteSnapshot(w)
  <2>1. StoreTypeOK' BY <1>11 DEF DeleteSnapshot, Remove, TypeInv, StoreTypeOK, history
  <2>. QED BY <1>11, <2>1, FinishTypes DEF DeleteSnapshot, TypeInv
<1>12. CASE EditEnd(w)
  <2>1. StoreTypeOK' BY <1>12 DEF EditEnd, TypeInv, StoreTypeOK, history
  <2>2. CASE \E s \in Snapshots : /\ Goes(w, "sweeping", NoJob)
                                  /\ keep' = [keep EXCEPT ![w] = {s} \cup Pinned]
                                  /\ txn' = [txn EXCEPT ![w] = NoTxn]
                                  /\ UNCHANGED host
    <3>1. PICK s \in Snapshots : keep' = [keep EXCEPT ![w] = {s} \cup Pinned] BY <2>2
    <3>2. {s} \cup Pinned \in SUBSET Snapshots
      BY DEF Pinned, Readable, TypeInv, StoreTypeOK, Marker
    <3>3. WorkerTypeOK'
      BY <2>2, <3>1, <3>2 DEF TypeInv, WorkerTypeOK, Goes
    <3>4. \A v \in Workers : JobOK(v)'
      BY <2>2 DEF TypeInv, WorkerTypeOK, JobOK, Goes
    <3>. QED BY <2>1, <3>3, <3>4 DEF TypeInv
  <2>. QED BY <1>12, <2>1, <2>2, FinishTypes DEF EditEnd, TypeInv
<1>13. CASE Sweep(w)
  <2>1. StoreTypeOK' BY <1>13 DEF Sweep, Remove, TypeInv, StoreTypeOK, history
  <2>. QED BY <1>13, <2>1, FinishTypes DEF Sweep, TypeInv, WorkerTypeOK, JobOK
<1>. QED
  BY <1>1, <1>2, <1>3, <1>4, <1>5, <1>6, <1>7, <1>8, <1>9, <1>10, <1>11, <1>12, <1>13 DEF Progress

LEMMA EnvironmentTypes ==
  ASSUME TypeInv, Environment
  PROVE  TypeInv'
<1>. USE Values DEF Stages
<1>1. ASSUME NEW w \in Workers, StartWorker(w) PROVE TypeInv'
  BY <1>1 DEF StartWorker, Goes, TypeInv, StoreTypeOK, WorkerTypeOK, JobOK, disk, history
<1>2. ASSUME NEW w \in Workers, KillWorker(w) PROVE TypeInv'
  <2>1. StoreTypeOK'
    BY <1>2 DEF KillWorker, TypeInv, StoreTypeOK, history
  <2>. QED BY <1>2, <2>1, FinishTypes DEF KillWorker, TypeInv
<1>3. CASE HostDies
  BY <1>3 DEF HostDies, TypeInv, StoreTypeOK, WorkerTypeOK, JobOK, disk, history
<1>4. CASE ToggleGame
  BY <1>4 DEF ToggleGame, TypeInv, StoreTypeOK, WorkerTypeOK, JobOK, disk, history, workers
<1>5. ASSUME NEW s \in Snapshots, Harm(s) PROVE TypeInv'
  BY <1>5 DEF Harm, TypeInv, StoreTypeOK, WorkerTypeOK, JobOK, workers
<1>. QED BY <1>1, <1>2, <1>3, <1>4, <1>5 DEF Environment

LEMMA StepTypes ==
  ASSUME TypeInv, [Next]_vars
  PROVE  TypeInv'
<1>1. CASE UNCHANGED vars
  BY <1>1 DEF TypeInv, StoreTypeOK, WorkerTypeOK, JobOK, vars, disk, workers, history
<1>. QED BY <1>1, RequestTypes, ProgressTypes, EnvironmentTypes DEF Next

(* Whatever the workers, the host, the game and the user do, the disk and the *)
(* workers keep their types, every snapshot being restored, staged, deleted or *)
(* claimed is one of the store, and a transaction that is reported as not done *)
(* has changed nothing.                                                        *)
THEOREM StagedTypes == Spec => []TypeInv
BY InitTypes, StepTypes, PTL DEF Spec

--------------------------------------------------------------------------------
(* An uncertain attempt stays visible, with any number of workers.  Two may  *)
(* be at the same intent, so that a claim alone is not enough: there is one  *)
(* that its owner will not put back.                                         *)
Untouched(w, i) == pc[w] = "applying" /\ job[w].intent = i /\ txn[w].effect = "none"

OwnInv(w) ==
  /\ pc[w] = "claiming" => Own(w) = {}
  /\ pc[w] \in {"applying", "acking"} =>
       /\ \A c \in Own(w) : c.run = job[w].intent
       /\ Own(w) = {} => job[w].intent \in settled

Marked(i) == i \in settled \/ effects[i] = "none" \/ \E c \in claims : c.run = i /\ ~Untouched(c.by, i)

VisibleInv == (\A w \in Workers : OwnInv(w)) /\ \A i \in Intents : Marked(i)

LEMMA VisibleIsUncertainVisible == VisibleInv => UncertainVisible
BY DEF VisibleInv, Marked, UncertainVisible

LEMMA InitVisible == Init => VisibleInv
BY DEF Init, VisibleInv, OwnInv, Marked, Own

(* The steps that do not touch claims, effects and what is settled.          *)
LEMMA KeepsVisible ==
  ASSUME TypeInv, VisibleInv, NEW w \in Workers, UNCHANGED <<claims, effects, settled>>,
         \A v \in Workers \ {w} : pc'[v] = pc[v] /\ job'[v] = job[v] /\ txn'[v] = txn[v],
         \/ pc'[w] \notin {"claiming", "applying", "acking"}
         \/ pc'[w] = "claiming" /\ claims = {}
         \/ pc'[w] = pc[w] /\ job'[w] = job[w] /\ txn'[w].effect = txn[w].effect
         \/ pc'[w] = "acking" /\ pc[w] = "applying" /\ job'[w] = job[w]
  PROVE  VisibleInv'
<1>1. \A v \in Workers : Own(v)' = Own(v)
  BY DEF Own
<1>2. ASSUME NEW v \in Workers PROVE OwnInv(v)'
  BY <1>1 DEF VisibleInv, OwnInv, Own
<1>3. ASSUME NEW i \in Intents PROVE Marked(i)'
  <2>1. \A c \in claims : c.by \in Workers
    BY DEF TypeInv, StoreTypeOK, Claim
  <2>2. \A v \in Workers : Untouched(v, i)' => Untouched(v, i)
    BY DEF Untouched
  <2>. QED BY <2>1, <2>2 DEF VisibleInv, Marked
<1>. QED BY <1>2, <1>3 DEF VisibleInv

(* What takes claims away and ends its request.                              *)
LEMMA ReleasesVisible ==
  ASSUME TypeInv, VisibleInv, NEW w \in Workers, UNCHANGED effects, Finish(w) \/ Exit(w),
         claims' \subseteq claims, settled \subseteq settled',
         \A c \in claims \ claims' : c.run \in settled' \/ (c.by = w /\ Untouched(w, c.run))
  PROVE  VisibleInv'
<1>1. /\ pc'[w] \in {"idle", "off"}
      /\ \A v \in Workers \ {w} : pc'[v] = pc[v] /\ job'[v] = job[v] /\ txn'[v] = txn[v]
  BY DEF Finish, Exit, Goes, TypeInv, WorkerTypeOK
<1>2. ASSUME NEW v \in Workers PROVE OwnInv(v)'
  <2>1. CASE v = w
    BY <1>1, <2>1 DEF OwnInv
  <2>2. CASE v # w
    <3>1. OwnInv(v) /\ Own(v)' \subseteq Own(v)
      BY DEF VisibleInv, Own
    <3>2. \A c \in Own(v) \ Own(v)' : c.run \in settled'
      BY <2>2 DEF Own
    <3>. QED BY <1>1, <2>2, <3>1, <3>2 DEF OwnInv
  <2>. QED BY <2>1, <2>2
<1>3. ASSUME NEW i \in Intents PROVE Marked(i)'
  <2>1. \A c \in claims : c.by \in Workers
    BY DEF TypeInv, StoreTypeOK, Claim
  <2>2. \A v \in Workers : Untouched(v, i)' => Untouched(v, i)
    BY <1>1 DEF Untouched
  <2>. QED BY <2>1, <2>2 DEF VisibleInv, Marked
<1>. QED BY <1>2, <1>3 DEF VisibleInv

LEMMA TxnStepVisible ==
  ASSUME TypeInv, VisibleInv, NEW w \in Workers, TxnStep(w)
  PROVE  VisibleInv'
<1>1. PICK t \in TxnState :
        /\ txn' = [txn EXCEPT ![w] = t] /\ txn[w].active
        /\ effects' = IF job[w].intent = 0 THEN effects
                      ELSE [effects EXCEPT ![job[w].intent] = t.effect]
  BY DEF TxnStep, Txn!Touch, Txn!Commit, Txn!Undo, TypeInv, WorkerTypeOK
<1>2. UNCHANGED <<claims, pc, job, settled>> /\ \A v \in Workers : Own(v)' = Own(v)
  BY DEF TxnStep, disk, Own
<1>3. \A v \in Workers : OwnInv(v)'
  BY <1>2 DEF VisibleInv, OwnInv
<1>4. ASSUME NEW i \in Intents PROVE Marked(i)'
  <2>1. CASE i = job[w].intent
    <3>1. pc[w] = "applying" /\ i # 0
      <4>1. i # 0 BY BoundAssumption DEF Intents
      <4>2. JobOK(w) BY DEF TypeInv
      <4>. QED BY <1>1, <2>1, <4>1, <4>2 DEF JobOK
    <3>2. effects'[i] = t.effect /\ txn'[w] = t
      BY <1>1, <2>1, <3>1 DEF TypeInv, StoreTypeOK, WorkerTypeOK
    <3>3. i \in settled \/ \E c \in claims : c.run = i /\ c.by = w
      BY <2>1, <3>1 DEF VisibleInv, OwnInv, Own
    <3>. QED BY <1>2, <3>2, <3>3 DEF Marked, Untouched
  <2>2. CASE i # job[w].intent
    <3>1. effects'[i] = effects[i]
      BY <1>1, <2>2 DEF TypeInv, StoreTypeOK
    <3>2. \A v \in Workers : Untouched(v, i)' => Untouched(v, i)
      BY <1>1, <1>2, <2>2 DEF Untouched, TypeInv, WorkerTypeOK
    <3>3. \A c \in claims : c.by \in Workers
      BY DEF TypeInv, StoreTypeOK, Claim
    <3>. QED BY <1>2, <3>1, <3>2, <3>3 DEF VisibleInv, Marked
  <2>. QED BY <2>1, <2>2
<1>. QED BY <1>3, <1>4 DEF VisibleInv

LEMMA ClaimVisible ==
  ASSUME TypeInv, VisibleInv, NEW w \in Workers, ClaimMarker(w)
  PROVE  VisibleInv'
<1>1. CASE Finish(w) /\ UNCHANGED <<pending, claims>>
  BY <1>1, ReleasesVisible DEF ClaimMarker, history
<1>2. CASE /\ claims' = claims \cup {[marker |-> pending, run |-> job[w].intent, by |-> w]}
           /\ Goes(w, "applying", job[w])
           /\ txn' = [txn EXCEPT ![w] = TxnOf(job[w].snapshot)]
  <2>1. Own(w) = {} /\ UNCHANGED <<effects, settled>>
    BY DEF ClaimMarker, VisibleInv, OwnInv, history
  <2>2. Own(w)' = {[marker |-> pending, run |-> job[w].intent, by |-> w]}
    BY <1>2, <2>1 DEF Own
  <2>3. \A v \in Workers \ {w} : Own(v)' = Own(v)
    BY <1>2 DEF Own
  <2>4. /\ \A v \in Workers \ {w} : pc'[v] = pc[v] /\ job'[v] = job[v] /\ txn'[v] = txn[v]
        /\ pc'[w] = "applying" /\ job'[w] = job[w]
    BY <1>2 DEF Goes, TypeInv, WorkerTypeOK
  <2>5. ASSUME NEW v \in Workers PROVE OwnInv(v)'
    <3>1. CASE v = w
      <4>1. pc'[w] = "applying" /\ Own(w)' # {} /\ \A c \in Own(w)' : c.run = job[w].intent
        BY <2>2, <2>4
      <4>. QED BY <2>4, <3>1, <4>1 DEF OwnInv
    <3>2. CASE v # w
      <4>1. OwnInv(v) BY DEF VisibleInv
      <4>. QED BY <2>1, <2>3, <2>4, <3>2, <4>1 DEF OwnInv
    <3>. QED BY <3>1, <3>2
  <2>6. ASSUME NEW i \in Intents PROVE Marked(i)'
    <3>1. \A c \in claims : c.by \in Workers \ {w}
      BY <2>1 DEF TypeInv, StoreTypeOK, Claim, Own
    <3>2. \A v \in Workers \ {w} : Untouched(v, i)' => Untouched(v, i)
      BY <2>4 DEF Untouched
    <3>. QED BY <1>2, <2>1, <3>1, <3>2 DEF VisibleInv, Marked
  <2>. QED BY <2>5, <2>6 DEF VisibleInv
<1>. QED BY <1>1, <1>2 DEF ClaimMarker

LEMMA ProgressVisible ==
  ASSUME TypeInv, VisibleInv, NEW w \in Workers, Progress(w)
  PROVE  VisibleInv'
<1>. USE DEF TypeInv, WorkerTypeOK
<1>1. CASE TxnStep(w) BY <1>1, TxnStepVisible
<1>2. CASE TxnEnd(w)
  <2>1. txn'[w].effect = txn[w].effect
    BY <1>2, TxnEndTypes
  <2>. QED BY <1>2, <2>1, KeepsVisible DEF TxnEnd, history
<1>3. CASE RestoreEnd(w)
  BY <1>3, KeepsVisible DEF RestoreEnd, Finish, Exit, Goes, disk, history
<1>4. CASE Stage(w)
  BY <1>4, KeepsVisible DEF Stage, Finish, Goes, disk, history
<1>5. CASE WriteStaged(w)
  BY <1>5, KeepsVisible DEF WriteStaged, Finish, Goes
<1>6. CASE ClaimMarker(w) BY <1>6, ClaimVisible
<1>7. CASE ApplyFailed(w)
  <2>1. CASE txn[w].result \in KnownFailures /\ PutBack(w)
    <3>1. txn[w].effect = "none" /\ pc[w] = "applying"
      BY <1>7, <2>1 DEF ApplyFailed, Ended, JobOK
    <3>2. \A c \in claims \ claims' : c.by = w /\ Untouched(w, c.run)
      BY <2>1, <3>1 DEF PutBack, Own, Untouched, VisibleInv, OwnInv
    <3>. QED BY <1>7, <2>1, <3>2, ReleasesVisible DEF ApplyFailed, PutBack, history
  <2>2. CASE UNCHANGED <<pending, claims>>
    BY <1>7, <2>2, ReleasesVisible DEF ApplyFailed, history
  <2>. QED BY <1>7, <2>1, <2>2 DEF ApplyFailed
<1>8. CASE ApplyDone(w)
  BY <1>8, KeepsVisible DEF ApplyDone, Ended, Goes, disk, history
<1>9. CASE Acknowledge(w)
  BY <1>9, ReleasesVisible DEF Acknowledge
<1>10. CASE CancelClaims(w)
  BY <1>10, ReleasesVisible DEF CancelClaims
<1>11. CASE DeleteSnapshot(w)
  BY <1>11, KeepsVisible DEF DeleteSnapshot, Finish, Goes, history
<1>12. CASE EditEnd(w)
  BY <1>12, KeepsVisible DEF EditEnd, Finish, Exit, Goes, history
<1>13. CASE Sweep(w)
  BY <1>13, KeepsVisible DEF Sweep, Finish, Goes, history
<1>. QED
  BY <1>1, <1>2, <1>3, <1>4, <1>5, <1>6, <1>7, <1>8, <1>9, <1>10, <1>11, <1>12, <1>13 DEF Progress

LEMMA RequestVisible ==
  ASSUME TypeInv, VisibleInv, NEW w \in Workers, Request(w)
  PROVE  VisibleInv'
<1>. USE DEF TypeInv, WorkerTypeOK
<1>1. CASE ApplyStaged(w)
  BY <1>1, KeepsVisible DEF ApplyStaged, Indeterminate, Goes, disk, history
<1>2. CASE CancelStaged(w)
  <2>1. settled \subseteq settled' /\ UNCHANGED <<claims, effects>>
    BY <1>2 DEF CancelStaged
  <2>2. /\ pc'[w] = "cancelling"
        /\ \A v \in Workers \ {w} : pc'[v] = pc[v] /\ job'[v] = job[v] /\ txn'[v] = txn[v]
    BY <1>2 DEF CancelStaged, Goes
  <2>3. ASSUME NEW v \in Workers PROVE OwnInv(v)'
    BY <2>1, <2>2 DEF VisibleInv, OwnInv, Own
  <2>4. ASSUME NEW i \in Intents PROVE Marked(i)'
    <3>1. \A c \in claims : c.by \in Workers
      BY DEF StoreTypeOK, Claim
    <3>2. \A v \in Workers : Untouched(v, i)' => Untouched(v, i)
      BY <2>2 DEF Untouched
    <3>. QED BY <2>1, <3>1, <3>2 DEF VisibleInv, Marked
  <2>. QED BY <2>3, <2>4 DEF VisibleInv
<1>3. CASE Quarantine(w)
  BY <1>3, KeepsVisible DEF Quarantine, workers, history
<1>4. CASE Edit(w)
  BY <1>4, KeepsVisible DEF Edit, Goes, disk, history
<1>5. ASSUME NEW s \in Snapshots, Restore(w, s) PROVE VisibleInv'
  BY <1>5, KeepsVisible DEF Restore, Goes, disk, history
<1>6. ASSUME NEW s \in Snapshots, Backup(w, s) PROVE VisibleInv'
  BY <1>6, KeepsVisible DEF Backup, workers, history
<1>7. ASSUME NEW s \in Snapshots, Delete(w, s) PROVE VisibleInv'
  BY <1>7, KeepsVisible DEF Delete, Goes, disk, history
<1>. QED BY <1>1, <1>2, <1>3, <1>4, <1>5, <1>6, <1>7 DEF Request

LEMMA EnvironmentVisible ==
  ASSUME TypeInv, VisibleInv, Environment
  PROVE  VisibleInv'
<1>. USE DEF TypeInv, WorkerTypeOK
<1>1. ASSUME NEW w \in Workers, StartWorker(w) PROVE VisibleInv'
  BY <1>1, KeepsVisible DEF StartWorker, Goes, disk, history
<1>2. ASSUME NEW w \in Workers, KillWorker(w) PROVE VisibleInv'
  BY <1>2, ReleasesVisible DEF KillWorker, history
<1>3. CASE HostDies
  BY <1>3, KeepsVisible DEF HostDies, disk, history
<1>4. CASE ToggleGame
  BY <1>4 DEF ToggleGame, VisibleInv, OwnInv, Own, Marked, Untouched, disk, workers, history
<1>5. ASSUME NEW s \in Snapshots, Harm(s) PROVE VisibleInv'
  BY <1>5 DEF Harm, VisibleInv, OwnInv, Own, Marked, Untouched, workers
<1>. QED BY <1>1, <1>2, <1>3, <1>4, <1>5 DEF Environment

LEMMA StepVisible ==
  ASSUME TypeInv, VisibleInv, [Next]_vars
  PROVE  VisibleInv'
<1>1. CASE UNCHANGED vars
  BY <1>1 DEF VisibleInv, OwnInv, Own, Marked, Untouched, vars, disk, workers, history
<1>. QED BY <1>1, RequestVisible, ProgressVisible, EnvironmentVisible DEF Next

(* For any number of workers, dead hosts and restarts: a staged restore that   *)
(* may have changed the live save, and was not acknowledged, stays visible as  *)
(* an applying claim until the user clears it (apply_staged, cancel_staged).   *)
THEOREM UncertainVisibleAlways == Spec => []UncertainVisible
<1>1. TypeInv /\ VisibleInv /\ [Next]_vars => VisibleInv'
  BY StepVisible
<1>. QED BY <1>1, StagedTypes, InitVisible, VisibleIsUncertainVisible, PTL DEF Spec

--------------------------------------------------------------------------------
(* One worker at a time, which may die and be started again any number of    *)
(* times.  The intent it works on is the one marker there is.                *)
OneWorker == \A v, w \in Workers : v = w

Read(w) == [intent |-> job[w].intent, snapshot |-> job[w].snapshot]

AttemptInv(w) ==
  /\ pc[w] = "claiming" => claims = {} /\ pending = Read(w)
  /\ pc[w] \in {"applying", "acking"} =>
       /\ pending = NoMarker /\ job[w].intent <= intents
       /\ \A c \in claims : c.marker = Read(w)
  /\ pc[w] = "applying" => effects[job[w].intent] = txn[w].effect

AloneInv ==
  /\ NeverReplayed
  /\ pending # NoMarker => pending.intent <= intents
  /\ \A i \in Intents : i > intents => effects[i] = "none"
  /\ \A w \in Workers : AttemptInv(w)

LEMMA InitAlone == Init => AloneInv
BY DEF Init, AloneInv, NeverReplayed, AttemptInv

(* The steps that change neither markers nor effects.                        *)
LEMMA KeepsAlone ==
  ASSUME OneWorker, AloneInv, NEW w \in Workers, UNCHANGED <<claims, pending, effects, intents>>,
         \/ pc'[w] \notin {"claiming", "applying", "acking"}
         \/ pc'[w] = pc[w] /\ job'[w] = job[w] /\ txn'[w].effect = txn[w].effect
         \/ pc'[w] = "claiming" /\ claims = {} /\ pending = Read(w)'
         \/ pc'[w] = "acking" /\ pc[w] = "applying" /\ job'[w] = job[w]
  PROVE  AloneInv'
<1>1. AttemptInv(w)'
  BY DEF AloneInv, AttemptInv, Read
<1>. QED BY <1>1 DEF OneWorker, AloneInv, NeverReplayed

(* The steps that end a request and only take markers away.                  *)
LEMMA ReleasesAlone ==
  ASSUME OneWorker, AloneInv, NEW w \in Workers, UNCHANGED <<effects, intents>>,
         pending' \in {pending, NoMarker}, pc'[w] \notin {"claiming", "applying", "acking"}
  PROVE  AloneInv'
<1>1. AttemptInv(w)'
  BY DEF AttemptInv
<1>. QED BY <1>1 DEF OneWorker, AloneInv, NeverReplayed

LEMMA TxnStepAlone ==
  ASSUME OneWorker, TypeInv, AloneInv, NEW w \in Workers, TxnStep(w)
  PROVE  AloneInv'
<1>1. PICK t \in TxnState :
        /\ txn' = [txn EXCEPT ![w] = t] /\ txn[w].active
        /\ effects' = IF job[w].intent = 0 THEN effects
                      ELSE [effects EXCEPT ![job[w].intent] = t.effect]
  BY DEF TxnStep, Txn!Touch, Txn!Commit, Txn!Undo, TypeInv, WorkerTypeOK
<1>2. UNCHANGED <<claims, pending, pc, job, intents>>
  BY DEF TxnStep, disk
<1>3. CASE pc[w] = "applying"
  <2>1. job[w].intent \in Intents /\ job[w].intent # 0 /\ pending = NoMarker
    BY <1>3, BoundAssumption DEF TypeInv, JobOK, AloneInv, AttemptInv, Marker, Intents
  <2>2. effects' = [effects EXCEPT ![job[w].intent] = t.effect] /\ txn'[w] = t
    BY <1>1, <2>1 DEF TypeInv, WorkerTypeOK
  <2>3. AttemptInv(w)'
    BY <1>2, <1>3, <2>1, <2>2 DEF AloneInv, AttemptInv, Read, TypeInv, StoreTypeOK
  <2>4. \A i \in Intents : i > intents' => effects'[i] = "none"
    BY <1>2, <1>3, <2>1, <2>2 DEF AloneInv, AttemptInv, TypeInv, StoreTypeOK, Intents
  <2>. QED BY <1>2, <2>1, <2>3, <2>4 DEF OneWorker, AloneInv, NeverReplayed
<1>4. CASE pc[w] # "applying"
  <2>1. pc[w] \notin {"claiming", "applying", "acking"} /\ effects' = effects
    BY <1>1, <1>4 DEF TypeInv, JobOK
  <2>. QED BY <1>2, <2>1, KeepsAlone
<1>. QED BY <1>3, <1>4

LEMMA ClaimAlone ==
  ASSUME OneWorker, TypeInv, AloneInv, NEW w \in Workers, ClaimMarker(w)
  PROVE  AloneInv'
<1>1. CASE Finish(w) /\ UNCHANGED <<pending, claims>>
  BY <1>1, ReleasesAlone DEF ClaimMarker, Finish, Goes, TypeInv, WorkerTypeOK, history
<1>2. CASE /\ pending # NoMarker
           /\ claims' = claims \cup {[marker |-> pending, run |-> job[w].intent, by |-> w]}
           /\ pending' = NoMarker /\ Goes(w, "applying", job[w])
           /\ txn' = [txn EXCEPT ![w] = TxnOf(job[w].snapshot)]
  <2>1. pc[w] = "claiming" /\ UNCHANGED <<effects, intents>>
    BY DEF ClaimMarker, history
  <2>2. claims = {} /\ pending = Read(w)
    BY <2>1 DEF AloneInv, AttemptInv
  <2>3. effects[job[w].intent] = "none" /\ job[w].intent <= intents
    BY <1>2, <2>2 DEF AloneInv, NeverReplayed, Read
  <2>4. pc'[w] = "applying" /\ Read(w)' = Read(w) /\ job'[w] = job[w] /\ txn'[w].effect = "none"
    BY <1>2, Values DEF Goes, Read, TxnOf, TypeInv, WorkerTypeOK
  <2>5. AttemptInv(w)'
    BY <1>2, <2>1, <2>2, <2>3, <2>4 DEF AttemptInv
  <2>. QED BY <1>2, <2>1, <2>5 DEF OneWorker, AloneInv, NeverReplayed
<1>. QED BY <1>1, <1>2 DEF ClaimMarker

(* The claim is put back as it was read, by an attempt that changed nothing. *)
LEMMA PutBackAlone ==
  ASSUME OneWorker, TypeInv, AloneInv, NEW w \in Workers, ApplyFailed(w)
  PROVE  AloneInv'
<1>1. pc[w] = "applying" /\ UNCHANGED <<effects, intents>> /\ pc'[w] \in {"idle", "off"}
  BY DEF ApplyFailed, Ended, Finish, Exit, Goes, TypeInv, WorkerTypeOK, history
<1>2. AttemptInv(w)'
  BY <1>1 DEF AttemptInv
<1>3. CASE pending' = pending
  BY <1>1, <1>2, <1>3, ReleasesAlone
<1>4. CASE pending' # pending
  <2>1. txn[w].result \in KnownFailures /\ PutBack(w)
    BY <1>4 DEF ApplyFailed
  <2>2. PICK c \in claims : pending' = c.marker
    BY <1>4, <2>1 DEF PutBack, Own
  <2>3. pending' = Read(w) /\ job[w].intent <= intents
    BY <1>1, <2>2 DEF AloneInv, AttemptInv
  <2>4. effects[job[w].intent] = "none"
    BY <1>1, <2>1 DEF ApplyFailed, Ended, TypeInv, JobOK, AloneInv, AttemptInv
  <2>. QED BY <1>1, <1>2, <2>3, <2>4 DEF OneWorker, AloneInv, NeverReplayed, Read
<1>. QED BY <1>3, <1>4

LEMMA ProgressAlone ==
  ASSUME OneWorker, TypeInv, AloneInv, NEW w \in Workers, Progress(w)
  PROVE  AloneInv'
<1>. USE DEF TypeInv, WorkerTypeOK
<1>1. CASE TxnStep(w) BY <1>1, TxnStepAlone
<1>2. CASE TxnEnd(w)
  <2>1. txn'[w].effect = txn[w].effect
    BY <1>2, TxnEndTypes
  <2>. QED BY <1>2, <2>1, KeepsAlone DEF TxnEnd, history
<1>3. CASE RestoreEnd(w)
  BY <1>3, KeepsAlone DEF RestoreEnd, Finish, Exit, Goes, disk, history
<1>4. CASE Stage(w)
  BY <1>4, KeepsAlone DEF Stage, Finish, Goes, disk, history
<1>5. CASE WriteStaged(w)
  <2>1. pc'[w] \in {"idle", "off"} /\ effects' = effects
    BY <1>5 DEF WriteStaged, Finish, Goes
  <2>2. AttemptInv(w)'
    BY <2>1 DEF AttemptInv
  <2>3. CASE UNCHANGED <<intents, pending>>
    BY <2>1, <2>2, <2>3 DEF OneWorker, AloneInv, NeverReplayed
  <2>4. CASE /\ intents < MaxIntents /\ intents' = intents + 1
             /\ pending' = [intent |-> intents + 1, snapshot |-> job[w].snapshot]
    <3>1. intents' \in Intents /\ intents' > intents /\ pending'.intent = intents'
      BY <2>4, BoundAssumption DEF StoreTypeOK, Intents
    <3>2. effects[intents'] = "none" /\ \A i \in Intents : i > intents' => effects[i] = "none"
      BY <3>1, BoundAssumption DEF AloneInv, StoreTypeOK, Intents
    <3>. QED BY <2>1, <2>2, <3>1, <3>2, BoundAssumption
             DEF OneWorker, AloneInv, NeverReplayed, Intents
  <2>. QED BY <1>5, <2>3, <2>4 DEF WriteStaged
<1>6. CASE ClaimMarker(w) BY <1>6, ClaimAlone
<1>7. CASE ApplyFailed(w) BY <1>7, PutBackAlone
<1>8. CASE ApplyDone(w)
  BY <1>8, KeepsAlone DEF ApplyDone, Ended, Goes, disk, history
<1>9. CASE Acknowledge(w)
  BY <1>9, ReleasesAlone DEF Acknowledge, Finish, Goes
<1>10. CASE CancelClaims(w)
  BY <1>10, ReleasesAlone DEF CancelClaims, Finish, Goes
<1>11. CASE DeleteSnapshot(w)
  BY <1>11, KeepsAlone DEF DeleteSnapshot, Finish, Goes, history
<1>12. CASE EditEnd(w)
  BY <1>12, KeepsAlone DEF EditEnd, Finish, Exit, Goes, history
<1>13. CASE Sweep(w)
  BY <1>13, KeepsAlone DEF Sweep, Finish, Goes, history
<1>. QED
  BY <1>1, <1>2, <1>3, <1>4, <1>5, <1>6, <1>7, <1>8, <1>9, <1>10, <1>11, <1>12, <1>13 DEF Progress

LEMMA RequestAlone ==
  ASSUME OneWorker, TypeInv, AloneInv, NEW w \in Workers, Request(w)
  PROVE  AloneInv'
<1>. USE DEF TypeInv, WorkerTypeOK
<1>1. CASE ApplyStaged(w)
  <2>1. pending \in Marker /\ claims = {} /\ UNCHANGED <<claims, pending, effects, intents>>
    BY <1>1 DEF ApplyStaged, Readable, Indeterminate, StoreTypeOK, disk, history
  <2>2. pc'[w] = "claiming" /\ Read(w)' = [intent |-> pending.intent, snapshot |-> pending.snapshot]
    BY <1>1 DEF ApplyStaged, Goes, Read
  <2>. QED BY <2>1, <2>2, KeepsAlone DEF Marker
<1>2. CASE CancelStaged(w)
  BY <1>2, ReleasesAlone DEF CancelStaged, Goes
<1>3. CASE Quarantine(w)
  BY <1>3, ReleasesAlone DEF Quarantine, workers, history
<1>4. CASE Edit(w)
  BY <1>4, KeepsAlone DEF Edit, Goes, disk, history
<1>5. ASSUME NEW s \in Snapshots, Restore(w, s) PROVE AloneInv'
  BY <1>5, KeepsAlone DEF Restore, Goes, disk, history
<1>6. ASSUME NEW s \in Snapshots, Backup(w, s) PROVE AloneInv'
  BY <1>6, KeepsAlone DEF Backup, workers, history
<1>7. ASSUME NEW s \in Snapshots, Delete(w, s) PROVE AloneInv'
  BY <1>7, KeepsAlone DEF Delete, Goes, disk, history
<1>. QED BY <1>1, <1>2, <1>3, <1>4, <1>5, <1>6, <1>7 DEF Request

LEMMA EnvironmentAlone ==
  ASSUME OneWorker, TypeInv, AloneInv, Environment
  PROVE  AloneInv'
<1>. USE DEF TypeInv, WorkerTypeOK
<1>1. ASSUME NEW w \in Workers, StartWorker(w) PROVE AloneInv'
  BY <1>1, KeepsAlone DEF StartWorker, Goes, disk, history
<1>2. ASSUME NEW w \in Workers, KillWorker(w) PROVE AloneInv'
  BY <1>2, KeepsAlone DEF KillWorker, Exit, Goes, history
<1>3. CASE HostDies
  BY <1>3, KeepsAlone DEF HostDies, disk, history
<1>4. CASE ToggleGame
  BY <1>4 DEF ToggleGame, AloneInv, NeverReplayed, AttemptInv, Read, disk, workers, history
<1>5. ASSUME NEW s \in Snapshots, Harm(s) PROVE AloneInv'
  BY <1>5 DEF Harm, AloneInv, NeverReplayed, AttemptInv, Read, workers
<1>. QED BY <1>1, <1>2, <1>3, <1>4, <1>5 DEF Environment

LEMMA StepAlone ==
  ASSUME OneWorker, TypeInv, AloneInv, [Next]_vars
  PROVE  AloneInv'
<1>1. CASE UNCHANGED vars
  BY <1>1 DEF AloneInv, NeverReplayed, AttemptInv, Read, vars, disk, workers, history
<1>. QED BY <1>1, RequestAlone, ProgressAlone, EnvironmentAlone DEF Next

(* While one worker at a time handles markers, a staged restore that may have *)
(* touched the save is never applied a second time, through any number of     *)
(* deaths and restarts (apply_staged).                                        *)
THEOREM NeverReplayedAlone == OneWorker => (Spec => []NeverReplayed)
<1>. SUFFICES ASSUME OneWorker PROVE Spec => []NeverReplayed
  OBVIOUS
<1>1. TypeInv /\ AloneInv /\ [Next]_vars => AloneInv'
  BY StepAlone
<1>2. AloneInv => NeverReplayed
  BY DEF AloneInv
<1>. QED BY <1>1, <1>2, StagedTypes, InitAlone, PTL DEF Spec

--------------------------------------------------------------------------------
(* The snapshot of a staged restore is kept.  Whoever is about to remove one *)
(* has seen that there is no claim and that the marker does not need it; in  *)
(* between nobody stages another.                                            *)
Safe(s) == Valid(s) \/ s \in harmed

UseInv(w) ==
  /\ pc[w] = "writing" => Safe(job[w].snapshot)
  /\ pc[w] = "deleting" =>
       /\ claims = {}
       /\ pending # NoMarker => pending.snapshot # job[w].snapshot \/ pending.snapshot \in harmed
  /\ pc[w] = "sweeping" =>
       /\ claims = {}
       /\ pending # NoMarker => pending.snapshot \in keep[w] \/ pending.snapshot \in harmed

InputInv ==
  /\ pending # NoMarker => Safe(pending.snapshot)
  /\ \A c \in claims : Safe(c.marker.snapshot)
  /\ \A w \in Workers : UseInv(w)

LEMMA InputInvIsInputKept == TypeInv /\ InputInv => InputKept
BY DEF InputInv, InputKept, Safe

LEMMA InitInput == Init => InputInv
BY DEF Init, InputInv, UseInv

(* The steps that remove no snapshot and stage nothing.                      *)
LEMMA KeepsInput ==
  ASSUME OneWorker, TypeInv, InputInv, NEW w \in Workers,
         claims' \subseteq claims, pending' \in {pending, NoMarker}, harmed \subseteq harmed',
         \A s \in Snapshots : Safe(s) => Safe(s)',
         \/ pc'[w] \notin {"writing", "deleting", "sweeping"}
         \/ pc'[w] = "writing" /\ job'[w].snapshot \in Snapshots /\ Safe(job[w].snapshot)'
         \/ pc'[w] = pc[w] /\ job'[w] = job[w] /\ keep'[w] = keep[w]
  PROVE  InputInv'
<1>1. pending # NoMarker => pending.snapshot \in Snapshots
  BY DEF TypeInv, StoreTypeOK, Marker
<1>2. \A c \in claims : c.marker.snapshot \in Snapshots
  BY DEF TypeInv, StoreTypeOK, Claim, Marker
<1>3. UseInv(w)'
  <2>1. pc[w] = "writing" => job[w].snapshot \in Snapshots
    BY DEF TypeInv, JobOK
  <2>2. CASE pc'[w] = pc[w] /\ job'[w] = job[w] /\ keep'[w] = keep[w]
    <3>1. UseInv(w) BY DEF InputInv
    <3>2. pc[w] = "writing" => Safe(job[w].snapshot)'
      BY <2>1, <2>2, <3>1 DEF UseInv
    <3>. QED BY <2>2, <3>1, <3>2 DEF UseInv
  <2>3. CASE pc'[w] \notin {"writing", "deleting", "sweeping"}
    BY <2>3 DEF UseInv
  <2>4. CASE pc'[w] = "writing" /\ Safe(job[w].snapshot)'
    BY <2>4 DEF UseInv
  <2>. QED BY <2>2, <2>3, <2>4
<1>. QED BY <1>1, <1>2, <1>3 DEF OneWorker, InputInv

(* A removal of a snapshot, or of some part of one.                          *)
LEMMA RemovesInput ==
  ASSUME OneWorker, TypeInv, InputInv, NEW w \in Workers, NEW s \in Snapshots, Remove(s),
         UNCHANGED <<claims, pending, harmed>>, claims = {},
         pending # NoMarker => pending.snapshot # s \/ pending.snapshot \in harmed,
         \/ pc'[w] \notin {"writing", "deleting", "sweeping"}
         \/ pc'[w] = pc[w] /\ pc[w] = "sweeping" /\ keep'[w] = keep[w]
  PROVE  InputInv'
<1>1. pending # NoMarker => pending.snapshot \in Snapshots
  BY DEF TypeInv, StoreTypeOK, Marker
<1>2. \A r \in Snapshots \ {s} : store'[r] = store[r]
  BY DEF Remove, TypeInv, StoreTypeOK
<1>3. pending # NoMarker => Safe(pending.snapshot)'
  BY <1>1, <1>2 DEF InputInv, Safe, Valid
<1>4. UseInv(w)'
  BY DEF InputInv, UseInv
<1>. QED BY <1>3, <1>4 DEF OneWorker, InputInv

LEMMA ProgressInput ==
  ASSUME OneWorker, TypeInv, InputInv, NEW w \in Workers, Progress(w)
  PROVE  InputInv'
<1>. USE DEF TypeInv, WorkerTypeOK, Safe, Valid
<1>1. CASE TxnStep(w)
  BY <1>1, KeepsInput DEF TxnStep, disk
<1>2. CASE TxnEnd(w)
  BY <1>2, KeepsInput DEF TxnEnd, history
<1>3. CASE RestoreEnd(w)
  BY <1>3, KeepsInput DEF RestoreEnd, Finish, Exit, Goes, disk, history
<1>4. CASE Stage(w)
  <2>1. job[w].snapshot \in Snapshots
    BY <1>4 DEF Stage, JobOK
  <2>2. UNCHANGED <<store, claims, pending, harmed>> /\ \A s \in Snapshots : Safe(s) => Safe(s)'
    BY <1>4 DEF Stage, disk, history
  <2>3. CASE pc'[w] = "writing"
    <3>1. Valid(job[w].snapshot) /\ job'[w] = job[w]
      BY <1>4, <2>3 DEF Stage, Finish, Goes
    <3>. QED BY <2>1, <2>2, <2>3, <3>1, KeepsInput
  <2>4. CASE pc'[w] # "writing"
    <3>1. pc'[w] \in {"idle", "off"}
      BY <1>4, <2>4 DEF Stage, Finish, Goes
    <3>. QED BY <2>2, <3>1, KeepsInput
  <2>. QED BY <2>3, <2>4
<1>5. CASE WriteStaged(w)
  <2>1. pc'[w] \in {"idle", "off"} /\ UNCHANGED <<claims, store, harmed>>
    BY <1>5 DEF WriteStaged, Finish, Goes
  <2>2. CASE pending' = pending
    BY <2>1, <2>2, KeepsInput
  <2>3. CASE pending' = [intent |-> intents + 1, snapshot |-> job[w].snapshot]
    <3>1. Safe(job[w].snapshot) /\ pending'.snapshot = job[w].snapshot
      BY <1>5, <2>3 DEF WriteStaged, InputInv, UseInv
    <3>2. UseInv(w)'
      BY <2>1 DEF UseInv
    <3>. QED BY <2>1, <3>1, <3>2 DEF OneWorker, InputInv
  <2>. QED BY <1>5, <2>2, <2>3 DEF WriteStaged
<1>6. CASE ClaimMarker(w)
  <2>1. pc'[w] \in {"idle", "off", "applying"} /\ UNCHANGED <<store, harmed>>
    BY <1>6 DEF ClaimMarker, Finish, Goes, history
  <2>2. CASE UNCHANGED <<pending, claims>>
    BY <2>1, <2>2, KeepsInput
  <2>3. CASE /\ pending # NoMarker /\ pending' = NoMarker
             /\ claims' = claims \cup {[marker |-> pending, run |-> job[w].intent, by |-> w]}
    BY <2>1, <2>3 DEF OneWorker, InputInv, UseInv
  <2>. QED BY <1>6, <2>2, <2>3 DEF ClaimMarker
<1>7. CASE ApplyFailed(w)
  <2>1. pc'[w] \in {"idle", "off"} /\ UNCHANGED <<store, harmed>> /\ claims' \subseteq claims
    BY <1>7 DEF ApplyFailed, PutBack, Own, Finish, Exit, Goes, history
  <2>2. CASE pending' = pending
    BY <2>1, <2>2, KeepsInput
  <2>3. CASE \E c \in claims : pending' = c.marker
    <3>1. UseInv(w)'
      BY <2>1 DEF UseInv
    <3>. QED BY <2>1, <2>3, <3>1 DEF OneWorker, InputInv
  <2>. QED BY <1>7, <2>2, <2>3 DEF ApplyFailed, PutBack, Own
<1>8. CASE ApplyDone(w)
  BY <1>8, KeepsInput DEF ApplyDone, Goes, disk, history
<1>9. CASE Acknowledge(w)
  BY <1>9, KeepsInput DEF Acknowledge, Finish, Goes
<1>10. CASE CancelClaims(w)
  BY <1>10, KeepsInput DEF CancelClaims, Finish, Goes
<1>11. CASE DeleteSnapshot(w)
  <2>1. pc'[w] \in {"idle", "off"} /\ job[w].snapshot \in Snapshots
    BY <1>11 DEF DeleteSnapshot, Finish, Goes, JobOK
  <2>2. CASE Remove(job[w].snapshot)
    BY <1>11, <2>1, <2>2, RemovesInput DEF DeleteSnapshot, InputInv, UseInv, history
  <2>. QED BY <1>11, <2>1, <2>2, KeepsInput DEF DeleteSnapshot, history
<1>12. CASE EditEnd(w)
  <2>1. UNCHANGED <<pending, claims, harmed>> /\ \A s \in Snapshots : Safe(s) => Safe(s)'
    BY <1>12 DEF EditEnd, StoreTypeOK, history
  <2>2. CASE pc'[w] # "sweeping"
    <3>1. pc'[w] \in {"idle", "off"}
      BY <1>12, <2>2 DEF EditEnd, Finish, Exit, Goes
    <3>. QED BY <2>1, <3>1, KeepsInput
  <2>3. CASE pc'[w] = "sweeping"
    <3>1. claims = {} /\ Pinned \subseteq keep'[w]
      BY <1>12, <2>3 DEF EditEnd, Indeterminate, Finish, Exit, Goes
    <3>2. pending # NoMarker => pending.snapshot \in keep'[w] \/ pending.snapshot \in harmed
      BY <3>1 DEF Pinned, Readable, InputInv
    <3>3. pending # NoMarker => pending.snapshot \in Snapshots
      BY DEF StoreTypeOK, Marker
    <3>4. UseInv(w)'
      BY <2>1, <2>3, <3>1, <3>2 DEF UseInv
    <3>. QED BY <2>1, <3>1, <3>3, <3>4 DEF OneWorker, InputInv
  <2>. QED BY <2>2, <2>3
<1>13. CASE Sweep(w)
  <2>1. ASSUME NEW s \in Snapshots \ keep[w], Remove(s), UNCHANGED <<host, pc, job, keep, txn>>
        PROVE  InputInv'
    <3>1. /\ claims = {} /\ pc'[w] = "sweeping" /\ pc[w] = "sweeping"
          /\ pending # NoMarker => pending.snapshot # s \/ pending.snapshot \in harmed
      BY <1>13, <2>1 DEF Sweep, InputInv, UseInv
    <3>. QED BY <1>13, <2>1, <3>1, RemovesInput DEF Sweep, history
  <2>2. CASE Finish(w) /\ UNCHANGED store
    BY <1>13, <2>2, KeepsInput DEF Sweep, Finish, Goes, history
  <2>. QED BY <1>13, <2>1, <2>2 DEF Sweep
<1>. QED
  BY <1>1, <1>2, <1>3, <1>4, <1>5, <1>6, <1>7, <1>8, <1>9, <1>10, <1>11, <1>12, <1>13 DEF Progress

LEMMA RequestInput ==
  ASSUME OneWorker, TypeInv, InputInv, NEW w \in Workers, Request(w)
  PROVE  InputInv'
<1>. USE DEF TypeInv, WorkerTypeOK, Safe, Valid
<1>1. CASE ApplyStaged(w)
  BY <1>1, KeepsInput DEF ApplyStaged, Goes, disk, history
<1>2. CASE CancelStaged(w)
  BY <1>2, KeepsInput DEF CancelStaged, Goes
<1>3. CASE Quarantine(w)
  BY <1>3, KeepsInput DEF Quarantine, workers, history
<1>4. CASE Edit(w)
  BY <1>4, KeepsInput DEF Edit, Goes, disk, history
<1>5. ASSUME NEW s \in Snapshots, Restore(w, s) PROVE InputInv'
  BY <1>5, KeepsInput DEF Restore, Goes, disk, history
<1>6. ASSUME NEW s \in Snapshots, Backup(w, s) PROVE InputInv'
  BY <1>6, KeepsInput DEF Backup, StoreTypeOK, workers, history
<1>7. ASSUME NEW s \in Snapshots, Delete(w, s) PROVE InputInv'
  <2>1. /\ pc'[w] = "deleting" /\ job'[w].snapshot = s /\ claims = {}
        /\ UNCHANGED <<store, pending, claims, harmed>> /\ ~(Readable /\ pending.snapshot = s)
    BY <1>7 DEF Delete, Indeterminate, Goes, NoJob, disk, history
  <2>2. pending # NoMarker => pending.snapshot # s \/ pending.snapshot \in harmed
    BY <2>1 DEF Readable, InputInv
  <2>3. UseInv(w)'
    BY <2>1, <2>2 DEF UseInv
  <2>. QED BY <2>1, <2>3 DEF OneWorker, InputInv
<1>. QED BY <1>1, <1>2, <1>3, <1>4, <1>5, <1>6, <1>7 DEF Request

LEMMA EnvironmentInput ==
  ASSUME OneWorker, TypeInv, InputInv, Environment
  PROVE  InputInv'
<1>. USE DEF TypeInv, WorkerTypeOK, Safe, Valid
<1>1. ASSUME NEW w \in Workers, StartWorker(w) PROVE InputInv'
  BY <1>1, KeepsInput DEF StartWorker, Goes, disk, history
<1>2. ASSUME NEW w \in Workers, KillWorker(w) PROVE InputInv'
  BY <1>2, KeepsInput DEF KillWorker, Exit, Goes, history
<1>3. CASE HostDies
  BY <1>3, KeepsInput DEF HostDies, disk, history
<1>4. CASE ToggleGame
  BY <1>4 DEF ToggleGame, InputInv, UseInv, disk, workers, history
<1>5. ASSUME NEW s \in Snapshots, Harm(s) PROVE InputInv'
  <2>1. UNCHANGED <<pending, claims, pc, job, keep>> /\ harmed' = harmed \cup {s}
    BY <1>5 DEF Harm, workers
  <2>2. \A r \in Snapshots : Safe(r) => Safe(r)'
    BY <1>5 DEF Harm, StoreTypeOK
  <2>4. CASE Workers = {}
    <3>1. pending # NoMarker => pending.snapshot \in Snapshots
      BY DEF StoreTypeOK, Marker
    <3>2. \A c \in claims : c.marker.snapshot \in Snapshots
      BY DEF StoreTypeOK, Claim, Marker
    <3>3. pending' = pending /\ claims' = claims
      BY <2>1
    <3>4. pending' # NoMarker => Safe(pending.snapshot)'
      BY <2>2, <3>1, <3>3 DEF InputInv
    <3>5. \A c \in claims' : Safe(c.marker.snapshot)'
      BY <2>2, <3>2, <3>3 DEF InputInv
    <3>. QED BY <2>4, <3>3, <3>4, <3>5 DEF InputInv
  <2>5. CASE Workers # {}
    <3>1. PICK w \in Workers : TRUE BY <2>5
    <3>. QED BY <2>1, <2>2, <3>1, KeepsInput
  <2>. QED BY <2>4, <2>5
<1>. QED BY <1>1, <1>2, <1>3, <1>4, <1>5 DEF Environment

LEMMA StepInput ==
  ASSUME OneWorker, TypeInv, InputInv, [Next]_vars
  PROVE  InputInv'
<1>1. CASE UNCHANGED vars
  BY <1>1 DEF InputInv, UseInv, Safe, Valid, vars, disk, workers, history
<1>. QED BY <1>1, RequestInput, ProgressInput, EnvironmentInput DEF Next

(* While one worker at a time handles snapshots, neither a deletion nor a     *)
(* sweep ever takes the snapshot of a staged restore away: it is there and    *)
(* valid, unless something outside harmed it (delete_snapshot, the pin of the *)
(* retention).                                                                *)
THEOREM InputKeptAlone == OneWorker => (Spec => []InputKept)
<1>. SUFFICES ASSUME OneWorker PROVE Spec => []InputKept
  OBVIOUS
<1>1. TypeInv /\ InputInv /\ [Next]_vars => InputInv'
  BY StepInput
<1>. QED BY <1>1, StagedTypes, InitInput, InputInvIsInputKept, PTL DEF Spec
================================================================================
