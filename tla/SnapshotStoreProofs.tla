-------------------------- MODULE SnapshotStoreProofs --------------------------
(* Theorems about SnapshotStore for every set of files, every number of      *)
(* snapshots, attempts and states of the save, and every budget.             *)
EXTENDS SnapshotStore, FiniteSetTheorems, WellFoundedInduction, TLAPS

Saves     == UNION {[files -> Nat] : files \in SUBSET Files}
Sizes     == {Cardinality(files) : files \in SUBSET Files}
Origins   == {"manual", "automaticPreEdit", "preRestore", "unclassified"}
Manifests == [origin : Origins, protected : BOOLEAN, retentionEligible : BOOLEAN,
              size : Sizes, valid : BOOLEAN]
Jobs == [origin : Origins, retries : Nat, todo : SUBSET Files, before : Nat, copied : Saves,
         id : Nat, keep : SUBSET Nat, hold : BOOLEAN, rows : SUBSET Nat, left : SUBSET Nat]
Stages == {"idle", "resolving", "copying", "verifying", "publishing", "applying",
           "checkpoint", "confirming", "sweeping"}

StoreTypeOK ==
  /\ used \in Nat /\ DOMAIN snapshots \subseteq 1 .. used
  /\ snapshots \in [DOMAIN snapshots -> Manifests]
  /\ pending \in Nat /\ unsure \in BOOLEAN /\ recovery \in BOOLEAN
  /\ policy \in [budget : Policies, valid : BOOLEAN]

RequestTypeOK ==
  /\ trail \in Seq(Saves) /\ pc \in Stages /\ job \in Jobs
  /\ pc \in {"resolving", "copying", "verifying"} => trail # <<>>
  /\ pc = "copying" => job.todo # {}

TypeInv == StoreTypeOK /\ RequestTypeOK

--------------------------------------------------------------------------------
(* The operators on functions.                                               *)
LEMMA SaveFacts ==
  ASSUME NEW save \in Saves
  PROVE  /\ DOMAIN save \subseteq Files /\ save \in [DOMAIN save -> Nat]
         /\ \A other \in Saves : DOMAIN other = DOMAIN save /\ (\A f \in DOMAIN save : other[f] = save[f])
                                   => other = save
<1>1. DOMAIN save \subseteq Files /\ save \in [DOMAIN save -> Nat]
  BY DEF Saves
<1>2. ASSUME NEW other \in Saves, DOMAIN other = DOMAIN save, \A f \in DOMAIN save : other[f] = save[f]
      PROVE  other = save
  <2>1. other \in [DOMAIN save -> Nat]
    BY <1>2 DEF Saves
  <2>. QED BY <1>1, <1>2, <2>1
<1>. QED BY <1>1, <1>2

LEMMA IsSave ==
  ASSUME NEW files \in SUBSET Files, NEW save \in [files -> Nat]
  PROVE  save \in Saves
BY DEF Saves

LEMMA PutSave ==
  ASSUME NEW save \in Saves, NEW f \in Files, NEW n \in Nat
  PROVE  /\ Put(save, f, n) \in Saves
         /\ DOMAIN Put(save, f, n) = DOMAIN save \cup {f}
         /\ \A g \in DOMAIN save \cup {f} : Put(save, f, n)[g] = IF g = f THEN n ELSE save[g]
<1>1. Put(save, f, n) \in [DOMAIN save \cup {f} -> Nat]
  BY SaveFacts DEF Put
<1>2. DOMAIN save \cup {f} \in SUBSET Files
  BY SaveFacts
<1>. QED BY <1>1, <1>2, IsSave DEF Put

LEMMA RemovedSave ==
  ASSUME NEW save \in Saves, NEW f
  PROVE  /\ Removed(save, f) \in Saves
         /\ DOMAIN Removed(save, f) = DOMAIN save \ {f}
         /\ \A g \in DOMAIN save \ {f} : Removed(save, f)[g] = save[g]
<1>1. Removed(save, f) \in [DOMAIN save \ {f} -> Nat]
  BY SaveFacts DEF Removed
<1>2. DOMAIN save \ {f} \in SUBSET Files
  BY SaveFacts
<1>. QED BY <1>1, <1>2, IsSave DEF Removed

LEMMA FirstSaves ==
  /\ NoSave \in Saves
  /\ \A files \in SUBSET Files : /\ Afresh(files) \in Saves /\ DOMAIN Afresh(files) = files
                                 /\ \A f \in files : Afresh(files)[f] = 1
BY DEF Saves, NoSave, Afresh

LEMMA PutSnapshot ==
  ASSUME StoreTypeOK, NEW id \in Nat \ {0}, NEW manifest \in Manifests
  PROVE  /\ DOMAIN Put(snapshots, id, manifest) = DOMAIN snapshots \cup {id}
         /\ Put(snapshots, id, manifest) \in [DOMAIN snapshots \cup {id} -> Manifests]
BY DEF Put, StoreTypeOK

LEMMA Values ==
  /\ NoJob \in Jobs
  /\ Legacy \in Manifests /\ Legacy.protected /\ Legacy.valid
  /\ \A origin \in Origins, files \in SUBSET Files : \A named \in MayBeNamed(origin) :
       LET new == Manifest(origin, named, Cardinality(files)) IN
       /\ new \in Manifests /\ new.valid /\ new.origin = origin /\ ~new.retentionEligible
       /\ new.protected = (origin # "automaticPreEdit")
<1>1. Cardinality(Files) \in Sizes /\ \A files \in SUBSET Files : Cardinality(files) \in Sizes
  BY DEF Sizes
<1>2. NoJob \in Jobs
  BY FirstSaves DEF NoJob, Jobs, Origins, NoId
<1>3. Legacy \in Manifests /\ Legacy.protected /\ Legacy.valid
  BY <1>1 DEF Legacy, Manifests, Origins
<1>. QED BY <1>1, <1>2, <1>3 DEF Manifest, Manifests, MayBeNamed

LEMMA InitTypes == Init => TypeInv
<1>. SUFFICES ASSUME Init PROVE TypeInv
  OBVIOUS
<1>1. StoreTypeOK
  <2>1. snapshots \in [DOMAIN snapshots -> Manifests] /\ used \in Nat /\ DOMAIN snapshots \subseteq 1 .. used
    <3>1. CASE snapshots = [id \in {} |-> Legacy] /\ used = 0
      BY <3>1
    <3>2. CASE snapshots = [id \in {1} |-> Legacy] /\ used = 1
      BY <3>2, Values
    <3>. QED BY <3>1, <3>2 DEF Init
  <2>2. policy \in [budget : Policies, valid : BOOLEAN]
    BY DEF Init
  <2>. QED BY <2>1, <2>2 DEF Init, StoreTypeOK, NoId
<1>2. RequestTypeOK
  BY Values DEF Init, RequestTypeOK, Stages
<1>. QED BY <1>1, <1>2 DEF TypeInv

(* The present state of the save, and the file that is its turn.             *)
LEMMA Present ==
  ASSUME RequestTypeOK, trail # <<>>
  PROVE  Len(trail) \in DOMAIN trail /\ Live \in Saves
BY DEF RequestTypeOK, Live

LEMMA Turn ==
  ASSUME RequestTypeOK, job.todo # {}
  PROVE  First(job.todo) \in job.todo /\ First(job.todo) \in Files
BY DEF RequestTypeOK, Jobs, First

(* How a step of a request leaves the worker.                                *)
LEMMA GoTypes ==
  ASSUME RequestTypeOK, NEW stage \in Stages, NEW next \in Jobs, Go(stage, next),
         stage \in {"resolving", "copying", "verifying"} => trail # <<>>,
         stage = "copying" => next.todo # {}
  PROVE  RequestTypeOK'
BY DEF RequestTypeOK, Go

LEMMA DoneTypes == RequestTypeOK /\ Done => RequestTypeOK'
BY Values DEF RequestTypeOK, Done, Stages

LEMMA RaceTypes == RequestTypeOK /\ pc \in {"copying", "verifying"} /\ Race => RequestTypeOK'
<1>. SUFFICES ASSUME RequestTypeOK, pc \in {"copying", "verifying"}, Race PROVE RequestTypeOK'
  OBVIOUS
<1>1. CASE job.retries > 0
  <2>. DEFINE again == [job EXCEPT !.retries = @ - 1, !.todo = {}, !.before = 0, !.copied = NoSave]
  <2>. job.retries - 1 \in Nat
    BY <1>1 DEF RequestTypeOK, Jobs
  <2>1. again \in Jobs
    BY FirstSaves DEF RequestTypeOK, Jobs
  <2>2. Go("resolving", again)
    BY <1>1 DEF Race
  <2>. QED BY <2>1, <2>2, GoTypes DEF RequestTypeOK, Stages
<1>2. CASE ~(job.retries > 0)
  BY <1>2, DoneTypes DEF Race
<1>. QED BY <1>1, <1>2

LEMMA CreateTypes == TypeInv /\ Create => RequestTypeOK'
<1>. SUFFICES ASSUME TypeInv, Create PROVE RequestTypeOK'
  OBVIOUS
<1>1. CASE Backup
  <2>1. trail' \in Seq(Saves) /\ trail' # <<>>
    BY <1>1, FirstSaves DEF Backup
  <2>2. job' \in Jobs
    BY <1>1, Values, BoundsAssumption DEF Backup, Jobs
  <2>. QED BY <1>1, <2>1, <2>2 DEF Backup, RequestTypeOK, Stages
<1>2. CASE Resolve
  <2>1. CASE DOMAIN Live = {}
    BY <1>2, <2>1, DoneTypes DEF Resolve, TypeInv
  <2>2. CASE DOMAIN Live # {}
    <3>1. trail # <<>>
      BY <1>2 DEF Resolve, TypeInv, RequestTypeOK
    <3>2. [job EXCEPT !.todo = DOMAIN Live] \in Jobs
      BY <3>1, Present, SaveFacts DEF TypeInv, RequestTypeOK, Jobs
    <3>3. [job EXCEPT !.todo = DOMAIN Live].todo = DOMAIN Live
      BY DEF TypeInv, RequestTypeOK, Jobs
    <3>. QED BY <1>2, <2>2, <3>1, <3>2, <3>3, GoTypes DEF Resolve, TypeInv, Stages
  <2>. QED BY <2>1, <2>2
<1>3. CASE HashBefore
  <2>. DEFINE f == First(job.todo)
  <2>1. trail # <<>> /\ job.todo # {}
    BY <1>3 DEF HashBefore, TypeInv, RequestTypeOK
  <2>2. CASE f \in DOMAIN Live
    <3>1. [job EXCEPT !.before = Live[f]] \in Jobs
      <4>1. job \in Jobs
        BY <2>1 DEF TypeInv, RequestTypeOK
      <4>2. Live \in Saves
        BY <2>1, Present DEF TypeInv
      <4>3. Live \in [DOMAIN Live -> Nat]
        BY <4>2, SaveFacts
      <4>4. Live[f] \in Nat
        BY <4>3, <2>2
      <4>. QED BY <4>1, <4>4 DEF Jobs
    <3>2. [job EXCEPT !.before = Live[f]].todo = job.todo
      BY DEF TypeInv, RequestTypeOK, Jobs
    <3>. QED BY <1>3, <2>1, <2>2, <3>1, <3>2, GoTypes DEF HashBefore, TypeInv, Stages
  <2>3. CASE f \notin DOMAIN Live
    BY <1>3, <2>3, DoneTypes DEF HashBefore, TypeInv
  <2>. QED BY <2>2, <2>3
<1>4. CASE CopyFile
  <2>. DEFINE f == First(job.todo)
              next == [job EXCEPT !.before = 0, !.todo = @ \ {f}, !.copied = Put(@, f, Live[f])]
  <2>1. trail # <<>> /\ job.todo # {} /\ pc = "copying"
    BY <1>4 DEF CopyFile, TypeInv, RequestTypeOK
  <2>2. CASE f \notin DOMAIN Live
    BY <1>4, <2>2, DoneTypes DEF CopyFile, TypeInv
  <2>3. CASE f \in DOMAIN Live /\ Live[f] # job.before
    BY <1>4, <2>1, <2>3, RaceTypes DEF CopyFile, TypeInv
  <2>4. CASE f \in DOMAIN Live /\ Live[f] = job.before
    <3>1. Put(job.copied, f, Live[f]) \in Saves
      BY <2>1, <2>4, Present, Turn, SaveFacts, PutSave DEF TypeInv, RequestTypeOK, Jobs
    <3>2. next \in Jobs /\ next.todo = job.todo \ {f}
      BY <3>1 DEF TypeInv, RequestTypeOK, Jobs
    <3>3. Go(IF job.todo = {f} THEN "verifying" ELSE "copying", next)
      BY <1>4, <2>4 DEF CopyFile
    <3>4. job.todo # {f} => next.todo # {}
      BY <2>1, <3>2, Turn DEF TypeInv
    <3>. QED BY <2>1, <3>2, <3>3, <3>4, GoTypes DEF TypeInv, Stages
  <2>. QED BY <2>2, <2>3, <2>4
<1>5. CASE VerifyCopy
  <2>. DEFINE f == First(job.todo)
              next == [job EXCEPT !.todo = @ \ {f}]
              begun == [job EXCEPT !.todo = DOMAIN Live]
  <2>1. trail # <<>> /\ pc = "verifying"
    BY <1>5 DEF VerifyCopy, TypeInv, RequestTypeOK
  <2>2. CASE Done
    BY <2>2, DoneTypes DEF TypeInv
  <2>3. CASE Race
    BY <2>1, <2>3, RaceTypes DEF TypeInv
  <2>4. CASE Go("verifying", begun)
    <3>1. begun \in Jobs
      BY <2>1, Present, SaveFacts DEF TypeInv, RequestTypeOK, Jobs
    <3>. QED BY <2>1, <2>4, <3>1, GoTypes DEF TypeInv, Stages
  <2>5. CASE Go(IF job.todo = {f} THEN "publishing" ELSE "verifying", next)
    <3>1. next \in Jobs
      BY DEF TypeInv, RequestTypeOK, Jobs
    <3>. QED BY <2>1, <2>5, <3>1, GoTypes DEF TypeInv, Stages
  <2>. QED BY <1>5, <2>2, <2>3, <2>4, <2>5 DEF VerifyCopy
<1>6. CASE Publish
  <2>1. CASE Done
    BY <2>1, DoneTypes DEF TypeInv
  <2>2. CASE used' = used + 1 /\ Go("applying", [job EXCEPT !.id = used'])
    <3>. used' \in Nat
      BY <2>2 DEF TypeInv, StoreTypeOK
    <3>1. [job EXCEPT !.id = used'] \in Jobs
      BY DEF TypeInv, RequestTypeOK, Jobs
    <3>. QED BY <2>2, <3>1, GoTypes DEF TypeInv, Stages
  <2>. QED BY <1>6, <2>1, <2>2 DEF Publish
<1>. QED BY <1>1, <1>2, <1>3, <1>4, <1>5, <1>6 DEF Create

(* What may be done to the manifests.                                        *)
LEMMA DamagedStore ==
  ASSUME StoreTypeOK, NEW id
  PROVE  /\ DOMAIN Damaged(id) = DOMAIN snapshots /\ Damaged(id) \in [DOMAIN snapshots -> Manifests]
         /\ \A i \in DOMAIN snapshots \ {id} : Damaged(id)[i] = snapshots[i]
         /\ \A i \in DOMAIN snapshots : /\ Damaged(id)[i].valid => snapshots[i].valid
                                        /\ Damaged(id)[i].origin = snapshots[i].origin
                                        /\ Damaged(id)[i].protected = snapshots[i].protected
                                        /\ Damaged(id)[i].retentionEligible = snapshots[i].retentionEligible
<1>. DEFINE harmed == [snapshots[id] EXCEPT !.valid = FALSE]
<1>1. /\ DOMAIN Damaged(id) = DOMAIN snapshots
      /\ \A i \in DOMAIN snapshots : Damaged(id)[i] = IF i = id THEN harmed ELSE snapshots[i]
  BY DEF Damaged, StoreTypeOK
<1>2. id \in DOMAIN snapshots =>
        /\ harmed \in Manifests /\ ~harmed.valid /\ harmed.origin = snapshots[id].origin
        /\ harmed.protected = snapshots[id].protected
        /\ harmed.retentionEligible = snapshots[id].retentionEligible
  BY DEF StoreTypeOK, Manifests
<1>3. Damaged(id) = [i \in DOMAIN snapshots |-> IF i = id THEN harmed ELSE snapshots[i]]
  BY DEF Damaged
<1>4. Damaged(id) \in [DOMAIN snapshots -> Manifests]
  <2>. HIDE DEF harmed
  <2>. QED BY <1>2, <1>3 DEF StoreTypeOK
<1>. QED BY <1>1, <1>2, <1>4

LEMMA UpdatedStore ==
  ASSUME StoreTypeOK, NEW id, NEW manifest \in Manifests, Update(id, manifest)
  PROVE  /\ id \in DOMAIN snapshots /\ snapshots[id].valid
         /\ DOMAIN snapshots' = DOMAIN snapshots /\ snapshots' \in [DOMAIN snapshots -> Manifests]
         /\ snapshots'[id] = manifest /\ \A i \in DOMAIN snapshots \ {id} : snapshots'[i] = snapshots[i]
BY DEF StoreTypeOK, Update, Valid

LEMMA DeletedStore ==
  ASSUME StoreTypeOK, NEW id
  PROVE  /\ DOMAIN Deleted(id) = DOMAIN snapshots \ {id}
         /\ Deleted(id) \in [DOMAIN snapshots \ {id} -> Manifests]
         /\ \A i \in DOMAIN snapshots \ {id} : Deleted(id)[i] = snapshots[i]
BY DEF StoreTypeOK, Deleted

LEMMA Changed ==
  ASSUME StoreTypeOK, NEW id \in DOMAIN snapshots
  PROVE  /\ \A keep \in BOOLEAN :
              LET kept == [snapshots[id] EXCEPT !.protected = keep] IN
              /\ kept \in Manifests /\ kept.protected = keep /\ kept.valid = snapshots[id].valid
              /\ kept.origin = snapshots[id].origin
              /\ kept.retentionEligible = snapshots[id].retentionEligible
         /\ LET new == Confirmed(snapshots[id]) IN
              /\ new \in Manifests /\ new.protected = snapshots[id].protected /\ new.valid = snapshots[id].valid
              /\ new.origin = snapshots[id].origin /\ new.retentionEligible
BY DEF StoreTypeOK, Manifests, Confirmed

LEMMA StoreTypes == TypeInv /\ Next => StoreTypeOK'
<1>. SUFFICES ASSUME TypeInv, Next PROVE StoreTypeOK'
  OBVIOUS
<1>. USE DEF TypeInv
<1>1. ASSUME UNCHANGED <<snapshots, used>>, pending' \in Nat, unsure' \in BOOLEAN, recovery' \in BOOLEAN,
             policy' \in [budget : Policies, valid : BOOLEAN]
      PROVE  StoreTypeOK'
  BY <1>1 DEF StoreTypeOK
<1>2. ASSUME NEW id, snapshots' \in {snapshots, Damaged(id), Deleted(id)}, used' = used,
             pending' \in Nat, unsure' \in BOOLEAN, recovery' \in BOOLEAN,
             policy' \in [budget : Policies, valid : BOOLEAN]
      PROVE  StoreTypeOK'
  <2>1. CASE snapshots' = snapshots
    BY <1>2, <2>1 DEF StoreTypeOK
  <2>2. CASE snapshots' = Damaged(id)
    BY <1>2, <2>2, DamagedStore DEF StoreTypeOK
  <2>3. CASE snapshots' = Deleted(id)
    BY <1>2, <2>3, DeletedStore DEF StoreTypeOK
  <2>. QED BY <1>2, <2>1, <2>2, <2>3
<1>3. ASSUME UNCHANGED <<disk, used>>, NEW id, NEW manifest \in Manifests, Update(id, manifest)
      PROVE  StoreTypeOK'
  BY <1>3, UpdatedStore DEF StoreTypeOK, disk
<1>4. CASE Create
  <2>1. CASE UNCHANGED <<disk, snapshots, used>>
    BY <1>1, <2>1 DEF StoreTypeOK, disk
  <2>2. CASE Publish /\ used' = used + 1
    <3>0. PICK named \in MayBeNamed(job.origin) :
            snapshots' = Put(snapshots, used', Manifest(job.origin, named, Cardinality(DOMAIN job.copied)))
      BY <2>2 DEF Publish, StoreTypeOK
    <3>. DEFINE new == Manifest(job.origin, named, Cardinality(DOMAIN job.copied))
    <3>1. new \in Manifests
      BY <3>0, Values, SaveFacts DEF RequestTypeOK, Jobs
    <3>2. used' \in Nat \ {0} /\ 1 .. used' = (1 .. used) \cup {used'}
      BY <2>2 DEF StoreTypeOK
    <3>3. snapshots' = Put(snapshots, used', new) /\ UNCHANGED disk
      BY <3>0, <2>2 DEF Publish, StoreTypeOK
    <3>. HIDE DEF new
    <3>4. snapshots' \in [DOMAIN snapshots \cup {used'} -> Manifests]
      BY <3>1, <3>2, <3>3, PutSnapshot
    <3>5. DOMAIN snapshots' = DOMAIN snapshots \cup {used'}
      BY <3>4
    <3>. QED BY <3>2, <3>3, <3>4, <3>5 DEF StoreTypeOK, disk
  <2>. QED BY <1>4, <2>1, <2>2 DEF Create, Backup, Resolve, HashBefore, CopyFile, VerifyCopy, Publish
<1>5. CASE Edit
  <2>1. Pending \in Nat
    BY DEF Pending, NoId, StoreTypeOK
  <2>. QED BY <1>1, <1>5, <2>1 DEF Edit, BeginEdit, ApplyEdit, EditFails, Checkpoint, StoreTypeOK, disk
<1>6. CASE Retention
  <2>1. CASE Confirm
    <3>1. CASE ~Valid(job.id)
      BY <1>1, <2>1, <3>1 DEF Confirm, StoreTypeOK, disk
    <3>2. CASE Valid(job.id)
      <4>1. Confirmed(snapshots[job.id]) \in Manifests
        BY <3>2, Changed DEF Valid
      <4>. QED BY <1>3, <2>1, <3>2, <4>1 DEF Confirm
    <3>. QED BY <3>1, <3>2
  <2>2. CASE Sweep
    BY <1>2, <2>2 DEF Sweep, StoreTypeOK, disk
  <2>3. CASE RemovalFails
    BY <1>2, <2>3 DEF RemovalFails, StoreTypeOK, disk
  <2>4. CASE EndSweep \/ CleanupFails
    BY <1>1, <2>4 DEF EndSweep, CleanupFails, StoreTypeOK, disk
  <2>. QED BY <1>6, <2>1, <2>2, <2>3, <2>4 DEF Retention
<1>7. CASE Manage
  <2>1. CASE Rename
    <3>. PICK id \in DOMAIN snapshots : Update(id, [snapshots[id] EXCEPT !.protected = TRUE])
      BY <2>1 DEF Rename
    <3>. QED BY <1>3, <2>1, Changed DEF Rename
  <2>2. CASE Protect
    <3>. PICK id \in DOMAIN snapshots, keep \in BOOLEAN : Update(id, [snapshots[id] EXCEPT !.protected = keep])
      BY <2>2 DEF Protect
    <3>. QED BY <1>3, <2>2, Changed DEF Protect
  <2>3. CASE Delete
    <3>1. Pending \in Nat
      BY DEF Pending, NoId, StoreTypeOK
    <3>2. \E id : snapshots' \in {Damaged(id), Deleted(id)}
      BY <2>3 DEF Delete
    <3>3. pending' = Pending /\ UNCHANGED <<unsure, recovery, policy, used>>
      BY <2>3 DEF Delete
    <3>. QED BY <1>2, <3>1, <3>2, <3>3 DEF StoreTypeOK
  <2>4. CASE ConfigureRetention
    BY <1>1, <2>4 DEF ConfigureRetention, StoreTypeOK
  <2>5. CASE StageRestore
    BY <1>1, <2>5 DEF StageRestore, StoreTypeOK
  <2>6. CASE ApplyStaged \/ CancelStaged
    <3>1. pending' \in Nat
      BY <2>6 DEF ApplyStaged, CancelStaged, StoreTypeOK, NoId
    <3>2. unsure' \in BOOLEAN
      BY <2>6 DEF ApplyStaged, CancelStaged, StoreTypeOK
    <3>3. UNCHANGED <<snapshots, used, recovery, policy>>
      BY <2>6 DEF ApplyStaged, CancelStaged
    <3>. QED BY <1>1, <3>1, <3>2, <3>3 DEF StoreTypeOK
  <2>. QED BY <1>7, <2>1, <2>2, <2>3, <2>4, <2>5, <2>6 DEF Manage
<1>8. CASE Crash
  <2>1. recovery' \in BOOLEAN /\ UNCHANGED <<pending, unsure, policy, used>>
    BY <1>8 DEF Crash, StoreTypeOK
  <2>2. \E id : snapshots' \in {snapshots, Damaged(id)}
    BY <1>8 DEF Crash
  <2>. QED BY <1>2, <2>1, <2>2 DEF StoreTypeOK
<1>9. CASE GameWrites \/ RecoveryResolved
  BY <1>1, <1>9 DEF GameWrites, RecoveryResolved, StoreTypeOK
<1>10. CASE Harm
  <2>1. policy' \in [budget : Policies, valid : BOOLEAN]
    BY <1>10 DEF Harm, StoreTypeOK
  <2>. QED BY <1>2, <1>10, <2>1 DEF Harm, StoreTypeOK
<1>. QED BY <1>4, <1>5, <1>6, <1>7, <1>8, <1>9, <1>10 DEF Next

(* A write of the game keeps a file as it is or gives it a new content.      *)
LEMMA Writes ==
  ASSUME TypeInv, GameWrites
  PROVE  /\ trail # <<>>
         /\ \E save \in Saves :
              /\ trail' = Append(trail, save)
              /\ \A g \in DOMAIN save : \/ save[g] = Len(trail) + 1
                                        \/ g \in DOMAIN Live /\ save[g] = Live[g]
<1>. PICK f \in Files : \/ Becomes(Rewritten(Live, f))
                        \/ f \in DOMAIN Live /\ Becomes(Removed(Live, f))
  BY DEF GameWrites
<1>1. trail # <<>>
  BY DEF GameWrites, TypeInv, RequestTypeOK
<1>2. Live \in Saves /\ Len(trail) + 1 \in Nat
  BY <1>1, Present DEF TypeInv, RequestTypeOK
<1>3. CASE Becomes(Rewritten(Live, f))
  <2>1. /\ Rewritten(Live, f) \in Saves
        /\ \A g \in DOMAIN Rewritten(Live, f) : \/ Rewritten(Live, f)[g] = Len(trail) + 1
                                                \/ g \in DOMAIN Live /\ Rewritten(Live, f)[g] = Live[g]
    <3>. DEFINE n == Len(trail) + 1
    <3>. HIDE DEF n
    <3>1. n \in Nat /\ Rewritten(Live, f) = Put(Live, f, n) /\ Live \in Saves
      BY <1>2 DEF n, Rewritten
    <3>2. /\ Put(Live, f, n) \in Saves /\ DOMAIN Put(Live, f, n) = DOMAIN Live \cup {f}
          /\ \A g \in DOMAIN Live \cup {f} : Put(Live, f, n)[g] = IF g = f THEN n ELSE Live[g]
      BY <3>1, PutSave
    <3>3. \A g \in DOMAIN Put(Live, f, n) : \/ Put(Live, f, n)[g] = n
                                            \/ g \in DOMAIN Live /\ Put(Live, f, n)[g] = Live[g]
      BY <3>2
    <3>. QED BY <3>1, <3>2, <3>3 DEF n
  <2>. QED BY <1>1, <1>3, <2>1 DEF Becomes
<1>4. CASE Becomes(Removed(Live, f))
  <2>1. /\ Removed(Live, f) \in Saves
        /\ \A g \in DOMAIN Removed(Live, f) : g \in DOMAIN Live /\ Removed(Live, f)[g] = Live[g]
    BY <1>2, RemovedSave
  <2>. QED BY <1>1, <1>4, <2>1 DEF Becomes
<1>. QED BY <1>3, <1>4

LEMMA RequestTypes == TypeInv /\ Next => RequestTypeOK'
<1>. SUFFICES ASSUME TypeInv, Next PROVE RequestTypeOK'
  OBVIOUS
<1>. USE DEF TypeInv
<1>1. CASE Create
  BY <1>1, CreateTypes
<1>2. CASE UNCHANGED <<trail, pc, job>>
  BY <1>2 DEF RequestTypeOK
<1>3. CASE Done
  BY <1>3, DoneTypes
<1>4. ASSUME NEW stage \in {"checkpoint", "confirming", "sweeping"}, NEW next \in Jobs, Go(stage, next)
      PROVE  RequestTypeOK'
  BY <1>4, GoTypes DEF Stages
<1>5. CASE Edit
  <2>1. CASE BeginEdit
    <3>. PICK origin \in {"automaticPreEdit", "preRestore"}, files \in (SUBSET Files) \ {{}} :
           /\ trail' = <<Afresh(files)>> /\ pc' = "publishing"
           /\ job' = [NoJob EXCEPT !.origin = origin, !.copied = Afresh(files)]
      BY <2>1 DEF BeginEdit
    <3>1. Afresh(files) \in Saves
      BY FirstSaves
    <3>2. job' \in Jobs
      BY <3>1, Values DEF Jobs, Origins
    <3>. QED BY <3>1, <3>2 DEF RequestTypeOK, Stages
  <2>2. CASE ApplyEdit
    BY <1>3, <1>4, <2>2 DEF ApplyEdit, RequestTypeOK
  <2>3. CASE Checkpoint
    <3>. DEFINE next == [job EXCEPT !.keep = {Pending, job.id} \ {NoId}, !.hold = recovery \/ unsure]
    <3>1. Pending \in Nat /\ (recovery \/ unsure) \in BOOLEAN
      BY DEF Pending, NoId, StoreTypeOK
    <3>2. next \in Jobs
      BY <3>1 DEF RequestTypeOK, Jobs
    <3>. QED BY <1>4, <2>3, <3>2 DEF Checkpoint
  <2>. QED BY <1>3, <1>5, <2>1, <2>2, <2>3 DEF Edit, EditFails
<1>6. CASE Retention
  <2>1. CASE Confirm
    <3>1. CASE Go("sweeping", [job EXCEPT !.rows = Eligible', !.left = Eligible'])
      <4>1. Eligible' \subseteq DOMAIN snapshots'
        BY DEF Eligible, Inventory
      <4>2. Eligible' \in SUBSET Nat
        BY <4>1, StoreTypes DEF StoreTypeOK
      <4>3. [job EXCEPT !.rows = Eligible', !.left = Eligible'] \in Jobs
        BY <4>2 DEF RequestTypeOK, Jobs
      <4>. QED BY <1>4, <3>1, <4>3
    <3>. QED BY <1>3, <2>1, <3>1 DEF Confirm
  <2>2. CASE Sweep
    <3>. DEFINE next == [job EXCEPT !.left = @ \ {Oldest},
                                    !.rows = IF Spared(Oldest) THEN @ ELSE @ \ {Oldest}]
    <3>1. next \in Jobs
      BY DEF RequestTypeOK, Jobs
    <3>. QED BY <1>4, <2>2, <3>1 DEF Sweep
  <2>. QED BY <1>3, <1>6, <2>1, <2>2 DEF Retention, EndSweep, RemovalFails, CleanupFails
<1>7. CASE Manage
  BY <1>2, <1>7 DEF Manage, Rename, Protect, Delete, ConfigureRetention, StageRestore, ApplyStaged,
                    CancelStaged
<1>8. CASE GameWrites
  <2>. PICK save \in Saves : trail' = Append(trail, save)
    BY <1>8, Writes
  <2>1. trail' \in Seq(Saves) /\ trail' # <<>>
    BY DEF RequestTypeOK
  <2>. QED BY <1>8, <2>1 DEF GameWrites, RequestTypeOK
<1>9. CASE Crash \/ Harm \/ RecoveryResolved
  BY <1>2, <1>3, <1>9 DEF Crash, Harm, RecoveryResolved
<1>. QED BY <1>1, <1>5, <1>6, <1>7, <1>8, <1>9 DEF Next

(* Type correctness: what the manifests, the markers and the worker's        *)
(* request can be, whatever is interrupted or damaged (save_snapshots.py,    *)
(* save_retention.py).                                                       *)
THEOREM Types == Spec => []TypeInv
<1>1. TypeInv /\ UNCHANGED vars => TypeInv'
  BY DEF TypeInv, StoreTypeOK, RequestTypeOK, vars, disk
<1>2. TypeInv /\ [Next]_vars => TypeInv'
  BY <1>1, StoreTypes, RequestTypes DEF TypeInv
<1>. QED BY <1>2, InitTypes, PTL DEF Spec

--------------------------------------------------------------------------------
(* What the game has written is new, so a content is in an unbroken run of   *)
(* states, from the one it is numbered after.                                *)
TrailInv ==
  \A n \in DOMAIN trail : \A f \in DOMAIN trail[n] :
    /\ trail[n][f] \in 1 .. n
    /\ \A k \in trail[n][f] .. n : f \in DOMAIN trail[k] /\ trail[k][f] = trail[n][f]

(* What was copied was there by the n-th state.                              *)
CopiedBy(n) == \A f \in DOMAIN job.copied : job.copied[f] \in 1 .. n

(* The state of the save when the second reading began: every file that has  *)
(* been read again is the same in it.                                        *)
Agrees(n) ==
  /\ DOMAIN trail[n] = DOMAIN job.copied /\ CopiedBy(n)
  /\ \A f \in DOMAIN job.copied \ job.todo : trail[n][f] = job.copied[f]

CopyInv ==
  /\ pc \in {"resolving", "copying"} => CopiedBy(Len(trail))
  /\ pc = "verifying" =>
       IF job.todo = {} THEN CopiedBy(Len(trail))
       ELSE job.todo \subseteq DOMAIN job.copied /\ \E n \in DOMAIN trail : Agrees(n)
  /\ pc = "publishing" => \E n \in DOMAIN trail : job.copied = trail[n]

(* A step of a request either leaves the trail alone or begins or ends it.   *)
LEMMA TrailSteps ==
  ASSUME Next
  PROVE  \/ UNCHANGED trail \/ trail' = <<>> \/ GameWrites
         \/ \E files \in SUBSET Files : trail' = <<Afresh(files)>>
<1>1. CASE Create
  BY <1>1 DEF Create, Backup, Resolve, HashBefore, CopyFile, VerifyCopy, Publish, Race, Go, Done
<1>2. CASE Edit
  BY <1>2 DEF Edit, BeginEdit, ApplyEdit, EditFails, Checkpoint, Go, Done
<1>3. CASE Retention
  BY <1>3 DEF Retention, Confirm, Sweep, EndSweep, RemovalFails, CleanupFails, Go, Done
<1>4. CASE Manage
  BY <1>4 DEF Manage, Rename, Protect, Delete, ConfigureRetention, StageRestore, ApplyStaged, CancelStaged
<1>5. CASE Crash \/ GameWrites \/ Harm \/ RecoveryResolved
  BY <1>5 DEF Crash, Harm, RecoveryResolved, Done
<1>. QED BY <1>1, <1>2, <1>3, <1>4, <1>5 DEF Next

LEMMA TrailStep == TypeInv /\ TrailInv /\ Next => TrailInv'
<1>. SUFFICES ASSUME TypeInv, TrailInv, Next PROVE TrailInv'
  OBVIOUS
<1>1. CASE UNCHANGED trail \/ trail' = <<>>
  BY <1>1 DEF TrailInv
<1>2. ASSUME NEW files \in SUBSET Files, trail' = <<Afresh(files)>> PROVE TrailInv'
  <2>1. DOMAIN trail' = {1} /\ trail'[1] = Afresh(files)
    BY <1>2
  <2>. QED BY <2>1, FirstSaves DEF TrailInv
<1>3. CASE GameWrites
  <2>. PICK save \in Saves :
         /\ trail' = Append(trail, save)
         /\ \A g \in DOMAIN save : \/ save[g] = Len(trail) + 1
                                   \/ g \in DOMAIN Live /\ save[g] = Live[g]
    BY <1>3, Writes
  <2>. DEFINE last == Len(trail) + 1
  <2>1. /\ Len(trail) \in Nat /\ DOMAIN trail = 1 .. Len(trail) /\ DOMAIN trail' = 1 .. last
        /\ trail'[last] = save /\ \A n \in DOMAIN trail : trail'[n] = trail[n]
    BY DEF TypeInv, RequestTypeOK
  <2>2. ASSUME NEW n \in DOMAIN trail, NEW f \in DOMAIN trail[n]
        PROVE  /\ trail'[n][f] \in 1 .. n
               /\ \A k \in trail'[n][f] .. n : f \in DOMAIN trail'[k] /\ trail'[k][f] = trail'[n][f]
    <3>1. /\ trail[n][f] \in 1 .. n
          /\ \A k \in trail[n][f] .. n : f \in DOMAIN trail[k] /\ trail[k][f] = trail[n][f]
      BY DEF TrailInv
    <3>2. \A k \in trail[n][f] .. n : k \in DOMAIN trail
      BY <2>1, <3>1
    <3>. QED BY <2>1, <3>1, <3>2
  <2>3. ASSUME NEW f \in DOMAIN save
        PROVE  /\ save[f] \in 1 .. last
               /\ \A k \in save[f] .. last : f \in DOMAIN trail'[k] /\ trail'[k][f] = save[f]
    <3>1. CASE save[f] = last
      <4>1. \A k \in save[f] .. last : k = last
        BY <2>1, <3>1
      <4>. QED BY <2>1, <3>1, <4>1
    <3>2. CASE f \in DOMAIN Live /\ save[f] = Live[f]
      <4>1. Len(trail) \in DOMAIN trail /\ Live = trail'[Len(trail)] /\ Live = trail[Len(trail)]
        BY <1>3, <2>1, Writes, Present DEF TypeInv, Live
      <4>2. /\ save[f] \in 1 .. Len(trail)
            /\ \A k \in save[f] .. Len(trail) : f \in DOMAIN trail'[k] /\ trail'[k][f] = save[f]
        BY <2>2, <3>2, <4>1
      <4>3. \A k \in save[f] .. last : k \in save[f] .. Len(trail) \/ k = last
        BY <2>1, <4>2
      <4>. QED BY <2>1, <4>2, <4>3
    <3>. QED BY <3>1, <3>2
  <2>. QED BY <2>1, <2>2, <2>3 DEF TrailInv
<1>. QED BY <1>1, <1>2, <1>3, TrailSteps

LEMMA CopyStep == TypeInv /\ TrailInv /\ CopyInv /\ Next => CopyInv'
<1>. SUFFICES ASSUME TypeInv, TrailInv, CopyInv, Next PROVE CopyInv'
  OBVIOUS
<1>1. CASE UNCHANGED <<trail, pc, job>>
  BY <1>1 DEF CopyInv, Agrees, CopiedBy
<1>2. CASE pc' \in {"idle", "applying", "checkpoint", "confirming", "sweeping"}
  BY <1>2 DEF CopyInv
<1>3. ASSUME pc \in {"copying", "verifying"}, Race PROVE CopyInv'
  <2>1. CASE pc' = "resolving" /\ job' = [job EXCEPT !.retries = @ - 1, !.todo = {}, !.before = 0, !.copied = NoSave]
    <3>1. DOMAIN job'.copied = {}
      BY <2>1 DEF TypeInv, RequestTypeOK, Jobs, NoSave
    <3>. QED BY <2>1, <3>1 DEF CopyInv, CopiedBy
  <2>. QED BY <1>2, <1>3, <2>1 DEF Race, Go, Done
<1>4. CASE Create
  <2>1. CASE Backup
    <3>1. pc' = "resolving" /\ DOMAIN job'.copied = {}
      BY <2>1 DEF Backup, NoJob, NoSave
    <3>. QED BY <3>1 DEF CopyInv, CopiedBy
  <2>2. CASE Resolve
    <3>1. CASE DOMAIN Live # {}
      <4>1. pc' = "copying" /\ job'.copied = job.copied /\ UNCHANGED trail
        BY <2>2, <3>1 DEF Resolve, Go, TypeInv, RequestTypeOK, Jobs
      <4>. QED BY <2>2, <4>1 DEF Resolve, CopyInv, CopiedBy
    <3>. QED BY <1>2, <2>2, <3>1 DEF Resolve, Done
  <2>3. CASE HashBefore
    <3>1. CASE First(job.todo) \in DOMAIN Live
      <4>1. pc' = "copying" /\ job'.copied = job.copied /\ UNCHANGED trail
        BY <2>3, <3>1 DEF HashBefore, Go, TypeInv, RequestTypeOK, Jobs
      <4>. QED BY <2>3, <4>1 DEF HashBefore, CopyInv, CopiedBy
    <3>. QED BY <1>2, <2>3, <3>1 DEF HashBefore, Done
  <2>4. CASE CopyFile
    <3>. DEFINE f == First(job.todo)
    <3>1. CASE f \notin DOMAIN Live
      BY <1>2, <2>4, <3>1 DEF CopyFile, Done
    <3>2. CASE f \in DOMAIN Live /\ Live[f] # job.before
      BY <1>3, <2>4, <3>2 DEF CopyFile
    <3>3. CASE f \in DOMAIN Live /\ Live[f] = job.before
      <4>. DEFINE next == [job EXCEPT !.before = 0, !.todo = @ \ {f}, !.copied = Put(@, f, Live[f])]
      <4>1. trail # <<>> /\ job.todo # {} /\ CopiedBy(Len(trail))
        BY <2>4 DEF CopyFile, TypeInv, RequestTypeOK, CopyInv
      <4>2. Live[f] \in 1 .. Len(trail) /\ f \in Files /\ job.copied \in Saves /\ Live[f] \in Nat
        BY <3>3, <4>1, Present, Turn, SaveFacts DEF TrailInv, Live, TypeInv, RequestTypeOK, Jobs
      <4>3. next.copied = Put(job.copied, f, Live[f]) /\ next.todo = job.todo \ {f}
        BY DEF TypeInv, RequestTypeOK, Jobs
      <4>4. \A g \in DOMAIN next.copied : next.copied[g] \in 1 .. Len(trail)
        <5>. HIDE DEF next, f
        <5>1. /\ DOMAIN next.copied = DOMAIN job.copied \cup {f}
              /\ \A g \in DOMAIN job.copied \cup {f} :
                   next.copied[g] = IF g = f THEN Live[f] ELSE job.copied[g]
          BY <4>3 DEF Put
        <5>. QED BY <4>1, <4>2, <5>1 DEF CopiedBy
      <4>5. job' = next /\ UNCHANGED trail /\ pc' = IF job.todo = {f} THEN "verifying" ELSE "copying"
        BY <2>4, <3>3 DEF CopyFile, Go
      <4>6. CopiedBy(Len(trail))'
        BY <4>4, <4>5 DEF CopiedBy
      <4>7. pc' = "verifying" => job'.todo = {}
        BY <4>3, <4>5
      <4>. QED BY <4>5, <4>6, <4>7 DEF CopyInv
    <3>. QED BY <3>1, <3>2, <3>3
  <2>5. CASE VerifyCopy
    <3>. DEFINE f == First(job.todo)
    <3>1. trail # <<>> /\ pc = "verifying"
      BY <2>5 DEF VerifyCopy, TypeInv, RequestTypeOK
    <3>2. CASE Done \/ Race
      BY <1>2, <1>3, <3>1, <3>2 DEF Done
    <3>3. CASE job.todo = {} /\ DOMAIN Live = DOMAIN job.copied /\ Go("verifying", [job EXCEPT !.todo = DOMAIN Live])
      <4>1. /\ job'.copied = job.copied /\ job'.todo = DOMAIN job.copied
            /\ UNCHANGED trail /\ pc' = "verifying"
        BY <3>3 DEF Go, TypeInv, RequestTypeOK, Jobs
      <4>2. CopiedBy(Len(trail)) /\ Len(trail) \in DOMAIN trail
        BY <3>1, <3>3, Present DEF CopyInv, TypeInv
      <4>3. Agrees(Len(trail))'
        BY <3>3, <4>1, <4>2 DEF Agrees, CopiedBy, Live
      <4>4. (IF job.todo = {} THEN CopiedBy(Len(trail))
             ELSE job.todo \subseteq DOMAIN job.copied /\ \E n \in DOMAIN trail : Agrees(n))'
        BY <4>1, <4>2, <4>3 DEF Agrees
      <4>. QED BY <4>1, <4>4 DEF CopyInv
    <3>4. CASE /\ job.todo # {} /\ f \in DOMAIN Live /\ Live[f] = job.copied[f]
               /\ Go(IF job.todo = {f} THEN "publishing" ELSE "verifying", [job EXCEPT !.todo = @ \ {f}])
      <4>1. job.todo \subseteq DOMAIN job.copied /\ f \in job.todo
        BY <3>1, <3>4, Turn DEF CopyInv, TypeInv
      <4>. PICK n \in DOMAIN trail : Agrees(n)
        BY <3>1, <3>4 DEF CopyInv
      <4>2. /\ job'.copied = job.copied /\ job'.todo = job.todo \ {f} /\ UNCHANGED trail
            /\ pc' = IF job.todo = {f} THEN "publishing" ELSE "verifying"
        BY <3>4 DEF Go, TypeInv, RequestTypeOK, Jobs
      <4>3. trail[n][f] = job.copied[f]
        <5>1. job.copied[f] \in 1 .. n /\ n \in 1 .. Len(trail)
          BY <4>1 DEF Agrees, CopiedBy, TypeInv, RequestTypeOK
        <5>2. \A k \in Live[f] .. Len(trail) : trail[k][f] = Live[f]
          BY <3>1, <3>4, Present DEF TrailInv, Live, TypeInv
        <5>. QED BY <3>4, <5>1, <5>2
      <4>4. Agrees(n)'
        BY <4>2, <4>3 DEF Agrees, CopiedBy
      <4>5. CASE job.todo = {f}
        <5>1. \A g \in DOMAIN job.copied : trail[n][g] = job.copied[g]
          BY <4>3, <4>5 DEF Agrees
        <5>2. trail[n] \in Saves /\ job.copied \in Saves
          BY DEF TypeInv, RequestTypeOK, Jobs
        <5>3. job.copied = trail[n]
          BY <5>1, <5>2, SaveFacts DEF Agrees
        <5>. QED BY <4>2, <4>5, <5>3 DEF CopyInv
      <4>6. CASE job.todo # {f}
        BY <4>1, <4>2, <4>4, <4>6 DEF CopyInv
      <4>. QED BY <4>5, <4>6
    <3>. QED BY <2>5, <3>2, <3>3, <3>4 DEF VerifyCopy
  <2>6. CASE Publish
    BY <1>2, <2>6 DEF Publish, Go, Done
  <2>. QED BY <1>4, <2>1, <2>2, <2>3, <2>4, <2>5, <2>6 DEF Create
<1>5. CASE Edit
  <2>1. CASE BeginEdit
    <3>. PICK origin \in {"automaticPreEdit", "preRestore"}, files \in (SUBSET Files) \ {{}} :
           /\ trail' = <<Afresh(files)>> /\ pc' = "publishing"
           /\ job' = [NoJob EXCEPT !.origin = origin, !.copied = Afresh(files)]
      BY <2>1 DEF BeginEdit
    <3>1. job'.copied = trail'[1] /\ 1 \in DOMAIN trail'
      BY DEF NoJob
    <3>. QED BY <3>1 DEF CopyInv
  <2>. QED BY <1>2, <1>5, <2>1 DEF Edit, ApplyEdit, EditFails, Checkpoint, Go, Done
<1>6. CASE Retention
  BY <1>2, <1>6 DEF Retention, Confirm, Sweep, EndSweep, RemovalFails, CleanupFails, Go, Done
<1>7. CASE Manage
  BY <1>1, <1>7 DEF Manage, Rename, Protect, Delete, ConfigureRetention, StageRestore, ApplyStaged,
                    CancelStaged
<1>8. CASE GameWrites
  <2>. PICK save \in Saves : trail' = Append(trail, save)
    BY <1>8, Writes
  <2>1. /\ DOMAIN trail' = 1 .. (Len(trail) + 1) /\ DOMAIN trail = 1 .. Len(trail) /\ Len(trail) \in Nat
        /\ Len(trail') = Len(trail) + 1 /\ \A n \in DOMAIN trail : trail'[n] = trail[n]
    BY DEF TypeInv, RequestTypeOK
  <2>2. UNCHANGED <<pc, job>> /\ pc \in {"resolving", "copying", "verifying"}
    BY <1>8 DEF GameWrites
  <2>3. CopiedBy(Len(trail)) => CopiedBy(Len(trail))'
    BY <2>1, <2>2 DEF CopiedBy
  <2>4. \A n \in DOMAIN trail : Agrees(n) => Agrees(n)'
    BY <2>1, <2>2 DEF Agrees, CopiedBy
  <2>. QED BY <2>1, <2>2, <2>3, <2>4 DEF CopyInv
<1>9. CASE Crash \/ Harm \/ RecoveryResolved
  BY <1>1, <1>2, <1>9 DEF Crash, Harm, RecoveryResolved, Done
<1>. QED BY <1>4, <1>5, <1>6, <1>7, <1>8, <1>9 DEF Next

LEMMA Copies == Spec => [](TrailInv /\ CopyInv)
<1>1. Init => TrailInv /\ CopyInv
  BY DEF Init, TrailInv, CopyInv
<1>2. TypeInv /\ TrailInv /\ CopyInv /\ [Next]_vars => TrailInv' /\ CopyInv'
  BY TrailStep, CopyStep DEF vars, TrailInv, CopyInv, Agrees, CopiedBy
<1>. QED BY <1>1, <1>2, Types, PTL DEF Spec

--------------------------------------------------------------------------------
(* The copy of an edit is no candidate before the edit is confirmed, and     *)
(* what the checkpoint has looked at stays true while the sweep runs.        *)
EditInv ==
  /\ (pc = "applying" /\ job.origin = "automaticPreEdit") \/ pc \in {"checkpoint", "confirming"} =>
       /\ job.id \in DOMAIN snapshots
       /\ snapshots[job.id].origin = "automaticPreEdit" /\ ~snapshots[job.id].protected
  /\ pc \in {"checkpoint", "confirming", "sweeping"} => job.id \in applied
  /\ pc \in {"confirming", "sweeping"} => job.keep = {pending, job.id} \ {NoId} /\ (unsure => job.hold)
  /\ \A id \in DOMAIN snapshots : snapshots[id].retentionEligible => id \in applied

(* What is left of the candidates, and those passed over, which are pinned.  *)
SweepInv ==
  pc = "sweeping" =>
    /\ ~unsure /\ policy.valid /\ job.rows = Eligible /\ job.left \subseteq job.rows
    /\ job.rows \ job.left \subseteq job.keep /\ job.id \in job.rows

KeepInv == EditInv /\ SweepInv /\ CherishedKept

(* The candidates, now and after a step.                                     *)
LEMMA Candidates ==
  ASSUME StoreTypeOK
  PROVE  \A id : id \in Eligible <=>
           /\ id \in DOMAIN snapshots /\ snapshots[id].valid /\ snapshots[id].origin = "automaticPreEdit"
           /\ snapshots[id].retentionEligible /\ ~snapshots[id].protected
<1>1. \A id \in DOMAIN snapshots : ~snapshots[id].valid =>
        [snapshots[id] EXCEPT !.origin = "unclassified", !.protected = TRUE, !.retentionEligible = FALSE].origin # "automaticPreEdit"
  BY DEF StoreTypeOK, Manifests
<1>2. \A id \in DOMAIN snapshots : Inventory[id] = IF snapshots[id].valid THEN snapshots[id] ELSE Row(id)
  BY DEF Inventory, Row, Valid
<1>3. \A id \in DOMAIN snapshots : ~snapshots[id].valid => Row(id).origin # "automaticPreEdit"
  BY <1>1 DEF Row, Valid
<1>. QED BY <1>2, <1>3 DEF Eligible, Inventory

LEMMA CandidatesNext ==
  ASSUME StoreTypeOK'
  PROVE  \A id : id \in Eligible' <=>
           /\ id \in DOMAIN snapshots' /\ snapshots'[id].valid /\ snapshots'[id].origin = "automaticPreEdit"
           /\ snapshots'[id].retentionEligible /\ ~snapshots'[id].protected
<1>1. \A id \in DOMAIN snapshots' : ~snapshots'[id].valid =>
        [snapshots'[id] EXCEPT !.origin = "unclassified", !.protected = TRUE, !.retentionEligible = FALSE].origin # "automaticPreEdit"
  BY DEF StoreTypeOK, Manifests
<1>2. \A id \in DOMAIN snapshots' : Inventory'[id] = IF snapshots'[id].valid THEN snapshots'[id] ELSE Row(id)'
  BY DEF Inventory, Row, Valid
<1>3. \A id \in DOMAIN snapshots' : ~snapshots'[id].valid => Row(id)'.origin # "automaticPreEdit"
  BY <1>1 DEF Row, Valid
<1>. QED BY <1>2, <1>3 DEF Eligible, Inventory

LEMMA OldestLeft ==
  ASSUME TypeInv, job.left # {}
  PROVE  Oldest \in job.left /\ \A other \in job.left : Oldest <= other
<1>1. job.left \subseteq Nat
  BY DEF TypeInv, RequestTypeOK, Jobs
<1>2. \E x \in job.left : \A y \in job.left : ~(<<y, x>> \in OpToRel(<, Nat))
  BY <1>1, WFMin, NatLessThanWellFounded
<1>3. PICK x \in job.left : \A y \in job.left : ~(<<y, x>> \in OpToRel(<, Nat))
  BY <1>2
<1>4. ASSUME NEW y \in job.left PROVE x <= y
  <2>1. y < x => <<y, x>> \in OpToRel(<, Nat)
    BY <1>1 DEF OpToRel
  <2>2. ~(y < x)
    BY <1>3, <2>1
  <2>. QED BY <1>1, <2>2
<1>. QED BY <1>4 DEF Oldest

(* A row that is passed over is pinned: the copy of the edit just made is    *)
(* among the rows, so that another is never the last.                        *)
LEMMA SparedKept ==
  ASSUME TypeInv, EditInv, SweepInv, pc = "sweeping", job.left # {}, Spared(Oldest)
  PROVE  Oldest \in job.keep
<1>. SUFFICES ASSUME Oldest \notin job.keep, Cardinality(job.rows) <= 1 PROVE FALSE
  BY DEF Spared
<1>1. Oldest \in job.rows /\ job.id \in job.rows /\ job.rows \subseteq 1 .. used /\ used \in Nat
  BY OldestLeft, Candidates DEF SweepInv, TypeInv, StoreTypeOK
<1>2. job.id # Oldest
  BY <1>1 DEF EditInv, NoId
<1>. DEFINE one == {job.id}
            two == one \cup {Oldest}
<1>3. IsFiniteSet(job.rows) /\ Cardinality(job.rows) \in Nat
  <2>1. IsFiniteSet(1 .. used)
    BY <1>1, FS_Interval
  <2>2. IsFiniteSet(job.rows)
    BY <1>1, <2>1, FS_Subset
  <2>. QED BY <2>2, FS_CardinalityType
<1>4. IsFiniteSet(one) /\ Cardinality(one) = 1 /\ Oldest \notin one
  BY <1>2, FS_Singleton
<1>5. two \in SUBSET job.rows
  BY <1>1
<1>6. Cardinality(two) = Cardinality(one) + 1
  <2>. HIDE DEF one
  <2>. QED BY <1>4, FS_AddElement
<1>7. Cardinality(two) <= Cardinality(job.rows)
  <2>. HIDE DEF two
  <2>. QED BY <1>3, <1>5, FS_Subset
<1>. QED BY <1>3, <1>4, <1>6, <1>7

LEMMA InitKept == Init => KeepInv
<1>. SUFFICES ASSUME Init PROVE KeepInv
  OBVIOUS
<1>1. EditInv /\ SweepInv
  BY DEF Init, EditInv, SweepInv, Legacy
<1>2. CherishedKept
  BY DEF Init, CherishedKept, Valid, Legacy
<1>. QED BY <1>1, <1>2 DEF KeepInv

LEMMA EditStep == TypeInv /\ EditInv /\ Next => EditInv'
<1>. SUFFICES ASSUME TypeInv, EditInv, Next PROVE EditInv'
  OBVIOUS
<1>. USE DEF TypeInv
<1>1. ASSUME pc' \notin {"applying", "checkpoint", "confirming", "sweeping"}, UNCHANGED applied,
             \A id \in DOMAIN snapshots' : snapshots'[id].retentionEligible =>
                 id \in DOMAIN snapshots /\ snapshots[id].retentionEligible
      PROVE  EditInv'
  BY <1>1 DEF EditInv
<1>2. CASE Create
  <2>1. CASE UNCHANGED snapshots /\ pc' # "applying"
    <3>1. UNCHANGED applied /\ pc' \in {"idle", "resolving", "copying", "verifying", "publishing"}
      BY <1>2, <2>1 DEF Create, Backup, Resolve, HashBefore, CopyFile, VerifyCopy, Publish, Go, Done, Race
    <3>. QED BY <1>1, <2>1, <3>1
  <2>2. CASE Publish /\ used' = used + 1
    <3>0. PICK named \in MayBeNamed(job.origin) :
            snapshots' = Put(snapshots, used', Manifest(job.origin, named, Cardinality(DOMAIN job.copied)))
      BY <2>2 DEF Publish, StoreTypeOK
    <3>. DEFINE new == Manifest(job.origin, named, Cardinality(DOMAIN job.copied))
    <3>1. /\ new \in Manifests /\ ~new.retentionEligible /\ new.origin = job.origin
          /\ new.protected = (job.origin # "automaticPreEdit")
      BY <3>0, Values, SaveFacts DEF RequestTypeOK, Jobs
    <3>2. used' \in Nat \ {0} /\ used' \notin DOMAIN snapshots
      BY <2>2 DEF StoreTypeOK
    <3>3. snapshots' = Put(snapshots, used', new) /\ UNCHANGED applied
      BY <3>0, <2>2 DEF Publish, StoreTypeOK
    <3>. HIDE DEF new
    <3>4. /\ DOMAIN snapshots' = DOMAIN snapshots \cup {used'} /\ snapshots'[used'] = new
          /\ \A id \in DOMAIN snapshots : snapshots'[id] = snapshots[id]
      BY <3>2, <3>3 DEF Put
    <3>5. CASE Done
      BY <1>1, <3>1, <3>3, <3>4, <3>5 DEF Done
    <3>6. CASE job.origin # "manual" /\ Go("applying", [job EXCEPT !.id = used'])
      <4>1. job'.id = used' /\ job'.origin = job.origin /\ pc' = "applying"
        BY <3>6 DEF Go, RequestTypeOK, Jobs
      <4>. QED BY <3>1, <3>3, <3>4, <4>1 DEF EditInv
    <3>. QED BY <2>2, <3>5, <3>6 DEF Publish
  <2>. QED BY <1>2, <2>1, <2>2 DEF Create, Backup, Resolve, HashBefore, CopyFile, VerifyCopy, Publish, Go, Done, Race
<1>3. CASE Edit
  <2>1. CASE BeginEdit \/ EditFails
    BY <1>1, <2>1 DEF BeginEdit, EditFails, Done
  <2>2. CASE ApplyEdit
    <3>1. CASE job.origin = "automaticPreEdit"
      BY <2>2, <3>1 DEF ApplyEdit, Go, EditInv
    <3>2. CASE job.origin # "automaticPreEdit"
      BY <1>1, <2>2, <3>2 DEF ApplyEdit, Done
    <3>. QED BY <3>1, <3>2
  <2>3. CASE Checkpoint
    <3>1. /\ job'.keep = {pending', job.id} \ {NoId} /\ job'.hold = (recovery \/ unsure) /\ job'.id = job.id
          /\ pc' = "confirming" /\ UNCHANGED <<unsure, snapshots, applied>>
      BY <2>3 DEF Checkpoint, Go, RequestTypeOK, Jobs
    <3>2. pc = "checkpoint"
      BY <2>3 DEF Checkpoint
    <3>. QED BY <3>1, <3>2 DEF EditInv
  <2>. QED BY <1>3, <2>1, <2>2, <2>3 DEF Edit
<1>4. CASE Retention
  <2>1. CASE Confirm
    <3>1. CASE ~Valid(job.id)
      BY <1>1, <2>1, <3>1 DEF Confirm, Done
    <3>2. CASE Valid(job.id)
      <4>1. Update(job.id, Confirmed(snapshots[job.id])) /\ Confirmed(snapshots[job.id]) \in Manifests
        BY <2>1, <3>2, Changed DEF Confirm, Valid
      <4>2. /\ DOMAIN snapshots' = DOMAIN snapshots
            /\ \A id \in DOMAIN snapshots \ {job.id} : snapshots'[id] = snapshots[id]
        BY <4>1, UpdatedStore
      <4>3. pc = "confirming" /\ UNCHANGED <<applied, pending, unsure>> /\ job.id \in applied
        BY <2>1 DEF Confirm, disk, EditInv
      <4>4. \A id \in DOMAIN snapshots' : snapshots'[id].retentionEligible => id \in applied'
        BY <4>2, <4>3 DEF EditInv
      <4>5. CASE Done
        BY <4>4, <4>5 DEF Done, EditInv
      <4>6. CASE Go("sweeping", [job EXCEPT !.rows = Eligible', !.left = Eligible'])
        <5>1. job'.id = job.id /\ job'.keep = job.keep /\ job'.hold = job.hold /\ pc' = "sweeping"
          BY <4>6 DEF Go, RequestTypeOK, Jobs
        <5>. QED BY <4>3, <4>4, <5>1 DEF EditInv
      <4>. QED BY <2>1, <3>2, <4>5, <4>6 DEF Confirm
    <3>. QED BY <3>1, <3>2
  <2>2. CASE Sweep
    <3>. DEFINE next == [job EXCEPT !.left = @ \ {Oldest},
                                    !.rows = IF Spared(Oldest) THEN @ ELSE @ \ {Oldest}]
    <3>1. next.id = job.id /\ next.keep = job.keep /\ next.hold = job.hold
      BY DEF RequestTypeOK, Jobs
    <3>2. job' = next /\ pc' = "sweeping" /\ pc = "sweeping" /\ UNCHANGED <<applied, pending, unsure>>
      BY <2>2 DEF Sweep, Go, disk
    <3>3. \A id \in DOMAIN snapshots' : id \in DOMAIN snapshots /\ snapshots'[id] = snapshots[id]
      BY <2>2, DeletedStore DEF Sweep
    <3>. HIDE DEF next
    <3>. QED BY <3>1, <3>2, <3>3 DEF EditInv
  <2>3. CASE RemovalFails
    BY <1>1, <2>3, DamagedStore DEF RemovalFails, Done
  <2>4. CASE EndSweep \/ CleanupFails
    BY <1>1, <2>4 DEF EndSweep, CleanupFails, Done
  <2>. QED BY <1>4, <2>1, <2>2, <2>3, <2>4 DEF Retention
<1>5. CASE Manage
  <2>2. pc' = "idle" /\ UNCHANGED applied
    BY <1>5 DEF Manage, Rename, Protect, Delete, ConfigureRetention, StageRestore, ApplyStaged, CancelStaged
  <2>3. \A id \in DOMAIN snapshots' : snapshots'[id].retentionEligible =>
          id \in DOMAIN snapshots /\ snapshots[id].retentionEligible
    <3>1. ASSUME NEW id \in DOMAIN snapshots, NEW keep \in BOOLEAN,
                 Update(id, [snapshots[id] EXCEPT !.protected = keep])
          PROVE  \A i \in DOMAIN snapshots' :
                   i \in DOMAIN snapshots /\ snapshots'[i].retentionEligible = snapshots[i].retentionEligible
      <4>. DEFINE kept == [snapshots[id] EXCEPT !.protected = keep]
      <4>1. kept \in Manifests /\ kept.retentionEligible = snapshots[id].retentionEligible /\ Update(id, kept)
        BY <3>1, Changed
      <4>. HIDE DEF kept
      <4>. QED BY <4>1, UpdatedStore
    <3>2. CASE Rename \/ Protect
      <4>. PICK id \in DOMAIN snapshots, keep \in BOOLEAN : Update(id, [snapshots[id] EXCEPT !.protected = keep])
        BY <3>2 DEF Rename, Protect
      <4>. QED BY <3>1
    <3>3. CASE Delete
      <4>. PICK id \in Ids : snapshots' \in {Deleted(id), Damaged(id)}
        BY <3>3 DEF Delete
      <4>1. CASE snapshots' = Deleted(id)
        BY <4>1, DeletedStore
      <4>2. CASE snapshots' = Damaged(id)
        BY <4>2, DamagedStore
      <4>. QED BY <4>1, <4>2
    <3>4. CASE UNCHANGED snapshots
      BY <3>4
    <3>. QED BY <1>5, <3>2, <3>3, <3>4 DEF Manage, ConfigureRetention, StageRestore, ApplyStaged, CancelStaged
  <2>. QED BY <1>1, <2>2, <2>3
<1>6. CASE Crash
  <2>1. \E id : snapshots' \in {snapshots, Damaged(id)}
    BY <1>6 DEF Crash
  <2>. QED BY <1>1, <1>6, <2>1, DamagedStore DEF Crash, Done
<1>7. CASE GameWrites \/ RecoveryResolved
  BY <1>7 DEF GameWrites, RecoveryResolved, EditInv
<1>8. CASE Harm
  <2>1. \E id : snapshots' \in {snapshots, Damaged(id)}
    BY <1>8 DEF Harm
  <2>. QED BY <1>8, <2>1, DamagedStore DEF Harm, EditInv
<1>. QED BY <1>2, <1>3, <1>4, <1>5, <1>6, <1>7, <1>8 DEF Next


(* A sweep begins with the candidates it has found, and takes the oldest.    *)
LEMMA SweepStep == TypeInv /\ EditInv /\ SweepInv /\ Next => SweepInv'
<1>. SUFFICES ASSUME TypeInv, EditInv, SweepInv, Next, pc' = "sweeping" PROVE SweepInv'
  BY DEF SweepInv
<1>. USE DEF TypeInv
<1>1. StoreTypeOK'
  BY StoreTypes
<1>2. Confirm \/ Sweep \/ RecoveryResolved
  <2>1. CASE Create
    BY <2>1 DEF Create, Backup, Resolve, HashBefore, CopyFile, VerifyCopy, Publish, Go, Done, Race
  <2>2. CASE Edit
    BY <2>2 DEF Edit, BeginEdit, ApplyEdit, EditFails, Checkpoint, Go, Done
  <2>3. CASE Retention
    BY <2>3 DEF Retention, EndSweep, RemovalFails, CleanupFails, Done
  <2>4. CASE Manage
    BY <2>4 DEF Manage, Rename, Protect, Delete, ConfigureRetention, StageRestore, ApplyStaged, CancelStaged
  <2>5. CASE Crash \/ GameWrites \/ Harm
    BY <2>5 DEF Crash, GameWrites, Harm, Done
  <2>. QED BY <2>1, <2>2, <2>3, <2>4, <2>5 DEF Next
<1>3. CASE Confirm
  <2>1. /\ pc = "confirming" /\ Valid(job.id) /\ Authorized
        /\ Go("sweeping", [job EXCEPT !.rows = Eligible', !.left = Eligible'])
        /\ Update(job.id, Confirmed(snapshots[job.id])) /\ UNCHANGED disk
    BY <1>3 DEF Confirm, Done
  <2>2. job'.rows = Eligible' /\ job'.left = Eligible' /\ job'.id = job.id
    BY <2>1 DEF Go, RequestTypeOK, Jobs
  <2>3. ~unsure' /\ policy'.valid
    BY <2>1 DEF Authorized, EditInv, disk
  <2>. DEFINE new == Confirmed(snapshots[job.id])
  <2>4. /\ new \in Manifests /\ new.protected = snapshots[job.id].protected /\ new.valid
        /\ new.origin = snapshots[job.id].origin /\ new.retentionEligible
    BY <2>1, Changed DEF Valid
  <2>5. job.id \in DOMAIN snapshots' /\ snapshots'[job.id] = new
    <3>. HIDE DEF new
    <3>. QED BY <2>1, <2>4, UpdatedStore DEF new
  <2>6. job.id \in Eligible'
    <3>. HIDE DEF new
    <3>. QED BY <1>1, <2>1, <2>4, <2>5, CandidatesNext DEF EditInv
  <2>. QED BY <2>2, <2>3, <2>6 DEF SweepInv
<1>4. CASE Sweep
  <2>1. /\ pc = "sweeping" /\ job.left # {}
        /\ snapshots' = IF Spared(Oldest) THEN snapshots ELSE Deleted(Oldest)
        /\ Go("sweeping", [job EXCEPT !.left = @ \ {Oldest}, !.rows = IF Spared(Oldest) THEN @ ELSE @ \ {Oldest}])
        /\ UNCHANGED disk
    BY <1>4 DEF Sweep
  <2>2. /\ job'.id = job.id /\ job'.keep = job.keep /\ job'.left = job.left \ {Oldest}
        /\ job'.rows = IF Spared(Oldest) THEN job.rows ELSE job.rows \ {Oldest}
    BY <2>1 DEF Go, RequestTypeOK, Jobs
  <2>3. ~unsure' /\ policy'.valid
    BY <2>1 DEF SweepInv, disk
  <2>4. Oldest \in job.left
    BY <2>1, OldestLeft
  <2>5. CASE Spared(Oldest)
    <3>1. Oldest \in job.keep
      BY <2>1, <2>5, SparedKept
    <3>2. Eligible' = Eligible
      BY <2>1, <2>5 DEF Eligible, Inventory, Row, Valid
    <3>. QED BY <2>1, <2>2, <2>3, <2>5, <3>1, <3>2 DEF SweepInv
  <2>6. CASE ~Spared(Oldest)
    <3>1. /\ DOMAIN snapshots' = DOMAIN snapshots \ {Oldest}
          /\ \A i \in DOMAIN snapshots' : snapshots'[i] = snapshots[i]
      BY <2>1, <2>6, DeletedStore
    <3>2. Eligible' = Eligible \ {Oldest}
      BY <1>1, <3>1, Candidates, CandidatesNext
    <3>3. Oldest \notin job.keep /\ Oldest # job.id
      BY <2>1, <2>6, <2>4, Candidates DEF Spared, SweepInv, EditInv, NoId, StoreTypeOK
    <3>. QED BY <2>1, <2>2, <2>3, <2>4, <2>6, <3>2, <3>3 DEF SweepInv
  <2>. QED BY <2>5, <2>6
<1>5. CASE RecoveryResolved
  <2>1. UNCHANGED <<pc, job, unsure, policy, snapshots>>
    BY <1>5 DEF RecoveryResolved
  <2>2. Eligible' = Eligible
    BY <2>1 DEF Eligible, Inventory, Row, Valid
  <2>. QED BY <2>1, <2>2 DEF SweepInv
<1>. QED BY <1>2, <1>3, <1>4, <1>5

(* Only a candidate, which is not protected, is removed by the sweep.        *)
LEMMA CherishedStep == TypeInv /\ EditInv /\ SweepInv /\ CherishedKept /\ Next => CherishedKept'
<1>. SUFFICES ASSUME TypeInv, EditInv, SweepInv, CherishedKept, Next PROVE CherishedKept'
  OBVIOUS
<1>. USE DEF TypeInv
<1>1. ASSUME cherished' \subseteq cherished,
             \A id \in cherished' : /\ id \in DOMAIN snapshots' /\ snapshots'[id].valid = snapshots[id].valid
                                    /\ snapshots'[id].protected = snapshots[id].protected
      PROVE  CherishedKept'
  BY <1>1 DEF CherishedKept, Valid
<1>2. ASSUME pc = "sweeping", job.left # {} PROVE Oldest \notin cherished
  BY <1>2, OldestLeft, Candidates DEF SweepInv, CherishedKept
<1>3. ASSUME NEW id, snapshots' \in {Deleted(id), Damaged(id)}, cherished' = cherished \ {id}
      PROVE  CherishedKept'
  <2>1. CASE snapshots' = Deleted(id)
    BY <1>1, <1>3, <2>1, DeletedStore DEF CherishedKept, Valid
  <2>2. CASE snapshots' = Damaged(id)
    <3>1. /\ DOMAIN snapshots' = DOMAIN snapshots
          /\ \A i \in DOMAIN snapshots \ {id} : snapshots'[i] = snapshots[i]
      BY <2>2, DamagedStore
    <3>. QED BY <1>1, <1>3, <3>1 DEF CherishedKept, Valid
  <2>. QED BY <1>3, <2>1, <2>2
<1>4. ASSUME NEW id \in DOMAIN snapshots, NEW keep \in BOOLEAN,
             Update(id, [snapshots[id] EXCEPT !.protected = keep]),
             cherished' = IF keep THEN cherished \cup {id} ELSE cherished \ {id}
      PROVE  CherishedKept'
  <2>. DEFINE kept == [snapshots[id] EXCEPT !.protected = keep]
  <2>1. kept \in Manifests /\ kept.protected = keep /\ kept.valid = snapshots[id].valid /\ Update(id, kept)
    BY <1>4, Changed
  <2>. HIDE DEF kept
  <2>2. /\ snapshots[id].valid /\ DOMAIN snapshots' = DOMAIN snapshots /\ snapshots'[id] = kept
        /\ \A i \in DOMAIN snapshots \ {id} : snapshots'[i] = snapshots[i]
    BY <2>1, UpdatedStore
  <2>3. ASSUME NEW i \in cherished' PROVE Valid(i)' /\ snapshots'[i].protected
    <3>1. CASE i = id
      BY <1>4, <2>1, <2>2, <2>3, <3>1 DEF Valid
    <3>2. CASE i # id
      BY <1>4, <2>2, <2>3, <3>2 DEF CherishedKept, Valid
    <3>. QED BY <3>1, <3>2
  <2>. QED BY <2>3 DEF CherishedKept
<1>5. ASSUME UNCHANGED <<snapshots, cherished>> PROVE CherishedKept'
  BY <1>5 DEF CherishedKept, Valid
<1>6. CASE Create
  <2>1. CASE Publish /\ used' = used + 1
    <3>0. PICK named \in MayBeNamed(job.origin) :
            snapshots' = Put(snapshots, used', Manifest(job.origin, named, Cardinality(DOMAIN job.copied)))
      BY <2>1 DEF Publish, StoreTypeOK
    <3>. DEFINE new == Manifest(job.origin, named, Cardinality(DOMAIN job.copied))
    <3>1. new \in Manifests /\ new.valid /\ new.protected = (job.origin # "automaticPreEdit")
      BY <3>0, Values, SaveFacts DEF RequestTypeOK, Jobs
    <3>2. /\ snapshots' = Put(snapshots, used', new)
          /\ cherished' = IF job.origin = "automaticPreEdit" THEN cherished ELSE cherished \cup {used'}
          /\ used' \notin DOMAIN snapshots
      BY <3>0, <2>1 DEF Publish, StoreTypeOK
    <3>. HIDE DEF new
    <3>3. /\ DOMAIN snapshots' = DOMAIN snapshots \cup {used'} /\ snapshots'[used'] = new
          /\ \A id \in DOMAIN snapshots : snapshots'[id] = snapshots[id]
      BY <3>2 DEF Put
    <3>. QED BY <3>1, <3>2, <3>3 DEF CherishedKept, Valid
  <2>. QED BY <1>5, <1>6, <2>1 DEF Create, Backup, Resolve, HashBefore, CopyFile, VerifyCopy, Publish
<1>7. CASE Edit
  BY <1>5, <1>7 DEF Edit, BeginEdit, ApplyEdit, EditFails, Checkpoint
<1>8. CASE Retention
  <2>1. CASE Confirm
    <3>1. CASE ~Valid(job.id)
      BY <1>5, <2>1, <3>1 DEF Confirm
    <3>2. CASE Valid(job.id)
      <4>. DEFINE new == Confirmed(snapshots[job.id])
      <4>1. /\ Update(job.id, new) /\ new \in Manifests /\ new.protected = snapshots[job.id].protected
            /\ new.valid = snapshots[job.id].valid
        BY <2>1, <3>2, Changed DEF Confirm, Valid
      <4>2. UNCHANGED cherished
        BY <2>1 DEF Confirm
      <4>. HIDE DEF new
      <4>3. /\ DOMAIN snapshots' = DOMAIN snapshots /\ snapshots'[job.id] = new
            /\ \A i \in DOMAIN snapshots \ {job.id} : snapshots'[i] = snapshots[i]
        BY <4>1, UpdatedStore
      <4>. QED BY <1>1, <4>1, <4>2, <4>3 DEF CherishedKept, Valid
    <3>. QED BY <3>1, <3>2
  <2>2. CASE Sweep
    <3>1. pc = "sweeping" /\ job.left # {} /\ UNCHANGED cherished /\ snapshots' \in {snapshots, Deleted(Oldest)}
      BY <2>2 DEF Sweep
    <3>2. cherished \ {Oldest} = cherished
      BY <1>2, <3>1
    <3>. QED BY <1>3, <1>5, <3>1, <3>2
  <2>3. CASE RemovalFails
    <3>1. pc = "sweeping" /\ job.left # {} /\ UNCHANGED cherished /\ snapshots' = Damaged(Oldest)
      BY <2>3 DEF RemovalFails
    <3>2. cherished \ {Oldest} = cherished
      BY <1>2, <3>1
    <3>. QED BY <1>3, <3>1, <3>2
  <2>4. CASE EndSweep \/ CleanupFails
    BY <1>5, <2>4 DEF EndSweep, CleanupFails
  <2>. QED BY <1>8, <2>1, <2>2, <2>3, <2>4 DEF Retention
<1>9. CASE Manage
  <2>1. CASE Rename
    <3>. PICK id \in DOMAIN snapshots : /\ Update(id, [snapshots[id] EXCEPT !.protected = TRUE])
                                        /\ cherished' = cherished \cup {id}
      BY <2>1 DEF Rename
    <3>. QED BY <1>4
  <2>2. CASE Protect
    BY <1>4, <2>2 DEF Protect
  <2>3. CASE Delete
    BY <1>3, <2>3 DEF Delete
  <2>4. CASE UNCHANGED <<snapshots, cherished>>
    BY <1>5, <2>4
  <2>. QED BY <1>9, <2>1, <2>2, <2>3, <2>4 DEF Manage, ConfigureRetention, StageRestore, ApplyStaged, CancelStaged
<1>10. CASE Crash
  <2>1. UNCHANGED cherished /\ (\/ snapshots' = snapshots
                                \/ pc = "sweeping" /\ job.left # {} /\ snapshots' = Damaged(Oldest))
    BY <1>10 DEF Crash
  <2>2. CASE UNCHANGED snapshots
    BY <1>5, <2>1, <2>2
  <2>3. CASE pc = "sweeping" /\ job.left # {} /\ snapshots' = Damaged(Oldest)
    <3>1. cherished \ {Oldest} = cherished
      BY <1>2, <2>3
    <3>. QED BY <1>3, <2>1, <2>3, <3>1
  <2>. QED BY <2>1, <2>2, <2>3
<1>11. CASE GameWrites \/ RecoveryResolved
  BY <1>5, <1>11 DEF GameWrites, RecoveryResolved
<1>12. CASE Harm
  BY <1>3, <1>5, <1>12 DEF Harm
<1>. QED BY <1>6, <1>7, <1>8, <1>9, <1>10, <1>11, <1>12 DEF Next

LEMMA Kept == Spec => []KeepInv
<1>1. TypeInv /\ KeepInv /\ [Next]_vars => KeepInv'
  <2>. SUFFICES ASSUME TypeInv, KeepInv, [Next]_vars PROVE KeepInv'
    OBVIOUS
  <2>1. CASE Next
    BY <2>1, EditStep, SweepStep, CherishedStep DEF KeepInv
  <2>2. CASE UNCHANGED vars
    <3>1. EditInv'
      BY <2>2 DEF vars, disk, KeepInv, EditInv, Eligible, Inventory, Row, Valid
    <3>2. SweepInv'
      BY <2>2 DEF vars, disk, KeepInv, SweepInv, Eligible, Inventory, Row, Valid
    <3>3. CherishedKept'
      BY <2>2 DEF vars, disk, KeepInv, CherishedKept, Valid
    <3>. QED BY <3>1, <3>2, <3>3 DEF KeepInv
  <2>. QED BY <2>1, <2>2
<1>. QED BY <1>1, InitKept, Types, PTL DEF Spec

(* What the user made, named or asked to keep stays, and stays protected,    *)
(* whatever retention removes and wherever the worker dies                   *)
(* (SaveBackupRetention.after_successful_edit, SaveSnapshotStore).           *)
THEOREM CherishedKeptAlways == Spec => []CherishedKept
<1>1. KeepInv => CherishedKept
  BY DEF KeepInv
<1>. QED BY <1>1, Kept, PTL

(* A snapshot holds one state that the save has had while it was copied,     *)
(* however the game wrote meanwhile (SaveSnapshotStore._create_snapshot).    *)
THEOREM ConsistentAlways == Spec => Consistent
<1>. DEFINE Whole == \A id \in DOMAIN snapshots' \ DOMAIN snapshots :
                       \E n \in DOMAIN trail : job.copied = trail[n]
<1>1. ASSUME TypeInv, CopyInv, [Next]_vars, NEW id \in DOMAIN snapshots' \ DOMAIN snapshots
      PROVE  \E n \in DOMAIN trail : job.copied = trail[n]
  <2>. USE DEF TypeInv
  <2>1. ASSUME NEW i, snapshots' \in {Deleted(i), Damaged(i)} PROVE FALSE
    BY <1>1, <2>1, DeletedStore, DamagedStore
  <2>2. ASSUME NEW i, NEW manifest, Update(i, manifest) PROVE FALSE
    BY <1>1, <2>2 DEF Update, StoreTypeOK
  <2>3. CASE Create
    BY <1>1, <2>3 DEF Create, Backup, Resolve, HashBefore, CopyFile, VerifyCopy, Publish, CopyInv
  <2>4. CASE Edit \/ Manage
    <3>1. CASE UNCHANGED snapshots
      BY <1>1, <3>1
    <3>2. CASE Rename \/ Protect
      BY <2>2, <3>2 DEF Rename, Protect
    <3>3. CASE Delete
      BY <2>1, <3>3 DEF Delete
    <3>. QED BY <2>4, <3>1, <3>2, <3>3 DEF Edit, BeginEdit, ApplyEdit, EditFails, Checkpoint,
           Manage, ConfigureRetention, StageRestore, ApplyStaged, CancelStaged
  <2>5. CASE Retention
    BY <1>1, <2>1, <2>2, <2>5 DEF Retention, Confirm, Sweep, EndSweep, RemovalFails, CleanupFails
  <2>6. CASE Crash \/ Harm
    BY <1>1, <2>1, <2>6 DEF Crash, Harm
  <2>7. CASE GameWrites \/ RecoveryResolved \/ UNCHANGED vars
    BY <1>1, <2>7 DEF GameWrites, RecoveryResolved, vars
  <2>. QED BY <1>1, <2>3, <2>4, <2>5, <2>6, <2>7 DEF Next
<1>2. TypeInv /\ CopyInv /\ [Next]_vars => [Whole]_vars
  BY <1>1
<1>. QED BY <1>2, Types, Copies, PTL DEF Spec, Consistent

(* What a sweep removes was made for an edit that has been verified, is      *)
(* neither cherished nor the input of a staged restore, is removed only over *)
(* the budget and under a readable policy with no outcome open, oldest       *)
(* first, and the copy of the edit just made remains                         *)
(* (SaveBackupRetention.after_successful_edit).                              *)
THEOREM EvictionSoundAlways == Spec => EvictionSound
<1>. DEFINE Sound(id) ==
         /\ snapshots[id].origin = "automaticPreEdit" /\ id \in applied /\ id \notin cherished
         /\ id # pending /\ ~unsure /\ policy.valid
         /\ ~(Cardinality(Eligible) <= policy.budget.maxCount /\ Bytes(Eligible) <= policy.budget.maxBytes)
         /\ \A older \in Eligible : older < id => older \in {pending, job.id}
         /\ job.id \in applied /\ job.id # id /\ job.id \in DOMAIN snapshots
<1>1. ASSUME TypeInv, KeepInv, [Next]_vars, NEW id \in DOMAIN snapshots \ DOMAIN snapshots', pc = "sweeping"
      PROVE  Sound(id)
  <2>. USE DEF TypeInv, KeepInv
  <2>1. Sweep /\ ~Spared(Oldest)
    <3>1. ASSUME NEW i, snapshots' = Damaged(i) PROVE FALSE
      BY <1>1, <3>1, DamagedStore
    <3>2. Next
      BY <1>1 DEF vars
    <3>3. CASE Create \/ Edit \/ Manage
      BY <1>1, <3>3 DEF Create, Backup, Resolve, HashBefore, CopyFile, VerifyCopy, Publish,
           Edit, BeginEdit, ApplyEdit, EditFails, Checkpoint,
           Manage, Rename, Protect, Delete, ConfigureRetention, StageRestore, ApplyStaged, CancelStaged
    <3>4. CASE Retention
      BY <1>1, <3>1, <3>4 DEF Retention, Confirm, Sweep, EndSweep, RemovalFails, CleanupFails
    <3>5. CASE Crash \/ Harm \/ GameWrites \/ RecoveryResolved
      BY <1>1, <3>1, <3>5 DEF Crash, Harm, GameWrites, RecoveryResolved
    <3>. QED BY <3>2, <3>3, <3>4, <3>5 DEF Next
  <2>2. job.left # {} /\ snapshots' = Deleted(Oldest) /\ ~WithinBudget(job.rows)
    BY <2>1 DEF Sweep
  <2>3. id = Oldest
    BY <1>1, <2>2, DeletedStore
  <2>4. id \in job.left /\ \A other \in job.left : id <= other
    <3>1. Oldest \in job.left /\ \A other \in job.left : Oldest <= other
      BY <1>1, <2>2, OldestLeft
    <3>. QED BY <2>3, <3>1
  <2>5. /\ job.rows = Eligible /\ job.left \subseteq Eligible /\ Eligible \ job.left \subseteq job.keep
        /\ ~unsure /\ policy.valid /\ job.id \in Eligible /\ job.keep = {pending, job.id} \ {NoId}
    BY <1>1 DEF SweepInv, EditInv
  <2>6. id \notin job.keep
    BY <2>1, <2>3 DEF Spared
  <2>7. Eligible \subseteq DOMAIN snapshots /\ DOMAIN snapshots \subseteq 1 .. used /\ used \in Nat
    BY <1>1, Candidates DEF StoreTypeOK
  <2>8. /\ snapshots[id].origin = "automaticPreEdit" /\ id \in applied
        /\ id \notin cherished
    BY <1>1, <2>4, <2>5, Candidates DEF EditInv, CherishedKept
  <2>9. id # pending /\ id # job.id
    BY <2>4, <2>5, <2>6, <2>7 DEF NoId
  <2>10. ~(Cardinality(Eligible) <= policy.budget.maxCount /\ Bytes(Eligible) <= policy.budget.maxBytes)
    BY <2>2, <2>5 DEF WithinBudget
  <2>11. \A older \in Eligible : older < id => older \in {pending, job.id}
    BY <2>4, <2>5, <2>7
  <2>12. job.id \in applied /\ job.id \in DOMAIN snapshots
    BY <1>1, <2>5, <2>7 DEF EditInv
  <2>. QED BY <2>5, <2>8, <2>9, <2>10, <2>11, <2>12
<1>. DEFINE Removal == \A id \in DOMAIN snapshots \ DOMAIN snapshots' : pc = "sweeping" => Sound(id)
<1>2. TypeInv /\ KeepInv /\ [Next]_vars => [Removal]_vars
  BY <1>1
<1>. QED BY <1>2, Types, Kept, PTL DEF Spec, EvictionSound

================================================================================
