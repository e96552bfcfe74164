# A verification project for MacGamingTrainer

MacGamingTrainer is a macOS trainer for Hades and Hades II. A SwiftUI host
(`src/Sources`) runs one Python worker per game (`src/Backend`); the worker
attaches a debugger to the game, edits its state, and manages its save files.

This directory holds TLA+ models of the parts of the program in which order,
failure and concurrency decide what is right, TLC configurations that check them
on small instances, and TLAPS proofs of what matters most. Paths are relative to
`src/`; `PROJECT.json` maps each definition to its lines.

## 1. The system

### Components

| Component | State it keeps | Operations | Correct when | Module |
| --- | --- | --- | --- | --- |
| Core Save transaction `Backend/core/save_restore.py`, `save_metadata.py` | live save files, `.rollback-*` directory, baseline digests, `mutated` progress set | `restore`, `replace_files`; rollback; cleanup | no unverified file is overwritten, what it reports is true, the last recoverable copy survives | `SaveTransaction` |
| Core Save service `save_service.py` | `staged-restore.json`, `.staged-restore-applying-*` claims | `restore`, `apply_staged`, `cancel_staged`, `delete`, `replace_files` | nothing of unknown outcome is replayed or forgotten | `StagedRestore` |
| Snapshot store and retention `save_snapshots.py`, `save_retention.py` | snapshot directories, manifests, policy | create, verify, rename, protect, delete, sweep | a snapshot is one instant of the save; a sweep keeps what anybody needs | `SnapshotStore` |
| Worker main loop `server.py`, `protocol.py`, `framing.py` | lines, message files, reply cache | dispatch, error projection, shutdown | one true answer per line, one act per request | `RequestRouter`, `CommandContract` |
| Backend client `Sources/Core/Runtime/BackendClient.swift`, `BackendProcess.swift` | request in flight, queue, timer, terminal flag; pipes, write queue | `start`, `send`, `stop`, receive, timeout, termination | a request told as not sent was not | `BackendClient` |
| Backend session `TrainerBackendSession.swift` | status, recovery attempts, target lifetime, trust gate | `start`, `send`, `restart`, `stop`, `targetLifetimeChanged`, `beginTermination` | unknown outcomes close the gate; no wait is endless | `TrainerBackendSession` |
| Game context `TrainerGameContext.swift`, `TrainerConnectionPolicy.swift` | observed process, launch generation, policy flags | notifications, clicks, reconcile | attaches when it should, shows no dead connection | `TrainerGameContext` |
| Hades II command path: `mailbox.py`, `CommandMailbox.c`, `transport*.py`, `resident_session.py`, `lldb_worker.py`, `sidecar.py` | slots and leases in the game, resident generation, taint | attach, request, cancel, claim, accept, handoff | each command acts once or is known not to have acted | `CommandMailbox`, `CommandPath` |
| Hades II adapter `adapter.py`, `desired_reconciliation.py`, `preferences.py` | durable document, its copy in memory, what is pending | set, observe, replay, profile, teardown | what the user wants is on disk and, at last, in the game | `DesiredState` |
| Hades II save editor `save_workspace.py` and planners, `structured_save_edit.py`, `Hades2SaveEditorModel.swift` | pinned document, basket, review | open, stage, unstage, review, apply | what is shown is what is installed | `SaveEditor` and below |
| Hades adapter and debugger `adapter.py`, `client.py`, `transport.py`, `lldb_worker.py`, `recovery.py`, time warp | recovery journal, preferences, the game's focus, locks and clock | command, evaluate, restore, detach | nothing is replayed into a doubtful game; what is shown applied is applied | `HadesRuntime`, `HadesWorker` |
| Hades save editor `save_document.py`, `save_workspace.py`, `lz4_block.py` | document with physical entries, basket | stage, revise, review, apply | each edit lands where the user pointed | `HadesWorkspace` and below |
| Application coordinator, lease, save manager lists, hotkeys, logs, run log watcher, catalogs, texts, views | windows, tickets, files | lifecycle, presentation | | not modelled, section 5 |

### How they interact

* The host calls `TrainerBackendSession.send`; the session passes the request to
  `BackendClient`, which writes it to the worker's pipe through a write queue. The
  worker's loop (`RequestRouter`) serves one request at a time and answers on its
  output; a read queue posts each message to the main queue.
* Client, session and context run on the main thread and call each other back: a
  reply publishes a status, the status changes the model, the model's change
  reaches the context, and the context may send again, before the client has
  returned from the first call.
* The monitor turns notifications of the system into an observation `(process,
  launch generation)`. The context feeds it to its policy, tells the session when
  the game process is definitely another one, and asks the policy whether to
  refresh, to restart the worker or to attach.
* A command of the Hades II adapter (`DesiredState`) crosses to a debugger worker
  in a process of its own and from there, through a slot in the game's memory, to
  the game's main thread (`CommandPath` over `CommandMailbox`). The Hades adapter
  stops the game in a debugger instead (`HadesRuntime` over `HadesWorker`).
* Core Save works on files that the game also writes, in a worker that may be
  killed at any time; a marker file is all that a later worker knows of an earlier
  one. Both save editors install their document through its transaction.

### What is hard here

Files shared with a game that takes no lock; exceptions, interrupts and kills in
the middle of a multi-file transaction; a staged instruction that outlives its
process; requests whose outcome is unknown; a cancellation racing a claim in
another process; callbacks that re-enter the client; a game that reloads its Lua
state under a command; a durable wish, its copy and its effect, each of which may
fail alone; a basket of edits that shift or imply each other; replies computed
against what the host is believed to show. The list with the line where each one
bites is `hazards` in `PROJECT.json`.

## 2. The modules

```
SaveOutcome             what callers may rely on
   ^ implemented by SaveTransaction <- SaveTransactionProofs
   ^ used by        StagedRestore   <- StagedRestoreProofs
SnapshotStore           <- SnapshotStoreProofs
CommandContract         <- RequestRouter <- RequestRouterProofs
BackendClient           <- TrainerBackendSession <- BackendSessionProofs
TrainerConnectionPolicy <- TrainerGameContext <- TrainerGameContextProofs
CommandMailbox          <- CommandPath  <- CommandPathProofs
DesiredState
SaveCells <- SaveEquipment, SaveArcana, SaveRecords <- SaveWorkspace <- SaveEditor
Lz4Block <- HadesDocument <- HadesWorkspace
HadesWorker             <- HadesRuntime <- HadesRuntimeProofs
```

An arrow is EXTENDS. Each module that is run has an `MC` module with its small
instance.

### SaveTransaction, SaveOutcome

One `restore` or `replace_files` after another. `pc` is the stage, in the order of
`_capture_rollback` (capture, copy, recheck, stopped), `replace_files` (captured)
and `_apply_captured` (prepare, baseline, stopped, probe, baselineAgain,
stoppedAgain, install, delete, installed, validate, validated, survived), then
rollback, rollbackDelete, restored and clean. A stage that loops over files keeps
what is left in `todo`, so that the game may write between any two files. `Error`
and `Interrupt` may hit any stage before rollback, `MutateThenFault` and
`MarkThenInterrupt` hit between the two halves of one replacement, `RollbackFault`
hits the rollback, `Kill` any point. `mutated` is the code's progress set, `touched`
what has really changed; `effect`, `owed`, `unseen` and `lateLaunch` are history.

A digest is the content it is the digest of. Directory descriptors and path checks
are an `Error` that may come at any step. The order of a loop over files is left
open, which includes the code's order.

`SaveOutcome` is the contract: for each way of ending, which effect on the live
save it can stand for. `SaveTransaction` implements it (`KeepsContract`, with
`active <- pc # "idle"`), and `StagedRestore` runs its transactions by it, so that
the two compose.

### StagedRestore, SnapshotStore

`StagedRestore`: the staged marker and the claims as files on disk, workers that may
be killed at any step, a host that may die and leave its worker to finish one
request beside the next host's worker. Each file operation that the code makes
separately is an action: reading the marker (`ApplyStaged`), the renaming claim
(`ClaimMarker`), the transaction, the put-back (`ApplyFailed`), the
acknowledgement. `Claim.run` records which intent is really being restored,
`Claim.marker` which marker was renamed; with two workers they may differ.

`SnapshotStore`: a snapshot is copied file by file while the game writes (`trail` is every
state of the live save during the request), verified against a second reading and renamed
into place; a second reading that finds no save at all ends the request; the manifests,
what each list says of a damaged one, and the retention sweep after an edit, which works
on rows it read before. The ends of edits and restores are nondeterministic here, since
`SaveTransaction` and `StagedRestore` have them. Contents are numbered afresh for each
request. Damage from outside may hit any snapshot at any time but during a sweep. Staging
directories of dead workers, warnings, and a system clock stepping back are left out;
sizes that cannot be read are a nondeterministic branch of `Confirmed`.

### CommandContract, RequestRouter

`CommandContract` is the registry's validators: for each command of the Hades II adapter
that has one, which parameters it takes. A value is what the validators can tell of it: a
flag, a whole number, a real, an infinite one, a text of a length, keys, items, an object.
The limits are the code's. TLC evaluates it on requests at the edges of every validator,
those that are taken and those that are not (`ContractSamples` of `MCRequestRouter`).

What the host writes is a sequence of chunks (`HostWrites`: a request, a line that is no
request, an overlong line in pieces, a message file that may be bad); the worker reads one
and answers it in one step, since its loop is sequential, and an interrupt in the middle
is a step of its own. Up to `MaxAhead` lines are unread at a time, so that an overlong
line stands before a request that waits behind it. A request's content is its command and
parameters; those the contract refuses are refused before anything changes. The result of
a command of the adapter, of Core or of the handshake may fail to be encoded after it has
acted. The reply cache holds the last `MaxCache` replies with what has been told, in
`done` the history of what acted. The adapter's state is a function on a few fields; what
is published of it against the baseline (`reply_projection.py`), what errors invalidate
and what a snapshot command sends whole is as in the code. The host's repetition of an
identity is what the protocol allows; the Swift client never repeats.

### BackendClient, TrainerBackendSession

All handlers run on the main queue, and any callback may re-enter. What a handler
has still to do after a callback is explicit: `stack` is a list of tasks, the task
`app` is application code that may call `send` and `stop`, and handlers push what
comes after. `writing` is the write queue, `main` the blocks posted to the main
queue, so that an exit, an answer and a failed write overtake each other as they
may in the program. The session's actions take the place of the client's callbacks
(`CallOwner`); all else is the client's own action with the session unchanged, so
the client has no specification of its own. `OnReply` is split where the code
publishes the status before it looks at the failure. A script that cannot be found ends a
start before there is a client; after a terminal failure the owner's callback runs before
the recovery is scheduled (`HandleTermination`, `ScheduleRecovery`), as in the code.

### TrainerConnectionPolicy, TrainerGameContext

The policy is a value type without effects: each mutating method is an operator
from policy to policy, each *consume* method a condition and a remainder. The
context is written the same way, as functions from one host state to the next,
since each handler runs to its end; the actions are the events of the main queue,
the user's clicks and the world. The session is reduced to worker state, recovery
attempts and the two gate flags; a request's answer is computed when the worker
acts and delivered later, so that exits and launches come in between.

Assumptions: one FIFO main queue; the user, and the activation of the trainer, act
only when no published change waits (`Shown`); a game in `Recorded` always has an
application record, so each launch is reported before its exit and each exit is
reported (Hades II; Hades is explored without it); every process has a number of
its own.

### CommandMailbox, CommandPath

`CommandMailbox` is the slot of `MailboxProtocol.h`: one action for each
compare-and-swap or fetch-or on its control word, of the publishing worker
(publish, cancel, accept, retire) and of the game's pump (claim, execute, publish
the result, abandon). `CommandPath` puts the resident session, the transport facade
and the debugger worker around it. `ran` is what the game executed; `result` is what
each call was answered; `accepted` what a session took note of. A worker may be
interrupted or killed at each step, a process that was attached may fail to resume (the
attachment stays, and is told as failed), a reply may be lost or late, the game may reload
its Lua state or hand the command over while a menu closes, exit and start again,
and the main process may die and leave its worker behind.

### DesiredState

`host` is the adapter (memory, document, what is pending), `session` its attachment
and `game` the resident. A command is a function from a world to the set of worlds
its next stop can leave, a stop being a call to the game; the game and the faults
step between. Each call is answered with one of the outcomes `CommandPath` can give.

The file holds one of six kinds of document: one the program wrote (`own`), one of an
`earlier` version, which is migrated and written back, one older than any migration
(`ancient`) or `damaged`, which is set aside, one of a `later` version, under which
nothing durable may be written until it is gone, or none. The user's profile is a file
of the same kinds, and `Found` the pairs of document and profile a run starts from.
Saving over a profile of a later version is refused where that version can be read; a
profile that cannot be read at that moment is overwritten (`_protect_future_overwrite`
returns), unlike the desired state, which stays closed (`Unprotected`).
`host.adrift` is a speed that a reload reset without the adapter's knowledge,
`host.torn` a teardown that failed part-way, `host.lost` a reset that a reload
undid: three histories the code does not recover from, named in `CleanTrue`.

### SaveCells to SaveEditor

A Hades II save is a set of typed cells. The planners (`SaveEquipment`, `SaveArcana`,
`SaveRecords`) are functions from a document and an intent to a document or a refusal; a
value is validated against what its entry takes (`EquipmentRange`, `CardRange`,
`RecordWritable`) before it is staged; `SaveWorkspace` is the basket: it applies all
intents to the pinned source in canonical order, refuses a basket one of whose intents
does not hold afterwards, and computes the review per planner in the order of staging, as
the code does. `SaveEditor` is the window, the worker and the disk: a document is opened
from the live file or from a managed backup, with a target or without one until the user
chooses it, and closed again. Apply takes two steps: `HandleApply` validates the basket
and its evidence, `Commit` installs the candidate, is rolled back, or ends in doubt;
`checked` holds the rewards the basket was validated against, since an update of the game
may come between. The window sends one request at a time, the game writes and an update of
the game changes the rewards in between, the worker ends, and with it what it had opened,
and an Apply may be lost with the disk touched. A source or a target that is no longer
there is refused (`Unresolved`). The worker's refusal of a workspace it does not know is
left out, since the window sends nothing about a workspace of an ended worker.

### Lz4Block, HadesDocument, HadesWorkspace

The first game's document keeps every physical entry in order, duplicates
included. `Lz4Block` is the compressor with one candidate per hash slot (16 slots, so
that collisions happen) and the decompressor; `HadesDocument` the binary form, a
string or number being one byte each; `HadesWorkspace` the basket, in which an action
names an entry by its place, by a header field or by its meaning, with the
conflict rules, the canonical order of writes, the header projections and the
re-addressing of controls after an Apply.

### HadesWorker, HadesRuntime

`HadesWorker` is the debugger process and the game: one request is dispatched, the game
stopped at its update with the focus requirement off, one Lua call evaluated, and one
cleanup puts the game back; each part may fail and the worker may die at each of them. The
game's clock is set through a helper that may not be there, may bind in part or may fail
in the call (`ClockSet`). A Lua call may succeed and its reply be undecodable: a known
failure of a call that took place. `HadesRuntime` is the client with its recovery journal
and the adapter with its durable preferences, which makes the calls of a command one after
the other. A journal that cannot be read or cleared fails the attachment, after the
preferences were read anew. A lifetime of the game stands for process number and start
time.

## 3. The runs

| Run | Question | Bounds |
| --- | --- | --- |
| `save_transaction` | Is every report true and the last copy safe, against game, faults and death? Does it implement `SaveOutcome`? | two files, three contents, one game write, two transactions |
| `staged_restore` | Is nothing of unknown outcome replayed, forgotten, or robbed of its snapshot? | two workers, two snapshots, two staged restores, hot policy; the second worker meets one marker (`Bounded`) |
| `snapshot_store` | Is a snapshot one instant, and does retention take only what nobody needs? | two files, three states of the save per request, three snapshots, two attempts, one budget |
| `backend_session` | Is the gate closed by every unknown outcome before another trusted request is sent? Is "not sent" true? Does every wait have an end scheduled? | two trusted coalescing requests and a plain one, queue of one, two workers; a change of game or a stop; where a second worker comes on top, the two trusted requests only (`Bounded`) |
| `game_context` | Does the host show no dead connection and answer each launch? | both modules, two game processes, two waiting events, two requests |
| `command_path` | Does a command act once, or truthfully not at all, and is uncertainty never forgotten? | a status and a mutation, two leases, two workers, one reload, handoff and loss |
| `desired_state` | Are wish, document and game one, or is it known that they are not; do they become one? | two commands, one fault, two Lua generations, four pairs of a first document and a profile |
| `save_editor` | Is the review what Apply installs; do ledgers balance and saves stay coherent? | six scenes, each a corner of the planners, one with a backup; baskets of two or three actions, one installed Apply in two scenes, two in the others (three documents opened or installed); nothing more is staged once an Apply left the disk in doubt (`Bounded`) |
| `hades_runtime` | Is nothing sent into a doubtful game, is it left as found, is what is shown true? | three commands, one failure, two lifetimes, two workers |
| `hades_editor` | Do edits land where the user pointed, does the review say all, does the file read back? | one document, 24 actions, baskets of three, one Apply |
| `hades_editor_ambiguous` | the finding below | a document with a cache twice |
| `router` | Is each line answered once, in order and truthfully, and does the host show the adapter's state? | two identities, two values of one field, cache of one, four lines, two of them unread, seven requests |

Why the bounds are enough. Two files are what it takes for one to be mutated and
the other not; one game write already falls between any two steps; two
transactions show that nothing leaks from one to the next. Two staged restores are
an old and a new one. Three snapshots are the copy to go, the copy to stay and the
one just made. A request in flight, one queued and one refused or replaced are all
places a request can be. Two workers, games, leases and generations are a dead one
and its successor. Two commands are one to leave something pending and one to meet
it; three in `hades_runtime`, where a failed one must be followed by an attachment.
Three actions are a conflict between two and a third in the middle of the order.
Four lines over a cache of one are enough to forget a reply and repeat it, and two unread
ones are what it takes to answer them in the wrong order, or to lose the second with
the rest of the first.

Bounds in guards of the models: `MaxWrites`, `MaxTxns`, `MaxIntents`,
`MaxSnapshots`, `MaxBackups`, `MaxStates`, `MaxQueue`, `MaxWorkers`, `MaxStops`,
`MaxLifetimes`, `MaxGames`, `MaxLeases`, `MaxReloads`, `MaxHandoffs`, `MaxLosses`,
`MaxCommands`, `MaxOps`, `MaxWaiting`, `MaxFaults`, `MaxGens`, `MaxLives`, `MaxStages`,
`MaxApplies`, `MaxDepth`, `MaxCache`, `MaxLines`, `MaxAhead`, and `basket` and `baselines`
of a scene of `SaveEditor`. `Bounded` is a state
constraint of an MC module. Symmetry is used over snapshots and over identities and
values, in runs without liveness. Deadlock is checked in the runs of the
transaction, the staged restore, the snapshot store and the context; elsewhere all
requests, commands or lines may be used up, and nothing is left to happen.

### What the properties say

*Save transaction.* `OutcomeTrue`: refusals touched nothing, success means the
target, a rollback the baseline, up to writes the game made since the last
verification. `OverwriteKnown`: a file about to be overwritten holds the captured
baseline or a later write of the game that no check could have seen.
`LastCopyKept`, `PreWriteKept`, `KeepsContract`.

*Staged restore.* `NeverReplayed`: a pending intent has never touched the live save.
`UncertainVisible`: an attempt that did is a claim until it is acknowledged or
cleared. `InputKept`: its snapshot is not removed.

*Snapshots.* `Consistent`: the copy is one state of `trail`. `CherishedKept`: what the
user made, named or protected is there until the user deletes it. `EvictionSound`:
everything that must be true when the sweep removes a copy.

*Session.* `NotSentTrue`; `TrustGate`: no trusted request is given to a running
worker while another is in doubt, not even one that was queued before;
`NeverStuck`: whatever waits has a timer, an exit or a recovery to come.

*Context.* `NoStale`: no connection to a dead process outlives its refresh while the
target is trusted; `LaunchAnswered`.

*Command path.* `NotRunTrue`, `OnceOnly`, `UncertaintyKept`: after a change nobody
accepted the game process runs nothing more.

*Desired state.* `IntentDurable`: what the adapter believes is wanted is what a restart
would read, unless its write is owed or the document is not ours; what a later version
wrote stays until the user deletes it or saves over a profile that cannot be read.
`CleanTrue`: when nothing is pending, the game holds it. `TeardownTrue`: "Disable all" is
done only when nothing is on and nothing could be turned on by a later start. `Settles`:
while a save is played and the adapter is attached, pending work ends for good.

*Hades II editor.* `ReviewTrue`, `InstalledAsShown`, `LedgersTrue` (claims and gifts
move all counters of a resource together), `CoherentKept` (no record without the one
it depends on).

*Hades.* `NoBlindReplay`, `FocusKept`, `Backed` (the resident holds every durable
setting of which no error was told), `SpeedTrue`.

*Hades editor.* `SeenTrue`, `BatchTrue` (each edit lands on its own entry whatever
the others shift), `ReviewTrue`, `HeaderFollows`, `FileTrue`.

*Router.* `AnsweredInOrder`, `OnceOnly`, `ToldTrue`, `ViewTrue`.

Every property of a passing run has a mutant in `PROJECT.json`: an operator beside
the original that makes a plausible mistake, under which TLC finds the property
violated. Mutants stand next to what they change and are used nowhere.

### Fairness

Only `DesiredState` assumes any (`FairSpec`): a call that was sent is answered, a
reply is adapted, for the worker's loop is sequential and each call has a deadline;
and strongly fair polling, for the host asks for the status on a timer whenever it
is connected and no other command runs. The first two are written as the states they
lead out of. Nothing is assumed of the game, the user or the faults, so `Settles`
speaks of behaviours in which the save stays played.

### Findings

`hades_editor_ambiguous` (bug). When `GameState` holds a projected key twice,
removing one occurrence in Advanced is refused: `_plan` compares the unreadable
value before with the readable one after, and then asks for the address of the
ambiguous key outside the handler (`games/hades/save_workspace.py:647`).
`docs/reference/hades/save_editor.md:56` says that ambiguity leaves the occurrences
editable through Advanced.

Met while modelling, and excluded by name in the properties above instead of being
run: a final restart that Hades never uses (`HadesModule.swift:59` against
`TrainerConnectionPolicy.swift:148`); a stale connection kept after an unknown
outcome (`TrainerGameContext.swift:210`; `NoStale` speaks of a trusted target); a
launch consumed by a late connect (`TrainerConnectionPolicy.swift:118`;
`LaunchAnswered` excludes it); a reset of what is desired that a reload undoes
(`resident_session.py:252`; `host.lost`); a raw Advanced edit that a planner
overwrites after it (`games/hades2/save_workspace.py:1621`; `RawFree`).

## 4. The proofs

### The save transaction

Every property of `SaveTransaction` that the run checks is also proved, for all
constants that satisfy the module's assumptions, in `SaveTransactionProofs`:

* `TypeCorrect`: `Spec => []TypeOK`, one step per action over the lemmas on the
  shared parts of actions (`Enter`, `RaiseWith`, `End`).
* `LastCopyKeptAlways`. The property is not inductive: that the directory which is
  left behind has the *whole* baseline depends on the copy having been finished, and
  on its directory being there, before anything was mutated. `EvidenceInv` says
  that: in `capture` nothing is copied; in `copy` every file is either in `todo` or
  copied; from then on `copy = base` and the directory exists; and before the first
  mutation `effect` is `"none"`.

Then `OutcomeTrueAlways`, `OverwriteKnownAlways`, `ColdStartAlways` (a
cold mutation under a running game missed only a launch after the last check) and
`PreWriteKeptAlways`, from one inductive invariant, `OutcomeInv`, which adds to
`EvidenceInv`

* `SeenInv`: what a loop of a decisive verification has passed still matches, but for
  what the game wrote since; the fact is handed on from the last baseline
  verification through the last stopped check to each file not yet touched, and from
  the last target verification, or that of a rollback, to the end;
* `PathInv`: which stages a restore and a cold transaction can be in, and that nothing
  is decided before they end;
* `InstallInv`: an installation has something to install, so that a transaction past
  it has an unproven effect, and its success proves one;
* `ReportInv`, `SnapshotInv`, `ColdInv`: what each stage knows of the effect, of the
  snapshot and of the process.

Also there: `OnlyOwnedAlways` (mutation and rollback change owned files only), from `TypeOK` and `WorkInv`, and `ContractKept`, the refinement `Spec =>
KeepsContract`: the initial states map to initial states, and under `OutcomeInv` every
step is a `Start`, `Touch`, `Commit`, `Undo` or `Report` of `SaveOutcome`, or leaves
its variables unchanged.

The assumptions are those in the module: `AbsentAssumption` (no content is the absent
file), `RequestsAssumption` (requests are what the two entry points accept),
`BoundsAssumption`. No bound is used for anything but its type.

### The staged restore

`StagedRestoreProofs` extends `StagedRestore` and uses of the transaction only what
`SaveOutcome` promises.

* `StagedTypes`: types, and `JobOK`: a transaction runs in one of three stages, only
  `applying` is for a staged intent, and a known failure has the effect `"none"`.
* `UncertainVisibleAlways`, for any number of workers. That there is a claim of the
  intent is not inductive, since two workers may attempt the same intent and one of
  them put its claim back. `VisibleInv` says that there is a claim whose owner has
  done something, so that its owner will not put it back (`Untouched`), and that a
  worker's claims are of its own attempt (`OwnInv`).
* `NeverReplayedAlone` and `InputKeptAlone`, for one worker at a time, with any number
  of deaths and restarts (`OneWorker`). `AttemptInv`: between the reading of the marker
  and its claim it stays the same, the claims are then that one marker, and the
  attempt's effect is the recorded one. `UseInv`: a worker about to remove a snapshot
  has seen no claim and a marker that does not need it.

The worker of a dead host beside the next one's is model-checked; the bound of the run
to two workers matters there. With three, two of them orphans, `NeverReplayed` does not
hold: one stages, one claims the new marker for the intent it read before, and the
third puts that intent back.

### The snapshot store

`SnapshotStoreProofs`, for every set of files and any number of snapshots, attempts,
states of the save and budgets:

* `ConsistentAlways`. `TrailInv`: a file's number is the state of the save that brought
  it, so a file that is the same in two states of `trail` was the same between them.
  `CopyInv`: once the second reading has begun, some state of `trail` has the files of the
  copy and is the same in every one read again. At its end that state is the copy.
* `CherishedKeptAlways`, from `KeepInv`: an edit of a manifest starts from the manifest on
  the disk (`EditInv`), and what the sweep has left to remove is eligible when it looks
  (`SweepInv`).
* `EvictionSoundAlways`, which is about the minimum of a finite order and is the only
  proof that needs one (`WellFoundedInduction`).

### The backend client and its session

`BackendSessionProofs`, for every set of requests, coalescing keys, replies and trusted
requests, any queue depth and any number of workers and game processes. `Base` is the
types with the order of tasks on the stack: which task may lie above which is what makes
a handler's remainder safe against the callback that runs before it.

* `NotSentTrueAlways`: `FlowInv` ties the writer, the request in flight and the posted
  blocks to each other; `StageInv` says that each request is in one place (not yet
  asked, queued, about to be sent, handed to the writer, with a worker, refused).
* `TrustGateAlways`: `TrustInv` says who knows of a doubt. Either the gate is closed and
  no trusted request waits for a worker that could read it, or the task that closes it
  is the next to run.
* `NeverStuckAlways`: `ExitInv` (a worker's state is `exited` exactly when one block that
  says so is posted), `LeavingInv` (who waits for a worker to go waits for one that is
  going), `TurnInv` (a request in flight has a timer, an answer or an exit), `AccountInv`
  (the queue has one in flight or a flush before it) and `BusyInv` (a busy interface has a
  request, a recovery or a reply behind it).

### The game context

`TrainerGameContextProofs`, for either game and any number of game processes, with an
unbounded queue on the main thread. The calls of the module, the decisions and the
handlers are functions of a host, so they are proved about as functions, once each:
`Called` says what a call changes, `Acts` and `Settles` what a decision may do, `Handles`
and `Keeps` what is left of an observation and of the opportunity it opened. A step of the
system is then one handler with what it takes from the queue.

`InvAlways` is the inductive invariant, which TLC checked on the run's instance before it
was proved:

* `Steady`, of the host alone at the end of a handler: a connection has a worker and a
  target, an edit is first in the queue of requests or not in it, a connect is there once
  and only while there is no connection (`Sound`), and the policy is about the process
  observed (`PolicyInv`, `TargetInv`).
* `WorldInv`: the launches in the queue are in order and of processes that were started.
* `WorkerInv`, `AnswerInv`, `AttachInv`: the host believes the last answer it was given, so
  where the worker is attached differs from that only while an answer flies that says so.
* `SeenInv`, `DecidesInv`: a connection that has come or gone, and a decision that is due
  with no decision made, have a published change in the queue. Without them a handler
  that publishes nothing could drop either.
* `LaunchInv`: the process launched last is observed while it runs, and its opportunity is
  open (`Open`) or was used. This is `LaunchAnswered` before the queue is empty, and it is
  kept across exits, refreshes, recoveries and crashes.

`LaunchAnsweredAlways` follows with no further hypothesis.

`NoStaleAlways` needs more: `StaleInv` says of Hades II that a worker attached to a process
that has gone has, somewhere, what will tell the host: an event still queued, a refresh
kept for an idle worker, or a request in flight that reports the target. It is proved under
`EndsKnown`, that each end of a process of Hades II is reported (`Recorded` contains it; for
Hades nothing is assumed). The hypothesis is about the system and not about the code, and
the code relies on it: the worker's target is compared with nothing else once it is
attached. Where an end goes unreported TLC shows a connection that stays.

### The command path

`CommandPathProofs`, for every set of commands and any number of workers, leases,
reloads, handoffs and losses. The actions are first abstracted into events: `Event(w)` for
what becomes of the slot, the mailbox and the reply of one worker, `GameEvent` and
`MainEvent` for the others. Each invariant is then shown against the events only.

* `BaseInv` is the types with `OwnInv` (one lease, one worker, and who may touch a slot in
  which state), `PumpInv` (what the pump holds is what it claimed) and `CallInv` (which
  mailbox a call's command is in).
* `NotRunTrueAlways` and `OnceOnlyAlways`. `OneChance`: a command can be claimed from
  one slot at most, and once it has run only the pump that ran it still holds that slot; `TellsInv`: what the pump, a worker's reply and the session are about to tell is
  true already.
* `UncertaintyKeptAlways`. `EvidenceInv`: the last command that ran is accepted, or the
  process is tainted, or its receipt is in the active slot, which nobody retires before it
  is read; `PendingInv`: what a worker acknowledges is the result its slot holds.

### The Hades client

`HadesRuntimeProofs`, for any number of commands, failures, workers and lifetimes, and
any documents. `Shape` sums up the steps of a worker, `Plain` those of a command that make
no call; the calls and the ends of a worker are taken one by one. The inductive invariant
`ClientInv` of the first three has seven parts: numbers and lifetimes (`CountInv`, `LifeInv`), the request
under way (`SentInv`), and

* `AloneInv` and `DoubtInv` for `NoBlindReplayAlways`: a request that nobody waits for is
  in doubt; a doubt is in the journal, and the client either knows of it or has not
  connected since. `NoBlindReplay` alone says nothing of a request that a worker has not
  yet evaluated.
* `FocusInv` for `FocusKeptAlways`: the focus requirement is off only inside the request
  under way or after a doubt.
* `SpeedInv` for `SpeedTrueAlways`: while no clock is being set (`Clocked`) and the game is
  the client's (`Linked`), the speed shown without an error is the game's, and a speed
  in a reply on its way is too.

* `BackedInv` for `BackedAlways`, which is about the moments between commands and says
  nothing of those inside one. `Sound` is the set of settings that are sure while a command
  is under way: those that neither it nor an error told before has put in question, and
  those its calls have brought already (`Built`); `Aim` is what each is to be.
  `KeepInv`: the resident, the worker's memory, which a resident made anew is given, and the
  good reply that the cleanup is about to remember hold them so. `LandInv`: what a Lua call
  acknowledged is what the resident holds. `DocumentInv` and `CommandInv` tie the
  adapter's features to the document and to what the call carries. The lemmas under them
  say what a call makes of what was desired (`Effects`), that a replay gives a new
  resident all of it (`Replaying`), and that a call moves no setting that is sure
  (`Unmoved`). TLC checked `BackedInv` on the instance of the run before it was proved.

`DocumentsAssumption` says that the documents are preferences, which
`preferences.py` makes them by normalising what it reads.

### The router

`RequestRouterProofs`, for every cache size, command, identity and host:

* `DoneOnceOnly` and `DoneIsTold`, from `RouterInv`: the types of the worker's state
  (`WorkerTypeOK`), `Window` (the cache is the newest part of the history, and only a full
  one has forgotten anything) and the two properties themselves.
* `AnsweredInOrderAlways`, from `OrderInv`: there is a function that lays the lines not
  yet answered out in the input, in their order, an overlong one as its pieces; a step
  reads the first of them and answers it.
* `ViewTrueAlways`, from `ViewInv`: there is a function that gives what the host will show
  after each reply it has not read yet. The baseline of the worker is what the last of
  them shows, unless a reply is on its way after which the host starts anew.

### What is only model-checked

* `Settles`, which is liveness under fairness and out of the prover's reach.
* The editors' properties: what their baskets, codecs and ledgers compute is defined by
  recursion over data, and induction over data is out of reach too. The modules proved
  about use no recursive operator.
* `NeverReplayed` and `InputKept` with an orphan worker beside the next (above).
* `CleanTrue` of the desired state: it is about what a fold over a group of changes
  leaves, which takes an induction over the group.
* `IntentDurable` and `TeardownTrue` of the desired state: within the prover's reach, and
  next in the plan.

## 5. Not modelled

* Presentation: views, localization, terminology, the wording of errors, labels, queries
  and pages of the editors, catalogs; hotkeys; logging; build tools; generated and
  vendored code.
* The Lua runtime of Hades II and single Lua actions of Hades, tied to the games; LLDB
  expressions and the fallback that executes a command through them; injection and signing
  (`preparation.py`); the system-call hooks of the time warp.
* Hades II: several profiles at once, their shortcuts and what each schema's migration
  converts, discovery of editable records, the binary container, payload edits, speech,
  player statistics, special interactions, owners that are ambiguous or malformed and the
  rows they block, draft continuity after an update; failures of the detachment; a
  document that must not be written is excluded from `Settles`.
* Hades: profiles' save and list, world queries, one-shots other than setting a value
  (they change no setting), `ps` failing for a living process, header sizes and checksums
  of the file. A raw rename onto the very key that a semantic action of the basket adds is
  accepted by the code, and left out of `BatchTrue`'s instance.
* Worker: the private session directory, the result of `hello` as part of what the host
  shows.
* Snapshots: two workers that change the same manifest or delete what the other stages;
  resolution of save roots; reclaiming of staging directories.
* Host: the termination protocol over several contexts, the target lease, the save
  manager's lists, the run log's watcher (its events are inputs).

Outside the program: the file system is taken to do a rename atomically, and the run
loop to be FIFO.

## 6. Plan

1. *Theorems.* `IntentDurable` and `TeardownTrue` of the desired state.
2. *Application termination* over several contexts, with the target lease.
3. *Profiles* of Hades: saving, listing and deleting them.
