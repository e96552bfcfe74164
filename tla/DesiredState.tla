----------------------------- MODULE DesiredState -----------------------------
(***************************************************************************)
(* The Hades II adapter as the keeper of what the user wants               *)
(* (Backend/games/hades2/adapter.py, desired_reconciliation.py,            *)
(* preferences.py, profile_service.py, resident_session.py): the durable   *)
(* document of desired state, its copy in the worker, the profile the user *)
(* saves it under, and the Lua resident of the game that should hold the   *)
(* same.  A change is written first, then adopted, then sent; what could   *)
(* not be sent stays pending and is replayed from an observation of the    *)
(* resident.                                                               *)
(*                                                                         *)
(* One feature (infiniteMoney), one lock (Money), one one-shot (the next   *)
(* room reward, told apart by its token) and the game speed stand for all  *)
(* of their kind.  The transport below is CommandPath; here a call is      *)
(* answered with one of the outcomes that path can give.                   *)
(***************************************************************************)
EXTENDS Naturals, Sequences, SequencesExt

CONSTANTS
  Found,        \* what a first start finds: a document and a profile
  MaxCommands,  \* bound on the commands of the user, one fresh token for each
  MaxFaults,    \* bound on what fails: writes, calls, the worker, the clock
  MaxGens       \* bound on the Lua generations: launches and reloads

ASSUME BoundsAssumption == MaxCommands \in Nat /\ MaxFaults \in Nat /\ MaxGens \in Nat

VARIABLES
  host,     \* the adapter: desired state, its document and what it believes
  session,  \* the resident session: the attachment and the generation it trusts
  game,     \* the game process, its Lua state, the resident and the clock
  job,      \* the command the worker executes
  budget    \* commands given, faults left, documents of a later version kept

vars == <<host, session, game, job, budget>>

Amounts  == 1..2
NoLock   == 0
NoToken  == 0
Unknown  == 0        \* no observation of the speed
Defaults == [infinite |-> FALSE, lock |-> NoLock, token |-> NoToken, speed |-> 1]

Prefs == [infinite : BOOLEAN, lock : {NoLock} \cup Amounts,
          token : NoToken .. MaxCommands, speed : 1..2]

\* A document on disk: none, this version's, an earlier version's that is still
\* read, one too old for that, a later version's, or one that is damaged.
Document(p) == [kind |-> "own", prefs |-> p]
Earlier(p)  == [kind |-> "earlier", prefs |-> p]
NoFile      == [kind |-> "none", prefs |-> Defaults]
Ancient     == [kind |-> "ancient", prefs |-> Defaults]
Later       == [kind |-> "later", prefs |-> Defaults]
Damaged     == [kind |-> "damaged", prefs |-> Defaults]

Documents == {Document(p) : p \in Prefs} \cup {Earlier(p) : p \in Prefs}
             \cup {NoFile, Later, Damaged}

ASSUME FoundAssumption ==
  Found \subseteq [file : Documents, profile : Documents \cup {Ancient}]

-----------------------------------------------------------------------------
(* What the four records are made of *)

NoSession == [pid |-> 0, ready |-> 0, link |-> "up"]

Dirty(h) == h.runtime \/ h.persist

\* Reading a document: Infinite Gold and a fixed amount exclude each other, and
\* an earlier version knew no Infinite Gold.
Normalized(p) == IF p.infinite THEN [p EXCEPT !.lock = NoLock] ELSE p
Migrated(p)   == [p EXCEPT !.infinite = FALSE]
Readable(doc) == doc.kind \in {"own", "earlier"}
Wanted(doc)   == Normalized(IF doc.kind = "earlier" THEN Migrated(doc.prefs) ELSE doc.prefs)

\* A damaged document is moved aside, if that can be done.
SetAside(doc) == IF doc = Damaged THEN {NoFile, Damaged} ELSE {doc}

\* A worker starts: a document it could read is pending.
Loaded(file, profile, blocked) ==
  LET known == Readable(file) /\ ~blocked IN
  [mem |-> IF known THEN Wanted(file) ELSE Defaults, file |-> file, profile |-> profile,
   init |-> known, blocked |-> blocked, runtime |-> known, persist |-> FALSE,
   connected |-> FALSE, features |-> FALSE, pid |-> 0, seen |-> Unknown,
   torn |-> FALSE, lost |-> FALSE, adrift |-> FALSE]

\* One that is there and was not read blocks every write of this worker.
Started(file, profile) ==
  {Loaded(doc, profile, TRUE) : doc \in {file} \ {NoFile}}
  \cup {Loaded(doc, profile, FALSE) : doc \in SetAside(file) \ {Later, Damaged}}

\* A Lua state without the resident; its number is the generation.
NewLua(gen) ==
  [gen |-> gen, booted |-> FALSE, infinite |-> FALSE, lock |-> NoLock,
   token |-> NoToken, consumed |-> NoToken, scene |-> "loading", used |-> {}]
NewProcess(gen) ==
  NewLua(gen) @@ [proc |-> gen, money |-> 1, speed |-> 1, poisoned |-> FALSE]
Reloaded(g) == NewLua(g.gen + 1) @@ g

\* The frame guard keeps a held amount as soon as the inventory exists.
Enforced(g) == IF g.lock # NoLock /\ g.scene = "ready" THEN [g EXCEPT !.money = g.lock] ELSE g

Observation(g) ==
  [infinite |-> g.infinite, lock |-> g.lock, money |-> g.money, token |-> g.token,
   consumed |-> g.consumed, owner |-> g.scene = "ready"]
NoObservation == Observation(NewProcess(0))

Idle(ok) ==
  [cmd |-> "none", ok |-> ok, stage |-> "idle", kind |-> "none", calls |-> <<>>, was |-> FALSE,
   unsaved |-> FALSE, unwarped |-> FALSE, code |-> "none", reset |-> FALSE, obs |-> NoObservation]

Attached(s)  == s.pid # 0
Alive(w)     == Attached(w.s) /\ w.s.pid = w.g.proc /\ w.s.link = "up"
AllowsWarp(s) == s.link # "broken" /\ s.ready # 0

-----------------------------------------------------------------------------
(* A handler is a function from the state w of the worker and the game to   *)
(* the set of states it can leave, one for each way its steps can go.       *)

World == [h |-> host, s |-> session, g |-> game, j |-> job,
          n |-> budget.commands, f |-> budget.faults, l |-> budget.later]

Raised(w) == w.j.code # "none"
Raise(w, code) == [w EXCEPT !.j.code = code]
Then(S, F(_)) == UNION {IF Raised(w) THEN {w} ELSE F(w) : w \in S}
Fault(w) == IF w.f > 0 THEN {[w EXCEPT !.f = @ - 1]} ELSE {}

\* atomic_write_text: the new document is there whole, or the old one is.
Written(w, new) == {new} \cup {Raise(x, "unsaved") : x \in Fault(w)}

\* _persist_preferences_candidate: a whole document settles any older failure.
Persist(w, p) ==
  IF w.h.blocked THEN {Raise(w, "unsaved")}
  ELSE Written(w, [w EXCEPT !.h.file = Document(p), !.h.persist = FALSE])

\* _save_preferences: the state already adopted, its write owed when it fails.
Save(w) == {IF Raised(x) THEN [x EXCEPT !.h.persist = TRUE] ELSE x : x \in Persist(w, w.h.mem)}

\* Mutant: adopted although the document could not be written.
AdoptUnsaved(p, w) ==
  {[x EXCEPT !.h.mem = p, !.h.init = TRUE, !.h.runtime = TRUE, !.j.was = x.h.runtime] : x \in Persist(w, p)}

\* A candidate is written before it is adopted and is pending until confirmed.
Adopt(p, w) ==
  {IF Raised(x) THEN x
   ELSE [x EXCEPT !.h.mem = p, !.h.init = TRUE, !.h.runtime = TRUE, !.j.was = x.h.runtime]
    : x \in Persist(w, p)}

\* _apply_game_speed: a failure is reported, whether or not the clock changed.
\* Resetting a process that is not reachable touches nothing and succeeds.
ApplySpeed(w, speed) ==
  LET done == [w EXCEPT !.h.seen = speed, !.h.adrift = FALSE]
      moved(x) == [x EXCEPT !.g.speed = speed] IN
  IF Alive(w)
  THEN {moved(done)}
       \cup {Raise([y EXCEPT !.h.adrift = TRUE], "unwarped")
              : y \in UNION {{x, moved(x)} : x \in Fault(w)}}
  ELSE IF speed = 1 THEN {done} ELSE {Raise(w, "unwarped")}

\* _observe_game_speed: once for an attachment, and again after an invalidation.
ObserveSpeed(w) ==
  IF ~AllowsWarp(w.s) \/ w.h.seen # Unknown THEN {w}
  ELSE LET actual == IF Alive(w) THEN w.g.speed ELSE 1 IN
       {[w EXCEPT !.h.seen = actual, !.h.runtime = @ \/ actual # w.h.mem.speed]}
       \cup {Raise([x EXCEPT !.h.runtime = TRUE], "unwarped") : x \in Fault(w)}

-----------------------------------------------------------------------------
(* Losing the game, or the Lua state the session trusted *)

Unobserved(w) == [w EXCEPT !.h.seen = Unknown, !.h.runtime = TRUE, !.h.lost = FALSE, !.h.adrift = FALSE]
Forget(w) == [Unobserved(w) EXCEPT !.h.features = FALSE]
MarkDisconnected(w) == [Forget(w) EXCEPT !.h.connected = FALSE]
MarkInvalidated(w)  == [Forget(w) EXCEPT !.h.connected = TRUE, !.h.pid = w.s.pid]
Detach(w) == [MarkDisconnected(w) EXCEPT !.s = [NoSession EXCEPT !.link = IF w.s.link = "broken" THEN "broken" ELSE "up"]]
Attach(w) == [w EXCEPT !.s = [NoSession EXCEPT !.pid = w.g.proc], !.h.connected = TRUE]

Scan(w) ==
  LET gone    == Attached(w.s) /\ ~Alive(w)
      changed == w.g.proc # w.h.pid
      w1 == IF gone THEN Detach(w)
            ELSE IF changed /\ w.h.pid # 0 THEN MarkDisconnected(w) ELSE w
      w2 == IF changed THEN [Unobserved(w1) EXCEPT !.s.ready = 0] ELSE w1
  IN [w2 EXCEPT !.h.pid = w.g.proc, !.h.features = @ /\ w2.h.connected]

-----------------------------------------------------------------------------
(* Hades2DesiredStateReconciler: what the resident lacks, in the order in   *)
(* which it is sent: staged locks, features, releases, locks, the one-shot. *)

Call(op, arg) == [op |-> op, arg |-> arg]

StagedLocks(p, obs) ==
  IF (p.lock # NoLock \/ obs.lock # NoLock) /\ ~obs.owner /\ obs.lock # p.lock
  THEN <<Call("stage", p.lock)>> ELSE <<>>

LockChanges(p, obs, force) ==
  IF p.lock = NoLock
  THEN IF obs.lock # NoLock THEN <<Call("lock", FALSE)>> ELSE <<>>
  ELSE (IF force \/ obs.money # p.lock THEN <<Call("money", p.lock)>> ELSE <<>>)
       \o IF force \/ obs.lock = NoLock THEN <<Call("lock", TRUE)>> ELSE <<>>

FeatureChange(p, obs, force) ==
  IF force \/ obs.infinite # p.infinite THEN <<Call("feature", p.infinite)>> ELSE <<>>

RewardChange(p, obs, force) ==
  IF force \/ obs.token # p.token THEN <<Call("reward", p.token)>> ELSE <<>>

Difference(p, obs, force) ==
  StagedLocks(p, obs) \o FeatureChange(p, obs, force) \o LockChanges(p, obs, force)
  \o RewardChange(p, obs, force)

\* The calls whose owner the observation shows.
OwnerAvailable(call, obs) == call.op \in {"stage", "feature", "reward"} \/ obs.owner

-----------------------------------------------------------------------------
(* The resident: M.dispatch for each command, M.dispatchBatch for a replay  *)

Refuses(g, call) ==
  \/ call.op \in {"lock", "money"} /\ g.scene # "ready"
  \/ call.op = "lock" /\ call.arg /\ g.infinite

Dispatch(g, call) ==
  Enforced(
    CASE call.op = "stage"   -> [g EXCEPT !.lock = call.arg]
      [] call.op = "feature" -> [g EXCEPT !.infinite = call.arg, !.lock = IF call.arg THEN NoLock ELSE @]
      [] call.op = "lock"    -> [g EXCEPT !.lock = IF call.arg THEN g.money ELSE NoLock]
      [] call.op = "money"   -> [g EXCEPT !.money = call.arg, !.lock = IF @ = NoLock THEN @ ELSE call.arg]
      [] call.op = "reward"  -> [g EXCEPT !.token = call.arg]
      [] call.op = "disable" -> [g EXCEPT !.infinite = FALSE, !.lock = NoLock, !.token = NoToken])

\* The first n calls took effect.
Applied(g, calls, n) == FoldLeft(Dispatch, g, SubSeq(calls, 1, n))

\* A batch stops at the call the resident refuses.
RefusedAt(g, calls) ==
  {n \in 1..Len(calls) : Refuses(Applied(g, calls, n - 1), calls[n])
                         /\ \A k \in 1..(n - 1) : ~Refuses(Applied(g, calls, k - 1), calls[k])}

\* _execute sends the source of the resident when the session trusts no
\* generation; it installs a resident unless the Lua state has one.
Booted(g) == IF g.booted THEN g ELSE [g EXCEPT !.booted = TRUE]

\* One boundary crossing and its answer.  The session trusts a generation from
\* its first good answer on.  A Lua state that still loads refuses the source.
Answered(w, code) == [w EXCEPT !.j.stage = "reply", !.j.code = code]

Executed(w, n, code) ==
  LET g == Applied(Booted(w.g), w.j.calls, n) IN
  [Answered(w, code) EXCEPT !.g = g, !.j.obs = Observation(g),
                            !.s.ready = IF code = "ok" THEN w.g.gen ELSE @]

Crossed(w) ==
  LET all     == Len(w.j.calls)
      refused == RefusedAt(Booted(w.g), w.j.calls) IN
  IF w.g.scene = "loading" THEN {Answered(w, "loading")}
  ELSE IF refused # {} THEN {Executed(w, n - 1, "failed") : n \in refused}
  ELSE {Executed(w, all, "ok")}
       \cup UNION {{[Executed(x, all, "noack") EXCEPT !.s.link = "broken", !.s.ready = 0]}
                   \cup {Executed(x, n, "failed") : n \in IF w.j.kind = "batch" THEN 0 .. all - 1 ELSE {0}}
                   \cup {[Executed(x, n, "unknown") EXCEPT !.g.poisoned = TRUE] : n \in {0, all}}
                    : x \in Fault(w)}

\* _execute and _execute_status: when the resident the session trusts is gone,
\* a status installs it again in the same call and reports the reset with the
\* answer it gets; any other call is refused.
Served(w) ==
  LET crossed(x) == Crossed(x) \cup {Answered(y, "waiting") : y \in Fault(x)}
      again == [w EXCEPT !.s.ready = 0, !.j.reset = TRUE] IN
  IF ~Alive(w) THEN {Answered(w, "disconnected")}
  ELSE IF w.g.poisoned THEN {Answered(w, "restart")}
  ELSE IF w.s.ready \in {0, w.g.gen} THEN crossed(w)
  ELSE {Answered(y, "waiting") : y \in Fault(w)}
       \cup IF w.j.kind \notin {"status", "observe"}
            THEN {[Answered(w, "gone") EXCEPT !.s.ready = 0]}
            ELSE {[x EXCEPT !.h.lost = @ \/ (x.j.code # "ok" /\ ~x.h.runtime)] : x \in crossed(again)}

-----------------------------------------------------------------------------
(* The ends of a command.  set_desired has stored the change and swallows   *)
(* what the game did not accept; a connection keeps a game that still loads *)
(* and gives up any other.                                                  *)

End(w, ok) == [w EXCEPT !.j = Idle(ok)]

Failed(w) ==
  CASE w.j.cmd \in {"feature", "speed"} -> End(w, w.j.code \notin {"noack", "unsaved"})
    [] w.j.cmd = "connect" /\ w.j.kind # "none" /\ w.j.code # "unsaved" ->
         IF w.j.code \in {"waiting", "loading"} THEN End(w, TRUE) ELSE End(Detach(w), FALSE)
    [] OTHER -> End(w, FALSE)

Closed(S) == {IF Raised(w) THEN Failed(w) ELSE w : w \in S}

\* The call is sent, unless the connection has lost an acknowledgement.
Execute(w, kind, calls) ==
  IF w.s.link = "broken" THEN {Raise(MarkDisconnected(w), "noack")}
  ELSE {[w EXCEPT !.j.stage = "call", !.j.kind = kind, !.j.calls = calls, !.j.reset = FALSE]}

\* Only a replay confirmed by the resident's own answer settles what is pending.
Confirmed(w, obs) ==
  LET pending == Difference(w.h.mem, obs, FALSE) # <<>> \/ w.h.seen # w.h.mem.speed IN
  End([w EXCEPT !.h.runtime = pending, !.h.torn = @ /\ pending, !.h.lost = @ /\ pending], TRUE)

\* What a replay sends: the difference, without what has no owner yet.
Deliverable(p, obs, force) ==
  SelectSeq(Difference(p, obs, force), LAMBDA c : OwnerAvailable(c, obs))

\* Mutant: a replay that finds nothing to send settles nothing.
ReplaySilent(w, obs, force) ==
  LET Sent(x) ==
        LET calls == Deliverable(x.h.mem, obs, force)
        IN IF calls = <<>> THEN {End(x, TRUE)} ELSE Execute(x, "batch", calls)
      Warped(x) == IF AllowsWarp(x.s) /\ (force \/ x.h.seen # x.h.mem.speed)
                   THEN ApplySpeed(x, x.h.mem.speed) ELSE {x}
  IN Then(Then(Then(IF w.h.persist THEN Save(w) ELSE {w}, ObserveSpeed), Warped), Sent)

Replay(w, obs, force) ==
  LET Sent(x) ==
        LET calls == Deliverable(x.h.mem, obs, force)
        IN IF calls = <<>> THEN {Confirmed(x, obs)} ELSE Execute(x, "batch", calls)
      Warped(x) == IF AllowsWarp(x.s) /\ (force \/ x.h.seen # x.h.mem.speed)
                   THEN ApplySpeed(x, x.h.mem.speed) ELSE {x}
  IN Then(Then(Then(IF w.h.persist THEN Save(w) ELSE {w}, ObserveSpeed), Warped), Sent)

\* A reward of the profile is a new one each time the profile is loaded.
LoadProfile(w, observed) ==
  Then(Adopt([Wanted(w.h.profile) EXCEPT !.token = IF @ = NoToken THEN NoToken ELSE w.n], w),
       LAMBDA x : IF observed THEN Replay(x, x.j.obs, TRUE) ELSE {End(x, TRUE)})

-----------------------------------------------------------------------------
(* _execute_runtime, once the answer is there *)

Merged(w) == [w EXCEPT !.h.connected = TRUE, !.h.features = TRUE, !.h.pid = w.s.pid]

\* A worker without desired state adopts what the resident holds.
AdoptRuntime(w) ==
  IF w.j.kind = "observe" \/ w.h.init \/ w.h.blocked THEN {w}
  ELSE Save([w EXCEPT !.h.mem = [infinite |-> w.j.obs.infinite, token |-> w.j.obs.token, speed |-> @.speed,
                                 lock |-> IF w.j.obs.lock = NoLock THEN NoLock ELSE w.j.obs.money],
                      !.h.init = TRUE, !.h.runtime = FALSE])

\* next_room_reward_consumed: a pending one-shot needs the resident's receipt.
Consumed(h, obs) ==
  h.mem.token # NoToken /\ obs.token = NoToken /\ (~Dirty(h) \/ obs.consumed = h.mem.token)

ConsumeOneShot(w) ==
  IF w.j.kind = "status" /\ Consumed(w.h, w.j.obs)
  THEN Save([w EXCEPT !.h.mem.token = NoToken]) ELSE {w}

\* _capture_command_preferences: what a lock command left in the resident.
Captured(mem, call, obs) ==
  CASE call.op = "lock"  -> [mem EXCEPT !.lock = IF call.arg THEN obs.money ELSE NoLock]
    [] call.op = "money" -> [mem EXCEPT !.lock = IF @ = NoLock THEN @ ELSE call.arg]
    [] OTHER -> mem

Capture(w) ==
  LET call == w.j.calls[1] IN
  IF w.j.kind = "mutate" /\ call.op \in {"lock", "money"} /\ (call.op = "money" => w.h.mem.lock # NoLock)
  THEN Save([w EXCEPT !.h.mem = Captured(@, call, w.j.obs)]) ELSE {w}

\* Mutant: a command the game accepted settles what was pending before it.
FinishedClean(w) ==
  CASE w.j.kind = "status" /\ Dirty(w.h) -> Replay(w, w.j.obs, FALSE)
    [] w.j.kind = "observe"              -> LoadProfile(w, TRUE)
    [] OTHER -> {End([w EXCEPT !.h.runtime = IF w.j.cmd \in {"feature", "reward"} THEN FALSE ELSE @],
                     ~w.j.unsaved /\ ~w.j.unwarped)}

\* Mutant: the answer of a teardown forgets the failed write.
FinishedUnsaved(w) ==
  CASE w.j.kind = "status" /\ Dirty(w.h) -> Replay(w, w.j.obs, FALSE)
    [] w.j.kind = "observe"              -> LoadProfile(w, TRUE)
    [] OTHER -> {End([w EXCEPT !.h.runtime = IF w.j.cmd \in {"feature", "reward"} THEN w.j.was ELSE @],
                     ~w.j.unwarped)}

Finished(w) ==
  CASE w.j.kind = "status" /\ Dirty(w.h) -> Replay(w, w.j.obs, FALSE)
    [] w.j.kind = "observe"              -> LoadProfile(w, TRUE)
    [] OTHER -> {End([w EXCEPT !.h.runtime = IF w.j.cmd \in {"feature", "reward"} THEN w.j.was ELSE @],
                     ~w.j.unsaved /\ ~w.j.unwarped)}

\* A receipt that could not be acknowledged ends the connection, also when the
\* write of what it said fails.
Severed(w) == Raise(MarkDisconnected(w), "noack")

Accepted(w) ==
  LET noack == w.j.code = "noack"
      fresh == IF w.j.reset THEN MarkInvalidated(w) ELSE w
      kept  == Then(Then(AdoptRuntime(Merged([fresh EXCEPT !.j.code = "none"])), ConsumeOneShot), Capture)
  IN IF noack THEN {Severed(x) : x \in kept} ELSE Then(Then(kept, ObserveSpeed), Finished)

AcceptedBatch(w) ==
  IF w.j.code = "noack" THEN {Severed(Merged(w))}
  ELSE {Confirmed(Merged([w EXCEPT !.j.code = "none"]), w.j.obs)}

Adapted(w) ==
  CASE w.j.code = "gone"         -> {MarkInvalidated(w)}
    [] w.j.code = "disconnected" -> {MarkDisconnected(w)}
    [] w.j.code \in {"ok", "noack"} -> IF w.j.kind = "batch" THEN AcceptedBatch(w) ELSE Accepted(w)
    [] OTHER -> {w}

-----------------------------------------------------------------------------
(* The commands *)

SetFeature(w, value) ==
  Then(Adopt([w.h.mem EXCEPT !.infinite = value, !.lock = IF value THEN NoLock ELSE @], w),
       LAMBDA x : IF Attached(x.s) /\ x.h.features
                  THEN Execute(x, "mutate", <<Call("feature", value)>>) ELSE {End(x, TRUE)})

SetNextRoomReward(w, token) ==
  Then(Adopt([w.h.mem EXCEPT !.token = token], w),
       LAMBDA x : IF Attached(x.s) /\ x.h.features
                  THEN Execute(x, "mutate", <<Call("reward", token)>>) ELSE {End(x, TRUE)})

SetGameSpeed(w, value) ==
  Then(Adopt([w.h.mem EXCEPT !.speed = value], w),
       LAMBDA x : IF Attached(x.s) /\ AllowsWarp(x.s)
                  THEN {IF Raised(y) THEN y ELSE End([y EXCEPT !.h.runtime = y.j.was], TRUE)
                         : y \in ApplySpeed(x, value)}
                  ELSE {End(x, TRUE)})

\* disable_all and cleanup: the reset is written first, and a failed write or a
\* failed clock never keeps the resident from being cleared.
Teardown(w) ==
  LET Reset == {IF Raised(x) THEN [x EXCEPT !.j.code = "none", !.j.unsaved = TRUE, !.h.torn = TRUE] ELSE x
                 : x \in Adopt(Defaults, w)}
      Warped(x) == {IF Raised(y) THEN [y EXCEPT !.j.code = "none", !.j.unwarped = TRUE] ELSE y
                     : y \in ApplySpeed(x, 1)}
      Reached(x) == IF Alive(x) THEN x ELSE LET y == Scan(x) IN IF y.h.pid = 0 THEN y ELSE Attach(y)
  IN IF w.s.link = "broken" THEN {Severed(w)}
     ELSE UNION {IF Alive(x) THEN UNION {Execute(y, "mutate", <<Call("disable", 0)>>) : y \in Warped(x)}
                 ELSE {End([x EXCEPT !.h.connected = FALSE, !.h.features = FALSE], ~x.j.unsaved)}
                  : x \in {Reached(y) : y \in Reset}}

ResetDesired(w) ==
  Then(Adopt(Defaults, w),
       LAMBDA x : {End(IF x.h.connected /\ ~Alive(x) THEN MarkDisconnected(x) ELSE x, TRUE)})

RuntimeReset(w) ==
  {End(IF Alive(w) /\ w.h.connected THEN MarkInvalidated([w EXCEPT !.s.ready = 0]) ELSE w, TRUE)}

Connect(w) ==
  LET x == Scan(w) IN
  IF x.h.pid = 0 THEN {Raise(x, "not running")}
  ELSE Execute(Attach(Unobserved(x)), "status", <<>>)

Disconnect(w) == {End(IF Alive(w) THEN Detach(w) ELSE MarkDisconnected(w), TRUE)}

\* The one profile of the model.  A listing moves a damaged one aside.
Shelved(w) == {[w EXCEPT !.h.profile = doc] : doc \in SetAside(w.h.profile)}

\* Saving keeps what is wanted, not what the game shows.
Shelve(w) ==
  Then(Written(w, [w EXCEPT !.h.profile = Document(Normalized(w.h.mem))]), LAMBDA x : {End(x, TRUE)})

\* It spares no document but a later version's, and that one only when its version
\* can be read: a document that cannot be read is replaced.
Unprotected(w) == {[x EXCEPT !.l = @ \ {"profile"}] : x \in Fault(w)}

SaveProfile(w) ==
  IF w.h.profile = Later
  THEN {Raise(w, "unsupported")} \cup UNION {Shelve(x) : x \in Unprotected(w)}
  ELSE Shelve(w)

DeleteProfile(w) ==
  IF w.h.profile = NoFile THEN {Raise(w, "missing")}
  ELSE {End([w EXCEPT !.h.profile = NoFile, !.l = @ \ {"profile"}], TRUE)}
       \cup {Raise(x, "undeleted") : x \in Fault(w)}

ListProfiles(w) == {End(x, TRUE) : x \in Shelved(w)}

ReadProfile(w) ==
  {Raise(x, "unread") : x \in Fault(w)}
  \cup IF ~Readable(w.h.profile) THEN {Raise(x, "unread") : x \in Shelved(w)}
       ELSE IF Attached(w.s) /\ w.h.connected THEN Execute(w, "observe", <<>>)
       ELSE LoadProfile(w, FALSE)

-----------------------------------------------------------------------------
(* Steps.  The worker executes one command at a time; the game and the      *)
(* faults take their steps between the parts of a command.                  *)

Become(w) ==
  /\ host' = w.h /\ session' = w.s /\ game' = w.g /\ job' = w.j
  /\ budget' = [commands |-> w.n, faults |-> w.f, later |-> w.l]

Begin(cmd, F(_)) ==
  /\ job.stage = "idle"
  /\ \E w \in Closed(F([World EXCEPT !.j = [Idle(TRUE) EXCEPT !.cmd = cmd]])) : Become(w)

\* A command of the user, which may bring a fresh token with it.
Command(cmd, F(_)) ==
  /\ budget.commands < MaxCommands
  /\ Begin(cmd, LAMBDA w : F([w EXCEPT !.n = @ + 1]))

\* The controls of a fixed amount are off while Infinite Gold is wanted.
UserEdits ==
  \/ \E b \in BOOLEAN : Command("feature", LAMBDA w : SetFeature(w, b))
  \/ \E b \in BOOLEAN : Command("reward", LAMBDA w : SetNextRoomReward(w, IF b THEN w.n ELSE NoToken))
  \/ \E v \in 1..2 : Command("speed", LAMBDA w : SetGameSpeed(w, v))
  \/ /\ ~host.mem.infinite
     /\ \/ \E b \in BOOLEAN : Command("lock", LAMBDA w : Execute(w, "mutate", <<Call("lock", b)>>))
        \/ \E v \in Amounts : Command("money", LAMBDA w : Execute(w, "mutate", <<Call("money", v)>>))

UserProfiles ==
  \/ Command("profile", ReadProfile)
  \/ Command("save", SaveProfile)
  \/ Command("delete", DeleteProfile)

UserEnds ==
  \/ Command("disable", Teardown)
  \/ Command("reset", ResetDesired)
  \/ Command("disconnect", Disconnect)
  \/ Command("generation", RuntimeReset)

\* What the host asks on its own.
Poll   == host.connected /\ Begin("status", LAMBDA w : Execute(w, "status", <<>>))
Look   == Begin("scan", LAMBDA w : {End(Scan(w), TRUE)})
Reach  == ~host.connected /\ Begin("connect", Connect)
Browse == Begin("profiles", ListProfiles)

Serve  == job.stage = "call"  /\ \E w \in Served(World) : Become(w)
Adapt  == job.stage = "reply" /\ \E w \in Closed(Adapted(World)) : Become(w)

\* The game
Play(g) == game' = g /\ UNCHANGED <<host, session, job, budget>>

Launch  == game.proc = 0 /\ game.gen < MaxGens /\ Play(NewProcess(game.gen + 1))
Quit    == game.proc # 0 /\ Play([NewProcess(game.gen) EXCEPT !.proc = 0])
Reload  == game.proc # 0 /\ game.gen < MaxGens /\ Play(Reloaded(game))
Enter   == /\ game.proc # 0
           /\ \/ game.scene = "loading" /\ Play([game EXCEPT !.scene = "bare"])
              \/ game.scene = "bare" /\ Play(Enforced([game EXCEPT !.scene = "ready"]))
Earn    == /\ game.scene = "ready" /\ game.lock = NoLock
           /\ \E v \in Amounts : Play([game EXCEPT !.money = v])
\* The room with the reward is entered.
Consume == /\ game.scene = "ready" /\ game.token # NoToken
           /\ Play([game EXCEPT !.token = NoToken, !.consumed = game.token,
                                !.used = @ \cup {game.token}])

\* The debugger process ends; the worker ends, and another one starts.
Cut   == /\ budget.faults > 0 /\ Attached(session) /\ session.link = "up"
         /\ session' = [session EXCEPT !.link = "cut"]
         /\ budget' = [budget EXCEPT !.faults = @ - 1]
         /\ UNCHANGED <<host, game, job>>
Crash == /\ budget.faults > 0
         /\ host' \in Started(host.file, host.profile)
         /\ session' = NoSession /\ job' = Idle(FALSE)
         /\ budget' = [budget EXCEPT !.faults = @ - 1]
         /\ UNCHANGED game

Init ==
  /\ \E f \in Found :
       /\ host \in Started(f.file, f.profile)
       /\ budget = [commands |-> 0, faults |-> MaxFaults,
                    later |-> {"file" : x \in {f.file} \cap {Later}}
                              \cup {"profile" : x \in {f.profile} \cap {Later}}]
  /\ session = NoSession
  /\ game = [NewProcess(0) EXCEPT !.proc = 0]
  /\ job = Idle(TRUE)

Next ==
  \/ UserEdits \/ UserProfiles \/ UserEnds \/ Poll \/ Look \/ Reach \/ Browse \/ Serve \/ Adapt
  \/ Launch \/ Quit \/ Reload \/ Enter \/ Earn \/ Consume \/ Cut \/ Crash

Spec == Init /\ [][Next]_vars

-----------------------------------------------------------------------------
(* Properties *)

\* The documents.  What the worker believes the user wants is what a restart
\* would read, unless its write is still owed or the document is not ours; and
\* what a later version of the program wrote stays until the user deletes it, or
\* saves over a profile that cannot be read.
IntentDurable ==
  /\ host.init => \/ host.persist
                  \/ host.blocked
                  \/ Readable(host.file) /\ Wanted(host.file) = host.mem
  /\ "file" \in budget.later => host.file = Later
  /\ "profile" \in budget.later => host.profile = Later

\* The resident holds what is wanted; a one-shot the game has used is absent.
Holds(p) ==
  /\ game.infinite = p.infinite /\ game.lock = p.lock
  /\ \/ game.token = p.token
     \/ game.token = NoToken /\ p.token \in game.used

\* Nothing is pending and the session trusts the resident that is there.
Settled ==
  /\ job.stage = "idle" /\ ~Dirty(host) /\ Alive(World)
  /\ session.ready = game.gen /\ ~game.poisoned

\* The same, save for three histories the adapter does not recover from.
CleanTrue ==
  Settled => \/ host.torn \/ host.lost
             \/ (Holds(host.mem) /\ (game.speed = host.mem.speed \/ host.adrift))

\* "Disable all" answers that it is done only when nothing is on in the game
\* and nothing is kept that a later start could turn on again.
TeardownTrue ==
  [][job.cmd = "disable" /\ job' = Idle(TRUE) =>
       /\ host'.file = Document(Defaults) /\ host'.mem = Defaults
       /\ ~game'.infinite /\ game'.lock = NoLock /\ game'.token = NoToken /\ game'.speed = 1]_vars

\* The host keeps asking for the status between the other commands, and the
\* worker goes on with the command it has: WF_vars(Serve) and WF_vars(Adapt),
\* written as the states they lead out of, which TLC evaluates faster.
Fairness ==
  /\ []<>(job.stage # "call") /\ []<>(job.stage # "reply")
  /\ SF_vars(Poll)
FairSpec == Spec /\ Fairness

\* A save is played and the adapter is attached to the game and trusts it.
Playing == game.scene = "ready" /\ Alive(World) /\ host.connected /\ ~game.poisoned /\ ~host.blocked

\* While the game is played, what is pending gets settled for good.
Settles == <>[]Playing => <>[]~Dirty(host)
====
