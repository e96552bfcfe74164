--------------------------- MODULE TrainerGameContext ---------------------------
(***************************************************************************)
(* TrainerGameContext (Sources/Core/Host/TrainerGameContext.swift): the    *)
(* main thread decides when the trainer attaches itself to the game, when  *)
(* it asks again whether it is attached, and when it starts the worker     *)
(* again, from the notifications of the system about the game process, the *)
(* state of the worker and what the user does.                             *)
(*                                                                         *)
(* A handler of the main thread runs to its end, so each is a function     *)
(* from one state of the host to the next.  What the game module publishes *)
(* reaches the context later, as an event of its own.  TrainerBackendSession*)
(* is reduced to what the context sees of it: a worker that answers the    *)
(* requests in order, that exits at any time and that is started again.    *)
(***************************************************************************)
EXTENDS TrainerConnectionPolicy, Sequences, SequencesExt

CONSTANTS
  Modules,   \* the game modules the context may have: "hades", "hades2"
  Recorded,  \* those whose game always has an application record, so that the
             \* system reports each of its launches and each of its ends
  MaxGames   \* bound on the game processes that start

ASSUME ModuleAssumption == Modules \subseteq {"hades", "hades2"} /\ Recorded \subseteq Modules
ASSUME GamesAssumption == MaxGames \in Nat \ {0}

VARIABLES
  game,     \* the game process that runs, 0 when there is none
  born,     \* the game processes started so far: 1 .. born
  noted,    \* the last of them whose launch the system has notified
  main,     \* what the main thread has yet to handle
  host,     \* the state of the context, its module and its session
  worker    \* the worker process: the game it is attached to, and its answer to
            \* the request in flight, if it has one

world == <<game, born, noted>>
vars  == <<world, main, host, worker>>

MaxAttempts == 2  \* maximumAutomaticRecoveryAttempts

Event(fn)          == [fn |-> fn, pid |-> 0, code |-> "none"]
Note(fn, pid)      == [fn |-> fn, pid |-> pid, code |-> "none"]
Answer(code, pid)  == [fn |-> "reply", pid |-> pid, code |-> code]

\* The requests that must reach a game whose state is trusted, and those whose
\* answer says nothing about the game.
Trusted == {"connect", "disconnect", "status", "edit"}
Silent  == {"other"}
Kinds   == Trusted \cup Silent \cup {"scan"}

\* The worker has no answer yet, or it has given it.
NoAnswer == Event("none")
Answered == Event("answered")

\* A worker that has just started.
NewWorker == [alive |-> TRUE, attached |-> 0, answer |-> NoAnswer]

NoHost(module) ==
  [module |-> module,
   \* the context: targetObservation (pid 0: no process), the last process known,
   \* the policy, what the context saw of its model last, NSApp.isActive
   gen |-> 0, pid |-> 0, lastPid |-> 0, policy |-> NewPolicy,
   wasAvailable |-> FALSE, wasConnected |-> FALSE, active |-> TRUE,
   \* the module: connected, to which process, its launch gate, a published change
   connected |-> FALSE, target |-> 0, deferred |-> FALSE, ready |-> FALSE, changed |-> FALSE,
   \* the session: its worker, the recovery, the requests (the first in flight,
   \* sent in this lifetime of the game or not), the unknown outcomes
   backend |-> "down", attempts |-> 0, manual |-> FALSE, ops |-> <<>>,
   fresh |-> FALSE, untrusted |-> FALSE, uncertain |-> FALSE,
   \* history: the process launched last, and since then whether an attachment was
   \* tried, whether the user detached, and whether the host has seen a connection
   \* to another process
   launched |-> 0, tried |-> FALSE, detached |-> FALSE, overtaken |-> FALSE]

--------------------------------------------------------------------------------
(* What the module tells the context. *)

Available(h) == h.backend = "up"
Busy(h)      == h.ops # <<>> \/ h.backend = "recovering"

\* hostActionsEnabled.  Hades II accepts an action behind an edit.
Enabled(h) ==
  IF h.module = "hades" THEN Available(h) /\ ~Busy(h)
  ELSE ~h.untrusted /\ (~Busy(h) \/ h.ops = <<"edit">>)

\* A published status.  Hades I forgets what it observed while an outcome is unknown.
Published(h) ==
  [h EXCEPT !.changed = TRUE,
            !.connected = @ /\ ~(h.module = "hades" /\ h.uncertain)]

\* session.send
Send(h, kind) ==
  IF ~Available(h) \/ (kind \in Trusted /\ h.untrusted) THEN h
  ELSE Published([h EXCEPT !.ops = Append(@, kind), !.fresh = @ \/ h.ops = <<>>])

\* The worker starts without a request, and Hades asks it for what it shows.
Up(h) == Published([h EXCEPT !.backend = "up", !.manual = FALSE, !.ops = <<>>])

StartBackend(h) ==
  LET up == Up([h EXCEPT !.attempts = 0])
  IN IF h.module = "hades" THEN Send(Send(up, "status"), "other") ELSE Send(up, "scan")

RefreshFromHost(h) ==
  Send(h, IF h.module = "hades" \/ h.connected THEN "status" ELSE "scan")

RestartBackendFromHost(h) ==
  Published([h EXCEPT !.backend = "recovering", !.manual = TRUE])

\* consumeDeferredLaunchAttachIfPossible
ConsumeDeferred(h, busy) ==
  IF h.deferred /\ h.ready /\ ~h.untrusted /\ Available(h) /\ ~busy /\ ~h.connected
  THEN Send([h EXCEPT !.deferred = FALSE, !.ready = FALSE], "connect")
  ELSE h

\* The debugger of Hades II waits for the launched game to have loaded.
ConnectAutomatically(h, launched) ==
  IF h.module = "hades2" /\ (h.deferred \/ launched)
  THEN ConsumeDeferred([h EXCEPT !.deferred = TRUE, !.changed = TRUE], Busy(h))
  ELSE Send(h, IF h.connected THEN "disconnect" ELSE "connect")

ToggleFromHost(h) ==
  Send([h EXCEPT !.deferred = FALSE, !.ready = FALSE],
       IF h.connected THEN "disconnect" ELSE "connect")

\* hostTargetLifetimeChanged
ModuleLifetimeChanged(h) ==
  IF h.module = "hades" THEN [h EXCEPT !.connected = FALSE, !.changed = TRUE]
  ELSE LET cancelled == [h EXCEPT !.deferred = FALSE, !.ready = FALSE]
       IN IF Available(h) THEN cancelled ELSE StartBackend(cancelled)

\* saveManager.applyStagedIfPossible
ApplyStaged(h) == Send(h, "other")

--------------------------------------------------------------------------------
(* The decisions of the context. *)

Decided(h) ==
  [h EXCEPT !.tried = TRUE]

AutomaticConnection(h) ==
  LET p == [h.policy EXCEPT !.restart = @ /\ ~Available(h)] IN
  IF ConsumesRestart(p, Available(h), Busy(h), Enabled(h))
  THEN RestartBackendFromHost([h EXCEPT !.policy = [p EXCEPT !.restart = FALSE]])
  ELSE IF ConsumesConnect(p, Available(h), Busy(h), h.connected, Enabled(h))
  THEN ConnectAutomatically([Decided(h) EXCEPT !.policy = AfterConnect(p)], p.background)
  ELSE [h EXCEPT !.policy = p]

\* reconcileAutomaticConnection
Reconcile(h) ==
  LET due == ConsumesExitRefresh(h.policy, Available(h), Busy(h))
      kept == [h EXCEPT !.policy.exitRefresh = @ /\ ~due]
  IN IF h.untrusted THEN h
     ELSE IF due /\ h.connected THEN RefreshFromHost(kept)
     ELSE IF h.policy.background \/ h.active THEN AutomaticConnection(kept)
     ELSE kept

\* modelChanged
ModelChanged(h) ==
  LET seen ==
        [h EXCEPT
          !.wasAvailable = Available(h), !.wasConnected = h.connected,
          !.overtaken = @ \/ (h.connected /\ ~h.wasConnected /\ h.target # h.pid),
          !.policy = LET p == IF Available(h) = h.wasAvailable THEN @
                              ELSE IF Available(h) THEN BackendBecameAvailable(@)
                              ELSE BackendBecameUnavailable(@)
                     IN IF h.connected = h.wasConnected THEN p
                        ELSE ConnectionChanged(p, h.connected)]
  IN Reconcile(IF Available(h) /\ ~h.wasAvailable /\ h.pid = 0 THEN ApplyStaged(seen) ELSE seen)

\* session.targetLifetimeChanged
LifetimeChanged(h) ==
  LET known == [h EXCEPT !.untrusted = FALSE, !.uncertain = FALSE, !.fresh = FALSE]
  IN IF h.uncertain THEN Published(known) ELSE known

\* Another process under the same generation ends the one before.
Replaced(p, replaced) == IF replaced THEN TargetStateChanged(p, FALSE, FALSE) ELSE p

\* targetChanged
TargetChanged(h, gen, pid) ==
  LET launched == gen # h.gen
      replaced == ~launched /\ h.pid # 0 /\ pid # 0 /\ pid # h.pid
      lived == IF launched \/ (h.lastPid # 0 /\ pid # 0 /\ h.lastPid # pid)
               THEN LifetimeChanged(h) ELSE h
      seen  == [lived EXCEPT
                  !.gen = gen, !.pid = pid, !.lastPid = IF pid = 0 THEN @ ELSE pid,
                  !.detached = FALSE,
                  !.launched = IF launched THEN pid ELSE @,
                  !.overtaken = @ /\ ~launched,
                  !.tried = IF launched THEN h.connected /\ h.target = pid ELSE @]
      told  == [ModuleLifetimeChanged(seen) EXCEPT
                  !.policy = ObserveTarget(Replaced(@, replaced), pid # 0, gen, FALSE)]
  IN Reconcile(IF pid = 0 /\ Available(told) THEN ApplyStaged(told) ELSE told)

\* publishPresence
PublishPresence(h, pid) == IF pid = h.pid THEN h ELSE TargetChanged(h, h.gen, pid)

--------------------------------------------------------------------------------
(* The session. *)

\* Hades I takes no connection to another process than the one it observes.
Believed(h, pid) == pid # 0 /\ (h.module = "hades" => pid = h.pid)

\* A reply: the status is idle before the outcome and the payload are looked at,
\* and an unknown outcome cancels the requests behind it.
Replied(h, answer) ==
  LET kind    == Head(h.ops)
      unknown == answer.code = "unknown"
      idle == ConsumeDeferred(Published([h EXCEPT !.attempts = IF answer.code = "ok" THEN 0 ELSE @]), FALSE)
      told == kind \notin Silent
      kept == [idle EXCEPT !.uncertain = @ \/ unknown,
                           !.untrusted = @ \/ (unknown /\ kind \in Trusted /\ h.fresh),
                           !.connected = IF told THEN Believed(h, answer.pid) ELSE @,
                           !.target = IF told THEN answer.pid ELSE @,
                           !.tried = @ \/ (told /\ answer.pid # 0 /\ answer.pid = h.pid)]
      rest == IF unknown THEN <<>> ELSE Tail(kept.ops)
      next == [kept EXCEPT !.ops = rest, !.fresh = rest # <<>>]
  IN IF answer.code # "ok" \/ kind \in {"connect", "disconnect", "edit"} \/ rest # <<>>
     THEN Published(next) ELSE next

\* The worker has exited: the outcome of the request in flight is unknown.
Exited(h) ==
  LET recovers == h.attempts < MaxAttempts
      lost == h.ops # <<>>
  IN Published([h EXCEPT
       !.uncertain = @ \/ lost,
       !.untrusted = @ \/ (lost /\ h.fresh /\ Head(h.ops) \in Trusted),
       !.connected = FALSE, !.ops = <<>>, !.fresh = FALSE,
       !.backend = IF recovers THEN "recovering" ELSE "down",
       !.attempts = IF recovers THEN @ + 1 ELSE @, !.manual = FALSE])

\* The recovery work item: the worker starts or does not.
Recovered(h) == ConsumeDeferred(Up(h), FALSE)

NotRecovered(h) ==
  IF ~h.manual /\ h.attempts < MaxAttempts THEN [h EXCEPT !.attempts = @ + 1]
  ELSE Published([h EXCEPT !.backend = "down", !.manual = FALSE])

--------------------------------------------------------------------------------
(* The user. *)

Toggle(h) ==
  ToggleFromHost([h EXCEPT !.policy = UserWillToggleConnection(@, h.connected),
                           !.detached = h.connected,
                           !.tried = @ \/ ~h.connected])

\* The primary button: restart, launch or toggle.
Primary(h) ==
  IF ~Available(h) THEN RestartBackendFromHost(h)
  ELSE IF h.connected \/ h.pid # 0 THEN Toggle(h)
  ELSE LET seen == PublishPresence(h, game)
       IN IF seen.pid # 0 THEN Toggle(seen) ELSE Send(seen, "other")

\* applicationBecameActive; asks: Hades II shows that it waits for the game.
BecameActive(h, asks) ==
  LET front == PublishPresence([h EXCEPT !.active = TRUE], game)
      seen  == Reconcile([front EXCEPT
                 !.policy = ObserveTarget(@, front.pid # 0, front.gen, FALSE)])
  IN IF asks /\ seen.connected /\ Available(seen) /\ ~Busy(seen) THEN Send(seen, "status") ELSE seen

--------------------------------------------------------------------------------
(* Actions *)

\* A handler has ended.  What the module published is an event of its own, unless
\* the context will see it in one that waits.  A value that nothing reads any more
\* is reset, to keep equal states together.
Became(h, rest) ==
  /\ host' = [h EXCEPT !.target = IF h.connected THEN @ ELSE 0]
  /\ main' = IF h.changed /\ Event("changed") \notin Range(rest)
             THEN Append(rest, Event("changed")) ELSE rest

\* The state in which a handler starts.
Calm(h) == [h EXCEPT !.changed = FALSE]

Now(h)  == Became(h, main) /\ UNCHANGED world
Next1(fn, h) ==
  /\ main # <<>> /\ Head(main).fn = fn
  /\ Became(h, Tail(main))
  /\ UNCHANGED world

Started == worker' = IF host'.backend = "up" /\ host.backend # "up" THEN NewWorker ELSE worker

InitialHost(module, active) ==
  LET seen == ModuleLifetimeChanged(
                [NoHost(module) EXCEPT !.pid = game, !.lastPid = game, !.active = active])
      told == Calm([seen EXCEPT !.policy = ObserveTarget(@, game # 0, 0, TRUE)])
  IN IF Available(told) THEN ModelChanged(told) ELSE told

\* Hades I starts its worker from the main queue, Hades II has started it.
Init ==
  /\ game \in {0, 1} /\ born = game /\ noted = game
  /\ \E module \in Modules, active \in BOOLEAN : host = InitialHost(module, active)
  /\ main = (IF host.module = "hades" THEN <<Event("start")>> ELSE <<>>)
            \o (IF host.changed THEN <<Event("changed")>> ELSE <<>>)
  /\ worker = [NewWorker EXCEPT !.alive = host.module = "hades2"]

OnStart == Next1("start", StartBackend(Calm(host))) /\ Started

OnModelChanged == Next1("changed", ModelChanged(Calm(host))) /\ Started

OnLaunched ==
  Next1("launch", TargetChanged(Calm(host), host.gen + 1, Head(main).pid)) /\ Started

\* The activation is counted after the presence it proves.
OnActivated ==
  LET seen == PublishPresence(Calm(host), Head(main).pid)
  IN Next1("activate", [seen EXCEPT !.policy = TargetActivated(@)]) /\ Started

OnTerminated == Next1("terminate", PublishPresence(Calm(host), game)) /\ Started

OnReply ==
  /\ Next1("reply", Replied(Calm(host), Head(main)))
  /\ worker' = [worker EXCEPT !.answer = NoAnswer]

OnExit == Next1("exit", Exited(Calm(host))) /\ UNCHANGED worker

\* The delay is over: the recovery is due, unless a worker was started since.
OnRecover ==
  /\ \E after \in IF host.backend # "recovering" THEN {Calm(host)}
                 ELSE {Recovered(Calm(host)), NotRecovered(Calm(host))} :
       Next1("recover", after)
  /\ Started

\* The run loop serves the main queue before it takes the next event of the
\* application: the user acts on what the context has seen.
Shown == Event("changed") \notin Range(main)

ClickPrimary == Shown /\ Enabled(host) /\ Now(Primary(Calm(host))) /\ Started

ClickRefresh ==
  /\ Shown /\ Available(host) /\ Enabled(host)
  /\ Now(RefreshFromHost(PublishPresence(Calm(host), game)))
  /\ Started

\* Any other request of the interface or of the module itself.
Work(kind) ==
  /\ Shown /\ Available(host) /\ ~Busy(host)
  /\ kind = "edit" => host.connected /\ Enabled(host)
  /\ Now(Send(Calm(host), kind))
  /\ Started

Activate ==
  /\ Shown /\ ~host.active
  /\ \E asks \in {host.module = "hades", TRUE} : Now(BecameActive(Calm(host), asks))
  /\ Started

Deactivate ==
  /\ Shown /\ host.active
  /\ Now([Calm(host) EXCEPT !.active = FALSE])
  /\ UNCHANGED worker

\* The run log shows that the game has loaded, or that it starts to load.
RuntimeReady ==
  /\ Shown /\ host.module = "hades2" /\ game # 0 /\ ~host.ready
  /\ Now(ConsumeDeferred([Calm(host) EXCEPT !.ready = TRUE], Busy(host)))
  /\ UNCHANGED worker

RuntimeReset ==
  /\ Shown /\ host.module = "hades2" /\ host.ready
  /\ Now([Calm(host) EXCEPT !.ready = FALSE])
  /\ UNCHANGED worker

HostActions ==
  \/ OnStart \/ OnModelChanged \/ OnLaunched \/ OnActivated \/ OnTerminated \/ OnReply \/ OnExit
  \/ OnRecover \/ ClickPrimary \/ ClickRefresh \/ Activate \/ Deactivate
  \/ RuntimeReady \/ RuntimeReset
  \/ \E kind \in {"other", "edit", "status"} : Work(kind)

RecoveryDue ==
  /\ host.backend = "recovering" /\ Event("recover") \notin Range(main)
  /\ main' = Append(main, Event("recover"))
  /\ UNCHANGED <<world, host, worker>>

GameStarts ==
  /\ game = 0 /\ born < MaxGames
  /\ born' = born + 1 /\ game' = born + 1
  /\ UNCHANGED <<noted, main, host, worker>>

\* A launch is notified late, after the process was seen perhaps, or never.
NotifyLaunch ==
  \E pid \in noted + 1 .. born :
    /\ noted' = pid /\ main' = Append(main, Note("launch", pid))
    /\ UNCHANGED <<game, born, host, worker>>

NotifyActivation ==
  /\ game # 0 /\ Note("activate", game) \notin Range(main)
  /\ main' = Append(main, Note("activate", game))
  /\ UNCHANGED <<world, host, worker>>

\* The end of a process without an application record is not notified.
GameExits ==
  /\ game # 0 /\ game' = 0
  /\ host.module \in Recorded => noted = game
  /\ main' \in {Append(main, Note("terminate", game))} \cup (IF host.module \in Recorded THEN {} ELSE {main})
  /\ UNCHANGED <<born, noted, host, worker>>

\* The worker acts on the request in flight; its answer may come much later.
Outcomes(kind) ==
  LET alive == worker.attached # 0 /\ worker.attached = game
      there == IF alive THEN game ELSE 0
  IN CASE kind = "other"      -> {Answer("ok", 0)}
       [] kind = "scan"       -> {Answer("ok", there)}
       [] kind = "connect"    -> {Answer("ok", game), Answer("failed", 0), Answer("unknown", 0)}
       [] kind = "disconnect" -> {Answer("ok", 0)}
       [] OTHER -> {Answer("ok", there)}
                   \cup (IF alive THEN {Answer("unknown", there), Answer("failed", 0)} ELSE {})

Execute ==
  /\ worker.alive /\ host.ops # <<>> /\ worker.answer = NoAnswer
  /\ \E answer \in Outcomes(Head(host.ops)) :
       /\ Head(host.ops) = "connect" /\ game = 0 => answer.code # "ok"
       /\ worker' = [worker EXCEPT !.answer = answer,
                                   !.attached = IF Head(host.ops) \in Silent THEN @ ELSE answer.pid]
  /\ UNCHANGED <<world, main, host>>

Reply ==
  /\ worker.alive /\ worker.answer \notin {NoAnswer, Answered}
  /\ main' = Append(main, worker.answer)
  /\ worker' = [worker EXCEPT !.answer = Answered]
  /\ UNCHANGED <<world, host>>

Crash ==
  /\ worker.alive
  /\ main' = Append(main, Event("exit"))
  /\ worker' = [worker EXCEPT !.alive = FALSE, !.attached = 0,
                              !.answer = IF @ = Answered THEN @ ELSE NoAnswer]
  /\ UNCHANGED <<world, host>>

World ==
  GameStarts \/ NotifyLaunch \/ NotifyActivation \/ GameExits \/ Execute \/ Reply \/ Crash
    \/ RecoveryDue

Next == HostActions \/ World

Spec == Init /\ [][Next]_vars

--------------------------------------------------------------------------------
(* Properties *)

\* Nothing is left to handle, and the host observes the game that runs.
Quiet == main = <<>> /\ ~Busy(host) /\ host.pid = game

Fresh(h) == h.connected => worker.attached = h.pid /\ h.pid # 0

\* Once all is quiet the host does not claim to be connected to a process that has
\* gone, whatever request was in flight when it went.
NoStale == Quiet /\ ~host.untrusted => Fresh(host)

\* The host observes the process launched last, and nothing forbids to attach to it.
Wanted ==
  /\ Quiet /\ Available(host) /\ ~host.untrusted
  /\ host.launched # 0 /\ host.launched = host.pid /\ ~host.detached

\* A launched game is attached to, or that was tried at least once: no exit, refresh,
\* recovery or busy worker uses up the opportunity, unless it is a late connection
\* to the process before.
LaunchAnswered == Wanted => host.connected \/ host.tried \/ host.overtaken

================================================================================
