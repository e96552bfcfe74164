------------------------------ MODULE HadesRuntime ------------------------------
(***************************************************************************)
(* The Hades adapter, its runtime client and the recovery journal          *)
(* (Backend/games/hades/adapter.py, client.py, recovery.py,                *)
(* preferences.py, profiles.py; Backend/core/sidecar.py) over the worker   *)
(* and the game of HadesWorker.  A command of the user changes the durable *)
(* preferences and makes calls to the worker one after the other; a call   *)
(* that reaches the game is journalled before it is sent, and the journal  *)
(* is cleared when its end is known.                                       *)
(***************************************************************************)
EXTENDS HadesWorker

CONSTANTS
  Stored,       \* the preferences found at the first start
  Profiles,     \* the preferences the user's profiles hold
  MaxCommands   \* bound on the commands of the user

ASSUME CommandBound == MaxCommands \in Nat

VARIABLES
  client,   \* HadesRuntimeClient: the worker it owns and what it believes
  adapter,  \* HadesAdapter: the connection, the features, the observed speed
  disk,     \* the preferences and the recovery journal
  job,      \* the command the backend executes and the call it waits for
  seen      \* what happened, for the properties only

vars == <<game, worker, budget, client, adapter, disk, job, seen>>

Prefs    == [guard : BOOLEAN, lock : Locks, rarity : {Natural, Heroic}, speed : Speeds]
ASSUME DocumentsAssumption == Stored \subseteq Prefs /\ Profiles \subseteq Prefs

Defaults == [guard |-> FALSE, lock |-> NoLock, rarity |-> Heroic, speed |-> 1]
Settings == {"guard", "lock", "rarity"}

NoClient  == [w |-> Nobody, lost |-> "no", conn |-> FALSE, life |-> 0, uncertain |-> 0]
NoAdapter == [up |-> FALSE, conn |-> FALSE, features |-> Defaults, unread |-> FALSE,
              actual |-> Unseen, speedError |-> FALSE]
Idle == [cmd |-> "", arg |-> Defaults, prev |-> Defaults, ph |-> "idle", call |-> NoCall,
         out |-> Offline, bad |-> FALSE]

Init ==
  /\ game \in [life : {1}, up : {TRUE}, res : {NoResident} \cup
                 {[here |-> "other", desire |-> Neutral]}, speed : {1}, focus : {TRUE},
               at : {Nobody}, last : {0}]
  /\ worker = [w \in Workers |-> NotStarted]
  /\ budget = [faults |-> MaxFaults, resets |-> 1, commands |-> MaxCommands]
  /\ disk \in [prefs : Stored, journal : {0}]
  /\ client = NoClient
  /\ adapter = [NoAdapter EXCEPT !.up = TRUE, !.features = disk.prefs]
  /\ job = Idle
  /\ seen = [doubt |-> 0, told |-> Settings, calls |-> 0]

-----------------------------------------------------------------------------
(* The end of a command *)

\* The settings a command changes, and which an error of it leaves in question.
Touched(cmd) ==
  CASE cmd \in {"connect", "profile", "off"} -> Settings
    [] cmd = "feature"           -> {"guard", "lock"}
    [] cmd \in {"lock", "value"} -> {"lock"}
    [] cmd = "rarity"            -> {"rarity"}
    [] OTHER                     -> {}

Settles == CASE job.cmd = "feature" /\ ~job.arg.guard      -> {"guard"}
             [] job.cmd = "value" /\ job.prev.lock = NoLock -> {}
             [] OTHER -> Touched(job.cmd)

\* The command is answered: an error tells the user of what it touched, a
\* success settles it where the game was there to take it.
Told(ok, conn) ==
  seen' = [seen EXCEPT !.told =
             IF ~ok THEN @ \cup Touched(job.cmd) ELSE IF conn THEN @ \ Settles ELSE @]

Answer(ok, a) == /\ job' = Idle
                 /\ adapter' = a
                 /\ Told(ok, a.conn)

\* The next call of the command.
Call(m, a, j, ad) ==
  /\ job' = [j EXCEPT !.ph = "call", !.call = [NoCall EXCEPT !.m = m, !.a = a]]
  /\ adapter' = ad
  /\ UNCHANGED seen

\* Distrust of the session: an unknown end, or a client that lost its worker.
Lost(k) == k \in {"unknown", "restart"} \/ ~client.conn

\* A mutant: the failed speed is raised but not kept beside the speed shown.
SpeedFailedUnkept(ad, out) ==
  [ad EXCEPT !.actual = IF Lost(out.k) THEN Unseen ELSE @, !.conn = @ /\ client.conn]

\* A failed speed stays beside the speed shown.
SpeedFailed(ad, out) ==
  [ad EXCEPT !.speedError = TRUE,
             !.actual = IF Lost(out.k) THEN Unseen ELSE IF out.speed # Unseen THEN out.speed ELSE @,
             !.conn = @ /\ client.conn]

\* Writing the preferences fails or replaces the document.
Saved(p)  == disk' = [disk EXCEPT !.prefs = p] /\ NoFault
SaveFails == MayFail /\ Fault /\ UNCHANGED disk

-----------------------------------------------------------------------------
(* The commands *)

Commands == {"connect", "status", "disconnect", "quit", "feature", "rarity", "speed",
             "lock", "value", "off", "profile"}

Begin(cmd, arg) ==
  /\ adapter.up /\ job.ph = "idle" /\ budget.commands > 0
  /\ job' = [Idle EXCEPT !.cmd = cmd, !.arg = arg, !.prev = adapter.features, !.ph = "start"]
  /\ budget' = [budget EXCEPT !.commands = @ - 1]
  /\ UNCHANGED <<game, worker, client, adapter, disk, seen>>

Started(cmd) == job.ph = "start" /\ job.cmd = cmd /\ UNCHANGED <<game, worker>>

\* A mutant: an unfinished request found at connecting is taken as obsolete.
GuardNobody(life) == FALSE

\* An unfinished request of this very lifetime.
Guard(life) == disk.journal = life

\* The document as connecting leaves it: its file read, nothing known of the game.
ReadAnew == [adapter EXCEPT !.features = disk.prefs, !.unread = FALSE, !.actual = Unseen,
                            !.speedError = FALSE]

\* The preferences are read anew; the client refuses a lifetime with an
\* unfinished request and clears the request of another.
Connect ==
  /\ Started("connect")
  /\ \/ /\ ~game.up
        /\ Answer(FALSE, adapter) /\ NoFault /\ UNCHANGED <<client, disk>>
     \/ /\ game.up
        /\ LET a == ReadAnew
           IN IF Guard(game.life)
              THEN /\ Answer(FALSE, a) /\ NoFault /\ UNCHANGED <<client, disk>>
              ELSE /\ disk' = [disk EXCEPT !.journal = 0]
                   /\ client' = [client EXCEPT
                        !.w = IF client.lost # "no" THEN Nobody ELSE @,
                        !.lost = "no", !.life = game.life, !.uncertain = 0]
                   /\ Call("connect", a.features, [job EXCEPT !.prev = a.features], a)
                   /\ NoFault
     \/ /\ MayFail /\ Fault   \* unreadable preferences
        /\ Answer(FALSE, adapter) /\ UNCHANGED <<client, disk>>
     \/ /\ game.up /\ MayFail /\ Fault   \* an unreadable journal, or one that cannot be cleared
        /\ Answer(FALSE, ReadAnew) /\ UNCHANGED <<client, disk>>

Status ==
  /\ Started("status") /\ NoFault /\ UNCHANGED <<client, disk>>
  /\ IF ~adapter.conn THEN Answer(TRUE, adapter)
     ELSE IF ~client.conn
       THEN Answer(TRUE, [adapter EXCEPT !.conn = FALSE, !.actual = Unseen, !.speedError = FALSE])
       ELSE Call("status", Defaults, job, adapter)

\* A single edit merges into the document; one that could not be read is read
\* again first.
Known_(a) == IF a.unread THEN [a EXCEPT !.features = disk.prefs, !.unread = FALSE] ELSE a

Merged(cmd, arg, f) ==
  CASE cmd = "feature" -> [Guarded(f, arg.guard) EXCEPT !.speed = f.speed]
    [] cmd = "rarity"  -> [f EXCEPT !.rarity = arg.rarity]
    [] cmd = "speed"   -> [f EXCEPT !.speed = arg.speed]

Edit ==
  /\ job.cmd \in {"feature", "rarity", "speed"} /\ Started(job.cmd) /\ UNCHANGED client
  /\ LET a == Known_(adapter)
         doc == Merged(job.cmd, job.arg, a.features)
         b == [a EXCEPT !.features = doc]
     IN \/ /\ Saved(doc)
           /\ IF a.conn
                THEN Call(IF job.cmd = "speed" THEN "setspeed" ELSE job.cmd, job.arg, job, b)
                ELSE Answer(TRUE, IF job.cmd = "speed"
                                  THEN [b EXCEPT !.actual = Unseen, !.speedError = FALSE] ELSE b)
        \/ SaveFails /\ Answer(FALSE, a)

\* What captures a value of the run goes to the game first.
Capture ==
  /\ job.cmd \in {"lock", "value"} /\ Started(job.cmd) /\ UNCHANGED <<client, disk>> /\ NoFault
  /\ IF ~adapter.conn THEN Answer(FALSE, adapter)
     ELSE LET a == IF job.cmd = "lock" THEN Known_(adapter) ELSE adapter
          IN Call(job.cmd, job.arg, [job EXCEPT !.prev = a.features], a)

DisableAll ==
  /\ Started("off") /\ UNCHANGED client
  /\ \E saved \in BOOLEAN :
       /\ IF saved THEN Saved(Defaults) ELSE SaveFails
       /\ LET a == [adapter EXCEPT !.features = Defaults, !.unread = @ /\ ~saved]
          IN IF a.conn THEN Call("off", Defaults, [job EXCEPT !.bad = ~saved], a)
             ELSE Answer(saved, [a EXCEPT !.actual = Unseen])

LoadProfile ==
  /\ Started("profile") /\ UNCHANGED client
  /\ \/ /\ Saved(job.arg)
        /\ LET a == [adapter EXCEPT !.features = job.arg, !.unread = FALSE]
           IN IF a.conn THEN Call("configure", job.arg, job, a) ELSE Answer(TRUE, a)
     \/ SaveFails /\ Answer(FALSE, adapter)

WorkerRuns == client.w # Nobody /\ Running(client.w)

\* Leaving, or closing the backend: through the worker where there is one.
Leave ==
  /\ job.cmd \in {"disconnect", "quit"} /\ Started(job.cmd) /\ NoFault /\ UNCHANGED disk
  /\ IF WorkerRuns
       THEN Call("disconnect", Defaults, job, adapter) /\ UNCHANGED client
       ELSE /\ client' = IF job.cmd = "quit" THEN NoClient ELSE [client EXCEPT !.conn = FALSE]
            /\ Answer(TRUE, IF job.cmd = "quit" THEN NoAdapter
                            ELSE [adapter EXCEPT !.conn = FALSE, !.actual = Unseen, !.speedError = FALSE])

-----------------------------------------------------------------------------
(* A call of the client *)

\* A mutant: leaving the game is no mutation of it, so it needs no journal.
CrossesToStay(m) == m \notin {"speed", "disconnect"}

Crosses(m) == m # "speed"

\* The answer of the client to the adapter.
Back(out) == job' = [job EXCEPT !.ph = "back", !.out = out]

Distrusted(c) == [c EXCEPT !.conn = FALSE, !.uncertain = c.life]

\* Only a known end clears the journal; where that fails the call fails.
Settle(out, c) ==
  \/ /\ disk' = [disk EXCEPT !.journal = 0] /\ Back(out) /\ client' = c /\ NoFault
  \/ /\ MayFail /\ Fault /\ UNCHANGED disk /\ Back(Known)
     /\ client' = [c EXCEPT !.conn = IF out.k = "ok" THEN client.conn ELSE @]

Free(w) == w \in Workers /\ worker[w].st = "none" /\ \A v \in 1..(w - 1) : worker[v].st # "none"

Deliver(w, id) ==
  worker' = [worker EXCEPT ![w] = [(IF @.st = "none" THEN NewWorker ELSE @) EXCEPT
     !.st = "got", !.call = [job.call EXCEPT !.life = client.life, !.id = id]]]

Refused == Crosses(job.call.m) /\ client.uncertain # 0 /\ client.uncertain = client.life
Calling == job.ph = "call" /\ UNCHANGED <<game, adapter>>
Cleared == IF Crosses(job.call.m) THEN [disk EXCEPT !.journal = 0] ELSE disk

\* An uncertain lifetime takes no further request.
Refuse == /\ Calling /\ Refused
          /\ Back(Restart) /\ NoFault /\ UNCHANGED <<worker, client, disk, seen>>

\* The journal cannot be written: nothing is sent.
NotNoted == /\ Calling /\ ~Refused /\ Crosses(job.call.m) /\ MayFail /\ Fault
            /\ Back(Known) /\ UNCHANGED <<worker, client, disk, seen>>

\* A worker once lost stays lost, with the doubt it was lost with; one that is
\* not running is lost without any; a new one may not start.
NotSent ==
  /\ Calling /\ ~Refused /\ UNCHANGED <<worker, seen>>
  /\ \/ /\ client.lost = "unknown" /\ NoFault
        /\ disk' = IF Crosses(job.call.m) THEN [disk EXCEPT !.journal = client.life] ELSE disk
        /\ client' = Distrusted(client) /\ Back(UnknownEnd)
     \/ /\ client.lost = "known" \/ (client.lost = "no" /\ ~WorkerRuns /\ job.call.m # "connect")
        /\ NoFault
        /\ disk' = Cleared
        /\ client' = [client EXCEPT !.lost = "known", !.conn = FALSE] /\ Back(Known)
     \/ /\ client.lost = "no" /\ ~WorkerRuns /\ job.call.m = "connect" /\ MayFail /\ Fault
        /\ disk' = Cleared
        /\ Back(Known) /\ UNCHANGED client

\* The request is journalled, then reaches the worker.
Send ==
  /\ Calling /\ ~Refused /\ client.lost = "no" /\ NoFault
  /\ \E w \in Workers :
       /\ IF WorkerRuns THEN w = client.w ELSE job.call.m = "connect" /\ Free(w)
       /\ Deliver(w, seen.calls + 1)
       /\ client' = [client EXCEPT !.w = w]
  /\ disk' = IF Crosses(job.call.m) THEN [disk EXCEPT !.journal = client.life] ELSE disk
  /\ job' = [job EXCEPT !.ph = "sent", !.call.life = client.life, !.call.id = seen.calls + 1]
  /\ seen' = [seen EXCEPT !.calls = @ + 1]

Waiting == job.ph = "sent"

\* A request to act on the game reached the worker, and nobody will report its end.
Doubt == IF job.call.m # "speed" /\ game.life = job.call.life /\ seen.doubt = 0
           THEN job.call.id ELSE seen.doubt
InDoubt == seen' = [seen EXCEPT !.doubt = Doubt]

ClientReply ==
  /\ Waiting /\ worker[client.w].st = "replied"
  /\ worker' = [worker EXCEPT ![client.w].st = "idle", ![client.w].out = Offline,
                              ![client.w].call = NoCall]
  /\ LET out == worker[client.w].out
     IN IF out.k \in {"unknown", "restart"}
        THEN /\ client' = Distrusted(client) /\ Back(out) /\ UNCHANGED disk /\ NoFault
             /\ IF out.k = "unknown" THEN InDoubt ELSE UNCHANGED seen
        ELSE /\ UNCHANGED seen
             /\ LET c == IF out.k = "ok" THEN [client EXCEPT !.conn = out.conn] ELSE client
                IN IF Crosses(job.call.m) THEN Settle(out, c)
                   ELSE Back(out) /\ client' = c /\ UNCHANGED disk /\ NoFault
  /\ UNCHANGED <<game, adapter>>

\* A reply that is not one the protocol knows: the worker is closed.
ClientMalformed ==
  /\ Waiting /\ worker[client.w].st = "replied" /\ MayFail /\ Fault
  /\ Killed(client.w) /\ Back(Known) /\ UNCHANGED <<adapter, disk>>
  /\ InDoubt
  /\ client' = IF Crosses(job.call.m) THEN Distrusted(client) ELSE [client EXCEPT !.conn = FALSE]

\* The reply does not come in time, or the worker is found dead.
ClientLoses ==
  /\ Waiting
  /\ \/ ~Running(client.w) /\ NoFault /\ UNCHANGED <<worker, game>>
     \/ Running(client.w) /\ MayFail /\ Fault /\ Killed(client.w)
  /\ UNCHANGED <<adapter, disk>>
  /\ InDoubt
  /\ IF Crosses(job.call.m)
       THEN client' = [Distrusted(client) EXCEPT !.lost = "unknown"] /\ Back(UnknownEnd)
       ELSE client' = [client EXCEPT !.lost = "known", !.conn = FALSE] /\ Back(Known)

-----------------------------------------------------------------------------
(* What the adapter does with the answer *)

Returned(ms) == job.ph = "back" /\ job.call.m \in ms /\ UNCHANGED game
Good == job.out.k = "ok"
Quiet == UNCHANGED <<worker, client, budget, disk>>

\* Reconciling after connecting or loading a profile: the locks, the rarity and
\* the speed, each only where it differs from what is desired.
NextSpeed(a) == Call("speed", Defaults, job, a)
NextRarity(a) == IF a.conn /\ a.features.rarity # Heroic
                   THEN Call("rarity", a.features, job, a)
                 ELSE IF a.conn THEN NextSpeed(a) ELSE Answer(TRUE, a)

\* A mutant: only a lock that is desired is compared.
NextLocksHeld(a) == IF a.conn /\ a.features.lock # NoLock /\ job.out.desire.lock # a.features.lock
                      THEN Call("locks", a.features, job, a) ELSE NextRarity(a)

NextLocks(a) == IF a.conn /\ job.out.desire.lock # a.features.lock
                   THEN Call("locks", a.features, job, a) ELSE NextRarity(a)

Chained == job.cmd \in {"connect", "profile"}

\* A step of the chain failed: connecting keeps the connection it has, loading
\* a profile gives up a connection that cannot be trusted.
ChainFails == Answer(FALSE, IF job.cmd = "profile" /\ Lost(job.out.k)
                              THEN [adapter EXCEPT !.conn = FALSE] ELSE adapter)

Reconcile ==
  /\ Chained /\ Returned({"connect", "configure", "locks", "rarity"}) /\ Quiet
  /\ LET a == IF job.call.m = "connect" THEN [adapter EXCEPT !.conn = job.out.conn] ELSE adapter
     IN IF ~Good THEN ChainFails
        ELSE IF job.call.m \in {"connect", "configure"} THEN NextLocks(a)
        ELSE IF job.call.m = "locks" THEN NextRarity(a) ELSE NextSpeed(a)

ReconcileSpeed ==
  /\ Chained /\ Returned({"speed", "setspeed"}) /\ Quiet
  /\ LET a == [adapter EXCEPT !.actual = job.out.speed]
         failed == [SpeedFailed(adapter, job.out) EXCEPT !.conn = @ /\ ~Lost(job.out.k)]
     IN IF ~Good THEN Answer(job.cmd = "connect", failed)
        ELSE IF job.call.m = "speed" /\ job.out.speed # a.features.speed
          THEN Call("setspeed", a.features, job, a)
        ELSE Answer(TRUE, [a EXCEPT !.speedError = FALSE])

SpeedSet ==
  /\ job.cmd = "speed" /\ Returned({"setspeed"}) /\ Quiet
  /\ IF Good THEN Call("status", Defaults, job,
                       [adapter EXCEPT !.actual = job.out.speed, !.speedError = FALSE])
     ELSE Answer(FALSE, SpeedFailed(adapter, job.out))

Observed ==
  /\ job.cmd \in {"status", "speed"} /\ Returned({"status"}) /\ Quiet
  /\ IF ~Good THEN Answer(FALSE, adapter)
     ELSE Answer(TRUE, IF job.cmd = "status" /\ ~job.out.conn
                       THEN [adapter EXCEPT !.conn = FALSE, !.actual = Unseen, !.speedError = FALSE]
                       ELSE [adapter EXCEPT !.conn = job.out.conn])

Edited ==
  /\ job.cmd \in {"feature", "rarity"} /\ Returned({"feature", "rarity"}) /\ Quiet
  /\ IF Good THEN Answer(TRUE, [adapter EXCEPT !.conn = job.out.conn]) ELSE Answer(FALSE, adapter)

\* A captured value is written once the game holds it; what cannot be written
\* is taken back from the game.
Captured ==
  /\ job.cmd \in {"lock", "value"} /\ Returned({"lock", "value"}) /\ UNCHANGED <<worker, client>>
  /\ LET doc == [adapter.features EXCEPT !.lock = job.out.desire.lock]
         a == [adapter EXCEPT !.features = doc, !.conn = job.out.conn]
         TakeBack == Call("locks", job.prev, [job EXCEPT !.bad = TRUE], adapter)
     IN IF ~Good THEN Answer(FALSE, adapter) /\ NoFault /\ UNCHANGED disk
        ELSE IF job.cmd = "value" /\ job.prev.lock = NoLock
          THEN Answer(TRUE, [adapter EXCEPT !.conn = job.out.conn]) /\ NoFault /\ UNCHANGED disk
        ELSE IF job.cmd = "value" /\ job.out.desire.lock = NoLock
          THEN TakeBack /\ NoFault /\ UNCHANGED disk
        ELSE \/ Saved(doc) /\ Answer(TRUE, a)
             \/ SaveFails /\ TakeBack

\* The failure that led here is what is reported; a game that took its lock
\* back holds what it held before the command.
TakenBack ==
  /\ job.cmd \in {"lock", "value"} /\ Returned({"locks"}) /\ Quiet
  /\ job' = Idle /\ UNCHANGED adapter
  /\ seen' = [seen EXCEPT !.told = IF Good THEN @ ELSE @ \cup {"lock"}]

\* The calls of Disable All go on after one that failed, while there is a
\* connection; the first failure is the one reported.
Disabled ==
  /\ job.cmd = "off" /\ Returned({"off", "setspeed"}) /\ Quiet
  /\ IF job.call.m = "off"
       THEN LET conn == adapter.conn /\ (Good \/ client.conn)
                a == [adapter EXCEPT !.conn = conn, !.actual = IF conn THEN @ ELSE Unseen]
                j == [job EXCEPT !.bad = @ \/ ~Good]
            IN IF conn THEN Call("setspeed", Defaults, j, a) ELSE Answer(FALSE, a)
       ELSE IF Good THEN Answer(~job.bad, [adapter EXCEPT !.actual = job.out.speed, !.speedError = FALSE])
            ELSE Answer(FALSE, SpeedFailed(adapter, job.out))

\* After the worker has let go it is closed; closing the backend closes it
\* whatever came of that.
Left ==
  /\ job.cmd \in {"disconnect", "quit"} /\ job.ph = "back" /\ NoFault /\ UNCHANGED disk
  /\ IF job.cmd = "quit" \/ Good
       THEN IF WorkerRuns THEN Killed(client.w) ELSE UNCHANGED <<worker, game>>
       ELSE UNCHANGED <<worker, game>>
  /\ IF job.cmd = "quit" THEN client' = NoClient /\ Answer(Good, NoAdapter)
     ELSE /\ client' = IF Good THEN [client EXCEPT !.w = Nobody] ELSE client
          /\ IF Good THEN Answer(TRUE, [adapter EXCEPT !.conn = FALSE, !.actual = 1, !.speedError = FALSE])
             ELSE Answer(FALSE, SpeedFailed(adapter, job.out))

-----------------------------------------------------------------------------
(* The death and the start of the backend *)

BackendDies ==
  /\ adapter.up /\ MayFail /\ Fault
  /\ adapter' = NoAdapter /\ client' = NoClient /\ job' = Idle
  /\ worker' = [w \in Workers |-> IF Running(w) THEN [worker[w] EXCEPT !.owned = FALSE] ELSE worker[w]]
  /\ seen' = [seen EXCEPT !.told = Settings, !.doubt = IF Waiting THEN Doubt ELSE @]
  /\ UNCHANGED <<game, disk>>

BackendStarts ==
  /\ ~adapter.up
  /\ \/ adapter' = [NoAdapter EXCEPT !.up = TRUE, !.features = disk.prefs] /\ NoFault
     \/ adapter' = [NoAdapter EXCEPT !.up = TRUE, !.unread = TRUE] /\ MayFail /\ Fault
  /\ seen' = [seen EXCEPT !.told = Settings]
  /\ UNCHANGED <<game, worker, client, disk, job>>

-----------------------------------------------------------------------------
UserCommand ==
  \/ \E cmd \in {"connect", "status", "disconnect", "quit", "off"} : Begin(cmd, Defaults)
  \/ \E on \in BOOLEAN : Begin("feature", [Defaults EXCEPT !.guard = on])
  \/ \E r \in {Natural, Heroic} : Begin("rarity", [Defaults EXCEPT !.rarity = r])
  \/ \E s \in Speeds : Begin("speed", [Defaults EXCEPT !.speed = s])
  \/ \E l \in Locks : Begin("lock", [Defaults EXCEPT !.lock = l])
  \/ \E l \in Locks \ {NoLock} : Begin("value", [Defaults EXCEPT !.lock = l])
  \/ \E p \in Profiles : Begin("profile", p)

Backend == \/ Connect \/ Status \/ Edit \/ Capture \/ DisableAll \/ LoadProfile \/ Leave
           \/ Refuse \/ NotNoted \/ NotSent \/ Send
           \/ ClientReply \/ ClientMalformed \/ ClientLoses
           \/ Reconcile \/ ReconcileSpeed \/ SpeedSet \/ Observed \/ Edited
           \/ Captured \/ TakenBack \/ Disabled \/ Left
           \/ BackendDies \/ BackendStarts

Outside == /\ (\E w \in Workers : WorkerStep(w)) \/ GameStep
           /\ UNCHANGED <<client, adapter, disk, job>>
           /\ seen' = IF game'.life # game.life THEN [seen EXCEPT !.doubt = 0] ELSE seen

Next == UserCommand \/ Backend \/ Outside

Spec == Init /\ [][Next]_vars

-----------------------------------------------------------------------------
(* Properties *)

\* Once a request of this lifetime of the game has an end nobody knows, no
\* later request is evaluated in it: not by the same client, another worker or
\* another backend (client.py _call, recovery.py guard).
NoBlindReplay == seen.doubt # 0 => game.last <= seen.doubt

\* A game left with its focus requirement off is one whose worker still holds
\* the value to put back, or one the journal keeps every backend away from
\* (transport.py execute, _restore_focus, detach).
FocusKept == game.up /\ ~game.focus =>
  \/ \E w \in Workers : Running(w) /\ Alive(w) /\ worker[w].foc
  \/ disk.journal = game.life

Settled == /\ job.ph = "idle" /\ adapter.conn /\ client.conn /\ WorkerRuns
           /\ Alive(client.w) /\ client.life = game.life

\* Between commands, a connected resident holds every durable setting of which
\* the user has not been told an error: through locks captured in the game,
\* writes that fail, reconnections and a Lua state that comes anew.
Backed == Settled /\ game.res.here = "ours" =>
            \A s \in Settings \ seen.told : game.res.desire[s] = disk.prefs[s]

\* The speed shown as applied, with no error beside it, is the pace of the game.
SpeedTrue == Settled /\ ~adapter.speedError /\ adapter.actual # Unseen =>
               adapter.actual = game.speed
=============================================================================
