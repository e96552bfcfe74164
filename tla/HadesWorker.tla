------------------------------ MODULE HadesWorker ------------------------------
(***************************************************************************)
(* The debugger worker of Hades and the game it is attached to             *)
(* (Backend/games/hades/lldb_worker.py, time_warp_worker.py, transport.py, *)
(* runtime.lua; Backend/core/process_time_warp.py;                         *)
(* Backend/debugger/lldb_time_warp.py).  A request of the backend is       *)
(* dispatched, the game is stopped at its update with the focus            *)
(* requirement switched off, one Lua call is evaluated, and one cleanup    *)
(* puts the game back; the clock is set through a helper of its own.       *)
(*                                                                         *)
(* One continuous feature (Infinite Gold, which excludes the fixed gold    *)
(* lock), that lock and the rarity target stand for all of their kind.  A  *)
(* lifetime of the game stands for its process number and start time.      *)
(***************************************************************************)
EXTENDS Naturals

CONSTANTS
  MaxLives,    \* bound on the launches of the game
  MaxWorkers,  \* bound on the debugger workers started
  MaxFaults    \* bound on what fails: calls, attachments, the disk, processes

ASSUME WorkerBounds == MaxLives \in Nat \ {0} /\ MaxWorkers \in Nat \ {0} /\ MaxFaults \in Nat

VARIABLES
  game,    \* the process, its Lua resident, its clock and its focus requirement
  worker,  \* the workers, by the order of their start
  budget   \* what may still fail, and the commands the user may still give

Lives   == 1..MaxLives
Workers == 1..MaxWorkers
Nobody  == 0
NoLock  == 0
Locks   == 0..2
Natural == "Common"   \* a rarity target other than the default one
Heroic  == "Heroic"
Speeds  == 1..2
Unseen  == 0          \* no speed observed

Neutral == [guard |-> FALSE, lock |-> NoLock, rarity |-> Heroic]

\* A resident is absent, this revision's, or of another revision.
NoResident == [here |-> "none", desire |-> Neutral]

-----------------------------------------------------------------------------
(* The resident *)

Guarded(d, on) == [d EXCEPT !.guard = on, !.lock = IF on THEN NoLock ELSE @]

\* The desired state after a call; the call must be one the resident accepts.
Called(m, a, d) ==
  CASE m = "connect"   -> [Guarded(d, a.guard) EXCEPT !.rarity = Heroic]
    [] m = "configure" -> [Guarded(d, a.guard) EXCEPT !.rarity = Heroic]
    [] m = "feature"   -> Guarded(d, a.guard)
    [] m = "rarity"    -> [d EXCEPT !.rarity = a.rarity]
    [] m = "locks"     -> [d EXCEPT !.lock = a.lock]
    [] m = "lock"      -> [d EXCEPT !.lock = a.lock]
    [] m = "value"     -> [d EXCEPT !.lock = IF @ = NoLock THEN NoLock ELSE a.lock]
    [] m = "off"       -> Neutral
    [] OTHER           -> d

Accepts(m, a, d) == m \in {"locks", "lock"} /\ a.lock # NoLock => ~d.guard

\* A resident made anew is given what the last one acknowledged: the features,
\* then the locks, then the rarity.
Replayed(mem) == Called("rarity", mem, Called("locks", mem, Called("configure", mem, Neutral)))
Bootstrapped(mem) == IF game.res.here = "none" THEN Replayed(mem) ELSE game.res.desire

\* A request that names its hero is stale once the Lua state is new.
OfHero(m) == m \in {"lock", "value"}

-----------------------------------------------------------------------------
(* The worker *)

NoCall == [m |-> "", a |-> Neutral, life |-> 0, id |-> 0]
Reply(k, conn, desire, speed) == [k |-> k, conn |-> conn, desire |-> desire, speed |-> speed]
Ok(desire)  == Reply("ok", TRUE, desire, Unseen)
Offline     == Reply("ok", FALSE, Neutral, Unseen)
Known       == Reply("known", TRUE, Neutral, Unseen)   \* an error whose effect is known
Restart     == Reply("restart", TRUE, Neutral, Unseen)
UnknownEnd  == Reply("unknown", TRUE, Neutral, Unseen)

NewWorker == [st |-> "idle", owned |-> TRUE, call |-> NoCall, out |-> Offline,
              mem |-> Neutral, on |-> 0, taint |-> 0, foc |-> FALSE]
NotStarted == [NewWorker EXCEPT !.st = "none", !.owned = FALSE]
Gone(w)    == [w EXCEPT !.st = "dead", !.owned = FALSE, !.call = NoCall, !.out = Offline,
                        !.mem = Neutral, !.on = 0, !.taint = 0, !.foc = FALSE]

Running(w) == worker[w].st \notin {"none", "dead"}
Alive(w)   == game.up /\ worker[w].on = game.life

MayFail == budget.faults > 0
Fault   == budget' = [budget EXCEPT !.faults = @ - 1]
NoFault == UNCHANGED budget

Answers(w, out) == [w EXCEPT !.st = "replied", !.out = out]

\* The features are kept from the call that set them, the locks and the rarity
\* from every reply that tells them.
Remembered(w) ==
  LET guard == CASE w.call.m \in {"connect", "configure", "feature"} -> w.call.a.guard
                 [] w.call.m = "off" -> FALSE
                 [] OTHER -> w.mem.guard
  IN IF w.out.k = "ok" THEN [w EXCEPT !.mem = [w.out.desire EXCEPT !.guard = guard]] ELSE w

\* Attaching is refused for a lifetime an evaluation left unknown, is nothing
\* for the one held already, and releases any other first; the game takes one
\* debugger, and it must be the build the module knows.
Attach(w, fresh, life) ==
  LET open == game.up /\ game.life = life /\ game.at = Nobody
      held == Alive(w) /\ fresh.on = life
  IN \/ /\ fresh.taint = life
        /\ worker' = [worker EXCEPT ![w] = Answers(fresh, Restart)]
        /\ NoFault /\ UNCHANGED game
     \/ /\ fresh.taint # life /\ held
        /\ worker' = [worker EXCEPT ![w] = [fresh EXCEPT !.st = "exec"]]
        /\ NoFault /\ UNCHANGED game
     \/ /\ fresh.taint # life /\ ~held /\ open
        /\ game' = [game EXCEPT !.at = w]
        /\ worker' = [worker EXCEPT ![w] =
             [fresh EXCEPT !.st = "exec", !.on = life, !.taint = 0, !.foc = FALSE]]
        /\ NoFault
     \/ /\ fresh.taint # life /\ ~held
        /\ IF open THEN MayFail /\ Fault ELSE NoFault
        /\ worker' = [worker EXCEPT ![w] = Answers([fresh EXCEPT !.on = 0, !.foc = FALSE], Known)]
        /\ UNCHANGED game

\* A connection takes the features it is given and forgets the locks and the
\* rarity of the last; every other method needs a living process.
Dispatch(w) ==
  LET c == worker[w].call
  IN /\ worker[w].st = "got" /\ c.m \notin {"speed", "setspeed", "disconnect"}
     /\ IF c.m = "connect"
          THEN Attach(w, [worker[w] EXCEPT !.mem = Guarded(Neutral, c.a.guard)], c.life)
          ELSE /\ worker' = [worker EXCEPT ![w] =
                     CASE ~Alive(w)           -> Answers(@, IF c.m = "status" THEN Offline ELSE Known)
                       [] worker[w].taint # 0 -> Answers(@, Restart)
                       [] OTHER               -> [@ EXCEPT !.st = "exec"]]
               /\ NoFault /\ UNCHANGED game

\* The game is stopped, its focus requirement noted and switched off, and it
\* runs to the next update of its main thread.
Boundary(w) ==
  /\ worker[w].st = "exec"
  /\ \/ /\ ~Alive(w)
        /\ worker' = [worker EXCEPT ![w] = Answers(@, Known)]
        /\ NoFault /\ UNCHANGED game
     \/ /\ Alive(w)
        /\ game' = [game EXCEPT !.focus = FALSE]
        /\ \/ /\ worker' = [worker EXCEPT ![w].st = "bound", ![w].foc = TRUE]
              /\ NoFault
           \/ /\ MayFail /\ Fault
              /\ worker' = [worker EXCEPT ![w].st = "clean", ![w].foc = TRUE, ![w].out = Known]

\* The one Lua call: bootstrap, the named hero, the method, the reply.
Evaluate(w) ==
  LET c == worker[w].call
      d == Bootstrapped(worker[w].mem)
      stale == OfHero(c.m) /\ game.res.here = "none"
      Put(e) == game' = [game EXCEPT !.res = [here |-> "ours", desire |-> e], !.last = c.id]
  IN /\ worker[w].st = "bound"
     /\ \/ /\ ~Alive(w)
           /\ \/ worker' = [worker EXCEPT ![w] = Answers(@, Known)]
              \/ worker' = [worker EXCEPT ![w] = Answers([@ EXCEPT !.taint = worker[w].on], UnknownEnd)]
           /\ NoFault /\ UNCHANGED game
        \/ /\ Alive(w) /\ game.res.here = "other"
           /\ worker' = [worker EXCEPT ![w].st = "clean", ![w].out = Restart]
           /\ NoFault /\ UNCHANGED game
        \/ /\ Alive(w) /\ game.res.here # "other" /\ ~stale /\ Accepts(c.m, c.a, d)
           /\ Put(Called(c.m, c.a, d))
           /\ worker' = [worker EXCEPT ![w].st = "clean", ![w].out = Ok(Called(c.m, c.a, d))]
           /\ NoFault
        \/ /\ Alive(w) /\ game.res.here # "other" /\ ~stale /\ Accepts(c.m, c.a, d)
           /\ Put(Called(c.m, c.a, d))   \* and a reply that cannot be decoded
           /\ worker' = [worker EXCEPT ![w].st = "clean", ![w].out = Known]
           /\ MayFail /\ Fault
        \/ /\ Alive(w) /\ game.res.here # "other" /\ (stale \/ ~Accepts(c.m, c.a, d) \/ OfHero(c.m))
           /\ Put(d)
           /\ worker' = [worker EXCEPT ![w].st = "clean", ![w].out = Known]
           /\ NoFault
        \/ /\ Alive(w) /\ game.res.here # "other" /\ MayFail /\ Fault
           /\ \E e \in {d, Called(c.m, c.a, d)} : Put(e)
           /\ worker' = [worker EXCEPT ![w].st = "clean", ![w].out = UnknownEnd,
                                       ![w].taint = worker[w].on]

\* One owner of the cleanup: stop, delete the breakpoints, restore, resume.
Cleanup(w) ==
  /\ worker[w].st = "clean"
  /\ \/ /\ ~Alive(w)
        /\ worker' = [worker EXCEPT ![w] = Answers(Remembered(@), worker[w].out)]
        /\ NoFault /\ UNCHANGED game
     \/ /\ Alive(w)
        /\ game' = [game EXCEPT !.focus = TRUE]
        /\ worker' = [worker EXCEPT ![w] = Answers([Remembered(@) EXCEPT !.foc = FALSE], worker[w].out)]
        /\ NoFault
     \/ /\ Alive(w) /\ MayFail /\ Fault
        /\ \E restored \in BOOLEAN :
             /\ game' = [game EXCEPT !.focus = restored]
             /\ worker' = [worker EXCEPT ![w] =
                  Answers([@ EXCEPT !.foc = ~restored, !.taint = worker[w].on], UnknownEnd)]

-----------------------------------------------------------------------------
(* The clock *)

\* A session on the clock needs the process and a transport that is sure of it.
Refusal(w) == IF ~Alive(w) THEN {Known} ELSE IF worker[w].taint # 0 THEN {Restart} ELSE {}

Ended(out, speed, taint, faulty) == [out |-> out, speed |-> speed, taint |-> taint, faulty |-> faulty]

\* An evaluation that failed, with or without its effect.
EvaluationFails(w, s) == {Ended(UnknownEnd, t, worker[w].on, TRUE) : t \in {game.speed, s}}

\* The helper that holds the clock is not there, cannot be loaded or cannot be
\* called: nothing was set.
NotInstalled(w) == Ended(Known, game.speed, worker[w].taint, TRUE)

\* Only some of the clocks could be bound, and the helper went back to its own
\* pace, or what it is in cannot be told: the game must start anew.
HalfInstalled(w) == {Ended(Restart, t, worker[w].taint, TRUE) : t \in {game.speed, 1}}

\* What setting the clock to s can come to: done and verified, refused before
\* the call or after it (the game that does not resume), verified as another
\* speed, bound in part, or unknown.
ClockSet(w, s) ==
  LET after == Ended(Known, s, worker[w].taint, TRUE)
      other == Ended([Known EXCEPT !.speed = game.speed], game.speed, worker[w].taint, TRUE)
  IN {Ended(Reply("ok", TRUE, Neutral, s), s, worker[w].taint, FALSE)}
     \cup (IF MayFail THEN {NotInstalled(w), after, other} \cup HalfInstalled(w)
                           \cup EvaluationFails(w, s) ELSE {})

ReadSpeed(w) ==
  /\ worker[w].st = "got" /\ worker[w].call.m = "speed" /\ UNCHANGED game
  /\ \/ \E out \in Refusal(w) : worker' = [worker EXCEPT ![w] = Answers(@, out)] /\ NoFault
     \/ /\ Refusal(w) = {} /\ NoFault
        /\ worker' = [worker EXCEPT ![w] = Answers(@, Reply("ok", TRUE, Neutral, game.speed))]
     \/ /\ Refusal(w) = {} /\ MayFail /\ Fault
        /\ \E out \in {Known, Restart} : worker' = [worker EXCEPT ![w] = Answers(@, out)]

SetSpeed(w) ==
  /\ worker[w].st = "got" /\ worker[w].call.m = "setspeed"
  /\ \/ \E out \in Refusal(w) :
          worker' = [worker EXCEPT ![w] = Answers(@, out)] /\ NoFault /\ UNCHANGED game
     \/ /\ Refusal(w) = {}
        /\ \E r \in ClockSet(w, worker[w].call.a.speed) :
             /\ game' = [game EXCEPT !.speed = r.speed, !.last = worker[w].call.id]
             /\ worker' = [worker EXCEPT ![w] = Answers([@ EXCEPT !.taint = r.taint], r.out)]
             /\ IF r.faulty THEN Fault ELSE NoFault

\* Detaching puts back what is still noted of the focus requirement.
Detached(g, w) == IF g.at = w THEN [g EXCEPT !.at = Nobody, !.focus = @ \/ worker[w].foc] ELSE g

\* The clock goes back to its own pace before the only attachment is released;
\* where that fails the attachment stays. The client sends this to no process it
\* is uncertain of, so a tainted one whose game has no helper is not told apart.
Disconnect(w) ==
  /\ worker[w].st = "got" /\ worker[w].call.m = "disconnect"
  /\ \/ /\ ~Alive(w)
        /\ worker' = [worker EXCEPT ![w] = Answers([@ EXCEPT !.on = 0, !.foc = FALSE], Offline)]
        /\ NoFault /\ UNCHANGED game
     \/ /\ Alive(w) /\ worker[w].taint # 0
        /\ worker' = [worker EXCEPT ![w] = Answers(@, Restart)]
        /\ NoFault /\ UNCHANGED game
     \/ /\ Alive(w) /\ worker[w].taint = 0
        /\ \E r \in ClockSet(w, 1) :
             \/ /\ r.out.k = "ok"
                /\ game' = Detached([game EXCEPT !.speed = 1, !.last = worker[w].call.id], w)
                /\ worker' = [worker EXCEPT ![w] = Answers([@ EXCEPT !.on = 0, !.foc = FALSE], Offline)]
                /\ NoFault
             \/ /\ r.out.k = "ok" /\ MayFail /\ Fault
                /\ game' = [game EXCEPT !.speed = 1, !.last = worker[w].call.id]
                /\ worker' = [worker EXCEPT ![w] = Answers(@, Known)]
             \/ /\ r.out.k # "ok" /\ Fault
                /\ game' = [game EXCEPT !.speed = r.speed, !.last = worker[w].call.id]
                /\ worker' = [worker EXCEPT ![w] = Answers([@ EXCEPT !.taint = r.taint], r.out)]

-----------------------------------------------------------------------------
(* The end of a worker *)

\* A worker that dies leaves the game as it is, and the game free of it.
Killed(w) ==
  /\ worker' = [worker EXCEPT ![w] = Gone(@)]
  /\ game' = IF game.at = w THEN [game EXCEPT !.at = Nobody] ELSE game

WorkerDies(w) == Running(w) /\ MayFail /\ Fault /\ Killed(w)

\* The input of a worker whose backend is gone ends; it finishes its request
\* and detaches, restoring what it noted.
OrphanEnds(w) ==
  /\ worker[w].st \in {"idle", "replied"} /\ ~worker[w].owned
  /\ NoFault
  /\ worker' = [worker EXCEPT ![w] = Gone(@)]
  /\ game' = Detached(game, w)

-----------------------------------------------------------------------------
(* The game *)

GameExits == /\ game.up
             /\ game' = [game EXCEPT !.up = FALSE, !.at = Nobody, !.focus = TRUE]
             /\ UNCHANGED <<worker, budget>>

GameStarts == /\ ~game.up /\ game.life < MaxLives
              /\ game' = [game EXCEPT !.up = TRUE, !.life = @ + 1, !.res = NoResident,
                                      !.speed = 1, !.last = 0]
              /\ UNCHANGED <<worker, budget>>

\* The game reloads its Lua state within the same process.
LuaReset == /\ game.up /\ game.res.here # "none" /\ budget.resets > 0
            /\ game' = [game EXCEPT !.res = NoResident]
            /\ budget' = [budget EXCEPT !.resets = @ - 1]
            /\ UNCHANGED worker

WorkerStep(w) == \/ Dispatch(w) \/ Boundary(w) \/ Evaluate(w) \/ Cleanup(w)
                 \/ ReadSpeed(w) \/ SetSpeed(w) \/ Disconnect(w)
                 \/ WorkerDies(w) \/ OrphanEnds(w)
GameStep == GameExits \/ GameStarts \/ LuaReset

==============================================================================
