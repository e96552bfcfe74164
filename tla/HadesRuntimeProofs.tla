-------------------------- MODULE HadesRuntimeProofs --------------------------
(***************************************************************************)
(* Theorems about the Hades client, its journal, the game's focus, the     *)
(* speed shown and the settings the game holds.  For the first four, what  *)
(* a step of a worker can do is summed up in Shape, what a step of a       *)
(* command can do in Plain; the calls of the client and the ends of its    *)
(* worker are taken one by one.  For the settings, Sound says which of     *)
(* them the call under way leaves sure, and Aim what each is to be.        *)
(***************************************************************************)
EXTENDS HadesRuntime, Integers, TLAPS

(* The types *)

Methods == {"", "connect", "configure", "status", "feature", "rarity", "locks", "lock", "value",
            "off", "speed", "setspeed", "disconnect"}
Phases   == {"idle", "start", "call", "sent", "back"}
Stages   == {"none", "dead", "idle", "got", "exec", "bound", "clean", "replied"}
AnyLife  == 0..MaxLives
Desires  == [guard : BOOLEAN, lock : Locks, rarity : {Natural, Heroic}]
Calls    == {c \in [m : Methods, a : Prefs \cup Desires, life : AnyLife, id : Nat] :
               c.m # "" => c.a \in Prefs}
Replies  == [k : {"ok", "known", "restart", "unknown"}, conn : BOOLEAN, desire : Desires,
             speed : Speeds \cup {Unseen}]
Residents == [here : {"none", "ours", "other"}, desire : Desires]

Games    == [life : Lives, up : BOOLEAN, res : Residents, speed : Speeds, focus : BOOLEAN,
             at : Workers \cup {Nobody}, last : Nat]
Debuggers == [st : Stages, owned : BOOLEAN, call : Calls, out : Replies, mem : Desires,
              on : AnyLife, taint : AnyLife, foc : BOOLEAN]
Clients  == [w : Workers \cup {Nobody}, lost : {"no", "known", "unknown"}, conn : BOOLEAN,
             life : AnyLife, uncertain : AnyLife]
Adapters == [up : BOOLEAN, conn : BOOLEAN, features : Prefs, unread : BOOLEAN,
             actual : Speeds \cup {Unseen}, speedError : BOOLEAN]
Jobs     == [cmd : Commands \cup {""}, arg : Prefs, prev : Prefs, ph : Phases, call : Calls,
             out : Replies, bad : BOOLEAN]

Budgets  == [faults : Int, resets : Int, commands : Int]
Disks    == [prefs : Prefs, journal : AnyLife]
Histories == [doubt : Nat, told : SUBSET Settings, calls : Nat]

DebuggerTypes == game \in Games /\ worker \in [Workers -> Debuggers] /\ budget \in Budgets

BackendTypes == /\ client \in Clients /\ adapter \in Adapters /\ disk \in Disks
                /\ job \in Jobs /\ seen \in Histories

TypeInv == DebuggerTypes /\ BackendTypes

-----------------------------------------------------------------------------
(* One request at a time *)

Inside == {"exec", "bound", "clean"}
Busy   == {"got"} \cup Inside

\* Every number is of a request already made.
CountInv ==
  /\ game.last <= seen.calls /\ seen.doubt <= seen.calls
  /\ \A w \in Workers : worker[w].call.id <= seen.calls

\* Lifetimes are numbered in their order, and a worker inside a call holds the
\* lifetime that the call names.
LifeInv ==
  /\ client.life <= game.life
  /\ ~game.up => game.focus
  /\ \A w \in Workers : /\ worker[w].call.life <= game.life /\ worker[w].on <= game.life
                        /\ worker[w].st \in {"none", "dead"} => worker[w].on = 0
                        /\ worker[w].st = "got" => worker[w].on <= worker[w].call.life
                        /\ worker[w].st \in Inside =>
                             /\ worker[w].on = worker[w].call.life
                             /\ worker[w].call.m \notin {"speed", "setspeed", "disconnect"}
  /\ client.w # Nobody => /\ worker[client.w].on <= client.life
                          /\ worker[client.w].call.life <= client.life

\* The request that was sent is the one its worker has, and is journalled.
SentInv == job.ph = "sent" =>
  /\ client.w \in Workers
  /\ job.call.id = seen.calls /\ seen.calls # 0 /\ job.call.life = client.life
  /\ worker[client.w].st \in Busy \cup {"replied"} => worker[client.w].call = job.call
  /\ worker[client.w].st \in Busy \cup {"replied", "dead"}
  /\ Crosses(job.call.m) => disk.journal = client.life

\* A request in a worker that nobody waits for is in doubt.
AloneInv == \A w \in Workers :
  worker[w].st \in Busy /\ Crosses(worker[w].call.m) /\ worker[w].call.life = game.life =>
    seen.doubt # 0 \/ (job.ph = "sent" /\ client.w = w)

\* A doubt is journalled, and the client either knows of it or has not
\* connected since it began.
Closed == client.life = game.life /\ client.uncertain = game.life /\ ~client.conn
Apart  == client.life = 0 /\ client.w = Nobody /\ ~adapter.conn /\ job.ph \in {"idle", "start"}
DoubtInv == seen.doubt # 0 =>
  /\ disk.journal = game.life
  /\ Closed \/ Apart
  /\ job.ph # "sent"
  /\ job.ph = "call" => job.call.m # "speed"
  /\ job.ph = "back" => job.out.k # "ok"
  /\ game.last <= seen.doubt
  /\ \A w \in Workers : Crosses(worker[w].call.m) => worker[w].call.id <= seen.doubt

\* A focus requirement is off for the one request in the game, or in doubt.
FocusInv == game.up /\ ~game.focus =>
  \/ seen.doubt # 0
  \/ /\ job.ph = "sent" /\ Crosses(job.call.m) /\ job.call.life = game.life
     /\ \/ worker[client.w].st \in {"bound", "clean", "dead"}
        \/ worker[client.w].st = "replied" /\ worker[client.w].out.k = "unknown"

\* While no clock is being set, the speed shown without an error is the game's;
\* a speed that was told has stayed the same.
Linked  == WorkerRuns /\ Alive(client.w) /\ client.life = game.life /\ seen.doubt = 0
Clocked == job.ph \in {"sent", "back"} /\ job.call.m \in {"setspeed", "disconnect"}
Clock   == {"speed", "setspeed"}
SpeedInv ==
  /\ job.ph \in {"call", "sent", "back"} /\ job.call.m = "connect" => adapter.actual = Unseen
  /\ Linked /\ ~Clocked /\ ~adapter.speedError /\ adapter.actual # Unseen =>
       adapter.actual = game.speed
  /\ Linked /\ job.ph = "sent" /\ job.call.m \in Clock /\ worker[client.w].st = "replied"
       /\ worker[client.w].out.k = "ok" => worker[client.w].out.speed = game.speed
  /\ Linked /\ job.ph = "back" /\ job.call.m \in Clock /\ job.out.k = "ok" =>
       job.out.speed = game.speed

ClientInv == CountInv /\ LifeInv /\ SentInv /\ AloneInv /\ DoubtInv /\ FocusInv /\ SpeedInv

-----------------------------------------------------------------------------
(* Types are kept *)

LEMMA Bounds == /\ MaxLives \in Nat \ {0} /\ MaxWorkers \in Nat \ {0}
                /\ Stored \subseteq Prefs /\ Profiles \subseteq Prefs
  BY WorkerBounds, DocumentsAssumption

LEMMA CallTypes ==
  ASSUME NEW m, NEW a \in Prefs \cup Desires, NEW d \in Desires
  PROVE  Called(m, a, d) \in Desires
<1>. DEFINE D == [guard : BOOLEAN, lock : 0..2, rarity : {Natural, Heroic}]
<1>1. a.guard \in BOOLEAN /\ a.lock \in 0..2 /\ a.rarity \in {Natural, Heroic}
  BY DEF Prefs, Desires, Locks
<1>2. d \in D
  BY DEF Desires, Locks
<1>3. \A e \in D, on \in BOOLEAN : [e EXCEPT !.guard = on, !.lock = IF on THEN 0 ELSE @] \in D
  <2>1. \A e \in D, on \in BOOLEAN, l \in 0..2 : [e EXCEPT !.guard = on, !.lock = l] \in D
    OBVIOUS
  <2>2. \A e \in D, on \in BOOLEAN : (IF on THEN 0 ELSE e.lock) \in 0..2
    OBVIOUS
  <2>. QED
    BY <2>1, <2>2
<1>4. \A e \in D, l \in 0..2 : [e EXCEPT !.lock = l] \in D
  OBVIOUS
<1>5. \A e \in D, r \in {Natural, Heroic} : [e EXCEPT !.rarity = r] \in D
  OBVIOUS
<1>6. Neutral \in D
  BY DEF Neutral, NoLock
<1>7. Heroic \in {Natural, Heroic} /\ NoLock = 0 /\ Guarded(d, a.guard) \in D
  BY <1>1, <1>2, <1>3 DEF Guarded, NoLock
<1>8. [d EXCEPT !.lock = IF @ = NoLock THEN NoLock ELSE a.lock] \in D
  BY <1>1, <1>2, <1>7
<1>9. Called(m, a, d) \in D
  <2>. HIDE DEF D
  <2>1. [Guarded(d, a.guard) EXCEPT !.rarity = Heroic] \in D
    BY <1>5, <1>7
  <2>2. [d EXCEPT !.rarity = a.rarity] \in D /\ [d EXCEPT !.lock = a.lock] \in D
    BY <1>1, <1>2, <1>4, <1>5
  <2>. QED
    BY <2>1, <2>2, <1>2, <1>6, <1>7, <1>8 DEF Called
<1>. QED
  BY <1>9 DEF Desires, Locks

LEMMA GuardTypes ==
  ASSUME NEW d \in Desires, NEW on \in BOOLEAN
  PROVE  Guarded(d, on) \in Desires
<1>1. (IF on THEN NoLock ELSE d.lock) \in Locks
  BY DEF Desires, Locks, NoLock
<1>2. \A l \in Locks : [d EXCEPT !.guard = on, !.lock = l] \in Desires
  BY DEF Desires
<1>. QED
  BY <1>1, <1>2 DEF Guarded

LEMMA Constants ==
  /\ Neutral \in Desires /\ Defaults \in Prefs
  /\ NoCall \in Calls /\ Idle \in Jobs
  /\ Offline \in Replies /\ Known \in Replies /\ Restart \in Replies /\ UnknownEnd \in Replies
  /\ NewWorker \in Debuggers /\ NotStarted \in Debuggers
  /\ NoClient \in Clients /\ NoAdapter \in Adapters
<1>1. Neutral \in Desires
  BY DEF Neutral, Desires, Locks, NoLock
<1>2. Defaults \in Prefs
  BY DEF Defaults, Prefs, Locks, NoLock, Speeds
<1>3. NoCall \in Calls
  <2>1. NoCall \in [m : Methods, a : Prefs \cup Desires, life : AnyLife, id : Nat]
    BY <1>1, Bounds DEF NoCall, Methods, AnyLife
  <2>2. NoCall.m = ""
    BY DEF NoCall
  <2>. QED
    BY <2>1, <2>2 DEF Calls
<1>4. Offline \in Replies /\ Known \in Replies /\ Restart \in Replies /\ UnknownEnd \in Replies
  BY <1>1 DEF Offline, Known, Restart, UnknownEnd, Reply, Replies
<1>5. Idle \in Jobs
  BY <1>2, <1>3, <1>4 DEF Idle, Jobs, Phases
<1>z. 0 \in AnyLife
  BY Bounds DEF AnyLife
<1>6. NewWorker \in Debuggers /\ NotStarted \in Debuggers
  <2>1. NewWorker \in Debuggers
    BY <1>1, <1>3, <1>4, <1>z DEF NewWorker, Debuggers, Stages
  <2>. QED
    BY <2>1 DEF NotStarted, Debuggers, Stages
<1>7. NoClient \in Clients /\ NoAdapter \in Adapters
  BY <1>2, Bounds DEF NoClient, NoAdapter, Clients, Adapters, AnyLife, Nobody
<1>. QED
  BY <1>1, <1>2, <1>3, <1>4, <1>5, <1>6, <1>7

LEMMA WorkerTypes ==
  ASSUME NEW d \in Debuggers
  PROVE  /\ \A out \in Replies : Answers(d, out) \in Debuggers
         /\ Gone(d) \in Debuggers
         /\ Remembered(d) \in Debuggers
         /\ \A s \in Stages : [d EXCEPT !.st = s] \in Debuggers
         /\ \A l \in AnyLife : [d EXCEPT !.taint = l] \in Debuggers
         /\ \A l \in AnyLife, f \in BOOLEAN : [d EXCEPT !.on = l, !.foc = f] \in Debuggers
         /\ \A f \in BOOLEAN : [d EXCEPT !.foc = f] \in Debuggers
         /\ \A f \in BOOLEAN : [d EXCEPT !.owned = f] \in Debuggers
<1>1. \A out \in Replies : Answers(d, out) \in Debuggers
  BY DEF Answers, Debuggers, Stages
<1>2. Gone(d) \in Debuggers
  <2>1. 0 \in AnyLife
    BY Bounds DEF AnyLife
  <2>. QED
    BY <2>1, Constants DEF Gone, Debuggers, Stages
<1>3. Remembered(d) \in Debuggers
  <2>1. CASE d.out.k # "ok"
    BY <2>1 DEF Remembered
  <2>2. CASE d.out.k = "ok"
    <3>. DEFINE g == CASE d.call.m \in {"connect", "configure", "feature"} -> d.call.a.guard
                 [] d.call.m = "off" -> FALSE
                 [] OTHER -> d.mem.guard
    <3>1. d.call.a.guard \in BOOLEAN /\ d.mem.guard \in BOOLEAN /\ d.out.desire \in Desires
      BY DEF Debuggers, Calls, Prefs, Desires, Replies
    <3>2. g \in BOOLEAN
      BY <3>1
    <3>. HIDE DEF g
    <3>3. [d.out.desire EXCEPT !.guard = g] \in Desires
      BY <3>1, <3>2 DEF Desires
    <3>4. [d EXCEPT !.mem = [d.out.desire EXCEPT !.guard = g]] \in Debuggers
      BY <3>3 DEF Debuggers
    <3>. QED
      BY <3>4, <2>2 DEF Remembered, g
  <2>. QED
    BY <2>1, <2>2
<1>4. \A s \in Stages : [d EXCEPT !.st = s] \in Debuggers
  BY DEF Debuggers
<1>5. /\ \A l \in AnyLife : [d EXCEPT !.taint = l] \in Debuggers
      /\ \A l \in AnyLife, f \in BOOLEAN : [d EXCEPT !.on = l, !.foc = f] \in Debuggers
  BY DEF Debuggers
<1>6. /\ \A f \in BOOLEAN : [d EXCEPT !.foc = f] \in Debuggers
      /\ \A f \in BOOLEAN : [d EXCEPT !.owned = f] \in Debuggers
  BY DEF Debuggers
<1>. QED
  BY <1>1, <1>2, <1>3, <1>4, <1>5, <1>6

LEMMA GameTypes ==
  ASSUME NEW g \in Games
  PROVE  /\ \A w \in Workers \cup {Nobody} : [g EXCEPT !.at = w] \in Games
         /\ \A f \in BOOLEAN : [g EXCEPT !.focus = f] \in Games
         /\ \A r \in Residents : [g EXCEPT !.res = r] \in Games
         /\ \A r \in Residents, n \in Nat : [g EXCEPT !.res = r, !.last = n] \in Games
         /\ \A s \in Speeds, n \in Nat : [g EXCEPT !.speed = s, !.last = n] \in Games
<1>1. /\ \A w \in Workers \cup {Nobody} : [g EXCEPT !.at = w] \in Games
      /\ \A f \in BOOLEAN : [g EXCEPT !.focus = f] \in Games
  BY DEF Games
<1>2. /\ \A r \in Residents : [g EXCEPT !.res = r] \in Games
      /\ \A r \in Residents, n \in Nat : [g EXCEPT !.res = r, !.last = n] \in Games
  BY DEF Games
<1>3. \A s \in Speeds, n \in Nat : [g EXCEPT !.speed = s, !.last = n] \in Games
  BY DEF Games
<1>. QED
  BY <1>1, <1>2, <1>3

LEMMA DetachTypes ==
  ASSUME NEW g \in Games, NEW w \in Workers, worker[w] \in Debuggers
  PROVE  Detached(g, w) \in Games
<1>1. worker[w].foc \in BOOLEAN
  BY DEF Debuggers
<1>2. \A f \in BOOLEAN : [g EXCEPT !.at = Nobody, !.focus = @ \/ f] \in Games
  BY DEF Games
<1>. QED
  BY <1>1, <1>2 DEF Detached

LEMMA ClockTypes ==
  ASSUME TypeInv, NEW w \in Workers, NEW s \in Speeds, NEW r \in ClockSet(w, s)
  PROVE  r.out \in Replies /\ r.speed \in Speeds /\ r.taint \in AnyLife
<1>1. game.speed \in Speeds /\ worker[w].taint \in AnyLife /\ worker[w].on \in AnyLife
  BY DEF TypeInv, DebuggerTypes, Games, Debuggers
<1>2. [Known EXCEPT !.speed = game.speed] \in Replies
  BY <1>1, Constants DEF Replies
<1>3. Reply("ok", TRUE, Neutral, s) \in Replies
  BY Constants DEF Reply, Replies
<1>4. ASSUME NEW out \in Replies, NEW t \in Speeds, NEW l \in AnyLife, NEW b,
             r = Ended(out, t, l, b)
      PROVE  r.out \in Replies /\ r.speed \in Speeds /\ r.taint \in AnyLife
  BY <1>4 DEF Ended
<1>5. \E out \in Replies, t \in Speeds, l \in AnyLife, b \in BOOLEAN : r = Ended(out, t, l, b)
  <2>1. CASE r \in EvaluationFails(w, s)
    BY <2>1, <1>1, Constants DEF EvaluationFails
  <2>2. CASE r \in HalfInstalled(w)
    <3>1. 1 \in Speeds
      BY DEF Speeds
    <3>. QED
      BY <2>2, <3>1, <1>1, Constants DEF HalfInstalled
  <2>3. CASE r \notin EvaluationFails(w, s) \cup HalfInstalled(w)
    BY <2>3, <1>1, <1>2, <1>3, Constants DEF ClockSet, NotInstalled
  <2>. QED
    BY <2>1, <2>2, <2>3
<1>. QED
  BY <1>4, <1>5

LEMMA PutWorker ==
  ASSUME TypeInv, NEW w \in Workers, NEW d \in Debuggers
  PROVE  [worker EXCEPT ![w] = d] \in [Workers -> Debuggers]
  BY DEF TypeInv, DebuggerTypes

LEMMA FaultTypes ==
  ASSUME TypeInv, Fault \/ NoFault
  PROVE  budget' \in Budgets
  BY DEF TypeInv, DebuggerTypes, Fault, NoFault, Budgets

LEMMA AttachStep ==
  ASSUME TypeInv, NEW w \in Workers, NEW fresh \in Debuggers, NEW life \in AnyLife,
         Attach(w, fresh, life)
  PROVE  DebuggerTypes'
<1>0. 0 \in AnyLife /\ Lives \subseteq AnyLife
  BY Bounds DEF AnyLife, Lives
<1>1. CASE fresh.taint = life
  <2>1. Answers(fresh, Restart) \in Debuggers
    BY WorkerTypes, Constants
  <2>. QED
  BY <1>1, <2>1, Constants, PutWorker, FaultTypes DEF Attach, TypeInv, DebuggerTypes
<1>2. CASE fresh.taint # life /\ worker' = [worker EXCEPT ![w] = [fresh EXCEPT !.st = "exec"]] /\ UNCHANGED game
  <2>1. [fresh EXCEPT !.st = "exec"] \in Debuggers
    BY WorkerTypes DEF Stages
  <2>. QED
    BY <1>2, <2>1, PutWorker, FaultTypes DEF Attach, TypeInv, DebuggerTypes
<1>3. CASE /\ game' = [game EXCEPT !.at = w]
           /\ worker' = [worker EXCEPT ![w] =
                 [fresh EXCEPT !.st = "exec", !.on = life, !.taint = 0, !.foc = FALSE]]
  <2>1. [fresh EXCEPT !.st = "exec", !.on = life, !.taint = 0, !.foc = FALSE] \in Debuggers
    BY <1>0 DEF Debuggers, Stages
  <2>. QED
    BY <1>3, <2>1, PutWorker, FaultTypes, GameTypes DEF Attach, TypeInv, DebuggerTypes
<1>4. CASE worker' = [worker EXCEPT ![w] = Answers([fresh EXCEPT !.on = 0, !.foc = FALSE], Known)]
           /\ UNCHANGED game
  <2>1. [fresh EXCEPT !.on = 0, !.foc = FALSE] \in Debuggers
    BY <1>0, WorkerTypes
  <2>2. Answers([fresh EXCEPT !.on = 0, !.foc = FALSE], Known) \in Debuggers
    BY <2>1, WorkerTypes, Constants
  <2>. QED
    BY <1>4, <2>2, PutWorker, FaultTypes DEF Attach, TypeInv, DebuggerTypes
<1>. QED
  BY <1>1, <1>2, <1>3, <1>4 DEF Attach

LEMMA WorkerStepTypes ==
  ASSUME TypeInv, NEW w \in Workers, WorkerStep(w)
  PROVE  DebuggerTypes'
<1>. DEFINE d == worker[w]
            c == worker[w].call
<1>0. 0 \in AnyLife /\ Lives \subseteq AnyLife
  BY Bounds DEF AnyLife, Lives
<1>a. d \in Debuggers /\ game \in Games /\ worker \in [Workers -> Debuggers]
  BY DEF TypeInv, DebuggerTypes
<1>b. /\ c \in Calls /\ c.life \in AnyLife /\ c.id \in Nat /\ c.a \in Prefs \cup Desires
      /\ c.a.guard \in BOOLEAN /\ d.mem \in Desires /\ d.on \in AnyLife /\ d.out \in Replies
  BY <1>a DEF Debuggers, Calls, Prefs, Desires
<1>c. ASSUME NEW e \in Debuggers, worker' = [worker EXCEPT ![w] = e], Fault \/ NoFault,
             game' \in Games
      PROVE  DebuggerTypes'
  BY <1>c, FaultTypes, PutWorker DEF DebuggerTypes
<1>d. \A out \in Replies : Answers(d, out) \in Debuggers
  BY <1>a, WorkerTypes
<1>1. CASE Dispatch(w)
  <2>1. CASE c.m = "connect"
    <3>1. Guarded(Neutral, c.a.guard) \in Desires
      BY <1>b, Constants, GuardTypes
    <3>2. [d EXCEPT !.mem = Guarded(Neutral, c.a.guard)] \in Debuggers
      BY <3>1, <1>a DEF Debuggers
    <3>. QED
      BY <1>1, <2>1, <3>2, <1>b, AttachStep DEF Dispatch
  <2>2. CASE c.m # "connect"
    <3>1. Answers(d, IF c.m = "status" THEN Offline ELSE Known) \in Debuggers
      BY <1>d, Constants
    <3>2. Answers(d, Restart) \in Debuggers
      BY <1>d, Constants
    <3>3. [d EXCEPT !.st = "exec"] \in Debuggers
      BY <1>a, WorkerTypes DEF Stages
    <3>4. PICK e \in Debuggers : worker' = [worker EXCEPT ![w] = e]
      BY <1>1, <2>2, <3>1, <3>2, <3>3 DEF Dispatch
    <3>. QED
      BY <1>1, <2>2, <3>4, <1>a, <1>c DEF Dispatch
  <2>. QED
    BY <2>1, <2>2
<1>2. CASE Boundary(w)
  <2>1. CASE ~Alive(w)
    BY <1>2, <2>1, <1>a, <1>c, <1>d, Constants DEF Boundary
  <2>2. CASE Alive(w)
    <3>1. [game EXCEPT !.focus = FALSE] \in Games
      BY <1>a, GameTypes
    <3>2. /\ [worker EXCEPT ![w].st = "bound", ![w].foc = TRUE]
             = [worker EXCEPT ![w] = [d EXCEPT !.st = "bound", !.foc = TRUE]]
          /\ [worker EXCEPT ![w].st = "clean", ![w].foc = TRUE, ![w].out = Known]
             = [worker EXCEPT ![w] = [d EXCEPT !.st = "clean", !.foc = TRUE, !.out = Known]]
      BY <1>a
    <3>3. /\ [d EXCEPT !.st = "bound", !.foc = TRUE] \in Debuggers
          /\ [d EXCEPT !.st = "clean", !.foc = TRUE, !.out = Known] \in Debuggers
      BY <1>a, Constants DEF Debuggers, Stages
    <3>. QED
      BY <1>2, <2>2, <3>1, <3>2, <3>3, <1>c DEF Boundary
  <2>. QED
    BY <2>1, <2>2
<1>3. CASE Evaluate(w)
  <2>. DEFINE b == Bootstrapped(d.mem)
              new == Called(c.m, c.a, b)
  <2>1. b \in Desires
    <3>1. game.res.desire \in Desires
      BY <1>a DEF Games, Residents
    <3>2. \A n \in {"configure", "locks", "rarity"}, e \in Desires : Called(n, d.mem, e) \in Desires
      BY <1>b, CallTypes
    <3>3. Replayed(d.mem) \in Desires
      BY <3>2, Constants DEF Replayed
    <3>. QED
      BY <3>1, <3>3 DEF Bootstrapped
  <2>2. new \in Desires
    BY <2>1, <1>b, CallTypes
  <2>. HIDE DEF b, new
  <2>3. \A e \in Desires : [game EXCEPT !.res = [here |-> "ours", desire |-> e], !.last = c.id] \in Games
    <3>1. \A e \in Desires : [here |-> "ours", desire |-> e] \in Residents
      BY DEF Residents
    <3>. QED
      BY <3>1, <1>a, <1>b, GameTypes
  <2>4. game' \in Games
    <3>1. game' = game \/ \E e \in {b, new} :
            game' = [game EXCEPT !.res = [here |-> "ours", desire |-> e], !.last = c.id]
      BY <1>3 DEF Evaluate, b, new
    <3>. QED
      BY <3>1, <2>1, <2>2, <2>3, <1>a
  <2>5. \A out \in Replies : [worker EXCEPT ![w].st = "clean", ![w].out = out]
                             = [worker EXCEPT ![w] = [d EXCEPT !.st = "clean", !.out = out]]
    BY <1>a
  <2>6. /\ \A out \in Replies : [d EXCEPT !.st = "clean", !.out = out] \in Debuggers
        /\ [worker EXCEPT ![w].st = "clean", ![w].out = UnknownEnd, ![w].taint = d.on]
           = [worker EXCEPT ![w] = [d EXCEPT !.st = "clean", !.out = UnknownEnd, !.taint = d.on]]
        /\ [d EXCEPT !.st = "clean", !.out = UnknownEnd, !.taint = d.on] \in Debuggers
    BY <1>a, <1>b, Constants DEF Debuggers, Stages
  <2>7. Ok(new) \in Replies
    BY <2>2 DEF Ok, Reply, Replies
  <2>8. Answers([d EXCEPT !.taint = d.on], UnknownEnd) \in Debuggers
    <3>1. [d EXCEPT !.taint = d.on] \in Debuggers
      BY <1>a, <1>b, WorkerTypes
    <3>. QED
      BY <3>1, WorkerTypes, Constants
  <2>a. \/ worker' = [worker EXCEPT ![w] = Answers(@, Known)]
        \/ worker' = [worker EXCEPT ![w] = Answers([@ EXCEPT !.taint = d.on], UnknownEnd)]
        \/ \E out \in {Restart, Known, Ok(new)} : worker' = [worker EXCEPT ![w].st = "clean", ![w].out = out]
        \/ worker' = [worker EXCEPT ![w].st = "clean", ![w].out = UnknownEnd, ![w].taint = d.on]
    BY <1>3 DEF Evaluate, b, new
  <2>9. PICK e \in Debuggers : worker' = [worker EXCEPT ![w] = e]
    <3>1. {Restart, Known, Ok(new)} \subseteq Replies
      BY <2>7, Constants
    <3>2. \A out \in Replies : \E e \in Debuggers :
            [worker EXCEPT ![w].st = "clean", ![w].out = out] = [worker EXCEPT ![w] = e]
      BY <2>5, <2>6
    <3>. QED
      BY <2>a, <3>1, <3>2, <2>6, <2>8, <1>d, <1>a, Constants
  <2>. QED
    BY <1>3, <2>4, <2>9, <1>c DEF Evaluate
<1>4. CASE Cleanup(w)
  <2>1. Remembered(d) \in Debuggers
    BY <1>a, WorkerTypes
  <2>2. \A f \in BOOLEAN : [Remembered(d) EXCEPT !.foc = f] \in Debuggers
    BY <2>1, WorkerTypes
  <2>3. /\ Answers(Remembered(d), d.out) \in Debuggers
        /\ Answers([Remembered(d) EXCEPT !.foc = FALSE], d.out) \in Debuggers
    BY <2>1, <2>2, <1>b, WorkerTypes
  <2>4. \A f \in BOOLEAN : Answers([d EXCEPT !.foc = f, !.taint = d.on], UnknownEnd) \in Debuggers
    <3>1. \A f \in BOOLEAN : [d EXCEPT !.foc = f, !.taint = d.on] \in Debuggers
      BY <1>a, <1>b DEF Debuggers
    <3>. QED
      BY <3>1, WorkerTypes, Constants
  <2>5. game' \in Games
    BY <1>4, <1>a, GameTypes DEF Cleanup
  <2>6. PICK e \in Debuggers : worker' = [worker EXCEPT ![w] = e]
    BY <1>4, <2>3, <2>4 DEF Cleanup
  <2>. QED
    BY <1>4, <2>5, <2>6, <1>c DEF Cleanup
<1>5. CASE ReadSpeed(w)
  <2>1. Reply("ok", TRUE, Neutral, game.speed) \in Replies
    BY <1>a, Constants DEF Reply, Replies, Games
  <2>2. PICK e \in Debuggers : worker' = [worker EXCEPT ![w] = e]
    BY <1>5, <1>d, <2>1, Constants DEF ReadSpeed, Refusal
  <2>. QED
    BY <1>5, <2>2, <1>a, <1>c DEF ReadSpeed
<1>6. CASE SetSpeed(w)
  <2>1. CASE \E out \in Refusal(w) :
          worker' = [worker EXCEPT ![w] = Answers(@, out)] /\ NoFault /\ UNCHANGED game
    BY <2>1, <1>a, <1>c, <1>d, Constants DEF Refusal
  <2>2. ASSUME NEW r \in ClockSet(w, c.a.speed),
               game' = [game EXCEPT !.speed = r.speed, !.last = c.id],
               worker' = [worker EXCEPT ![w] = Answers([@ EXCEPT !.taint = r.taint], r.out)],
               IF r.faulty THEN Fault ELSE NoFault
        PROVE  DebuggerTypes'
    <3>0. c.a.speed \in Speeds
      BY <1>6, <1>b DEF SetSpeed, Calls, Prefs
    <3>1. r.out \in Replies /\ r.speed \in Speeds /\ r.taint \in AnyLife
      BY <2>2, <3>0, ClockTypes
    <3>2. [d EXCEPT !.taint = r.taint] \in Debuggers
      BY <3>1, <1>a, WorkerTypes
    <3>3. Answers([d EXCEPT !.taint = r.taint], r.out) \in Debuggers
      BY <3>1, <3>2, WorkerTypes
    <3>4. game' \in Games
      BY <2>2, <3>1, <1>a, <1>b, GameTypes
    <3>. QED
      BY <2>2, <3>3, <3>4, <1>c
  <2>. QED
    BY <1>6, <2>1, <2>2 DEF SetSpeed
<1>7. CASE Disconnect(w)
  <2>1. 1 \in Speeds
    BY DEF Speeds
  <2>2. \A l \in Speeds : [game EXCEPT !.speed = l, !.last = c.id] \in Games
    BY <1>a, <1>b, GameTypes
  <2>3. /\ Answers([d EXCEPT !.on = 0, !.foc = FALSE], Offline) \in Debuggers
        /\ Answers(d, Restart) \in Debuggers /\ Answers(d, Known) \in Debuggers
    BY <1>0, <1>a, <1>d, WorkerTypes, Constants
  <2>4. \A r \in ClockSet(w, 1) : r.speed \in Speeds /\ Answers([d EXCEPT !.taint = r.taint], r.out) \in Debuggers
    BY <2>1, <1>a, ClockTypes, WorkerTypes
  <2>5. Detached([game EXCEPT !.speed = 1, !.last = c.id], w) \in Games
    BY <2>1, <2>2, <1>a, DetachTypes
  <2>6. game' \in Games
    BY <1>7, <2>1, <2>2, <2>4, <2>5, <1>a DEF Disconnect
  <2>7. PICK e \in Debuggers : worker' = [worker EXCEPT ![w] = e]
    BY <1>7, <2>3, <2>4 DEF Disconnect
  <2>. QED
    BY <1>7, <2>6, <2>7, <1>c DEF Disconnect
<1>8. CASE WorkerDies(w) \/ OrphanEnds(w)
  <2>1. Gone(d) \in Debuggers
    BY <1>a, WorkerTypes
  <2>2. Detached(game, w) \in Games /\ [game EXCEPT !.at = Nobody] \in Games
    BY <1>a, GameTypes, DetachTypes
  <2>3. game' \in Games
    BY <1>8, <1>a, <2>2 DEF WorkerDies, Killed, OrphanEnds
  <2>. QED
    BY <1>8, <2>1, <2>3, <1>c DEF WorkerDies, Killed, OrphanEnds
<1>. QED
  BY <1>1, <1>2, <1>3, <1>4, <1>5, <1>6, <1>7, <1>8 DEF WorkerStep

(* The backend *)

LEMMA AnswerTypes ==
  ASSUME TypeInv, NEW ok \in BOOLEAN, NEW a \in Adapters, Answer(ok, a)
  PROVE  adapter' \in Adapters /\ job' \in Jobs /\ seen' \in Histories
<1>1. \A t \in SUBSET Settings : [seen EXCEPT !.told = t] \in Histories
  BY DEF TypeInv, BackendTypes, Histories
<1>2. seen.told \in SUBSET Settings /\ \A c : Touched(c) \in SUBSET Settings
  BY DEF TypeInv, BackendTypes, Histories, Touched, Settings
<1>3. seen' \in Histories
  BY <1>1, <1>2 DEF Answer, Told, TypeInv, BackendTypes
<1>. QED
  BY <1>3, Constants DEF Answer

LEMMA NewCallTypes ==
  ASSUME TypeInv, NEW m \in Methods \ {""}, NEW a \in Prefs, NEW j \in Jobs, NEW ad \in Adapters,
         Call(m, a, j, ad)
  PROVE  adapter' \in Adapters /\ job' \in Jobs /\ seen' \in Histories
<1>1. [NoCall EXCEPT !.m = m, !.a = a] \in Calls
  <2>1. NoCall \in [m : Methods, a : Prefs \cup Desires, life : AnyLife, id : Nat]
    BY Constants DEF Calls
  <2>2. [NoCall EXCEPT !.m = m, !.a = a] \in [m : Methods, a : Prefs \cup Desires, life : AnyLife, id : Nat]
    BY <2>1
  <2>3. [NoCall EXCEPT !.m = m, !.a = a].a \in Prefs
    BY <2>1
  <2>. QED
    BY <2>2, <2>3 DEF Calls
<1>2. [j EXCEPT !.ph = "call", !.call = [NoCall EXCEPT !.m = m, !.a = a]] \in Jobs
  BY <1>1 DEF Jobs, Phases
<1>. QED
  BY <1>2 DEF Call, TypeInv, BackendTypes

LEMMA BackTypes ==
  ASSUME TypeInv, NEW out \in Replies, Back(out)
  PROVE  job' \in Jobs
  BY DEF Back, TypeInv, BackendTypes, Jobs, Phases

LEMMA AdapterTypes ==
  ASSUME NEW a \in Adapters
  PROVE  /\ \A f \in Prefs : [a EXCEPT !.features = f] \in Adapters
         /\ \A f \in Prefs, u \in BOOLEAN : [a EXCEPT !.features = f, !.unread = u] \in Adapters
         /\ \A c \in BOOLEAN : [a EXCEPT !.conn = c] \in Adapters
         /\ \A s \in Speeds \cup {Unseen} : [a EXCEPT !.actual = s] \in Adapters
         /\ \A s \in Speeds \cup {Unseen}, e \in BOOLEAN :
              [a EXCEPT !.actual = s, !.speedError = e] \in Adapters
         /\ \A c, e \in BOOLEAN, s \in Speeds \cup {Unseen} :
              [a EXCEPT !.conn = c, !.actual = s, !.speedError = e] \in Adapters
  BY DEF Adapters

LEMMA SpeedFailedTypes ==
  ASSUME TypeInv, NEW a \in Adapters, NEW out \in Replies
  PROVE  SpeedFailed(a, out) \in Adapters
<1>. DEFINE s == IF Lost(out.k) THEN Unseen ELSE IF out.speed # Unseen THEN out.speed ELSE a.actual
            c == a.conn /\ client.conn
<1>1. s \in Speeds \cup {Unseen}
  BY DEF Replies, Adapters
<1>2. c \in BOOLEAN
  BY DEF TypeInv, BackendTypes, Clients, Adapters
<1>. HIDE DEF s, c
<1>3. [a EXCEPT !.speedError = TRUE, !.actual = s, !.conn = c] \in Adapters
  BY <1>1, <1>2 DEF Adapters
<1>. QED
  BY <1>3 DEF SpeedFailed, s, c

LEMMA MergeTypes ==
  ASSUME NEW cmd \in {"feature", "rarity", "speed"}, NEW arg \in Prefs, NEW f \in Prefs
  PROVE  Merged(cmd, arg, f) \in Prefs
<1>1. \A g \in BOOLEAN, l \in Locks : [f EXCEPT !.guard = g, !.lock = l] \in Prefs
  BY DEF Prefs
<1>2. (IF arg.guard THEN NoLock ELSE f.lock) \in Locks /\ arg.guard \in BOOLEAN
  BY DEF Prefs, Locks, NoLock
<1>3. Guarded(f, arg.guard) \in Prefs
  BY <1>1, <1>2 DEF Guarded
<1>4. /\ [Guarded(f, arg.guard) EXCEPT !.speed = f.speed] \in Prefs
      /\ [f EXCEPT !.rarity = arg.rarity] \in Prefs /\ [f EXCEPT !.speed = arg.speed] \in Prefs
  BY <1>3 DEF Prefs
<1>. QED
  BY <1>4 DEF Merged

LEMMA StartTypes ==
  ASSUME TypeInv,
         Connect \/ Status \/ Edit \/ Capture \/ DisableAll \/ LoadProfile \/ Leave
  PROVE  TypeInv'
<1>. DEFINE T == adapter' \in Adapters /\ job' \in Jobs /\ seen' \in Histories
<1>0. 0 \in AnyLife /\ Lives \subseteq AnyLife
  BY Bounds DEF AnyLife, Lives
<1>t. /\ game \in Games /\ worker \in [Workers -> Debuggers] /\ budget \in Budgets
      /\ client \in Clients /\ adapter \in Adapters /\ disk \in Disks
      /\ job \in Jobs /\ seen \in Histories
  BY DEF TypeInv, DebuggerTypes, BackendTypes
<1>f. /\ disk.prefs \in Prefs /\ adapter.features \in Prefs /\ job.arg \in Prefs /\ job.prev \in Prefs
      /\ Unseen \in Speeds \cup {Unseen} /\ adapter.unread \in BOOLEAN /\ job.bad \in BOOLEAN
  BY <1>t DEF Disks, Adapters, Jobs
<1>g. ASSUME UNCHANGED <<game, worker>>, Fault \/ NoFault, client' \in Clients, disk' \in Disks, T
      PROVE  TypeInv'
  BY <1>g, <1>t, FaultTypes DEF TypeInv, DebuggerTypes, BackendTypes
<1>d. \A p \in Prefs : [disk EXCEPT !.prefs = p] \in Disks
  BY <1>t DEF Disks
<1>e. \A p \in Prefs : Saved(p) \/ SaveFails => disk' \in Disks /\ (Fault \/ NoFault)
  BY <1>d, <1>t DEF Saved, SaveFails
<1>k. Known_(adapter) \in Adapters /\ Known_(adapter).features \in Prefs
  <2>1. [adapter EXCEPT !.features = disk.prefs, !.unread = FALSE] \in Adapters
    BY <1>t, <1>f, AdapterTypes
  <2>2. Known_(adapter) \in Adapters
    BY <2>1, <1>t DEF Known_
  <2>. QED
    BY <2>2 DEF Adapters
<1>1. CASE Connect
  <2>. DEFINE a == [adapter EXCEPT !.features = disk.prefs, !.unread = FALSE, !.actual = Unseen,
                                    !.speedError = FALSE]
              j == [job EXCEPT !.prev = a.features]
              c == [client EXCEPT
                        !.w = IF client.lost # "no" THEN Nobody ELSE @,
                        !.lost = "no", !.life = game.life, !.uncertain = 0]
  <2>1. a \in Adapters /\ a.features \in Prefs
    BY <1>t, <1>f DEF Adapters
  <2>2. j \in Jobs
    BY <1>t, <2>1 DEF Jobs
  <2>3. c \in Clients
    <3>1. game.life \in AnyLife
      BY <1>0, <1>t DEF Games
    <3>2. (IF client.lost # "no" THEN Nobody ELSE client.w) \in Workers \cup {Nobody}
      BY <1>t DEF Clients
    <3>3. \A w \in Workers \cup {Nobody}, l \in AnyLife :
            [client EXCEPT !.w = w, !.lost = "no", !.life = l, !.uncertain = 0] \in Clients
      BY <1>0, <1>t DEF Clients
    <3>. QED
      BY <3>1, <3>2, <3>3
  <2>4. [disk EXCEPT !.journal = 0] \in Disks
    BY <1>0, <1>t DEF Disks
  <2>. HIDE DEF a, j, c
  <2>5. \/ Answer(FALSE, adapter) /\ client' = client /\ disk' = disk
        \/ Answer(FALSE, a) /\ client' = client /\ disk' = disk
        \/ Call("connect", a.features, j, a) /\ client' = c /\ disk' = [disk EXCEPT !.journal = 0]
    BY <1>1 DEF Connect, ReadAnew, a, j, c
  <2>6. T /\ client' \in Clients /\ disk' \in Disks
    BY <2>1, <2>2, <2>3, <2>4, <2>5, <1>t, AnswerTypes, NewCallTypes DEF Methods
  <2>. QED
    BY <2>6, <1>1, <1>g DEF Connect, Started
<1>2. CASE Status
  <2>1. [adapter EXCEPT !.conn = FALSE, !.actual = Unseen, !.speedError = FALSE] \in Adapters
    BY <1>t, <1>f, AdapterTypes
  <2>2. T
    BY <1>2, <2>1, <1>t, AnswerTypes, NewCallTypes, Constants DEF Status, Methods
  <2>. QED
    BY <2>2, <1>2, <1>t, <1>g DEF Status, Started
<1>3. CASE Edit
  <2>. DEFINE a == Known_(adapter)
              doc == Merged(job.cmd, job.arg, a.features)
              b == [a EXCEPT !.features = doc]
              m == IF job.cmd = "speed" THEN "setspeed" ELSE job.cmd
              o == IF job.cmd = "speed" THEN [b EXCEPT !.actual = Unseen, !.speedError = FALSE] ELSE b
  <2>1. doc \in Prefs
    BY <1>3, <1>f, <1>k, MergeTypes DEF Edit
  <2>2. b \in Adapters
    BY <2>1, <1>k, AdapterTypes
  <2>3. o \in Adapters
    BY <2>2, <1>f, AdapterTypes
  <2>4. m \in Methods \ {""}
    BY <1>3 DEF Edit, Methods
  <2>. HIDE DEF a, doc, b, m, o
  <2>5. \/ Saved(doc) /\ Call(m, job.arg, job, b)
        \/ Saved(doc) /\ Answer(TRUE, o)
        \/ SaveFails /\ Answer(FALSE, a)
    BY <1>3 DEF Edit, a, doc, b, m, o
  <2>6. T
    BY <2>1, <2>2, <2>3, <2>4, <2>5, <1>k, <1>t, <1>f, AnswerTypes, NewCallTypes DEF a
  <2>7. disk' \in Disks /\ (Fault \/ NoFault)
    BY <2>1, <2>5, <1>e
  <2>. QED
    BY <2>6, <2>7, <1>3, <1>g, <1>t DEF Edit, Started
<1>4. CASE Capture
  <2>. DEFINE a == IF job.cmd = "lock" THEN Known_(adapter) ELSE adapter
              j == [job EXCEPT !.prev = a.features]
  <2>1. a \in Adapters /\ a.features \in Prefs
    BY <1>k, <1>t, <1>f
  <2>2. j \in Jobs
    BY <2>1, <1>t DEF Jobs
  <2>. HIDE DEF a, j
  <2>3. Answer(FALSE, adapter) \/ Call(job.cmd, job.arg, j, a)
    BY <1>4 DEF Capture, a, j
  <2>4. job.cmd \in Methods \ {""}
    BY <1>4 DEF Capture, Methods
  <2>5. T
    BY <2>1, <2>2, <2>3, <2>4, <1>t, <1>f, AnswerTypes, NewCallTypes
  <2>. QED
    BY <2>5, <1>4, <1>g, <1>t DEF Capture, Started
<1>5. CASE DisableAll
  <2>1. PICK saved \in BOOLEAN :
          /\ IF saved THEN Saved(Defaults) ELSE SaveFails
          /\ LET a == [adapter EXCEPT !.features = Defaults, !.unread = @ /\ ~saved]
             IN IF a.conn THEN Call("off", Defaults, [job EXCEPT !.bad = ~saved], a)
                ELSE Answer(saved, [a EXCEPT !.actual = Unseen])
    BY <1>5 DEF DisableAll
  <2>. DEFINE a == [adapter EXCEPT !.features = Defaults, !.unread = @ /\ ~saved]
  <2>2. a \in Adapters
    <3>1. (adapter.unread /\ ~saved) \in BOOLEAN
      BY <1>f
    <3>. QED
      BY <3>1, <1>t, Constants, AdapterTypes
  <2>3. [a EXCEPT !.actual = Unseen] \in Adapters
    BY <2>2, <1>f, AdapterTypes
  <2>4. [job EXCEPT !.bad = ~saved] \in Jobs
    BY <1>t DEF Jobs
  <2>. HIDE DEF a
  <2>5. Call("off", Defaults, [job EXCEPT !.bad = ~saved], a) \/ Answer(saved, [a EXCEPT !.actual = Unseen])
    BY <2>1 DEF a
  <2>6. T
    BY <2>2, <2>3, <2>4, <2>5, <2>1, AnswerTypes, NewCallTypes, Constants DEF Methods
  <2>7. disk' \in Disks /\ (Fault \/ NoFault)
    BY <2>1, <1>e, Constants
  <2>. QED
    BY <2>6, <2>7, <1>5, <1>g, <1>t DEF DisableAll, Started
<1>6. CASE LoadProfile
  <2>. DEFINE a == [adapter EXCEPT !.features = job.arg, !.unread = FALSE]
  <2>1. a \in Adapters
    BY <1>t, <1>f, AdapterTypes
  <2>. HIDE DEF a
  <2>2. \/ Saved(job.arg) /\ (Call("configure", job.arg, job, a) \/ Answer(TRUE, a))
        \/ SaveFails /\ Answer(FALSE, adapter)
    BY <1>6 DEF LoadProfile, a
  <2>3. T
    BY <2>1, <2>2, <1>t, <1>f, AnswerTypes, NewCallTypes DEF Methods
  <2>4. disk' \in Disks /\ (Fault \/ NoFault)
    BY <2>2, <1>e, <1>f
  <2>. QED
    BY <2>3, <2>4, <1>6, <1>g, <1>t DEF LoadProfile, Started
<1>7. CASE Leave
  <2>1. /\ [client EXCEPT !.conn = FALSE] \in Clients
        /\ [adapter EXCEPT !.conn = FALSE, !.actual = Unseen, !.speedError = FALSE] \in Adapters
    BY <1>t, <1>f, AdapterTypes DEF Clients
  <2>2. T
    BY <1>7, <2>1, <1>t, AnswerTypes, NewCallTypes, Constants DEF Leave, Methods
  <2>3. client' \in Clients
    BY <1>7, <2>1, <1>t, Constants DEF Leave
  <2>. QED
    BY <2>2, <2>3, <1>7, <1>g, <1>t DEF Leave, Started
<1>. QED
  BY <1>1, <1>2, <1>3, <1>4, <1>5, <1>6, <1>7

LEMMA KillTypes ==
  ASSUME TypeInv, NEW w \in Workers, Killed(w)
  PROVE  game' \in Games /\ worker' \in [Workers -> Debuggers]
<1>1. Gone(worker[w]) \in Debuggers /\ [game EXCEPT !.at = Nobody] \in Games
  BY WorkerTypes, GameTypes DEF TypeInv, DebuggerTypes
<1>. QED
  BY <1>1 DEF Killed, TypeInv, DebuggerTypes

LEMMA CallStepTypes ==
  ASSUME TypeInv, SentInv,
         Refuse \/ NotNoted \/ NotSent \/ Send \/ ClientReply \/ ClientMalformed \/ ClientLoses
  PROVE  TypeInv'
<1>0. 0 \in AnyLife /\ Lives \subseteq AnyLife
  BY Bounds DEF AnyLife, Lives
<1>t. /\ game \in Games /\ worker \in [Workers -> Debuggers] /\ budget \in Budgets
      /\ client \in Clients /\ adapter \in Adapters /\ disk \in Disks
      /\ job \in Jobs /\ seen \in Histories
  BY DEF TypeInv, DebuggerTypes, BackendTypes
<1>f. /\ client.life \in AnyLife /\ client.w \in Workers \cup {Nobody} /\ client.conn \in BOOLEAN
      /\ job.call \in Calls /\ job.call.id \in Nat
      /\ seen.calls \in Nat /\ seen.doubt \in Nat
  BY <1>t DEF Clients, Jobs, Calls, Histories
<1>d. \A l \in AnyLife : [disk EXCEPT !.journal = l] \in Disks
  BY <1>t DEF Disks
<1>c. /\ \A c \in BOOLEAN : [client EXCEPT !.conn = c] \in Clients
      /\ \A w \in Workers : [client EXCEPT !.w = w] \in Clients
      /\ [client EXCEPT !.lost = "known", !.conn = FALSE] \in Clients
      /\ Distrusted(client) \in Clients /\ [Distrusted(client) EXCEPT !.lost = "unknown"] \in Clients
  <2>1. Distrusted(client) \in Clients
    BY <1>t, <1>f DEF Distrusted, Clients
  <2>2. [Distrusted(client) EXCEPT !.lost = "unknown"] \in Clients
    BY <2>1 DEF Clients
  <2>3. /\ \A c \in BOOLEAN : [client EXCEPT !.conn = c] \in Clients
        /\ \A w \in Workers : [client EXCEPT !.w = w] \in Clients
        /\ [client EXCEPT !.lost = "known", !.conn = FALSE] \in Clients
    BY <1>t DEF Clients
  <2>. QED
    BY <2>1, <2>2, <2>3
<1>s. InDoubt \/ UNCHANGED seen => seen' \in Histories
  <2>1. Doubt \in Nat
    BY <1>f DEF Doubt
  <2>2. [seen EXCEPT !.doubt = Doubt] \in Histories
    BY <2>1, <1>t DEF Histories
  <2>. QED
    BY <2>2, <1>t DEF InDoubt
<1>g. ASSUME game' \in Games, worker' \in [Workers -> Debuggers], Fault \/ NoFault,
             client' \in Clients, disk' \in Disks, job' \in Jobs, adapter' = adapter,
             seen' \in Histories
      PROVE  TypeInv'
  BY <1>g, <1>t, FaultTypes DEF TypeInv, DebuggerTypes, BackendTypes
<1>b. ASSUME NEW out \in Replies, Back(out) PROVE job' \in Jobs
  BY <1>b, BackTypes
<1>1. CASE Refuse
  BY <1>1, <1>b, <1>g, <1>t, Constants DEF Refuse, Calling
<1>2. CASE NotNoted
  BY <1>2, <1>b, <1>g, <1>t, Constants DEF NotNoted, Calling
<1>3. CASE NotSent
  <2>1. client' \in Clients
    BY <1>3, <1>c, <1>t DEF NotSent
  <2>2. disk' \in Disks
    BY <1>3, <1>0, <1>d, <1>f, <1>t DEF NotSent, Cleared
  <2>3. job' \in Jobs
    BY <1>3, <1>b, Constants DEF NotSent
  <2>. QED
    BY <2>1, <2>2, <2>3, <1>3, <1>g, <1>t DEF NotSent, Calling
<1>4. CASE Send
  <2>1. PICK w \in Workers : Deliver(w, seen.calls + 1) /\ client' = [client EXCEPT !.w = w]
    BY <1>4 DEF Send
  <2>. DEFINE k == [job.call EXCEPT !.life = client.life, !.id = seen.calls + 1]
              d == IF worker[w].st = "none" THEN NewWorker ELSE worker[w]
  <2>2. k \in Calls
    <3>0. job.call \in [m : Methods, a : Prefs \cup Desires, life : AnyLife, id : Nat]
      BY <1>f DEF Calls
    <3>1. k \in [m : Methods, a : Prefs \cup Desires, life : AnyLife, id : Nat]
      <4>1. \A l \in AnyLife, n \in Nat : [job.call EXCEPT !.life = l, !.id = n]
              \in [m : Methods, a : Prefs \cup Desires, life : AnyLife, id : Nat]
        BY <3>0
      <4>2. seen.calls + 1 \in Nat
        BY <1>f
      <4>. QED
        BY <4>1, <4>2, <1>f
    <3>2. k.m = job.call.m /\ k.a = job.call.a
      BY <1>f DEF Calls
    <3>. QED
      BY <3>1, <3>2, <1>f DEF Calls
  <2>3. d \in Debuggers
    BY <1>t, Constants
  <2>4. [d EXCEPT !.st = "got", !.call = k] \in Debuggers
    BY <2>2, <2>3 DEF Debuggers, Stages
  <2>5. worker' \in [Workers -> Debuggers]
    BY <2>1, <2>4, <1>t DEF Deliver
  <2>6. job' = [job EXCEPT !.ph = "sent", !.call = k]
    BY <1>4, <1>t DEF Send, Jobs, Calls
  <2>. HIDE DEF k, d
  <2>7. job' \in Jobs
    BY <2>2, <2>6, <1>t DEF Jobs, Phases
  <2>8. seen' \in Histories
    BY <1>4, <1>t, <1>f DEF Send, Histories
  <2>9. disk' \in Disks /\ client' \in Clients
    BY <1>4, <2>1, <1>c, <1>d, <1>f, <1>t DEF Send
  <2>. QED
    BY <2>5, <2>7, <2>8, <2>9, <1>4, <1>g, <1>t DEF Send, Calling
<1>5. CASE ClientReply
  <2>1. client.w \in Workers
    BY <1>5 DEF ClientReply, Waiting, SentInv
  <2>2. worker[client.w] \in Debuggers /\ worker[client.w].out \in Replies /\ worker[client.w].out.conn \in BOOLEAN
    BY <2>1, <1>t DEF Debuggers, Replies
  <2>3. worker' \in [Workers -> Debuggers]
    <3>1. [worker[client.w] EXCEPT !.st = "idle", !.out = Offline, !.call = NoCall] \in Debuggers
      BY <2>2, Constants DEF Debuggers, Stages
    <3>2. worker' = [worker EXCEPT ![client.w] =
                      [worker[client.w] EXCEPT !.st = "idle", !.out = Offline, !.call = NoCall]]
      BY <1>5, <2>1, <1>t DEF ClientReply
    <3>. QED
      BY <3>1, <3>2, <2>1, <1>t
  <2>. DEFINE out == worker[client.w].out
              c == IF out.k = "ok" THEN [client EXCEPT !.conn = out.conn] ELSE client
              e == [c EXCEPT !.conn = IF out.k = "ok" THEN client.conn ELSE @]
  <2>4. c \in Clients
    BY <2>2, <1>c, <1>t
  <2>5. e \in Clients
    <3>1. (IF out.k = "ok" THEN client.conn ELSE c.conn) \in BOOLEAN
      BY <2>4, <1>f DEF Clients
    <3>. QED
      BY <2>4, <3>1 DEF Clients
  <2>6. (InDoubt \/ UNCHANGED seen) /\ UNCHANGED <<game, adapter>>
    BY <1>5 DEF ClientReply
  <2>. HIDE DEF e
  <2>7. \/ client' = Distrusted(client) /\ Back(out) /\ UNCHANGED disk /\ NoFault
        \/ disk' = [disk EXCEPT !.journal = 0] /\ Back(out) /\ client' = c /\ NoFault
        \/ Fault /\ UNCHANGED disk /\ Back(Known) /\ client' = e
        \/ Back(out) /\ client' = c /\ UNCHANGED disk /\ NoFault
    BY <1>5 DEF ClientReply, Settle, e
  <2>. HIDE DEF c, out
  <2>8. client' \in Clients /\ disk' \in Disks /\ (Fault \/ NoFault)
    BY <2>4, <2>5, <2>7, <1>0, <1>c, <1>d, <1>t
  <2>9. job' \in Jobs
    BY <2>2, <2>7, <1>b, Constants DEF out
  <2>. QED
    BY <2>3, <2>6, <2>8, <2>9, <1>g, <1>s, <1>t
<1>6. CASE ClientMalformed
  <2>1. client.w \in Workers
    BY <1>6 DEF ClientMalformed, Waiting, SentInv
  <2>2. game' \in Games /\ worker' \in [Workers -> Debuggers]
    BY <1>6, <2>1, KillTypes DEF ClientMalformed
  <2>3. client' \in Clients
    BY <1>6, <1>c DEF ClientMalformed
  <2>. QED
    BY <2>2, <2>3, <1>6, <1>b, <1>g, <1>s, <1>t, Constants DEF ClientMalformed
<1>7. CASE ClientLoses
  <2>1. client.w \in Workers
    BY <1>7 DEF ClientLoses, Waiting, SentInv
  <2>2. game' \in Games /\ worker' \in [Workers -> Debuggers]
    BY <1>7, <2>1, <1>t, KillTypes DEF ClientLoses
  <2>3. client' \in Clients
    BY <1>7, <1>c DEF ClientLoses
  <2>4. job' \in Jobs
    BY <1>7, <1>b, Constants DEF ClientLoses
  <2>. QED
    BY <2>2, <2>3, <2>4, <1>7, <1>g, <1>s, <1>t DEF ClientLoses
<1>. QED
  BY <1>1, <1>2, <1>3, <1>4, <1>5, <1>6, <1>7

LEMMA ReturnTypes ==
  ASSUME TypeInv,
         Reconcile \/ ReconcileSpeed \/ SpeedSet \/ Observed \/ Edited \/ Captured \/ TakenBack
           \/ Disabled \/ Left
  PROVE  TypeInv'
<1>. DEFINE T == adapter' \in Adapters /\ job' \in Jobs /\ seen' \in Histories
<1>t. /\ game \in Games /\ worker \in [Workers -> Debuggers] /\ budget \in Budgets
      /\ client \in Clients /\ adapter \in Adapters /\ disk \in Disks
      /\ job \in Jobs /\ seen \in Histories
  BY DEF TypeInv, DebuggerTypes, BackendTypes
<1>f. /\ adapter.features \in Prefs /\ job.prev \in Prefs /\ job.out \in Replies /\ job.out.conn \in BOOLEAN
      /\ job.out.speed \in Speeds \cup {Unseen} /\ job.out.desire.lock \in Locks
      /\ job.out.desire \in Desires /\ job.bad \in BOOLEAN /\ client.conn \in BOOLEAN
      /\ adapter.conn \in BOOLEAN /\ adapter.actual \in Speeds \cup {Unseen}
      /\ Unseen \in Speeds \cup {Unseen} /\ Good \in BOOLEAN /\ 1 \in Speeds
  <2>1. job.out \in Replies /\ job.prev \in Prefs /\ job.bad \in BOOLEAN
    BY <1>t DEF Jobs
  <2>2. /\ job.out.conn \in BOOLEAN /\ job.out.speed \in Speeds \cup {Unseen}
        /\ job.out.desire \in Desires
    BY <2>1 DEF Replies
  <2>3. job.out.desire.lock \in Locks
    BY <2>2 DEF Desires
  <2>4. Good \in BOOLEAN /\ 1 \in Speeds
    BY DEF Good, Speeds
  <2>5. /\ adapter.features \in Prefs /\ adapter.conn \in BOOLEAN
        /\ adapter.actual \in Speeds \cup {Unseen} /\ client.conn \in BOOLEAN
    BY <1>t DEF Adapters, Clients
  <2>. QED
    BY <2>1, <2>2, <2>3, <2>4, <2>5
<1>q. ASSUME UNCHANGED game, Quiet, T PROVE TypeInv'
  BY <1>q, <1>t DEF Quiet, TypeInv, DebuggerTypes, BackendTypes
<1>c. \A c \in BOOLEAN : [adapter EXCEPT !.conn = c] \in Adapters
  BY <1>t, AdapterTypes
<1>r. ASSUME NEW a \in Adapters, NextLocks(a) \/ NextRarity(a) \/ NextSpeed(a) PROVE T
  <2>1. a.features \in Prefs
    BY DEF Adapters
  <2>2. \A m \in {"locks", "rarity"} : Call(m, a.features, job, a) => T
    BY <2>1, <1>t, NewCallTypes DEF Methods
  <2>3. Call("speed", Defaults, job, a) => T
    BY <1>t, NewCallTypes, Constants DEF Methods
  <2>4. Answer(TRUE, a) => T
    BY AnswerTypes
  <2>. QED
    BY <1>r, <2>2, <2>3, <2>4 DEF NextLocks, NextRarity, NextSpeed
<1>s. ASSUME NEW a \in Adapters PROVE SpeedFailed(a, job.out) \in Adapters
  BY <1>f, SpeedFailedTypes
<1>1. CASE Reconcile
  <2>. DEFINE a == IF job.call.m = "connect" THEN [adapter EXCEPT !.conn = job.out.conn] ELSE adapter
              b == IF job.cmd = "profile" /\ Lost(job.out.k) THEN [adapter EXCEPT !.conn = FALSE] ELSE adapter
  <2>1. a \in Adapters /\ b \in Adapters
    BY <1>c, <1>f, <1>t
  <2>. HIDE DEF a, b
  <2>2. Answer(FALSE, b) \/ NextLocks(a) \/ NextRarity(a) \/ NextSpeed(a)
    BY <1>1 DEF Reconcile, ChainFails, a, b
  <2>3. T
    BY <2>1, <2>2, <1>r, AnswerTypes
  <2>. QED
    BY <2>3, <1>1, <1>q DEF Reconcile, Returned
<1>2. CASE ReconcileSpeed
  <2>. DEFINE a == [adapter EXCEPT !.actual = job.out.speed]
              failed == [SpeedFailed(adapter, job.out) EXCEPT !.conn = @ /\ ~Lost(job.out.k)]
  <2>1. a \in Adapters /\ [a EXCEPT !.speedError = FALSE] \in Adapters /\ a.features \in Prefs
    <3>1. a \in Adapters
      BY <1>f, <1>t, AdapterTypes
    <3>. QED
      BY <3>1 DEF Adapters
  <2>2. failed \in Adapters
    <3>1. SpeedFailed(adapter, job.out) \in Adapters
      BY <1>s, <1>t
    <3>2. Lost(job.out.k) \in BOOLEAN
      BY <1>f DEF Lost
    <3>3. (SpeedFailed(adapter, job.out).conn /\ ~Lost(job.out.k)) \in BOOLEAN
      BY <3>2
    <3>. QED
      BY <3>1, <3>3, AdapterTypes
  <2>. HIDE DEF a, failed
  <2>3. \/ \E ok \in BOOLEAN : Answer(ok, failed)
        \/ Call("setspeed", a.features, job, a)
        \/ Answer(TRUE, [a EXCEPT !.speedError = FALSE])
    BY <1>2 DEF ReconcileSpeed, a, failed
  <2>4. T
    BY <2>1, <2>2, <2>3, <1>t, AnswerTypes, NewCallTypes DEF Methods
  <2>. QED
    BY <2>4, <1>2, <1>q DEF ReconcileSpeed, Returned
<1>3. CASE SpeedSet
  <2>1. [adapter EXCEPT !.actual = job.out.speed, !.speedError = FALSE] \in Adapters
    BY <1>f, <1>t, AdapterTypes
  <2>2. SpeedFailed(adapter, job.out) \in Adapters
    BY <1>s, <1>t
  <2>3. T
    BY <2>1, <2>2, <1>3, <1>t, AnswerTypes, NewCallTypes, Constants DEF SpeedSet, Methods
  <2>. QED
    BY <2>3, <1>3, <1>q DEF SpeedSet, Returned
<1>4. CASE Observed
  <2>1. [adapter EXCEPT !.conn = FALSE, !.actual = Unseen, !.speedError = FALSE] \in Adapters
    BY <1>f, <1>t, AdapterTypes
  <2>2. T
    BY <2>1, <1>4, <1>c, <1>f, <1>t, AnswerTypes DEF Observed
  <2>. QED
    BY <2>2, <1>4, <1>q DEF Observed, Returned
<1>5. CASE Edited
  <2>1. T
    BY <1>5, <1>c, <1>f, <1>t, AnswerTypes DEF Edited
  <2>. QED
    BY <2>1, <1>5, <1>q DEF Edited, Returned
<1>6. CASE Captured
  <2>. DEFINE doc == [adapter.features EXCEPT !.lock = job.out.desire.lock]
              a == [adapter EXCEPT !.features = doc, !.conn = job.out.conn]
              j == [job EXCEPT !.bad = TRUE]
              b == [adapter EXCEPT !.conn = job.out.conn]
  <2>1. doc \in Prefs
    BY <1>f DEF Prefs
  <2>2. a \in Adapters /\ b \in Adapters
    BY <2>1, <1>f, <1>t DEF Adapters
  <2>3. j \in Jobs
    BY <1>t DEF Jobs
  <2>. HIDE DEF doc, a, j, b
  <2>4. \/ Answer(FALSE, adapter) /\ NoFault /\ UNCHANGED disk
        \/ Answer(TRUE, b) /\ NoFault /\ UNCHANGED disk
        \/ Call("locks", job.prev, j, adapter) /\ NoFault /\ UNCHANGED disk
        \/ Saved(doc) /\ Answer(TRUE, a)
        \/ SaveFails /\ Call("locks", job.prev, j, adapter)
    BY <1>6 DEF Captured, doc, a, j, b
  <2>5. T
    BY <2>2, <2>3, <2>4, <1>f, <1>t, AnswerTypes, NewCallTypes DEF Methods
  <2>6. disk' \in Disks
    BY <2>1, <2>4, <1>t DEF Saved, SaveFails, Disks
  <2>7. Fault \/ NoFault
    BY <2>4 DEF Saved, SaveFails
  <2>. QED
    BY <2>5, <2>6, <2>7, <1>6, <1>t, FaultTypes
    DEF Captured, Returned, TypeInv, DebuggerTypes, BackendTypes
<1>7. CASE TakenBack
  <2>1. seen' \in Histories
    <3>1. {seen.told \ {"lock"}, seen.told \cup {"lock"}} \subseteq SUBSET Settings
      BY <1>t DEF Histories, Settings
    <3>2. \A t \in SUBSET Settings : [seen EXCEPT !.told = t] \in Histories
      BY <1>t DEF Histories
    <3>. QED
      BY <3>1, <3>2, <1>7 DEF TakenBack
  <2>2. T
    BY <2>1, <1>7, <1>t, Constants DEF TakenBack
  <2>. QED
    BY <2>2, <1>7, <1>q DEF TakenBack, Returned
<1>8. CASE Disabled
  <2>. DEFINE conn == adapter.conn /\ (Good \/ client.conn)
              a == [adapter EXCEPT !.conn = conn, !.actual = IF conn THEN @ ELSE Unseen]
              j == [job EXCEPT !.bad = @ \/ ~Good]
              b == [adapter EXCEPT !.actual = job.out.speed, !.speedError = FALSE]
  <2>1. a \in Adapters
    <3>1. conn \in BOOLEAN /\ (IF conn THEN adapter.actual ELSE Unseen) \in Speeds \cup {Unseen}
      BY <1>f
    <3>2. \A c \in BOOLEAN, s \in Speeds \cup {Unseen} : [adapter EXCEPT !.conn = c, !.actual = s] \in Adapters
      BY <1>t DEF Adapters
    <3>. QED
      BY <3>1, <3>2
  <2>2. j \in Jobs
    BY <1>t, <1>f DEF Jobs
  <2>3. b \in Adapters /\ SpeedFailed(adapter, job.out) \in Adapters
    BY <1>f, <1>s, <1>t, AdapterTypes
  <2>. HIDE DEF conn, a, j, b
  <2>4. \/ Call("setspeed", Defaults, j, a)
        \/ Answer(FALSE, a)
        \/ Answer(~job.bad, b)
        \/ Answer(FALSE, SpeedFailed(adapter, job.out))
    BY <1>8 DEF Disabled, conn, a, j, b
  <2>5. T
    BY <2>1, <2>2, <2>3, <2>4, <1>f, AnswerTypes, NewCallTypes, Constants DEF Methods
  <2>. QED
    BY <2>5, <1>8, <1>q DEF Disabled, Returned
<1>9. CASE Left
  <2>1. /\ [adapter EXCEPT !.conn = FALSE, !.actual = 1, !.speedError = FALSE] \in Adapters
        /\ SpeedFailed(adapter, job.out) \in Adapters /\ NoAdapter \in Adapters
    BY <1>f, <1>s, <1>t, AdapterTypes, Constants
  <2>2. T
    BY <2>1, <1>9, <1>f, AnswerTypes DEF Left
  <2>3. client' \in Clients
    <3>1. [client EXCEPT !.w = Nobody] \in Clients
      BY <1>t DEF Clients
    <3>. QED
      BY <3>1, <1>9, <1>t, Constants DEF Left
  <2>4. game' \in Games /\ worker' \in [Workers -> Debuggers]
    <3>1. client.w \in Workers \cup {Nobody}
      BY <1>t DEF Clients
    <3>. QED
      BY <3>1, <1>9, <1>t, KillTypes DEF Left, WorkerRuns
  <2>. QED
    BY <2>2, <2>3, <2>4, <1>9, <1>t, FaultTypes DEF Left, TypeInv, DebuggerTypes, BackendTypes
<1>. QED
  BY <1>1, <1>2, <1>3, <1>4, <1>5, <1>6, <1>7, <1>8, <1>9

LEMMA OtherTypes ==
  ASSUME TypeInv, UserCommand \/ BackendDies \/ BackendStarts \/ Outside
  PROVE  TypeInv'
<1>t. /\ game \in Games /\ worker \in [Workers -> Debuggers] /\ budget \in Budgets
      /\ client \in Clients /\ adapter \in Adapters /\ disk \in Disks
      /\ job \in Jobs /\ seen \in Histories
  BY DEF TypeInv, DebuggerTypes, BackendTypes
<1>1. ASSUME NEW cmd \in Commands, NEW arg \in Prefs, Begin(cmd, arg) PROVE TypeInv'
  <2>1. [Idle EXCEPT !.cmd = cmd, !.arg = arg, !.prev = adapter.features, !.ph = "start"] \in Jobs
    <3>1. adapter.features \in Prefs
      BY <1>t DEF Adapters
    <3>. QED
      BY <3>1, Constants DEF Jobs, Phases
  <2>2. [budget EXCEPT !.commands = @ - 1] \in Budgets
    BY <1>t DEF Budgets
  <2>. QED
    BY <2>1, <2>2, <1>1, <1>t DEF Begin, TypeInv, DebuggerTypes, BackendTypes
<1>2. CASE UserCommand
  <2>1. /\ \A on \in BOOLEAN : [Defaults EXCEPT !.guard = on] \in Prefs
        /\ \A r \in {Natural, Heroic} : [Defaults EXCEPT !.rarity = r] \in Prefs
        /\ \A s \in Speeds : [Defaults EXCEPT !.speed = s] \in Prefs
        /\ \A l \in Locks : [Defaults EXCEPT !.lock = l] \in Prefs
        /\ Profiles \subseteq Prefs
    BY Constants, Bounds DEF Prefs
  <2>2. \E cmd \in Commands, arg \in Prefs : Begin(cmd, arg)
    BY <1>2, <2>1, Constants DEF UserCommand, Commands
  <2>. QED
    BY <2>2, <1>1
<1>3. CASE BackendDies
  <2>1. worker' \in [Workers -> Debuggers]
    BY <1>3, <1>t, WorkerTypes DEF BackendDies
  <2>2. seen' \in Histories
    <3>1. (IF Waiting THEN Doubt ELSE seen.doubt) \in Nat
      BY <1>t DEF Doubt, Jobs, Calls, Histories
    <3>2. \A n \in Nat, t \in SUBSET Settings : [seen EXCEPT !.told = t, !.doubt = n] \in Histories
      BY <1>t DEF Histories
    <3>. QED
      BY <3>1, <3>2, <1>3 DEF BackendDies
  <2>. QED
    BY <2>1, <2>2, <1>3, <1>t, Constants, FaultTypes
    DEF BackendDies, TypeInv, DebuggerTypes, BackendTypes
<1>4. CASE BackendStarts
  <2>1. disk.prefs \in Prefs
    BY <1>t DEF Disks
  <2>2. /\ [NoAdapter EXCEPT !.up = TRUE, !.features = disk.prefs] \in Adapters
        /\ [NoAdapter EXCEPT !.up = TRUE, !.unread = TRUE] \in Adapters
    BY <2>1, Constants DEF Adapters
  <2>3. [seen EXCEPT !.told = Settings] \in Histories
    BY <1>t DEF Histories
  <2>. QED
    BY <2>2, <2>3, <1>4, <1>t, FaultTypes DEF BackendStarts, TypeInv, DebuggerTypes, BackendTypes
<1>5. CASE Outside
  <2>1. seen' \in Histories
    BY <1>5, <1>t DEF Outside, Histories
  <2>2. DebuggerTypes'
    <3>1. CASE GameExits
      <4>1. [game EXCEPT !.up = FALSE, !.at = Nobody, !.focus = TRUE] \in Games
        BY <1>t DEF Games
      <4>. QED
        BY <4>1, <3>1, <1>t DEF GameExits, DebuggerTypes
    <3>2. CASE GameStarts
      <4>1. game.life + 1 \in Lives
        BY <3>2, <1>t, Bounds DEF GameStarts, Games, Lives
      <4>2. NoResident \in Residents /\ 1 \in Speeds
        BY Constants DEF NoResident, Residents, Speeds
      <4>3. \A l \in Lives : [game EXCEPT !.up = TRUE, !.life = l, !.res = NoResident,
                                      !.speed = 1, !.last = 0] \in Games
        BY <4>2, <1>t DEF Games
      <4>4. game' = [game EXCEPT !.up = TRUE, !.life = game.life + 1, !.res = NoResident,
                                      !.speed = 1, !.last = 0]
        BY <3>2, <1>t DEF GameStarts, Games
      <4>. QED
        BY <4>1, <4>3, <4>4, <3>2, <1>t DEF GameStarts, DebuggerTypes
    <3>3. CASE LuaReset
      <4>1. NoResident \in Residents
        BY Constants DEF NoResident, Residents
      <4>2. [game EXCEPT !.res = NoResident] \in Games
        BY <4>1, <1>t DEF Games
      <4>3. [budget EXCEPT !.resets = @ - 1] \in Budgets
        BY <1>t DEF Budgets
      <4>. QED
        BY <4>2, <4>3, <3>3, <1>t DEF LuaReset, DebuggerTypes
    <3>. QED
      BY <1>5, <3>1, <3>2, <3>3, WorkerStepTypes DEF Outside, GameStep
  <2>. QED
    BY <2>1, <2>2, <1>5, <1>t DEF Outside, TypeInv, BackendTypes
<1>. QED
  BY <1>2, <1>3, <1>4, <1>5

LEMMA TypesKept ==
  ASSUME TypeInv, SentInv, [Next]_vars
  PROVE  TypeInv'
<1>1. CASE UNCHANGED vars
  BY <1>1 DEF vars, TypeInv, DebuggerTypes, BackendTypes
<1>. QED
  BY <1>1, StartTypes, CallStepTypes, ReturnTypes, OtherTypes DEF Next, Backend

LEMMA InitTypes == Init => TypeInv
<1>. SUFFICES ASSUME Init PROVE TypeInv
  OBVIOUS
<1>1. game \in Games
  <2>1. {NoResident} \cup {[here |-> "other", desire |-> Neutral]} \subseteq Residents
    BY Constants DEF NoResident, Residents
  <2>2. 1 \in Lives /\ 1 \in Speeds
    BY Bounds DEF Lives, Speeds
  <2>3. \A r \in Residents : [life |-> 1, up |-> TRUE, res |-> r, speed |-> 1, focus |-> TRUE,
                              at |-> Nobody, last |-> 0] \in Games
    BY <2>2 DEF Games
  <2>4. \E r \in Residents : game = [life |-> 1, up |-> TRUE, res |-> r, speed |-> 1, focus |-> TRUE,
                              at |-> Nobody, last |-> 0]
    BY <2>1 DEF Init
  <2>. QED
    BY <2>3, <2>4
<1>2. worker \in [Workers -> Debuggers]
  BY Constants DEF Init
<1>3. budget \in Budgets
  BY WorkerBounds, CommandBound DEF Init, Budgets
<1>4. disk \in Disks
  BY Bounds DEF Init, Disks, AnyLife
<1>5. adapter \in Adapters
  <2>1. disk.prefs \in Prefs
    BY <1>4 DEF Disks
  <2>. QED
    BY <2>1, Constants DEF Init, Adapters
<1>6. seen \in Histories
  BY DEF Init, Histories
<1>. QED
  BY <1>1, <1>2, <1>3, <1>4, <1>5, <1>6, Constants DEF Init, TypeInv, DebuggerTypes, BackendTypes

-----------------------------------------------------------------------------
(* What a step of a worker can do *)

Set == {"setspeed", "disconnect"}

\* How a worker moves from one stage to the next.
Moves(s, t) ==
  \/ s = "got" /\ t \in {"exec", "replied"}
  \/ s = "exec" /\ t \in {"bound", "clean", "replied"}
  \/ s = "bound" /\ t \in {"clean", "replied"}
  \/ s = "clean" /\ t = "replied"
  \/ s \notin {"none", "dead"} /\ t = "dead"

\* The records of the worker, and the game, before and after a step.
Shape(w, d, e, g, h) ==
  /\ Moves(d.st, e.st)
  /\ h.life = g.life /\ h.up = g.up
  /\ e.call = IF e.st = "dead" THEN NoCall ELSE d.call
  /\ \/ e.on = 0 /\ e.st \in {"replied", "dead"}
     \/ e.on = d.on /\ e.st # "dead"
     \/ e.on = d.call.life /\ d.call.life = g.life /\ d.st = "got" /\ d.call.m = "connect" /\ e.st = "exec"
  /\ e.st = "exec" => g.up /\ e.on = g.life /\ d.call.m \notin {"speed"} \cup Set
  /\ h.last = g.last \/ (h.last = d.call.id /\ Alive(w) /\
       \/ d.st = "bound"
       \/ d.st = "got" /\ d.call.m \in Set)
  /\ h.focus \/ ~g.focus \/ (Alive(w) /\ d.st \in {"exec", "clean"})
  /\ d.st \in {"bound", "clean"} /\ e.st = "replied" =>
       ~Alive(w) \/ h.focus \/ e.out.k = "unknown"
  /\ ~h.focus /\ ~(d.st = "clean" /\ e.st = "replied") /\ d.st \in {"exec", "clean"} /\ h.focus # g.focus =>
       e.st \in {"bound", "clean"}
  /\ h.speed = g.speed \/ (Alive(w) /\ d.st = "got" /\ d.call.m \in Set)
  /\ d.call.m \in Clock /\ d.st = "got" /\ e.st = "replied" /\ e.out.k = "ok" => e.out.speed = h.speed
  /\ d.st = "replied" => e.st = "dead"

\* A worker that pauses a game it debugs takes a step of that shape.
LEMMA PauseShape ==
  ASSUME NEW w, NEW d, NEW e, NEW g, NEW h, Alive(w), d.st = "exec", e.st \in {"bound", "clean"},
         e.call = d.call, e.on = d.on,
         h.life = g.life, h.up = g.up, h.last = g.last, h.speed = g.speed
  PROVE  Shape(w, d, e, g, h)
<1>1. /\ e.st # "dead" /\ e.st # "exec" /\ e.st # "replied" /\ Moves(d.st, e.st)
      /\ d.st # "got" /\ d.st # "bound" /\ d.st # "clean" /\ d.st # "replied"
  BY DEF Moves
<1>. QED
  BY <1>1 DEF Shape

\* What a worker that ended remembers: no call and no game.
LEMMA GoneFields ==
  ASSUME NEW d \in Debuggers
  PROVE  Gone(d).call = NoCall /\ Gone(d).on = 0 /\ Gone(d).st = "dead"
BY DEF Gone, Debuggers

\* What a call that the worker answers leaves of its record.
LEMMA AnswersFields ==
  ASSUME NEW d \in Debuggers, NEW out
  PROVE  /\ Answers(d, out).st = "replied" /\ Answers(d, out).call = d.call /\ Answers(d, out).on = d.on
         /\ Answers(d, out).out = out
BY DEF Answers, Debuggers

LEMMA WorkerShape ==
  ASSUME TypeInv, LifeInv, NEW w \in Workers, WorkerStep(w)
  PROVE  /\ \A v \in Workers \ {w} : worker'[v] = worker[v]
         /\ Shape(w, worker[w], worker'[w], game, game')
<1>. DEFINE d == worker[w]
            c == worker[w].call
<1>t. d \in Debuggers /\ game \in Games /\ worker \in [Workers -> Debuggers]
  BY DEF TypeInv, DebuggerTypes
<1>1. CASE Dispatch(w)
  <2>1. ASSUME NEW fresh \in Debuggers, fresh.call = c, fresh.on = d.on, Attach(w, fresh, c.life),
               d.st = "got", c.m = "connect"
        PROVE  (\A v \in Workers \ {w} : worker'[v] = worker[v]) /\ Shape(w, d, worker'[w], game, game')
    <3>1. /\ Answers(fresh, Restart).st = "replied" /\ Answers(fresh, Restart).call = c
          /\ Answers(fresh, Restart).on = d.on
      BY <2>1 DEF Answers, Debuggers
    <3>0. 0 \in AnyLife
      BY Bounds DEF AnyLife
    <3>2. [fresh EXCEPT !.on = 0, !.foc = FALSE] \in Debuggers
      BY <3>0, WorkerTypes
    <3>3. /\ Answers([fresh EXCEPT !.on = 0, !.foc = FALSE], Known).st = "replied"
          /\ Answers([fresh EXCEPT !.on = 0, !.foc = FALSE], Known).call = c
          /\ Answers([fresh EXCEPT !.on = 0, !.foc = FALSE], Known).on = 0
      <4>1. [fresh EXCEPT !.on = 0, !.foc = FALSE].call = c /\ [fresh EXCEPT !.on = 0, !.foc = FALSE].on = 0
        BY <2>1 DEF Debuggers
      <4>. QED
        BY <4>1, <3>2 DEF Answers, Debuggers
    <3>. DEFINE e == worker'[w]
    <3>a. ASSUME game'.life = game.life, game'.up = game.up, game'.last = game.last,
                 game'.focus = game.focus, game'.speed = game.speed, e.call = c,
                 \/ e.st = "replied" /\ e.on \in {0, d.on}
                 \/ e.st = "exec" /\ e.on = game.life /\ game.up /\ e.on \in {d.on, c.life} /\ c.life = game.life,
                 \A v \in Workers \ {w} : worker'[v] = worker[v]
          PROVE  (\A v \in Workers \ {w} : worker'[v] = worker[v]) /\ Shape(w, d, worker'[w], game, game')
      BY <2>1, <3>a DEF Shape, Moves, Clock, Set
    <3>4. CASE worker' = [worker EXCEPT ![w] = Answers(fresh, Restart)] /\ UNCHANGED game
      BY <3>1, <3>4, <3>a, <1>t
    <3>5. CASE /\ Alive(w) /\ fresh.on = c.life /\ UNCHANGED game
               /\ worker' = [worker EXCEPT ![w] = [fresh EXCEPT !.st = "exec"]]
      <4>1. [fresh EXCEPT !.st = "exec"].st = "exec" /\ [fresh EXCEPT !.st = "exec"].call = c
            /\ [fresh EXCEPT !.st = "exec"].on = d.on
        BY <2>1 DEF Debuggers
      <4>. QED
        BY <2>1, <4>1, <3>5, <3>a, <1>t DEF Alive
    <3>6. CASE /\ game.up /\ game.life = c.life /\ game' = [game EXCEPT !.at = w]
               /\ worker' = [worker EXCEPT ![w] =
                     [fresh EXCEPT !.st = "exec", !.on = c.life, !.taint = 0, !.foc = FALSE]]
      <4>. DEFINE x == [fresh EXCEPT !.st = "exec", !.on = c.life, !.taint = 0, !.foc = FALSE]
      <4>1. x.st = "exec" /\ x.call = c /\ x.on = c.life
        BY <2>1 DEF Debuggers
      <4>2. /\ game'.life = game.life /\ game'.up = game.up /\ game'.last = game.last
            /\ game'.focus = game.focus /\ game'.speed = game.speed
        BY <3>6, <1>t DEF Games
      <4>. QED
        BY <4>1, <4>2, <3>6, <3>a, <1>t
    <3>7. CASE worker' = [worker EXCEPT ![w] = Answers([fresh EXCEPT !.on = 0, !.foc = FALSE], Known)]
               /\ UNCHANGED game
      BY <3>3, <3>7, <3>a, <1>t
    <3>. QED
      BY <2>1, <3>4, <3>5, <3>6, <3>7 DEF Attach
  <2>2. CASE c.m = "connect"
    <3>. DEFINE fresh == [d EXCEPT !.mem = Guarded(Neutral, c.a.guard)]
    <3>1. c.a.guard \in BOOLEAN
      BY <1>t DEF Debuggers, Calls, Prefs, Desires
    <3>2. fresh \in Debuggers /\ fresh.call = c /\ fresh.on = d.on
      BY <3>1, <1>t, Constants, GuardTypes DEF Debuggers
    <3>3. d.st = "got" /\ Attach(w, fresh, c.life)
      BY <1>1, <2>2 DEF Dispatch
    <3>. HIDE DEF fresh
    <3>. QED
      BY <3>2, <3>3, <2>1, <2>2
  <2>3. CASE c.m # "connect"
    <3>1. /\ d.st = "got" /\ c.m \notin {"speed", "setspeed", "disconnect"} /\ UNCHANGED game
          /\ worker' = [worker EXCEPT ![w] =
                     CASE ~Alive(w)           -> Answers(@, IF c.m = "status" THEN Offline ELSE Known)
                       [] worker[w].taint # 0 -> Answers(@, Restart)
                       [] OTHER               -> [@ EXCEPT !.st = "exec"]]
      BY <1>1, <2>3 DEF Dispatch
    <3>. DEFINE e == worker'[w]
    <3>2. e.call = c /\ e.on = d.on /\ (e.st = "replied" \/ (e.st = "exec" /\ Alive(w)))
      <4>1. ASSUME NEW out PROVE Answers(d, out).st = "replied" /\ Answers(d, out).call = c /\ Answers(d, out).on = d.on
        BY <1>t DEF Answers, Debuggers
      <4>2. [d EXCEPT !.st = "exec"].st = "exec" /\ [d EXCEPT !.st = "exec"].call = c /\ [d EXCEPT !.st = "exec"].on = d.on
        BY <1>t DEF Debuggers
      <4>3. e = Answers(d, IF c.m = "status" THEN Offline ELSE Known) \/ e = Answers(d, Restart)
            \/ (Alive(w) /\ e = [d EXCEPT !.st = "exec"])
        BY <3>1, <1>t
      <4>. QED
        BY <4>1, <4>2, <4>3
    <3>3. \A v \in Workers \ {w} : worker'[v] = worker[v]
      BY <3>1, <1>t
    <3>. QED
      BY <3>1, <3>2, <3>3, <1>t DEF Shape, Moves, Clock, Set, Alive
  <2>. QED
    BY <2>2, <2>3
<1>l. d.st \in Inside => c.m \notin {"speed", "setspeed", "disconnect"}
  BY DEF LifeInv
<1>a. ASSUME NEW f \in Debuggers, f.call = c, f.on = d.on, NEW out
      PROVE  /\ Answers(f, out).st = "replied" /\ Answers(f, out).call = c /\ Answers(f, out).on = d.on
             /\ Answers(f, out).out = out
  BY <1>a, AnswersFields
<1>b. ASSUME NEW e, worker' = [worker EXCEPT ![w] = e]
      PROVE  worker'[w] = e /\ \A v \in Workers \ {w} : worker'[v] = worker[v]
  BY <1>b, <1>t
<1>2. CASE Boundary(w)
  <2>1. CASE ~Alive(w)
    <3>1. d.st = "exec" /\ worker' = [worker EXCEPT ![w] = Answers(d, Known)] /\ UNCHANGED game
      BY <1>2, <2>1, <1>t DEF Boundary
    <3>. QED
      BY <3>1, <1>a, <1>b, <1>t DEF Shape, Moves, Clock
  <2>2. CASE Alive(w)
    <3>1. d.st = "exec" /\ game' = [game EXCEPT !.focus = FALSE]
      BY <1>2, <2>2 DEF Boundary
    <3>2. /\ game'.life = game.life /\ game'.up = game.up /\ game'.last = game.last
          /\ game'.speed = game.speed
      BY <3>1, <1>t DEF Games
    <3>3. \/ worker' = [worker EXCEPT ![w] = [d EXCEPT !.st = "bound", !.foc = TRUE]]
          \/ worker' = [worker EXCEPT ![w] = [d EXCEPT !.st = "clean", !.foc = TRUE, !.out = Known]]
      BY <1>2, <2>2, <1>t DEF Boundary
    <3>4. \A v \in Workers \ {w} : worker'[v] = worker[v]
      BY <3>3, <1>t
    <3>5. worker'[w].st \in {"bound", "clean"} /\ worker'[w].call = c /\ worker'[w].on = d.on
      <4>. DEFINE bound == [d EXCEPT !.st = "bound", !.foc = TRUE]
                  clean == [d EXCEPT !.st = "clean", !.foc = TRUE, !.out = Known]
      <4>1. /\ bound.st = "bound" /\ bound.call = c /\ bound.on = d.on
            /\ clean.st = "clean" /\ clean.call = c /\ clean.on = d.on
        BY <1>t DEF Debuggers
      <4>2. worker' = [worker EXCEPT ![w] = bound] \/ worker' = [worker EXCEPT ![w] = clean]
        BY <3>3
      <4>. HIDE DEF bound, clean
      <4>3. worker'[w] = bound \/ worker'[w] = clean
        BY <4>2, <1>b
      <4>. QED
        BY <4>1, <4>3
    <3>6. Shape(w, d, worker'[w], game, game')
      BY <2>2, <3>1, <3>2, <3>5, PauseShape
    <3>. QED
      BY <3>4, <3>6
  <2>. QED
    BY <2>1, <2>2
<1>3. CASE Evaluate(w)
  <2>0. d.st = "bound"
    BY <1>3 DEF Evaluate
  <2>1. CASE ~Alive(w)
    <3>1. /\ worker' = [worker EXCEPT ![w] = Answers(d, Known)] \/
             worker' = [worker EXCEPT ![w] = Answers([d EXCEPT !.taint = d.on], UnknownEnd)]
          /\ UNCHANGED game
      BY <1>3, <2>1, <1>t DEF Evaluate
    <3>2. [d EXCEPT !.taint = d.on] \in Debuggers /\ [d EXCEPT !.taint = d.on].call = c
          /\ [d EXCEPT !.taint = d.on].on = d.on
      BY <1>t DEF Debuggers
    <3>3. worker'[w].st = "replied" /\ worker'[w].call = c /\ worker'[w].on = d.on
      <4>1. CASE worker' = [worker EXCEPT ![w] = Answers(d, Known)]
        BY <4>1, <1>a, <1>b, <1>t
      <4>2. CASE worker' = [worker EXCEPT ![w] = Answers([d EXCEPT !.taint = d.on], UnknownEnd)]
        <5>1. worker'[w] = Answers([d EXCEPT !.taint = d.on], UnknownEnd)
          BY <4>2, <1>b
        <5>2. /\ Answers([d EXCEPT !.taint = d.on], UnknownEnd).st = "replied"
              /\ Answers([d EXCEPT !.taint = d.on], UnknownEnd).call = c
              /\ Answers([d EXCEPT !.taint = d.on], UnknownEnd).on = d.on
          BY <3>2, <1>a
        <5>. QED
          BY <5>1, <5>2
      <4>. QED
        BY <3>1, <4>1, <4>2
    <3>4. \A v \in Workers \ {w} : worker'[v] = worker[v]
      BY <3>1, <1>b
    <3>. QED
      BY <2>0, <2>1, <3>1, <3>3, <3>4 DEF Shape, Moves, Clock
  <2>2. CASE Alive(w)
    <3>1. /\ game' = game \/ \E r : game' = [game EXCEPT !.res = r, !.last = c.id]
          /\ \/ \E out : worker' = [worker EXCEPT ![w].st = "clean", ![w].out = out]
             \/ worker' = [worker EXCEPT ![w].st = "clean", ![w].out = UnknownEnd, ![w].taint = d.on]
      BY <1>3, <2>2 DEF Evaluate
    <3>2. /\ game'.life = game.life /\ game'.up = game.up /\ game'.last \in {game.last, c.id}
          /\ game'.speed = game.speed /\ game'.focus = game.focus
      BY <3>1, <1>t DEF Games
    <3>3. worker'[w].st = "clean" /\ worker'[w].call = c /\ worker'[w].on = d.on
      <4>1. CASE \E out : worker' = [worker EXCEPT ![w].st = "clean", ![w].out = out]
        <5>1. PICK out : worker' = [worker EXCEPT ![w].st = "clean", ![w].out = out]
          BY <4>1
        <5>2. worker'[w] = [d EXCEPT !.st = "clean", !.out = out]
          BY <5>1, <1>t
        <5>. QED
          BY <5>2, <1>t DEF Debuggers
      <4>2. CASE worker' = [worker EXCEPT ![w].st = "clean", ![w].out = UnknownEnd, ![w].taint = d.on]
        <5>2. worker'[w] = [d EXCEPT !.st = "clean", !.out = UnknownEnd, !.taint = d.on]
          BY <4>2, <1>t
        <5>. QED
          BY <5>2, <1>t DEF Debuggers
      <4>. QED
        BY <3>1, <4>1, <4>2
    <3>4. \A v \in Workers \ {w} : worker'[v] = worker[v]
      BY <3>1, <1>t
    <3>. QED
      BY <2>0, <2>2, <3>2, <3>3, <3>4 DEF Shape, Moves, Clock
  <2>. QED
    BY <2>1, <2>2
<1>4. CASE Cleanup(w)
  <2>0. d.st = "clean" /\ d.out \in Replies
    BY <1>4, <1>t DEF Cleanup, Debuggers
  <2>1. Remembered(d) \in Debuggers /\ Remembered(d).call = c /\ Remembered(d).on = d.on
    <3>1. Remembered(d) \in Debuggers
      BY <1>t, WorkerTypes
    <3>. QED
      BY <3>1, <1>t DEF Remembered, Debuggers
  <2>2. /\ [Remembered(d) EXCEPT !.foc = FALSE] \in Debuggers
        /\ [Remembered(d) EXCEPT !.foc = FALSE].call = c /\ [Remembered(d) EXCEPT !.foc = FALSE].on = d.on
    BY <2>1 DEF Debuggers
  <2>3. \A f \in BOOLEAN : /\ [d EXCEPT !.foc = f, !.taint = d.on] \in Debuggers
        /\ [d EXCEPT !.foc = f, !.taint = d.on].call = c /\ [d EXCEPT !.foc = f, !.taint = d.on].on = d.on
    BY <1>t DEF Debuggers
  <2>4. /\ game' = game \/ \E f \in BOOLEAN : game' = [game EXCEPT !.focus = f]
        /\ \/ worker' = [worker EXCEPT ![w] = Answers(Remembered(d), d.out)] /\ ~Alive(w) /\ UNCHANGED game
           \/ worker' = [worker EXCEPT ![w] = Answers([Remembered(d) EXCEPT !.foc = FALSE], d.out)]
              /\ game' = [game EXCEPT !.focus = TRUE]
           \/ Alive(w) /\ \E f \in BOOLEAN :
                worker' = [worker EXCEPT ![w] = Answers([d EXCEPT !.foc = f, !.taint = d.on], UnknownEnd)]
    BY <1>4 DEF Cleanup
  <2>5. /\ game'.life = game.life /\ game'.up = game.up /\ game'.last = game.last
        /\ game'.speed = game.speed
    BY <2>4, <1>t DEF Games
  <2>a. /\ Answers(Remembered(d), d.out).st = "replied" /\ Answers(Remembered(d), d.out).call = c
        /\ Answers(Remembered(d), d.out).on = d.on
    BY <2>1, <1>a
  <2>b. /\ Answers([Remembered(d) EXCEPT !.foc = FALSE], d.out).st = "replied"
        /\ Answers([Remembered(d) EXCEPT !.foc = FALSE], d.out).call = c
        /\ Answers([Remembered(d) EXCEPT !.foc = FALSE], d.out).on = d.on
    BY <2>2, <1>a
  <2>c. \A f \in BOOLEAN : /\ Answers([d EXCEPT !.foc = f, !.taint = d.on], UnknownEnd).st = "replied"
        /\ Answers([d EXCEPT !.foc = f, !.taint = d.on], UnknownEnd).call = c
        /\ Answers([d EXCEPT !.foc = f, !.taint = d.on], UnknownEnd).on = d.on
        /\ Answers([d EXCEPT !.foc = f, !.taint = d.on], UnknownEnd).out = UnknownEnd
    BY <2>3, <1>a
  <2>d. \/ worker'[w] = Answers(Remembered(d), d.out)
        \/ worker'[w] = Answers([Remembered(d) EXCEPT !.foc = FALSE], d.out)
        \/ \E f \in BOOLEAN : worker'[w] = Answers([d EXCEPT !.foc = f, !.taint = d.on], UnknownEnd)
    BY <2>4, <1>t
  <2>6. worker'[w].st = "replied" /\ worker'[w].call = c /\ worker'[w].on = d.on
    <3>1. CASE worker'[w] = Answers(Remembered(d), d.out)
      BY <3>1, <2>a
    <3>2. CASE worker'[w] = Answers([Remembered(d) EXCEPT !.foc = FALSE], d.out)
      BY <3>2, <2>b
    <3>3. ASSUME NEW f \in BOOLEAN, worker'[w] = Answers([d EXCEPT !.foc = f, !.taint = d.on], UnknownEnd)
          PROVE  worker'[w].st = "replied" /\ worker'[w].call = c /\ worker'[w].on = d.on
      BY <3>3, <2>c
    <3>. QED
      BY <2>d, <3>1, <3>2, <3>3
  <2>7. \A v \in Workers \ {w} : worker'[v] = worker[v]
    BY <2>4, <1>b
  <2>8. \/ ~Alive(w) /\ game' = game
        \/ game'.focus
        \/ Alive(w) /\ worker'[w].out.k = "unknown"
    <3>1. UnknownEnd.k = "unknown"
      BY DEF UnknownEnd, Reply
    <3>2. [game EXCEPT !.focus = TRUE].focus
      BY <1>t DEF Games
    <3>3. CASE ~Alive(w) /\ UNCHANGED game
      BY <3>3
    <3>4. CASE game' = [game EXCEPT !.focus = TRUE]
      BY <3>2, <3>4
    <3>5. ASSUME Alive(w), NEW f \in BOOLEAN,
                 worker' = [worker EXCEPT ![w] = Answers([d EXCEPT !.foc = f, !.taint = d.on], UnknownEnd)]
          PROVE  worker'[w].out.k = "unknown"
      <4>1. worker'[w] = Answers([d EXCEPT !.foc = f, !.taint = d.on], UnknownEnd)
        BY <3>5, <1>t
      <4>2. Answers([d EXCEPT !.foc = f, !.taint = d.on], UnknownEnd).out = UnknownEnd
        BY <2>c
      <4>. QED
        BY <4>1, <4>2, <3>1
    <3>. QED
      BY <2>4, <3>3, <3>4, <3>5
  <2>. QED
    BY <2>0, <2>5, <2>6, <2>7, <2>8, <1>l DEF Shape, Moves, Clock, Inside
<1>5. CASE ReadSpeed(w)
  <2>0. d.st = "got" /\ c.m = "speed" /\ UNCHANGED game
    BY <1>5 DEF ReadSpeed
  <2>1. PICK out : /\ worker' = [worker EXCEPT ![w] = Answers(d, out)]
                   /\ out \in {Known, Restart, Reply("ok", TRUE, Neutral, game.speed)}
    BY <1>5, <1>t DEF ReadSpeed, Refusal
  <2>2. out.k = "ok" => out.speed = game.speed
    BY <2>1 DEF Known, Restart, Reply
  <2>. QED
    BY <2>0, <2>1, <2>2, <1>a, <1>b, <1>t DEF Shape, Moves, Clock
<1>6. CASE SetSpeed(w)
  <2>0. d.st = "got" /\ c.m = "setspeed"
    BY <1>6 DEF SetSpeed
  <2>1. CASE \E out \in Refusal(w) : worker' = [worker EXCEPT ![w] = Answers(@, out)] /\ UNCHANGED game
    <3>1. PICK out \in {Known, Restart} : worker' = [worker EXCEPT ![w] = Answers(d, out)] /\ UNCHANGED game
      BY <2>1, <1>t DEF Refusal
    <3>2. out.k # "ok"
      BY <3>1 DEF Known, Restart, Reply
    <3>. QED
      BY <2>0, <3>1, <3>2, <1>a, <1>b, <1>t DEF Shape, Moves, Clock
  <2>2. CASE Alive(w) /\ \E r \in ClockSet(w, c.a.speed) :
             /\ game' = [game EXCEPT !.speed = r.speed, !.last = c.id]
             /\ worker' = [worker EXCEPT ![w] = Answers([@ EXCEPT !.taint = r.taint], r.out)]
    <3>1. PICK r \in ClockSet(w, c.a.speed) :
             /\ game' = [game EXCEPT !.speed = r.speed, !.last = c.id]
             /\ worker' = [worker EXCEPT ![w] = Answers([d EXCEPT !.taint = r.taint], r.out)]
      BY <2>2, <1>t
    <3>2. c.a.speed \in Speeds
      BY <2>0, <1>t DEF Debuggers, Calls, Prefs
    <3>3. r.out \in Replies /\ r.speed \in Speeds /\ r.taint \in AnyLife
      BY <3>1, <3>2, ClockTypes
    <3>4. r.out.k = "ok" => r.out.speed = r.speed
      BY <3>1 DEF ClockSet, NotInstalled, HalfInstalled, Ended, EvaluationFails, Known, Restart, UnknownEnd, Reply
    <3>5. /\ [d EXCEPT !.taint = r.taint] \in Debuggers /\ [d EXCEPT !.taint = r.taint].call = c
          /\ [d EXCEPT !.taint = r.taint].on = d.on
      BY <3>3, <1>t DEF Debuggers
    <3>6. /\ game'.life = game.life /\ game'.up = game.up /\ game'.last = c.id
          /\ game'.speed = r.speed /\ game'.focus = game.focus
      BY <3>1, <1>t DEF Games
    <3>7. worker'[w].st = "replied" /\ worker'[w].call = c /\ worker'[w].on = d.on /\ worker'[w].out = r.out
      <4>1. worker'[w] = Answers([d EXCEPT !.taint = r.taint], r.out)
        BY <3>1, <1>b
      <4>2. /\ Answers([d EXCEPT !.taint = r.taint], r.out).st = "replied"
            /\ Answers([d EXCEPT !.taint = r.taint], r.out).call = c
            /\ Answers([d EXCEPT !.taint = r.taint], r.out).on = d.on
            /\ Answers([d EXCEPT !.taint = r.taint], r.out).out = r.out
        BY <3>5, <1>a
      <4>. QED
        BY <4>1, <4>2
    <3>8. \A v \in Workers \ {w} : worker'[v] = worker[v]
      BY <3>1, <1>b
    <3>. QED
      BY <2>0, <2>2, <3>4, <3>6, <3>7, <3>8 DEF Shape, Moves, Clock, Set
  <2>3. Refusal(w) = {} => Alive(w)
    BY DEF Refusal
  <2>. QED
    BY <1>6, <2>1, <2>2, <2>3 DEF SetSpeed
<1>7. CASE Disconnect(w)
  <2>0. d.st = "got" /\ c.m = "disconnect"
    BY <1>7 DEF Disconnect
  <2>1. [d EXCEPT !.on = 0, !.foc = FALSE] \in Debuggers /\ [d EXCEPT !.on = 0, !.foc = FALSE].call = c
        /\ [d EXCEPT !.on = 0, !.foc = FALSE].on = 0
    <3>1. 0 \in AnyLife
      BY Bounds DEF AnyLife
    <3>. QED
      BY <3>1, <1>t DEF Debuggers
  <2>2. /\ Answers([d EXCEPT !.on = 0, !.foc = FALSE], Offline).st = "replied"
        /\ Answers([d EXCEPT !.on = 0, !.foc = FALSE], Offline).call = c
        /\ Answers([d EXCEPT !.on = 0, !.foc = FALSE], Offline).on = 0
    BY <2>1 DEF Answers, Debuggers
  <2>3. ASSUME NEW r \in ClockSet(w, 1)
        PROVE  /\ Answers([d EXCEPT !.taint = r.taint], r.out).st = "replied"
               /\ Answers([d EXCEPT !.taint = r.taint], r.out).call = c
               /\ Answers([d EXCEPT !.taint = r.taint], r.out).on = d.on
    <3>1. r.taint \in AnyLife
      BY ClockTypes DEF Speeds
    <3>2. /\ [d EXCEPT !.taint = r.taint] \in Debuggers /\ [d EXCEPT !.taint = r.taint].call = c
          /\ [d EXCEPT !.taint = r.taint].on = d.on
      BY <3>1, <1>t DEF Debuggers
    <3>. QED
      BY <3>2, <1>a
  <2>4. /\ \A v \in Workers \ {w} : worker'[v] = worker[v]
        /\ worker'[w].st = "replied" /\ worker'[w].call = c /\ worker'[w].on \in {0, d.on}
    <3>1. \/ worker' = [worker EXCEPT ![w] = Answers([d EXCEPT !.on = 0, !.foc = FALSE], Offline)]
          \/ \E out : worker' = [worker EXCEPT ![w] = Answers(d, out)]
          \/ \E r \in ClockSet(w, 1) : worker' = [worker EXCEPT ![w] = Answers([d EXCEPT !.taint = r.taint], r.out)]
      BY <1>7 DEF Disconnect
    <3>2. ASSUME NEW out PROVE Answers(d, out).st = "replied" /\ Answers(d, out).call = c /\ Answers(d, out).on = d.on
      BY <1>t, AnswersFields
    <3>3. \E e : worker' = [worker EXCEPT ![w] = e] /\ e.st = "replied" /\ e.call = c /\ e.on \in {0, d.on}
      <4>1. CASE worker' = [worker EXCEPT ![w] = Answers([d EXCEPT !.on = 0, !.foc = FALSE], Offline)]
        BY <4>1, <2>2
      <4>2. CASE \E out : worker' = [worker EXCEPT ![w] = Answers(d, out)]
        <5>1. PICK out : worker' = [worker EXCEPT ![w] = Answers(d, out)]
          BY <4>2
        <5>. QED
          BY <5>1, <3>2
      <4>3. CASE \E r \in ClockSet(w, 1) : worker' = [worker EXCEPT ![w] = Answers([d EXCEPT !.taint = r.taint], r.out)]
        <5>1. PICK r \in ClockSet(w, 1) : worker' = [worker EXCEPT ![w] = Answers([d EXCEPT !.taint = r.taint], r.out)]
          BY <4>3
        <5>. QED
          BY <5>1, <2>3
      <4>. QED
        BY <3>1, <4>1, <4>2, <4>3
    <3>4. PICK e : worker' = [worker EXCEPT ![w] = e] /\ e.st = "replied" /\ e.call = c /\ e.on \in {0, d.on}
      BY <3>3
    <3>. QED
      BY <3>4, <1>b
  <2>5. /\ game'.life = game.life /\ game'.up = game.up
        /\ game' = game \/ (Alive(w) /\ game'.last = c.id /\ (game'.focus \/ game'.focus = game.focus))
    <3>1. game' = game \/ (Alive(w) /\ \E s \in Speeds : LET g == [game EXCEPT !.speed = s, !.last = c.id]
                                        IN game' = g \/ game' = Detached(g, w))
      <4>1. 1 \in Speeds
        BY DEF Speeds
      <4>2. \A r \in ClockSet(w, 1) : r.speed \in Speeds
        BY <4>1, ClockTypes
      <4>3. \/ game' = game
            \/ Alive(w) /\ \E r \in ClockSet(w, 1) :
                 \/ game' = Detached([game EXCEPT !.speed = 1, !.last = c.id], w)
                 \/ game' = [game EXCEPT !.speed = 1, !.last = c.id]
                 \/ game' = [game EXCEPT !.speed = r.speed, !.last = c.id]
        BY <1>7 DEF Disconnect
      <4>4. ASSUME NEW s \in Speeds, game' = [game EXCEPT !.speed = s, !.last = c.id] \/
                   game' = Detached([game EXCEPT !.speed = s, !.last = c.id], w), Alive(w)
            PROVE  Alive(w) /\ \E t \in Speeds : LET g == [game EXCEPT !.speed = t, !.last = c.id]
                                        IN game' = g \/ game' = Detached(g, w)
        BY <4>4
      <4>. QED
        BY <4>1, <4>2, <4>3, <4>4
    <3>2. CASE game' = game
      BY <3>2
    <3>3. ASSUME Alive(w), NEW s \in Speeds, game' = [game EXCEPT !.speed = s, !.last = c.id] \/
                 game' = Detached([game EXCEPT !.speed = s, !.last = c.id], w)
          PROVE  /\ game'.life = game.life /\ game'.up = game.up /\ game'.last = c.id
                 /\ game'.focus \/ game'.focus = game.focus
      <4>. DEFINE g == [game EXCEPT !.speed = s, !.last = c.id]
      <4>1. g \in Games
        BY <1>t, GameTypes DEF Debuggers, Calls
      <4>2. g.life = game.life /\ g.up = game.up /\ g.last = c.id /\ g.focus = game.focus
        BY <1>t DEF Games
      <4>. HIDE DEF g
      <4>3. /\ Detached(g, w).life = g.life /\ Detached(g, w).up = g.up /\ Detached(g, w).last = g.last
            /\ Detached(g, w).focus \/ Detached(g, w).focus = g.focus
        BY <4>1, <1>t DEF Detached, Games, Debuggers
      <4>4. game' = g \/ game' = Detached(g, w)
        BY <3>3 DEF g
      <4>. QED
        BY <4>2, <4>3, <4>4
    <3>. QED
      BY <3>1, <3>2, <3>3
  <2>. QED
    BY <2>0, <2>4, <2>5, <1>t DEF Shape, Moves, Clock, Set
<1>8. CASE WorkerDies(w) \/ OrphanEnds(w)
  <2>1. /\ worker' = [worker EXCEPT ![w] = Gone(d)] /\ d.st \notin {"none", "dead"}
        /\ game' = game \/ game' = [game EXCEPT !.at = Nobody] \/ game' = Detached(game, w)
    BY <1>8 DEF WorkerDies, OrphanEnds, Killed, Running
  <2>2. Gone(d).st = "dead" /\ Gone(d).call = NoCall /\ Gone(d).on = 0
    BY <1>t DEF Gone, Debuggers
  <2>3. /\ game'.life = game.life /\ game'.up = game.up /\ game'.last = game.last
        /\ game'.speed = game.speed /\ (game'.focus \/ game'.focus = game.focus)
    BY <2>1, <1>t DEF Detached, Games, Debuggers
  <2>. QED
    BY <2>1, <2>2, <2>3, <1>b, <1>t DEF Shape, Moves, Clock
<1>. QED
  BY <1>1, <1>2, <1>3, <1>4, <1>5, <1>6, <1>7, <1>8 DEF WorkerStep

-----------------------------------------------------------------------------
(* What a step of a worker keeps *)

LEMMA WorkerKeeps ==
  ASSUME TypeInv, ClientInv, NEW w \in Workers, WorkerStep(w), UNCHANGED <<client, adapter, disk, job, seen>>
  PROVE  ClientInv'
<1>. DEFINE d == worker[w]
            e == worker'[w]
<1>t. /\ game \in Games /\ worker \in [Workers -> Debuggers]
      /\ client \in Clients /\ job \in Jobs /\ seen \in Histories
  BY DEF TypeInv, DebuggerTypes, BackendTypes
<1>n. /\ d.call \in Calls /\ d.on \in AnyLife /\ d.call.life \in AnyLife /\ d.call.id \in Nat
      /\ game.life \in Lives /\ game.last \in Nat /\ seen.calls \in Nat /\ seen.doubt \in Nat
  BY <1>t DEF Debuggers, Calls, Games, Histories
<1>0. /\ AnyLife \subseteq Nat /\ Lives \subseteq Nat \ {0}
      /\ NoCall.m = "" /\ NoCall.life = 0 /\ NoCall.id = 0
  BY Bounds DEF AnyLife, Lives, NoCall
<1>1. /\ \A v \in Workers \ {w} : worker'[v] = worker[v]
      /\ Shape(w, d, e, game, game')
  BY WorkerShape DEF ClientInv
<1>2. /\ Moves(d.st, e.st)
      /\ game'.life = game.life /\ game'.up = game.up
      /\ e.call = IF e.st = "dead" THEN NoCall ELSE d.call
  BY <1>1 DEF Shape
<1>3. d.call.m \in Set => Crosses(d.call.m)
  BY DEF Set, Crosses
<1>f. /\ d.call.life <= game.life /\ d.on <= game.life
      /\ d.st = "got" => d.on <= d.call.life
      /\ d.st \in Inside => d.on = d.call.life
      /\ client.life <= game.life /\ client.life \in Nat
      /\ d.on \in Nat /\ d.call.life \in Nat /\ game.life \in Nat
  BY <1>t, <1>n, <1>0 DEF ClientInv, LifeInv, Clients
<1>4. Alive(w) /\ (d.st \in Inside \/ d.st = "got") => d.call.life = game.life
  BY <1>f DEF Alive
<1>5. d.st \in Inside => Crosses(d.call.m) /\ d.call.m \notin {"speed", "setspeed", "disconnect"}
  BY DEF ClientInv, LifeInv, Crosses
<1>6. Alive(w) /\ d.st \in Busy /\ Crosses(d.call.m) =>
        /\ seen.doubt # 0 \/ (job.ph = "sent" /\ client.w = w /\ d.call = job.call)
        /\ d.call.life = game.life
  BY <1>4 DEF ClientInv, AloneInv, SentInv, Busy
<1>7. CountInv'
  <2>1. game'.last = game.last \/ game'.last = d.call.id
    BY <1>1 DEF Shape
  <2>2. e.call.id = 0 \/ e.call.id = d.call.id
    BY <1>2, <1>0
  <2>. QED
    BY <2>1, <2>2, <1>1, <1>n DEF ClientInv, CountInv
<1>8. LifeInv'
  <2>1. ~game'.up => game'.focus
    BY <1>1, <1>2 DEF Shape, ClientInv, LifeInv, Alive
  <2>a. e.on \in {0, d.on, d.call.life} /\ e.call.life \in {0, d.call.life}
    BY <1>1, <1>2, <1>0 DEF Shape
  <2>b. e.st # "none" /\ (e.st = "dead" => e.on = 0)
    BY <1>1, <1>2 DEF Shape, Moves
  <2>2. e.call.life <= game.life /\ e.on <= game.life /\ (e.st \in {"none", "dead"} => e.on = 0)
    BY <2>a, <2>b, <1>f
  <2>c. e.st # "got" /\ (e.st = "exec" => e.on = game.life /\ d.st = "got" /\ d.call.m \notin {"speed"} \cup Set
                                         /\ (e.on = d.on \/ e.on = d.call.life))
        /\ (e.st \in {"bound", "clean"} => d.st \in Inside /\ e.on = d.on)
        /\ (e.st \in Inside => e.call = d.call)
    BY <1>1, <1>2 DEF Shape, Moves, Inside
  <2>3. e.st # "got" /\ (e.st \in Inside => e.on = e.call.life /\ d.call.m \notin {"speed", "setspeed", "disconnect"})
    <3>1. CASE e.st = "exec"
      BY <3>1, <2>c, <1>f DEF Set, Inside
    <3>2. CASE e.st \in {"bound", "clean"}
      BY <3>2, <2>c, <1>f, <1>5 DEF Inside
    <3>. QED
      BY <3>1, <3>2, <2>c DEF Inside
  <2>4. client.w = w => e.on <= client.life /\ e.call.life <= client.life
    <3>1. client.w = w => d.on <= client.life /\ d.call.life <= client.life
      <4>1. w # 0
        BY Bounds DEF Workers
      <4>. QED
        BY <4>1 DEF ClientInv, LifeInv, Nobody
    <3>. QED
      BY <3>1, <2>a, <1>f
  <2>5. client.w # Nobody => client.w \in Workers
    BY <1>t DEF Clients
  <2>6. e.st \in Inside => e.call = d.call
    BY <1>2 DEF Inside
  <2>. QED
    BY <2>1, <2>2, <2>3, <2>4, <2>5, <2>6, <1>1, <1>2 DEF ClientInv, LifeInv
<1>9. SentInv'
  <2>1. e.st \in Busy \cup {"replied"} => d.st \in Busy \cup {"replied"} /\ e.call = d.call
    BY <1>2 DEF Moves, Busy, Inside
  <2>2. d.st \in Busy \cup {"replied"} => e.st \in Busy \cup {"replied", "dead"}
    BY <1>2 DEF Moves, Busy, Inside
  <2>3. d.st # "dead"
    BY <1>2 DEF Moves
  <2>. QED
    BY <2>1, <2>2, <2>3, <1>1 DEF ClientInv, SentInv
<1>10. AloneInv'
  <2>1. e.st \in Busy => d.st \in Busy /\ e.call = d.call
    BY <1>2 DEF Moves, Busy, Inside
  <2>. QED
    BY <2>1, <1>1, <1>2 DEF ClientInv, AloneInv
<1>11. DoubtInv'
  <2>1. e.call.id = 0 \/ e.call = d.call
    BY <1>2, <1>0
  <2>2. game'.last = game.last \/ (game'.last = d.call.id /\ Crosses(d.call.m))
    BY <1>1, <1>3, <1>5 DEF Shape, Inside
  <2>. QED
    BY <2>1, <2>2, <1>1, <1>2, <1>n DEF ClientInv, DoubtInv, Closed, Apart
<1>12. FocusInv'
  <2>. SUFFICES ASSUME game.up, ~game'.focus, seen.doubt = 0
                PROVE  /\ job.ph = "sent" /\ Crosses(job.call.m) /\ job.call.life = game.life
                       /\ \/ worker'[client.w].st \in {"bound", "clean", "dead"}
                          \/ worker'[client.w].st = "replied" /\ worker'[client.w].out.k = "unknown"
    BY <1>2 DEF FocusInv
  <2>1. CASE game.focus
    <3>1. Alive(w) /\ d.st \in {"exec", "clean"}
      BY <2>1, <1>1 DEF Shape
    <3>2. job.ph = "sent" /\ client.w = w /\ d.call = job.call /\ d.call.life = game.life
      BY <3>1, <1>5, <1>6 DEF Busy, Inside
    <3>3. e.st \in {"bound", "clean"} \/ (e.st = "replied" /\ e.out.k = "unknown")
      BY <3>1, <2>1, <1>1, <1>2 DEF Shape
    <3>. QED
      BY <3>1, <3>2, <3>3, <1>5 DEF Inside
  <2>2. CASE ~game.focus
    <3>1. /\ job.ph = "sent" /\ Crosses(job.call.m) /\ job.call.life = game.life
          /\ \/ worker[client.w].st \in {"bound", "clean", "dead"}
             \/ worker[client.w].st = "replied" /\ worker[client.w].out.k = "unknown"
      BY <2>2 DEF ClientInv, FocusInv
    <3>2. client.w \in Workers
      BY <3>1 DEF ClientInv, SentInv
    <3>3. CASE client.w = w
      <4>1. d.st \in {"bound", "clean"} => Alive(w)
        BY <3>1, <3>3 DEF ClientInv, LifeInv, SentInv, Alive, Busy, Inside
      <4>2. d.st \in {"bound", "clean"} => e.st \in {"clean", "dead", "replied"}
        BY <1>2 DEF Moves
      <4>3. d.st \in {"bound", "clean"} /\ e.st = "replied" => e.out.k = "unknown"
        BY <4>1, <1>1 DEF Shape
      <4>4. d.st = "replied" => e.st = "dead"
        BY <1>1 DEF Shape
      <4>5. d.st # "dead"
        BY <1>2 DEF Moves
      <4>. QED
        BY <3>1, <3>3, <4>2, <4>3, <4>4, <4>5
    <3>. QED
      BY <3>1, <3>2, <3>3, <1>1
  <2>. QED
    BY <2>1, <2>2
<1>13. SpeedInv'
  <2>0. WorkerRuns' => client.w \in Workers /\ client.w # Nobody
    BY <1>t DEF WorkerRuns, Clients
  <2>1. Linked' => Linked \/ (job.ph = "sent" /\ client.w = w /\ job.call.m = "connect")
    <3>. SUFFICES ASSUME Linked', ~Linked
                  PROVE  job.ph = "sent" /\ client.w = w /\ job.call.m = "connect"
      OBVIOUS
    <3>1. client.w = w
      BY <2>0, <1>1, <1>2 DEF Linked, WorkerRuns, Running, Alive
    <3>2. d.st \notin {"none", "dead"}
      BY <1>2 DEF Moves
    <3>3. e.on = game.life /\ game.up /\ client.life = game.life /\ seen.doubt = 0
      BY <3>1, <1>2 DEF Linked, Alive
    <3>4. d.on # game.life
      BY <3>1, <3>2, <3>3, <2>0 DEF Linked, WorkerRuns, Running, Alive
    <3>5. d.call.life = game.life /\ d.st = "got" /\ d.call.m = "connect"
      BY <3>3, <3>4, <1>1, <1>0, <1>n DEF Shape
    <3>6. job.ph = "sent"
      BY <3>3, <3>5 DEF ClientInv, AloneInv, Busy, Crosses
    <3>. QED
      BY <3>1, <3>5, <3>6 DEF ClientInv, SentInv, Busy
  <2>2. seen.doubt = 0 => game'.speed = game.speed \/ (job.ph = "sent" /\ client.w = w /\ d.call = job.call
                                      /\ d.st = "got" /\ d.call.m \in Set)
    BY <1>1, <1>3, <1>6 DEF Shape, Busy
  <2>3. Linked' => seen.doubt = 0
    BY DEF Linked
  <2>4. Clocked' <=> Clocked
    BY DEF Clocked
  <2>5. Linked' /\ ~Clocked /\ ~adapter.speedError /\ adapter.actual # Unseen => adapter.actual = game'.speed
    BY <2>1, <2>2, <2>3 DEF ClientInv, SpeedInv, Clocked, Set
  <2>6. Linked' /\ job.ph = "sent" /\ job.call.m \in Clock /\ worker'[client.w].st = "replied"
          /\ worker'[client.w].out.k = "ok" => worker'[client.w].out.speed = game'.speed
    <3>. SUFFICES ASSUME Linked', job.ph = "sent", job.call.m \in Clock, worker'[client.w].st = "replied",
                         worker'[client.w].out.k = "ok"
                  PROVE  worker'[client.w].out.speed = game'.speed
      OBVIOUS
    <3>1. CASE client.w = w
      <4>1. d.call = job.call /\ d.st = "got"
        <5>1. d.st # "replied" /\ d.st # "dead"
          BY <3>1, <1>1, <1>2 DEF Shape, Moves
        <5>2. d.call = job.call /\ d.st \in Busy
          BY <3>1, <5>1 DEF ClientInv, SentInv
        <5>. QED
          BY <5>2, <1>5 DEF Clock, Busy
      <4>. QED
        BY <3>1, <4>1, <1>1 DEF Shape
    <3>2. CASE client.w # w
      <4>1. worker'[client.w] = worker[client.w]
        BY <3>2, <2>0, <1>1 DEF Linked
      <4>2. Linked /\ game'.speed = game.speed
        BY <3>2, <2>1, <2>2, <2>3
      <4>. QED
        BY <4>1, <4>2 DEF ClientInv, SpeedInv
    <3>. QED
      BY <3>1, <3>2
  <2>7. Linked' /\ job.ph = "back" /\ job.call.m \in Clock /\ job.out.k = "ok" => job.out.speed = game'.speed
    BY <2>1, <2>2, <2>3 DEF ClientInv, SpeedInv
  <2>. QED
    BY <2>4, <2>5, <2>6, <2>7 DEF ClientInv, SpeedInv
<1>. QED
  BY <1>7, <1>8, <1>9, <1>10, <1>11, <1>12, <1>13 DEF ClientInv

-----------------------------------------------------------------------------
(* What the game and the steps of a command keep *)

LEMMA GameKeeps ==
  ASSUME TypeInv, ClientInv, GameStep, UNCHANGED <<client, adapter, disk, job>>,
         seen' = IF game'.life # game.life THEN [seen EXCEPT !.doubt = 0] ELSE seen
  PROVE  ClientInv'
<1>t. /\ game \in Games /\ worker \in [Workers -> Debuggers] /\ seen \in Histories /\ worker' = worker
      /\ client \in Clients
  BY DEF TypeInv, DebuggerTypes, BackendTypes, GameStep, GameExits, GameStarts, LuaReset
<1>n. /\ game.life \in Nat /\ game.last \in Nat /\ seen.calls \in Nat /\ client.life \in Nat
      /\ \A w \in Workers : worker[w].call.life \in Nat /\ worker[w].on \in Nat
  <2>1. Lives \subseteq Nat /\ AnyLife \subseteq Nat
    BY Bounds DEF Lives, AnyLife
  <2>2. /\ game.life \in Lives /\ game.last \in Nat /\ seen.calls \in Nat /\ client.life \in AnyLife
    BY <1>t DEF Games, Histories, Clients
  <2>3. \A w \in Workers : worker[w].call.life \in AnyLife /\ worker[w].on \in AnyLife
    BY <1>t DEF Debuggers, Calls
  <2>. QED
    BY <2>1, <2>2, <2>3
<1>1. CASE GameExits
  <2>1. /\ game'.life = game.life /\ game'.last = game.last /\ game'.focus /\ ~game'.up
    BY <1>1, <1>t DEF GameExits, Games
  <2>2. seen' = seen
    BY <2>1
  <2>3. ~Linked'
    BY <2>1 DEF Linked, Alive
  <2>. QED
    BY <2>1, <2>2, <2>3, <1>t DEF ClientInv, CountInv, LifeInv, SentInv, AloneInv, DoubtInv, FocusInv,
      SpeedInv, Closed, Apart
<1>2. CASE GameStarts
  <2>1. /\ game'.life = game.life + 1 /\ game'.last = 0 /\ game'.up /\ game'.focus = game.focus /\ ~game.up
    BY <1>2, <1>t DEF GameStarts, Games
  <2>2. seen'.doubt = 0 /\ seen'.calls = seen.calls
    BY <2>1, <1>t, <1>n DEF Histories
  <2>3. ~Linked'
    BY <2>1, <1>n DEF Linked, ClientInv, LifeInv
  <2>4. game'.focus
    BY <2>1 DEF ClientInv, LifeInv
  <2>5. CountInv'
    BY <2>1, <2>2, <1>t, <1>n DEF ClientInv, CountInv
  <2>6. LifeInv'
    BY <2>1, <2>4, <1>t, <1>n DEF ClientInv, LifeInv
  <2>7. AloneInv'
    BY <2>1, <1>t, <1>n DEF ClientInv, LifeInv, AloneInv
  <2>8. SentInv' /\ DoubtInv' /\ FocusInv' /\ SpeedInv'
    BY <2>2, <2>3, <2>4, <1>t DEF ClientInv, SentInv, DoubtInv, FocusInv, SpeedInv
  <2>. QED
    BY <2>5, <2>6, <2>7, <2>8 DEF ClientInv
<1>3. CASE LuaReset
  <2>1. /\ game'.life = game.life /\ game'.last = game.last /\ game'.up = game.up
        /\ game'.focus = game.focus /\ game'.speed = game.speed
    BY <1>3, <1>t DEF LuaReset, Games
  <2>2. seen' = seen
    BY <2>1
  <2>3. (Linked' <=> Linked) /\ (Clocked' <=> Clocked)
    BY <2>1, <2>2, <1>t DEF Linked, Clocked, WorkerRuns, Running, Alive
  <2>. QED
    BY <2>1, <2>2, <2>3, <1>t DEF ClientInv, CountInv, LifeInv, SentInv, AloneInv, DoubtInv, FocusInv,
      SpeedInv, Closed, Apart
<1>. QED
  BY <1>1, <1>2, <1>3 DEF GameStep

\* A step of a command that touches neither the worker nor the client.
Plain ==
  /\ UNCHANGED <<game, worker, client>> /\ disk'.journal = disk.journal
  /\ seen'.doubt = seen.doubt /\ seen'.calls = seen.calls
  /\ job.ph \in {"idle", "start", "back"} /\ job'.ph \in {"idle", "start", "call"}
  /\ job'.ph = "call" => /\ job'.call.m # "connect"
                         /\ job'.call.m = "speed" => job.ph = "back" /\ job.out.k = "ok"
                         /\ job.ph = "back" \/ adapter.conn \/ client.w # Nobody
  /\ adapter'.conn => adapter.conn \/ job.ph = "back"
  /\ \/ adapter'.speedError \/ adapter'.actual = Unseen
     \/ /\ adapter'.actual = adapter.actual /\ adapter'.speedError = adapter.speedError /\ ~Clocked
     \/ /\ job.ph = "back" /\ job.call.m \in Clock /\ job.out.k = "ok"
        /\ adapter'.actual = job.out.speed

LEMMA PlainKeeps ==
  ASSUME TypeInv, ClientInv, Plain
  PROVE  ClientInv'
<1>1. /\ job.ph # "sent" /\ job'.ph \notin {"sent", "back"}
      /\ UNCHANGED <<game, worker, client>> /\ disk'.journal = disk.journal
      /\ seen'.doubt = seen.doubt /\ seen'.calls = seen.calls
  BY DEF Plain
<1>2. CountInv' /\ LifeInv' /\ SentInv' /\ AloneInv' /\ FocusInv'
  BY <1>1 DEF ClientInv, CountInv, LifeInv, SentInv, AloneInv, FocusInv
<1>3. DoubtInv'
  <2>. SUFFICES ASSUME seen.doubt # 0 PROVE DoubtInv'
    BY <1>1 DEF DoubtInv
  <2>1. job.ph = "back" => job.out.k # "ok" /\ Closed
    BY DEF ClientInv, DoubtInv, Apart
  <2>2. job'.ph = "call" => job'.call.m # "speed"
    BY <2>1 DEF Plain
  <2>3. Closed' \/ Apart'
    <3>1. CASE Closed
      BY <3>1, <1>1 DEF Closed
    <3>2. CASE Apart
      BY <3>2 DEF Apart, Plain
    <3>. QED
      BY <3>1, <3>2 DEF ClientInv, DoubtInv
  <2>. QED
    BY <2>2, <2>3, <1>1 DEF ClientInv, DoubtInv
<1>4. SpeedInv'
  <2>1. Linked' <=> Linked
    BY <1>1 DEF Linked, WorkerRuns, Running, Alive
  <2>2. job'.ph = "call" => job'.call.m # "connect"
    BY DEF Plain
  <2>3. Linked /\ ~adapter'.speedError /\ adapter'.actual # Unseen => adapter'.actual = game.speed
    BY DEF Plain, ClientInv, SpeedInv
  <2>. QED
    BY <2>1, <2>2, <2>3, <1>1 DEF SpeedInv
<1>. QED
  BY <1>2, <1>3, <1>4 DEF ClientInv

\* The end of a command, and its next call, as they show here.
LEMMA EndShape ==
  ASSUME TypeInv, NEW ok, NEW a, Answer(ok, a)
  PROVE  job'.ph = "idle" /\ adapter' = a /\ seen'.doubt = seen.doubt /\ seen'.calls = seen.calls
<1>1. seen \in Histories
  BY DEF TypeInv, BackendTypes
<1>. QED
  BY <1>1 DEF Answer, Told, Idle, Histories

LEMMA CallShape ==
  ASSUME TypeInv, NEW m, NEW a, NEW j \in Jobs, NEW ad, Call(m, a, j, ad)
  PROVE  job'.ph = "call" /\ job'.call.m = m /\ adapter' = ad /\ seen' = seen
<1>1. [NoCall EXCEPT !.m = m, !.a = a].m = m
  BY DEF NoCall
<1>. QED
  BY <1>1 DEF Call, Jobs

LEMMA StartPlain ==
  ASSUME TypeInv,
         \/ \E cmd, arg : Begin(cmd, arg)
         \/ Status \/ Edit \/ Capture \/ DisableAll \/ LoadProfile
  PROVE  Plain
<1>t. adapter \in Adapters /\ job \in Jobs /\ disk \in Disks
  BY DEF TypeInv, BackendTypes
<1>1. ASSUME NEW cmd, NEW arg, Begin(cmd, arg) PROVE Plain
  <2>1. job.ph = "idle" /\ job'.ph = "start" /\ UNCHANGED <<game, worker, client, adapter, disk, seen>>
    BY <1>1 DEF Begin, Idle
  <2>. QED
    BY <2>1 DEF Plain, Clocked
<1>2. ASSUME job.ph = "start", UNCHANGED <<game, worker, client>>, disk'.journal = disk.journal,
             \/ \E ok, a : /\ Answer(ok, a) /\ (a.conn => adapter.conn)
                           /\ a.actual = Unseen \/ (a.actual = adapter.actual /\ a.speedError = adapter.speedError)
             \/ \E j \in Jobs : \E m, arg, a : 
                   /\ Call(m, arg, j, a) /\ adapter.conn /\ (a.conn => adapter.conn) /\ m \notin {"connect", "speed"}
                   /\ a.actual = adapter.actual /\ a.speedError = adapter.speedError
      PROVE  Plain
  <2>1. ASSUME NEW ok, NEW a, Answer(ok, a), a.conn => adapter.conn,
               a.actual = Unseen \/ (a.actual = adapter.actual /\ a.speedError = adapter.speedError)
        PROVE  Plain
    <3>1. job'.ph = "idle" /\ adapter' = a /\ seen'.doubt = seen.doubt /\ seen'.calls = seen.calls
      BY <2>1, EndShape
    <3>. QED
      BY <1>2, <2>1, <3>1 DEF Plain, Clocked
  <2>2. ASSUME NEW m, NEW arg, NEW j \in Jobs, NEW a, Call(m, arg, j, a), adapter.conn,
               m \notin {"connect", "speed"}, a.actual = adapter.actual, a.speedError = adapter.speedError
        PROVE  Plain
    <3>1. job'.ph = "call" /\ job'.call.m = m /\ adapter' = a /\ seen' = seen
      BY <2>2, CallShape
    <3>. QED
      BY <1>2, <2>2, <3>1 DEF Plain, Clocked
  <2>. QED
    BY <1>2, <2>1, <2>2
<1>f. \A p : [disk EXCEPT !.prefs = p].journal = disk.journal
  BY <1>t DEF Disks
<1>3. CASE Status
  <2>1. /\ job.ph = "start" /\ UNCHANGED <<game, worker, client, disk>>
        /\ \/ Answer(TRUE, adapter)
           \/ adapter.conn /\ Answer(TRUE, [adapter EXCEPT !.conn = FALSE, !.actual = Unseen, !.speedError = FALSE])
           \/ adapter.conn /\ Call("status", Defaults, job, adapter)
    BY <1>3 DEF Status, Started
  <2>2. [adapter EXCEPT !.conn = FALSE, !.actual = Unseen, !.speedError = FALSE].actual = Unseen
    BY <1>t DEF Adapters
  <2>. QED
    BY <2>1, <2>2, <1>2, <1>t
<1>4. CASE Edit
  <2>. DEFINE a == Known_(adapter)
              doc == Merged(job.cmd, job.arg, a.features)
              b == [a EXCEPT !.features = doc]
              c == [b EXCEPT !.actual = Unseen, !.speedError = FALSE]
  <2>0. a \in Adapters
    BY <1>t, AdapterTypes DEF Known_, Disks
  <2>1. a.conn = adapter.conn /\ a.actual = adapter.actual /\ a.speedError = adapter.speedError
    BY <1>t DEF Known_, Adapters
  <2>2. b.conn = adapter.conn /\ b.actual = adapter.actual /\ b.speedError = adapter.speedError
    BY <2>0, <2>1 DEF Adapters
  <2>3. c.conn = adapter.conn /\ c.actual = Unseen
    BY <2>0, <2>2 DEF Adapters
  <2>4. /\ job.ph = "start" /\ UNCHANGED <<game, worker, client>> /\ job.cmd \in {"feature", "rarity", "speed"}
        /\ disk' = disk \/ disk' = [disk EXCEPT !.prefs = doc]
        /\ \/ adapter.conn /\ Call(IF job.cmd = "speed" THEN "setspeed" ELSE job.cmd, job.arg, job, b)
           \/ Answer(TRUE, b) \/ Answer(TRUE, c) \/ Answer(FALSE, a)
    BY <1>4, <2>1 DEF Edit, Started, Saved, SaveFails
  <2>5. (IF job.cmd = "speed" THEN "setspeed" ELSE job.cmd) \notin {"connect", "speed"}
    BY <2>4
  <2>6. disk'.journal = disk.journal
    BY <2>4, <1>f
  <2>. HIDE DEF a, b, c, doc
  <2>7. CASE adapter.conn /\ Call(IF job.cmd = "speed" THEN "setspeed" ELSE job.cmd, job.arg, job, b)
    BY <2>2, <2>4, <2>5, <2>6, <2>7, <1>2, <1>t
  <2>8. CASE Answer(TRUE, b)
    BY <2>2, <2>4, <2>6, <2>8, <1>2
  <2>9. CASE Answer(TRUE, c)
    BY <2>3, <2>4, <2>6, <2>9, <1>2
  <2>10. CASE Answer(FALSE, a)
    BY <2>1, <2>4, <2>6, <2>10, <1>2
  <2>. QED
    BY <2>4, <2>7, <2>8, <2>9, <2>10
<1>5. CASE Capture
  <2>. DEFINE a == IF job.cmd = "lock" THEN Known_(adapter) ELSE adapter
  <2>1. /\ job.ph = "start" /\ UNCHANGED <<game, worker, client, disk>> /\ job.cmd \in {"lock", "value"}
        /\ \/ Answer(FALSE, adapter)
           \/ adapter.conn /\ Call(job.cmd, job.arg, [job EXCEPT !.prev = a.features], a)
    BY <1>5 DEF Capture, Started
  <2>2. a.conn = adapter.conn /\ a.actual = adapter.actual /\ a.speedError = adapter.speedError
    BY <1>t DEF Known_, Adapters
  <2>3. a \in Adapters
    BY <1>t, AdapterTypes DEF Known_, Disks
  <2>4. [job EXCEPT !.prev = a.features] \in Jobs
    BY <2>3, <1>t DEF Jobs, Adapters
  <2>. HIDE DEF a
  <2>. QED
    BY <2>1, <2>2, <2>4, <1>2
<1>6. CASE DisableAll
  <2>1. PICK saved \in BOOLEAN :
          /\ IF saved THEN Saved(Defaults) ELSE SaveFails
          /\ LET a == [adapter EXCEPT !.features = Defaults, !.unread = @ /\ ~saved]
             IN IF a.conn THEN Call("off", Defaults, [job EXCEPT !.bad = ~saved], a)
                ELSE Answer(saved, [a EXCEPT !.actual = Unseen])
    BY <1>6 DEF DisableAll
  <2>. DEFINE a == [adapter EXCEPT !.features = Defaults, !.unread = @ /\ ~saved]
              c == [a EXCEPT !.actual = Unseen]
  <2>2. /\ a.conn = adapter.conn /\ a.actual = adapter.actual /\ a.speedError = adapter.speedError
        /\ c.conn = adapter.conn /\ c.actual = Unseen
    BY <1>t DEF Adapters
  <2>3. [job EXCEPT !.bad = ~saved] \in Jobs
    BY <1>t DEF Jobs
  <2>4. job.ph = "start" /\ UNCHANGED <<game, worker, client>> /\ disk'.journal = disk.journal
    BY <1>6, <1>f, <2>1 DEF DisableAll, Started, Saved, SaveFails
  <2>5. (adapter.conn /\ Call("off", Defaults, [job EXCEPT !.bad = ~saved], a)) \/ Answer(saved, c)
    BY <2>1, <2>2
  <2>. HIDE DEF a, c
  <2>. QED
    BY <2>2, <2>3, <2>4, <2>5, <1>2
<1>7. CASE LoadProfile
  <2>. DEFINE a == [adapter EXCEPT !.features = job.arg, !.unread = FALSE]
  <2>1. a.conn = adapter.conn /\ a.actual = adapter.actual /\ a.speedError = adapter.speedError
    BY <1>t DEF Adapters
  <2>2. /\ job.ph = "start" /\ UNCHANGED <<game, worker, client>>
        /\ disk' = disk \/ disk' = [disk EXCEPT !.prefs = job.arg]
        /\ \/ adapter.conn /\ Call("configure", job.arg, job, a)
           \/ Answer(TRUE, a) \/ Answer(FALSE, adapter)
    BY <1>7, <2>1 DEF LoadProfile, Started, Saved, SaveFails
  <2>3. disk'.journal = disk.journal
    BY <2>2, <1>f
  <2>. HIDE DEF a
  <2>. QED
    BY <2>1, <2>2, <2>3, <1>2, <1>t
<1>. QED
  BY <1>1, <1>3, <1>4, <1>5, <1>6, <1>7

LEMMA ReturnPlain ==
  ASSUME TypeInv,
         \/ Reconcile \/ ReconcileSpeed \/ SpeedSet \/ Observed \/ Edited
         \/ Captured \/ TakenBack \/ Disabled
  PROVE  Plain
<1>t. adapter \in Adapters /\ job \in Jobs /\ disk \in Disks /\ client \in Clients /\ seen \in Histories
  BY DEF TypeInv, BackendTypes
<1>. DEFINE Shown(a) == \/ a.speedError \/ a.actual = Unseen
                        \/ a.actual = adapter.actual /\ a.speedError = adapter.speedError /\ ~Clocked
                        \/ job.call.m \in Clock /\ Good /\ a.actual = job.out.speed
<1>2. ASSUME job.ph = "back", UNCHANGED <<game, worker, client>>, disk'.journal = disk.journal,
             \/ \E ok, a : Answer(ok, a) /\ Shown(a)
             \/ \E j \in Jobs : \E m, arg, a : Call(m, arg, j, a) /\ m # "connect" /\ (m = "speed" => Good) /\ Shown(a)
      PROVE  Plain
  <2>1. ASSUME NEW ok, NEW a, Answer(ok, a), Shown(a)
        PROVE  Plain
    <3>1. job'.ph = "idle" /\ adapter' = a /\ seen'.doubt = seen.doubt /\ seen'.calls = seen.calls
      BY <2>1, EndShape
    <3>. QED
      BY <1>2, <2>1, <3>1 DEF Plain, Good
  <2>2. ASSUME NEW m, NEW arg, NEW j \in Jobs, NEW a, Call(m, arg, j, a), m # "connect", m = "speed" => Good,
               Shown(a)
        PROVE  Plain
    <3>1. job'.ph = "call" /\ job'.call.m = m /\ adapter' = a /\ seen' = seen
      BY <2>2, CallShape
    <3>. QED
      BY <1>2, <2>2, <3>1 DEF Plain, Good
  <2>. QED
    BY <1>2, <2>1, <2>2
<1>k. ~Clocked <=> job.ph \notin {"sent", "back"} \/ job.call.m \notin {"setspeed", "disconnect"}
  BY DEF Clocked
<1>a. \A x \in BOOLEAN : /\ [adapter EXCEPT !.conn = x].actual = adapter.actual
                         /\ [adapter EXCEPT !.conn = x].speedError = adapter.speedError
  BY <1>t DEF Adapters
<1>b. SpeedFailed(adapter, job.out).speedError = TRUE
  BY <1>t DEF SpeedFailed, Adapters
<1>c. job.out.conn \in BOOLEAN /\ adapter.conn \in BOOLEAN /\ client.conn \in BOOLEAN
  BY <1>t DEF Jobs, Replies, Clients, Adapters
<1>s. \A e \in BOOLEAN : [adapter EXCEPT !.actual = job.out.speed, !.speedError = e].actual = job.out.speed
  BY <1>t DEF Adapters
<1>3. CASE Reconcile
  <2>. DEFINE a == IF job.call.m = "connect" THEN [adapter EXCEPT !.conn = job.out.conn] ELSE adapter
              f == IF job.cmd = "profile" /\ Lost(job.out.k) THEN [adapter EXCEPT !.conn = FALSE] ELSE adapter
  <2>1. /\ job.ph = "back" /\ UNCHANGED <<game, worker, client, disk>>
        /\ job.call.m \in {"connect", "configure", "locks", "rarity"}
        /\ Answer(FALSE, f) \/ (Good /\ (NextLocks(a) \/ NextRarity(a) \/ NextSpeed(a)))
    BY <1>3 DEF Reconcile, Returned, Quiet, ChainFails
  <2>2. /\ a.actual = adapter.actual /\ a.speedError = adapter.speedError
        /\ f.actual = adapter.actual /\ f.speedError = adapter.speedError
    BY <1>a, <1>c
  <2>. HIDE DEF a, f
  <2>3. Shown(a) /\ Shown(f)
    BY <2>1, <2>2, <1>k
  <2>4. \/ Answer(FALSE, f) \/ Answer(TRUE, a)
        \/ Good /\ \E m \in {"locks", "rarity", "speed"} : \E arg : Call(m, arg, job, a)
    BY <2>1 DEF NextLocks, NextRarity, NextSpeed
  <2>. HIDE DEF Shown
  <2>. QED
    BY <2>1, <2>3, <2>4, <1>2, <1>t
<1>4. CASE ReconcileSpeed
  <2>. DEFINE a == [adapter EXCEPT !.actual = job.out.speed]
              c == [a EXCEPT !.speedError = FALSE]
              f == [SpeedFailed(adapter, job.out) EXCEPT !.conn = @ /\ ~Lost(job.out.k)]
  <2>1. a.actual = job.out.speed /\ c.actual = job.out.speed /\ f.speedError = TRUE
    BY <1>t DEF SpeedFailed, Adapters
  <2>2. /\ job.ph = "back" /\ UNCHANGED <<game, worker, client, disk>> /\ job.call.m \in Clock
        /\ \/ Answer(job.cmd = "connect", f)
           \/ Good /\ Call("setspeed", a.features, job, a)
           \/ Good /\ Answer(TRUE, c)
    BY <1>4 DEF ReconcileSpeed, Returned, Quiet, Clock
  <2>. HIDE DEF a, c, f
  <2>3. Shown(f) /\ (Good => Shown(a) /\ Shown(c))
    BY <2>1, <2>2
  <2>. HIDE DEF Shown
  <2>. QED
    BY <2>2, <2>3, <1>2, <1>t
<1>5. CASE SpeedSet
  <2>. DEFINE a == [adapter EXCEPT !.actual = job.out.speed, !.speedError = FALSE]
              f == SpeedFailed(adapter, job.out)
  <2>1. a.actual = job.out.speed /\ f.speedError = TRUE
    BY <1>b, <1>s
  <2>2. /\ job.ph = "back" /\ UNCHANGED <<game, worker, client, disk>> /\ job.call.m \in Clock
        /\ Answer(FALSE, f) \/ (Good /\ Call("status", Defaults, job, a))
    BY <1>5 DEF SpeedSet, Returned, Quiet, Clock
  <2>. HIDE DEF a, f
  <2>3. Shown(f) /\ (Good => Shown(a))
    BY <2>1, <2>2
  <2>. HIDE DEF Shown
  <2>. QED
    BY <2>2, <2>3, <1>2, <1>t
<1>6. CASE Observed \/ Edited
  <2>. DEFINE a == [adapter EXCEPT !.conn = job.out.conn]
              c == [adapter EXCEPT !.conn = FALSE, !.actual = Unseen, !.speedError = FALSE]
  <2>1. a.actual = adapter.actual /\ a.speedError = adapter.speedError /\ c.actual = Unseen
    BY <1>a, <1>c, <1>t DEF Adapters
  <2>2. /\ job.ph = "back" /\ UNCHANGED <<game, worker, client, disk>>
        /\ job.call.m \in {"status", "feature", "rarity"}
        /\ Answer(FALSE, adapter) \/ Answer(TRUE, a) \/ Answer(TRUE, c)
    BY <1>6 DEF Observed, Edited, Returned, Quiet
  <2>. HIDE DEF a, c
  <2>3. Shown(adapter) /\ Shown(a) /\ Shown(c)
    BY <2>1, <2>2, <1>k
  <2>. HIDE DEF Shown
  <2>. QED
    BY <2>2, <2>3, <1>2
<1>7. CASE Captured
  <2>. DEFINE doc == [adapter.features EXCEPT !.lock = job.out.desire.lock]
              a == [adapter EXCEPT !.features = doc, !.conn = job.out.conn]
              c == [adapter EXCEPT !.conn = job.out.conn]
              j == [job EXCEPT !.bad = TRUE]
  <2>1. /\ a.actual = adapter.actual /\ a.speedError = adapter.speedError
        /\ c.actual = adapter.actual /\ c.speedError = adapter.speedError
    BY <1>t DEF Adapters
  <2>2. j \in Jobs
    BY <1>t DEF Jobs
  <2>3. /\ job.ph = "back" /\ UNCHANGED <<game, worker, client>> /\ job.call.m \in {"lock", "value"}
        /\ disk' = disk \/ disk' = [disk EXCEPT !.prefs = doc]
        /\ \/ Answer(FALSE, adapter) \/ Answer(TRUE, a) \/ Answer(TRUE, c)
           \/ Call("locks", job.prev, j, adapter)
    BY <1>7 DEF Captured, Returned, Saved, SaveFails
  <2>4. disk'.journal = disk.journal
    BY <2>3, <1>t DEF Disks
  <2>. HIDE DEF a, c, j, doc
  <2>5. Shown(adapter) /\ Shown(a) /\ Shown(c)
    BY <2>1, <2>3, <1>k
  <2>. HIDE DEF Shown
  <2>. QED
    BY <2>2, <2>3, <2>4, <2>5, <1>2
<1>8. CASE TakenBack
  <2>1. /\ job.ph = "back" /\ UNCHANGED <<game, worker, client, disk, adapter>> /\ job.call.m = "locks"
        /\ job'.ph = "idle"
    BY <1>8 DEF TakenBack, Returned, Quiet, Idle
  <2>2. seen'.doubt = seen.doubt /\ seen'.calls = seen.calls
    BY <1>8, <1>t DEF TakenBack, Histories
  <2>. QED
    BY <2>1, <2>2 DEF Plain, Clocked
<1>9. CASE Disabled
  <2>. DEFINE conn == adapter.conn /\ (Good \/ client.conn)
              a == [adapter EXCEPT !.conn = conn, !.actual = IF conn THEN @ ELSE Unseen]
              c == [adapter EXCEPT !.actual = job.out.speed, !.speedError = FALSE]
              f == SpeedFailed(adapter, job.out)
              j == [job EXCEPT !.bad = @ \/ ~Good]
  <2>1. /\ conn => a.actual = adapter.actual /\ a.speedError = adapter.speedError
        /\ ~conn => a.actual = Unseen
        /\ c.actual = job.out.speed /\ f.speedError = TRUE
    BY <1>b, <1>s, <1>t DEF Adapters
  <2>2. j \in Jobs
    BY <1>t DEF Jobs
  <2>3. /\ job.ph = "back" /\ UNCHANGED <<game, worker, client, disk>>
        /\ \/ /\ job.call.m = "off"
              /\ (conn /\ Call("setspeed", Defaults, j, a)) \/ (~conn /\ Answer(FALSE, a))
           \/ /\ job.call.m = "setspeed"
              /\ (Good /\ Answer(~job.bad, c)) \/ Answer(FALSE, f)
    BY <1>9 DEF Disabled, Returned, Quiet
  <2>. HIDE DEF conn, a, c, j, f
  <2>4. Shown(f) /\ (job.call.m = "off" => Shown(a)) /\ (job.call.m = "setspeed" /\ Good => Shown(c))
    BY <2>1, <2>3, <1>k DEF Clock
  <2>. HIDE DEF Shown
  <2>. QED
    BY <2>2, <2>3, <2>4, <1>2
<1>. QED
  BY <1>3, <1>4, <1>5, <1>6, <1>7, <1>8, <1>9

-----------------------------------------------------------------------------
(* Steps that touch the client *)

\* While nothing is sent and there is no doubt, the game has its focus and no
\* worker is at a request of this lifetime.
LEMMA Quiescent ==
  ASSUME TypeInv, ClientInv, job.ph # "sent", seen.doubt = 0
  PROVE  /\ game.up => game.focus
         /\ \A w \in Workers : ~(worker[w].st \in Busy /\ Crosses(worker[w].call.m)
                                 /\ worker[w].call.life = game.life)
  BY DEF ClientInv, FocusInv, AloneInv

LEMMA ConnectKeeps ==
  ASSUME TypeInv, ClientInv, Connect
  PROVE  ClientInv'
<1>t. adapter \in Adapters /\ job \in Jobs /\ disk \in Disks /\ client \in Clients /\ game \in Games
  BY DEF TypeInv, DebuggerTypes, BackendTypes
<1>. DEFINE a == [adapter EXCEPT !.features = disk.prefs, !.unread = FALSE, !.actual = Unseen,
                                 !.speedError = FALSE]
            j == [job EXCEPT !.prev = a.features]
            c == [client EXCEPT !.w = IF client.lost # "no" THEN Nobody ELSE @,
                                !.lost = "no", !.life = game.life, !.uncertain = 0]
<1>1. a.conn = adapter.conn /\ a.actual = Unseen /\ j \in Jobs
  <2>1. a.conn = adapter.conn /\ a.actual = Unseen /\ a.features \in Prefs
    BY <1>t DEF Adapters, Disks
  <2>. QED
    BY <2>1, <1>t DEF Jobs
<1>2. c.w \in {client.w, Nobody} /\ c.life = game.life /\ c.conn = client.conn
  BY <1>t DEF Clients
<1>3. /\ job.ph = "start" /\ UNCHANGED <<game, worker>>
      /\ \/ Answer(FALSE, adapter) /\ UNCHANGED <<client, disk>>
         \/ Answer(FALSE, a) /\ UNCHANGED <<client, disk>>
         \/ /\ disk.journal # game.life /\ disk' = [disk EXCEPT !.journal = 0] /\ client' = c
            /\ Call("connect", a.features, j, a)
  BY DEF Connect, ReadAnew, Started, Guard
<1>. HIDE DEF a, j, c
<1>4. CASE UNCHANGED <<client, disk>> /\ (Answer(FALSE, adapter) \/ Answer(FALSE, a))
  <2>1. /\ job'.ph = "idle" /\ seen'.doubt = seen.doubt /\ seen'.calls = seen.calls
        /\ adapter' = adapter \/ adapter' = a
    BY <1>4, EndShape
  <2>2. Plain
    BY <2>1, <1>1, <1>3, <1>4 DEF Plain, Clocked
  <2>. QED
    BY <2>2, PlainKeeps
<1>5. CASE /\ disk.journal # game.life /\ disk' = [disk EXCEPT !.journal = 0] /\ client' = c
           /\ Call("connect", a.features, j, a)
  <2>1. /\ job'.ph = "call" /\ job'.call.m = "connect" /\ adapter' = a /\ seen' = seen
        /\ game' = game /\ worker' = worker
    BY <1>1, <1>3, <1>5, CallShape
  <2>2. seen.doubt = 0
    BY <1>5 DEF ClientInv, DoubtInv
  <2>3. CountInv' /\ AloneInv'
    BY <2>1, <2>2, <1>3, Quiescent DEF ClientInv, CountInv, AloneInv
  <2>4. LifeInv'
    <3>1. game.life <= game.life
      BY <1>t, Bounds DEF Games, Lives
    <3>2. client.w # Nobody => client.w \in Workers
      BY <1>t DEF Clients
    <3>. QED
      BY <2>1, <1>2, <1>5, <3>1, <3>2 DEF ClientInv, LifeInv
  <2>5. FocusInv'
    BY <2>1, <2>2, <1>3, Quiescent DEF FocusInv
  <2>6. SentInv' /\ DoubtInv' /\ SpeedInv'
    BY <2>1, <2>2, <1>1 DEF SentInv, DoubtInv, SpeedInv
  <2>. QED
    BY <2>3, <2>4, <2>5, <2>6 DEF ClientInv
<1>. QED
  BY <1>3, <1>4, <1>5

\* The client is gone, or lets its worker go, at the end of a command.
LEMMA PartKeeps ==
  ASSUME TypeInv, ClientInv, job.ph \in {"start", "back"}, job'.ph = "idle",
         seen'.doubt = seen.doubt, seen'.calls = seen.calls, disk' = disk,
         (client' = NoClient /\ ~adapter'.conn) \/ client' = [client EXCEPT !.conn = FALSE] \/
           (client' = [client EXCEPT !.w = Nobody] /\ seen.doubt = 0),
         adapter'.actual = Unseen \/ ~WorkerRuns',
         ~adapter'.conn,
         game'.life = game.life, game'.up = game.up, game'.focus = game.focus, game'.last = game.last,
         \A w \in Workers : worker'[w] = worker[w] \/ worker'[w] = Gone(worker[w])
  PROVE  ClientInv'
<1>t. worker \in [Workers -> Debuggers] /\ job \in Jobs /\ client \in Clients /\ game \in Games
  BY DEF TypeInv, DebuggerTypes, BackendTypes
<1>0. /\ game.life \in Nat /\ seen.calls \in Nat /\ seen.doubt \in Nat
  <2>1. Lives \subseteq Nat
    BY Bounds DEF Lives
  <2>. QED
    BY <1>t, <2>1 DEF TypeInv, BackendTypes, Games, Histories
<1>1. ASSUME NEW w \in Workers
      PROVE  /\ worker'[w].call = worker[w].call \/ (worker'[w].call.life = 0 /\ worker'[w].call.m = "" /\ worker'[w].call.id = 0)
             /\ worker'[w].on = worker[w].on \/ worker'[w].on = 0
             /\ worker'[w].st = "dead" => worker'[w].on = 0
             /\ worker'[w].st # "dead" => worker'[w] = worker[w]
  <2>1. Gone(worker[w]).call = NoCall /\ Gone(worker[w]).on = 0 /\ Gone(worker[w]).st = "dead"
    BY <1>t, GoneFields
  <2>2. worker[w].st = "dead" => worker[w].on = 0
    BY DEF ClientInv, LifeInv
  <2>3. NoCall.life = 0 /\ NoCall.m = "" /\ NoCall.id = 0
    BY DEF NoCall
  <2>. DEFINE now == worker'[w]
              was == worker[w]
  <2>. HIDE DEF now, was
  <2>4. CASE now = was
    <3>1. was.st = "dead" => was.on = 0
      BY <2>2 DEF was
    <3>2. /\ now.call = was.call /\ now.on = was.on /\ now.st = was.st
      BY <2>4
    <3>. QED
      BY <2>4, <3>1, <3>2 DEF now, was
  <2>5. CASE now = Gone(was)
    <3>1. now.call = NoCall /\ now.on = 0 /\ now.st = "dead"
      BY <2>1, <2>5 DEF was
    <3>. QED
      BY <2>3, <3>1 DEF now, was
  <2>6. now = was \/ now = Gone(was)
    BY DEF now, was
  <2>. QED
    BY <2>4, <2>5, <2>6
<1>2. /\ client'.w \in {client.w, Nobody} /\ client'.life \in {client.life, 0}
      /\ client'.w # Nobody => client'.life = client.life
      /\ client.w \in Workers \cup {Nobody}
  BY <1>t DEF NoClient, Clients
<1>3. CountInv'
  <2>1. \A w \in Workers : worker'[w].call.id = worker[w].call.id \/ worker'[w].call.id = 0
    BY <1>1
  <2>2. 0 <= seen.calls
    BY <1>0
  <2>. QED
    BY <2>1, <2>2 DEF ClientInv, CountInv
<1>4. LifeInv'
  <2>1. client'.life <= game.life
    BY <1>0, <1>2 DEF ClientInv, LifeInv
  <2>2. ~game'.up => game'.focus
    BY DEF ClientInv, LifeInv
  <2>3. ASSUME NEW w \in Workers
        PROVE  /\ worker'[w].call.life <= game.life /\ worker'[w].on <= game.life
               /\ worker'[w].st \in {"none", "dead"} => worker'[w].on = 0
               /\ worker'[w].st = "got" => worker'[w].on <= worker'[w].call.life
               /\ worker'[w].st \in Inside =>
                    /\ worker'[w].on = worker'[w].call.life
                    /\ worker'[w].call.m \notin {"speed", "setspeed", "disconnect"}
    <3>1. /\ worker[w].call.life <= game.life /\ worker[w].on <= game.life
          /\ worker[w].st = "none" => worker[w].on = 0
          /\ worker[w].st = "got" => worker[w].on <= worker[w].call.life
          /\ worker[w].st \in Inside =>
                    /\ worker[w].on = worker[w].call.life
                    /\ worker[w].call.m \notin {"speed", "setspeed", "disconnect"}
      BY DEF ClientInv, LifeInv
    <3>2. 0 <= game.life
      BY <1>0
    <3>. QED
      BY <3>1, <3>2, <1>1 DEF Inside
  <2>4. ASSUME client'.w # Nobody
        PROVE  worker'[client'.w].on <= client'.life /\ worker'[client'.w].call.life <= client'.life
    <3>1. client'.w = client.w /\ client'.life = client.life /\ client.w \in Workers
      BY <2>4, <1>2
    <3>2. worker[client.w].on <= client.life /\ worker[client.w].call.life <= client.life
      BY <2>4, <3>1 DEF ClientInv, LifeInv
    <3>3. 0 <= client.life
      <4>1. AnyLife \subseteq Nat
        BY Bounds DEF AnyLife
      <4>. QED
        BY <4>1, <1>t DEF Clients
    <3>4. /\ worker'[client.w].call = worker[client.w].call \/ worker'[client.w].call.life = 0
          /\ worker'[client.w].on = worker[client.w].on \/ worker'[client.w].on = 0
      BY <3>1, <1>1
    <3>5. worker'[client.w].on <= client.life
      BY <3>2, <3>3, <3>4
    <3>6. worker'[client.w].call.life <= client.life
      BY <3>2, <3>3, <3>4
    <3>. QED
      BY <3>1, <3>5, <3>6
  <2>. QED
    BY <2>1, <2>2, <2>3, <2>4 DEF LifeInv
<1>5. AloneInv'
  <2>1. seen.doubt = 0 => \A w \in Workers : ~(worker[w].st \in Busy /\ Crosses(worker[w].call.m)
                                 /\ worker[w].call.life = game.life)
    BY Quiescent
  <2>2. "dead" \notin Busy
    BY DEF Busy, Inside
  <2>. QED
    BY <2>1, <2>2, <1>1 DEF AloneInv
<1>6. DoubtInv'
  <2>. SUFFICES ASSUME seen.doubt # 0 PROVE DoubtInv'
    BY DEF DoubtInv
  <2>1. Closed' \/ Apart'
    <3>1. CASE client' = NoClient /\ ~adapter'.conn
      BY <3>1 DEF Apart, NoClient
    <3>2. CASE client' = [client EXCEPT !.conn = FALSE]
      <4>1. client'.life = client.life /\ client'.uncertain = client.uncertain /\ ~client'.conn /\ client'.w = client.w
        BY <3>2, <1>t DEF Clients
      <4>. QED
        BY <4>1 DEF ClientInv, DoubtInv, Closed, Apart
    <3>. QED
      BY <3>1, <3>2
  <2>2. \A w \in Workers : Crosses(worker'[w].call.m) => worker'[w].call.id <= seen.doubt
    <3>1. \A w \in Workers : Crosses(worker[w].call.m) => worker[w].call.id <= seen.doubt
      BY DEF ClientInv, DoubtInv
    <3>2. \A w \in Workers : worker'[w].call = worker[w].call \/ worker'[w].call.id = 0
      BY <1>1
    <3>3. 0 <= seen.doubt
      BY <1>0
    <3>. QED
      BY <3>1, <3>2, <3>3
  <2>3. disk.journal = game.life /\ game.last <= seen.doubt
    BY DEF ClientInv, DoubtInv
  <2>. QED
    BY <2>1, <2>2, <2>3 DEF DoubtInv
<1>7. FocusInv'
  BY Quiescent DEF FocusInv
<1>8. SpeedInv' /\ SentInv'
  BY DEF SpeedInv, SentInv, Linked
<1>. QED
  BY <1>3, <1>4, <1>5, <1>6, <1>7, <1>8 DEF ClientInv

LEMMA LeaveKeeps ==
  ASSUME TypeInv, ClientInv, Leave
  PROVE  ClientInv'
<1>t. adapter \in Adapters /\ job \in Jobs /\ client \in Clients
  BY DEF TypeInv, BackendTypes
<1>. DEFINE a == IF job.cmd = "quit" THEN NoAdapter
                 ELSE [adapter EXCEPT !.conn = FALSE, !.actual = Unseen, !.speedError = FALSE]
<1>1. ~a.conn /\ a.actual = Unseen
  BY <1>t DEF NoAdapter, Adapters
<1>2. /\ job.ph = "start" /\ UNCHANGED <<game, worker, disk>>
      /\ \/ WorkerRuns /\ Call("disconnect", Defaults, job, adapter) /\ UNCHANGED client
         \/ /\ client' = NoClient \/ client' = [client EXCEPT !.conn = FALSE]
            /\ Answer(TRUE, a)
  BY DEF Leave, Started
<1>. HIDE DEF a
<1>3. CASE WorkerRuns /\ Call("disconnect", Defaults, job, adapter) /\ UNCHANGED client
  <2>1. job'.ph = "call" /\ job'.call.m = "disconnect" /\ adapter' = adapter /\ seen' = seen
    BY <1>3, <1>t, CallShape
  <2>2. client.w # Nobody
    BY <1>3 DEF WorkerRuns
  <2>3. Plain
    BY <2>1, <2>2, <1>2, <1>3 DEF Plain, Clocked
  <2>. QED
    BY <2>3, PlainKeeps
<1>4. CASE (client' = NoClient \/ client' = [client EXCEPT !.conn = FALSE]) /\ Answer(TRUE, a)
  <2>1. /\ job'.ph = "idle" /\ seen'.doubt = seen.doubt /\ seen'.calls = seen.calls /\ adapter' = a
    BY <1>4, EndShape
  <2>. QED
    BY <2>1, <1>1, <1>2, <1>4, PartKeeps
<1>. QED
  BY <1>2, <1>3, <1>4

LEMMA LeftKeeps ==
  ASSUME TypeInv, ClientInv, Left
  PROVE  ClientInv'
<1>t. /\ adapter \in Adapters /\ job \in Jobs /\ client \in Clients /\ game \in Games
      /\ worker \in [Workers -> Debuggers]
  BY DEF TypeInv, DebuggerTypes, BackendTypes
<1>. DEFINE a == [adapter EXCEPT !.conn = FALSE, !.actual = 1, !.speedError = FALSE]
<1>0. job.ph = "back" /\ job.cmd \in {"disconnect", "quit"} /\ disk' = disk
  BY DEF Left
<1>1. CASE job.cmd = "quit" \/ Good
  <2>1. /\ game'.life = game.life /\ game'.up = game.up /\ game'.focus = game.focus /\ game'.last = game.last
        /\ \A w \in Workers : worker'[w] = worker[w] \/ worker'[w] = Gone(worker[w])
    BY <1>1, <1>t DEF Left, Killed, Games
  <2>2. CASE job.cmd = "quit"
    <3>1. client' = NoClient /\ Answer(Good, NoAdapter)
      BY <2>2 DEF Left
    <3>2. job'.ph = "idle" /\ adapter' = NoAdapter /\ seen'.doubt = seen.doubt /\ seen'.calls = seen.calls
      BY <3>1, EndShape
    <3>. QED
      BY <1>0, <2>1, <3>1, <3>2, PartKeeps DEF NoAdapter
  <2>3. CASE job.cmd # "quit"
    <3>1. client' = [client EXCEPT !.w = Nobody] /\ Answer(TRUE, a) /\ Good
      BY <1>1, <2>3 DEF Left
    <3>2. job'.ph = "idle" /\ adapter' = a /\ seen'.doubt = seen.doubt /\ seen'.calls = seen.calls
      BY <3>1, EndShape
    <3>3. ~a.conn /\ seen.doubt = 0
      BY <3>1, <1>0, <1>t DEF Adapters, Good, ClientInv, DoubtInv
    <3>4. ~WorkerRuns'
      BY <3>1, <1>t DEF WorkerRuns, Clients
    <3>. QED
      BY <1>0, <2>1, <3>1, <3>2, <3>3, <3>4, PartKeeps
  <2>. QED
    BY <2>2, <2>3
<1>2. CASE ~(job.cmd = "quit" \/ Good)
  <2>1. UNCHANGED <<worker, game, client>> /\ Answer(FALSE, SpeedFailed(adapter, job.out))
    BY <1>2 DEF Left
  <2>2. /\ job'.ph = "idle" /\ seen'.doubt = seen.doubt /\ seen'.calls = seen.calls
        /\ adapter' = SpeedFailed(adapter, job.out)
    BY <2>1, EndShape
  <2>3. SpeedFailed(adapter, job.out).speedError = TRUE
    BY <1>t DEF SpeedFailed, Adapters
  <2>4. Plain
    BY <1>0, <2>1, <2>2, <2>3 DEF Plain
  <2>. QED
    BY <2>4, PlainKeeps
<1>. QED
  BY <1>1, <1>2

LEMMA BackendKeeps ==
  ASSUME TypeInv, ClientInv, BackendDies \/ BackendStarts
  PROVE  ClientInv'
<1>t. /\ job \in Jobs /\ client \in Clients /\ game \in Games /\ seen \in Histories
      /\ worker \in [Workers -> Debuggers]
  BY DEF TypeInv, DebuggerTypes, BackendTypes
<1>n. game.life \in Nat /\ seen.calls \in Nat /\ seen.doubt \in Nat
  <2>1. Lives \subseteq Nat
    BY Bounds DEF Lives
  <2>. QED
    BY <1>t, <2>1 DEF Games, Histories
<1>1. CASE BackendDies
  <2>. DEFINE Live(w) == [worker[w] EXCEPT !.owned = FALSE]
  <2>1. /\ adapter' = NoAdapter /\ client' = NoClient /\ job' = Idle /\ UNCHANGED <<game, disk>>
        /\ worker' = [w \in Workers |-> IF Running(w) THEN Live(w) ELSE worker[w]]
        /\ seen' = [seen EXCEPT !.told = Settings, !.doubt = IF Waiting THEN Doubt ELSE @]
    BY <1>1 DEF BackendDies
  <2>2. /\ seen'.calls = seen.calls
        /\ seen'.doubt = IF Waiting THEN Doubt ELSE seen.doubt
    BY <2>1, <1>t DEF Histories
  <2>3. \A w \in Workers : /\ worker'[w].st = worker[w].st /\ worker'[w].on = worker[w].on
                           /\ worker'[w].call = worker[w].call
    BY <2>1, <1>t DEF Debuggers
  <2>4. /\ job'.ph = "idle" /\ client'.w = Nobody /\ client'.life = 0 /\ ~adapter'.conn
        /\ adapter'.actual = Unseen
    BY <2>1 DEF Idle, NoClient, NoAdapter
  <2>5. seen.doubt # 0 => seen'.doubt = seen.doubt /\ job.ph # "sent"
    BY <2>2 DEF Doubt, ClientInv, DoubtInv
  <2>6. ASSUME seen.doubt = 0, seen'.doubt # 0
        PROVE  /\ job.ph = "sent" /\ Crosses(job.call.m) /\ job.call.life = game.life
               /\ seen'.doubt = seen.calls
    BY <2>2, <2>6 DEF Waiting, Doubt, ClientInv, SentInv, Crosses
  <2>7. job.ph = "sent" /\ Crosses(job.call.m) /\ job.call.life = game.life => seen'.doubt # 0
    BY <2>2 DEF Waiting, Doubt, ClientInv, SentInv, DoubtInv, Crosses
  <2>8. CountInv'
    <3>1. seen'.doubt <= seen.calls
      BY <2>5, <2>6, <1>n DEF ClientInv, CountInv
    <3>. QED
      BY <3>1, <2>1, <2>2, <2>3 DEF ClientInv, CountInv
  <2>9. LifeInv'
    BY <2>1, <2>3, <2>4, <1>n DEF ClientInv, LifeInv
  <2>10. AloneInv'
    <3>. SUFFICES ASSUME NEW w \in Workers, worker[w].st \in Busy, Crosses(worker[w].call.m),
                         worker[w].call.life = game.life
                  PROVE  seen'.doubt # 0
      BY <2>1, <2>3 DEF AloneInv
    <3>1. seen.doubt # 0 \/ (job.ph = "sent" /\ client.w = w)
      BY DEF ClientInv, AloneInv
    <3>2. job.ph = "sent" /\ client.w = w => worker[w].call = job.call
      BY DEF ClientInv, SentInv
    <3>. QED
      BY <3>1, <3>2, <2>5, <2>7
  <2>11. DoubtInv'
    <3>. SUFFICES ASSUME seen'.doubt # 0 PROVE DoubtInv'
      BY DEF DoubtInv
    <3>1. Apart'
      BY <2>4 DEF Apart
    <3>2. disk'.journal = game'.life
      BY <2>1, <2>5, <2>6 DEF ClientInv, DoubtInv, SentInv
    <3>3. game'.last <= seen'.doubt
      BY <2>1, <2>5, <2>6 DEF ClientInv, DoubtInv, CountInv
    <3>4. \A w \in Workers : Crosses(worker'[w].call.m) => worker'[w].call.id <= seen'.doubt
      BY <2>3, <2>5, <2>6 DEF ClientInv, DoubtInv, CountInv
    <3>. QED
      BY <3>1, <3>2, <3>3, <3>4, <2>4 DEF DoubtInv
  <2>12. FocusInv'
    BY <2>1, <2>5, <2>7 DEF ClientInv, FocusInv
  <2>13. SentInv' /\ SpeedInv'
    BY <2>4 DEF SentInv, SpeedInv
  <2>. QED
    BY <2>8, <2>9, <2>10, <2>11, <2>12, <2>13 DEF ClientInv
<1>2. CASE BackendStarts
  <2>1. /\ UNCHANGED <<game, worker, client, disk, job>> /\ ~adapter'.conn /\ adapter'.actual = Unseen
    BY <1>2 DEF BackendStarts, NoAdapter
  <2>2. seen'.doubt = seen.doubt /\ seen'.calls = seen.calls
    BY <1>2, <1>t DEF BackendStarts, Histories
  <2>3. Linked' <=> Linked
    BY <2>1, <2>2 DEF Linked, WorkerRuns, Running, Alive
  <2>4. DoubtInv'
    BY <2>1, <2>2 DEF ClientInv, DoubtInv, Closed, Apart
  <2>5. SpeedInv'
    BY <2>1, <2>3 DEF ClientInv, SpeedInv
  <2>. QED
    BY <2>1, <2>2, <2>4, <2>5 DEF ClientInv, CountInv, LifeInv, SentInv, AloneInv, FocusInv
<1>. QED
  BY <1>1, <1>2

-----------------------------------------------------------------------------
(* The calls of the client *)

LEMMA Order == /\ \A n \in Nat : 0 <= n /\ n <= n
               /\ \A n \in Nat \ {0} : n # 0
  OBVIOUS

\* With a doubt, the client takes no request that it can be asked for.
LEMMA NoDoubtCalls ==
  ASSUME TypeInv, ClientInv, job.ph = "call", ~Refused
  PROVE  seen.doubt = 0
<1>1. game.life # 0
  <2>1. game.life \in Lives
    BY DEF TypeInv, DebuggerTypes, Games
  <2>. QED
    BY <2>1, Bounds DEF Lives
<1>. QED
  BY <1>1 DEF ClientInv, DoubtInv, Closed, Apart, Refused, Crosses

\* A call that ends without reaching the worker.
LEMMA UnsentKeeps ==
  ASSUME TypeInv, ClientInv, job.ph = "call", job'.ph = "back", job'.call = job.call, job'.out.k # "ok",
         UNCHANGED <<game, worker, adapter, seen>>, client'.w = client.w, client'.life = client.life,
         seen.doubt = 0 \/ (client' = client /\ disk' = disk)
  PROVE  ClientInv'
<1>1. CountInv' /\ LifeInv' /\ SentInv' /\ AloneInv' /\ FocusInv'
  BY DEF ClientInv, CountInv, LifeInv, SentInv, AloneInv, FocusInv
<1>2. DoubtInv'
  BY DEF ClientInv, DoubtInv, Closed, Apart
<1>3. SpeedInv'
  <2>1. Linked' <=> Linked
    BY DEF Linked, WorkerRuns, Running, Alive
  <2>2. ~Clocked
    BY DEF Clocked
  <2>. QED
    BY <2>1, <2>2 DEF ClientInv, SpeedInv
<1>. QED
  BY <1>1, <1>2, <1>3 DEF ClientInv

\* A call that was sent ends: its worker is free or gone, and an end that nobody
\* will report is in doubt.
LEMMA SentKeeps ==
  ASSUME TypeInv, ClientInv, job.ph = "sent", job'.ph = "back", job'.call = job.call,
         game'.life = game.life, game'.up = game.up, game'.focus = game.focus,
         game'.last = game.last, game'.speed = game.speed, adapter' = adapter,
         \A w \in Workers \ {client.w} : worker'[w] = worker[w],
         worker'[client.w].st \in {"idle", "dead"}, worker'[client.w].call = NoCall \/ worker' = worker,
         worker'[client.w].on = worker[client.w].on \/ worker'[client.w].st = "dead",
         worker'[client.w].st = "dead" => worker'[client.w].on = 0,
         client'.w = client.w, client'.life = client.life, seen'.calls = seen.calls,
         seen'.doubt = Doubt \/
           (seen' = seen /\ worker[client.w].st = "replied" /\ worker[client.w].out.k # "unknown"),
         seen' # seen => /\ Crosses(job.call.m) => client'.uncertain = client.life
                         /\ ~client'.conn /\ disk' = disk /\ job'.out.k # "ok",
         job'.out.k = "ok" /\ job.call.m \in Clock =>
           worker[client.w].st = "replied" /\ job'.out = worker[client.w].out
  PROVE  ClientInv'
<1>. DEFINE cw == client.w
<1>1. /\ cw \in Workers /\ job.call.id = seen.calls /\ seen.calls # 0 /\ job.call.life = client.life
      /\ worker[cw].st \in Busy \cup {"replied"} => worker[cw].call = job.call
      /\ worker[cw].st \in Busy \cup {"replied", "dead"}
      /\ Crosses(job.call.m) => disk.journal = client.life
      /\ seen.doubt = 0
  BY DEF ClientInv, SentInv, DoubtInv
<1>2. /\ NoCall.m = "" /\ NoCall.life = 0 /\ NoCall.id = 0
      /\ game.life \in Nat /\ seen.calls \in Nat /\ client.life \in Nat
      /\ worker[cw].on \in Nat
  <2>1. game.life \in Lives /\ seen.calls \in Nat /\ client.life \in AnyLife /\ worker[cw].on \in AnyLife
    BY <1>1 DEF TypeInv, DebuggerTypes, BackendTypes, Games, Histories, Clients, Debuggers
  <2>2. Lives \subseteq Nat /\ AnyLife \subseteq Nat
    BY Bounds DEF Lives, AnyLife
  <2>. QED
    BY <2>1, <2>2 DEF NoCall
<1>3. Crosses(job.call.m) <=> job.call.m # "speed"
  BY DEF Crosses
<1>4. seen'.doubt # 0 => /\ seen'.doubt = seen.calls /\ Crosses(job.call.m) /\ job.call.life = game.life
                         /\ seen' # seen
  BY <1>1 DEF Doubt, Crosses
<1>5. Crosses(job.call.m) /\ job.call.life = game.life =>
        seen'.doubt # 0 \/ (worker[cw].st = "replied" /\ worker[cw].out.k # "unknown")
  BY <1>1 DEF Doubt, Crosses
<1>6. \A w \in Workers : /\ worker'[w].call.id = worker[w].call.id \/ worker'[w].call.id = 0
                         /\ worker'[w].call.life = worker[w].call.life \/ worker'[w].call.life = 0
  BY <1>2
<1>7. CountInv'
  <2>1. 0 <= seen.calls /\ seen.calls <= seen.calls
    BY <1>2, Order, Zenon
  <2>2. seen'.doubt = 0 \/ seen'.doubt = seen.calls
    BY <1>4
  <2>3. \A w \in Workers : worker'[w].call.id <= seen.calls
    BY <2>1, <1>6 DEF ClientInv, CountInv
  <2>. QED
    BY <2>1, <2>2, <2>3 DEF ClientInv, CountInv
<1>8. LifeInv'
  <2>1. worker'[cw].on = worker[cw].on \/ worker'[cw].on = 0
    BY Zenon
  <2>0. 0 <= game.life /\ 0 <= client.life
    BY <1>2, Order, Zenon
  <2>2. worker'[cw].call.life <= game.life /\ worker'[cw].call.life <= client.life
    <3>1. worker[cw].call.life <= game.life /\ worker[cw].call.life <= client.life
      <4>1. cw # Nobody
        BY <1>1, Bounds DEF Workers, Nobody
      <4>. QED
        BY <4>1, <1>1 DEF ClientInv, LifeInv
    <3>2. worker'[cw].call.life = worker[cw].call.life \/ worker'[cw].call.life = 0
      BY <1>1, <1>6
    <3>. QED
      BY <3>1, <3>2, <2>0, Zenon
  <2>3. worker'[cw].on <= game.life /\ worker'[cw].on <= client.life
    <3>1. worker[cw].on <= game.life /\ worker[cw].on <= client.life
      <4>1. cw # Nobody
        BY <1>1, Bounds DEF Workers, Nobody
      <4>. QED
        BY <4>1, <1>1 DEF ClientInv, LifeInv
    <3>. QED
      BY <3>1, <2>0, <2>1, Zenon
  <2>4. worker'[cw].st \notin Inside \cup {"got", "none"}
    BY DEF Inside
  <2>. QED
    BY <2>2, <2>3, <2>4, <1>1 DEF ClientInv, LifeInv
<1>9. AloneInv'
  <2>1. \A w \in Workers \ {cw} : ~(worker[w].st \in Busy /\ Crosses(worker[w].call.m)
                                     /\ worker[w].call.life = game.life)
    BY <1>1 DEF ClientInv, AloneInv
  <2>2. worker'[cw].st \notin Busy
    BY DEF Busy, Inside
  <2>. QED
    BY <2>1, <2>2 DEF AloneInv
<1>10. DoubtInv'
  <2>. SUFFICES ASSUME seen'.doubt # 0 PROVE DoubtInv'
    BY DEF DoubtInv
  <2>1. Closed' /\ disk'.journal = game'.life /\ job'.out.k # "ok"
    BY <1>1, <1>4 DEF Closed
  <2>2. game'.last <= seen'.doubt
    BY <1>4 DEF ClientInv, CountInv
  <2>3. \A w \in Workers : worker'[w].call.id <= seen'.doubt
    BY <1>4, <1>7 DEF CountInv
  <2>. QED
    BY <2>1, <2>2, <2>3 DEF DoubtInv
<1>11. FocusInv'
  <2>1. game.up /\ ~game.focus =>
          /\ Crosses(job.call.m) /\ job.call.life = game.life
          /\ worker[cw].st = "replied" => worker[cw].out.k = "unknown"
    BY <1>1 DEF ClientInv, FocusInv
  <2>. QED
    BY <2>1, <1>5 DEF FocusInv
<1>12. SpeedInv'
  <2>1. Linked' => Linked
    <3>. SUFFICES ASSUME Linked' PROVE Linked
      OBVIOUS
    <3>1. worker'[cw].st # "dead" /\ worker'[cw].on = worker[cw].on
      BY <1>1 DEF Linked, WorkerRuns, Running
    <3>2. worker[cw].st \notin {"none", "dead"}
      <4>1. worker[cw].st # "none"
        BY <1>1 DEF Busy, Inside
      <4>2. CASE worker[cw].st = "dead"
        <5>1. worker[cw].on = 0
          BY <4>2, <1>1 DEF ClientInv, LifeInv
        <5>2. worker'[cw].on = game.life
          BY DEF Linked, Alive
        <5>3. game.life # 0
          BY Bounds DEF TypeInv, DebuggerTypes, Games, Lives
        <5>. QED
          BY <3>1, <5>1, <5>2, <5>3
      <4>. QED
        BY <4>1, <4>2
    <3>. QED
      BY <3>1, <3>2, <1>1 DEF Linked, WorkerRuns, Running, Alive
  <2>2. Clocked' <=> Clocked
    BY DEF Clocked
  <2>. QED
    BY <2>1, <2>2, <1>1 DEF ClientInv, SpeedInv
<1>13. SentInv'
  BY DEF SentInv
<1>. QED
  BY <1>7, <1>8, <1>9, <1>10, <1>11, <1>12, <1>13 DEF ClientInv

LEMMA UnsentCalls ==
  ASSUME TypeInv, ClientInv, Refuse \/ NotNoted \/ NotSent
  PROVE  ClientInv'
<1>t. client \in Clients /\ job \in Jobs
  BY DEF TypeInv, BackendTypes
<1>0. Known.k # "ok" /\ Restart.k # "ok" /\ UnknownEnd.k # "ok"
  BY DEF Known, Restart, UnknownEnd, Reply
<1>1. /\ job.ph = "call" /\ UNCHANGED <<game, worker, adapter, seen>>
      /\ Back(Known) \/ Back(Restart) \/ Back(UnknownEnd)
  BY DEF Refuse, NotNoted, NotSent, Calling
<1>2. job'.ph = "back" /\ job'.call = job.call /\ job'.out.k # "ok"
  BY <1>0, <1>1, <1>t DEF Back, Jobs
<1>3. client'.w = client.w /\ client'.life = client.life
  BY <1>t DEF Refuse, NotNoted, NotSent, Distrusted, Clients
<1>4. seen.doubt = 0 \/ (client' = client /\ disk' = disk)
  BY <1>1, NoDoubtCalls DEF Refuse, NotNoted, NotSent
<1>. QED
  BY <1>1, <1>2, <1>3, <1>4, UnsentKeeps

LEMMA SendKeeps ==
  ASSUME TypeInv, ClientInv, Send
  PROVE  ClientInv'
<1>t. /\ client \in Clients /\ job \in Jobs /\ worker \in [Workers -> Debuggers] /\ seen \in Histories
      /\ disk \in Disks /\ game \in Games
  BY DEF TypeInv, DebuggerTypes, BackendTypes
<1>1. /\ job.ph = "call" /\ UNCHANGED <<game, adapter>> /\ seen.doubt = 0
      /\ disk' = IF Crosses(job.call.m) THEN [disk EXCEPT !.journal = client.life] ELSE disk
      /\ job' = [job EXCEPT !.ph = "sent", !.call.life = client.life, !.call.id = seen.calls + 1]
      /\ seen' = [seen EXCEPT !.calls = @ + 1]
  BY NoDoubtCalls DEF Send, Calling
<1>2. PICK w \in Workers : /\ IF WorkerRuns THEN w = client.w ELSE job.call.m = "connect" /\ Free(w)
                           /\ Deliver(w, seen.calls + 1)
                           /\ client' = [client EXCEPT !.w = w]
  BY DEF Send
<1>. DEFINE old == IF worker[w].st = "none" THEN NewWorker ELSE worker[w]
            call == [job.call EXCEPT !.life = client.life, !.id = seen.calls + 1]
<1>3. /\ client'.w = w /\ client'.life = client.life
      /\ seen'.doubt = 0 /\ seen'.calls = seen.calls + 1 /\ seen.calls \in Nat
      /\ Crosses(job.call.m) => disk'.journal = client.life
  BY <1>1, <1>2, <1>t DEF Clients, Histories, Disks
<1>4. job.call \in [m : Methods, a : Prefs \cup Desires, life : AnyLife, id : Nat]
  BY <1>t DEF Jobs, Calls
<1>5. /\ job'.ph = "sent" /\ job'.call = call
      /\ call.m = job.call.m /\ call.life = client.life /\ call.id = seen.calls + 1
  <2>1. call.m = job.call.m /\ call.life = client.life /\ call.id = seen.calls + 1
    BY <1>4
  <2>. QED
    BY <2>1, <1>1, <1>t DEF Jobs
<1>6. /\ worker'[w].st = "got" /\ worker'[w].call = call /\ worker'[w].on = worker[w].on
      /\ \A v \in Workers \ {w} : worker'[v] = worker[v]
  <2>1. worker' = [worker EXCEPT ![w] = [old EXCEPT !.st = "got", !.call = call]]
    BY <1>2, <1>t DEF Deliver
  <2>2. old \in Debuggers /\ old.on = worker[w].on
    <3>1. CASE worker[w].st = "none"
      <4>1. worker[w].on = 0 /\ NewWorker.on = 0
        BY <3>1 DEF ClientInv, LifeInv, NewWorker
      <4>. QED
        BY <3>1, <4>1, Constants
    <3>2. CASE worker[w].st # "none"
      BY <3>2, <1>t
    <3>. QED
      BY <3>1, <3>2
  <2>. HIDE DEF old, call
  <2>3. [old EXCEPT !.st = "got", !.call = call].st = "got" /\ [old EXCEPT !.st = "got", !.call = call].call = call
        /\ [old EXCEPT !.st = "got", !.call = call].on = old.on
    BY <2>2 DEF Debuggers
  <2>. QED
    BY <2>1, <2>2, <2>3, <1>t
<1>. HIDE DEF old, call
<1>n. /\ client.life \in Nat /\ game.life \in Nat /\ client.life <= game.life
      /\ worker[w].on \in Nat /\ worker[w].on <= client.life /\ worker[w].on <= game.life
  <2>1. client.life \in AnyLife /\ game.life \in Lives /\ worker[w].on \in AnyLife
    BY <1>t DEF Clients, Games, Debuggers
  <2>2. Lives \subseteq Nat /\ AnyLife \subseteq Nat
    BY Bounds DEF Lives, AnyLife
  <2>3. client.life <= game.life /\ worker[w].on <= game.life
    BY DEF ClientInv, LifeInv
  <2>4. worker[w].on <= client.life
    <3>1. CASE WorkerRuns
      BY <3>1, <1>2 DEF ClientInv, LifeInv, WorkerRuns
    <3>2. CASE ~WorkerRuns
      <4>1. worker[w].on = 0
        BY <3>2, <1>2 DEF Free, ClientInv, LifeInv
      <4>2. client.life \in Nat
        BY <2>1, <2>2
      <4>. QED
        BY <4>1, <4>2, Order, Zenon
    <3>. QED
      BY <3>1, <3>2
  <2>. QED
    BY <2>1, <2>2, <2>3, <2>4
<1>7. CountInv'
  <2>1. \A v \in Workers : worker[v].call.id <= seen.calls /\ worker[v].call.id \in Nat
    BY <1>t DEF ClientInv, CountInv, Debuggers, Calls
  <2>2. \A v \in Workers : worker'[v].call.id <= seen.calls + 1
    BY <2>1, <1>3, <1>5, <1>6
  <2>3. game.last \in Nat /\ game.last <= seen.calls
    BY <1>t DEF ClientInv, CountInv, Games
  <2>. QED
    BY <2>2, <2>3, <1>1, <1>3 DEF CountInv
<1>8. LifeInv'
  <2>1. /\ worker'[w].call.life = client.life /\ worker'[w].st = "got"
    BY <1>5, <1>6
  <2>2. "got" \notin Inside \cup {"none", "dead"}
    BY DEF Inside
  <2>. QED
    BY <2>1, <2>2, <1>1, <1>3, <1>6, <1>n DEF ClientInv, LifeInv
<1>9. SentInv'
  BY <1>3, <1>5, <1>6 DEF SentInv, Busy
<1>10. AloneInv'
  <2>1. \A v \in Workers : ~(worker[v].st \in Busy /\ Crosses(worker[v].call.m) /\ worker[v].call.life = game.life)
    BY <1>1 DEF ClientInv, AloneInv
  <2>. QED
    BY <2>1, <1>1, <1>3, <1>5, <1>6 DEF AloneInv
<1>11. FocusInv' /\ DoubtInv'
  BY <1>1, <1>3 DEF ClientInv, FocusInv, DoubtInv
<1>12. SpeedInv'
  <2>1. WorkerRuns => client.w = w
    BY <1>2
  <2>2. Linked' /\ ~Clocked' /\ ~adapter.speedError /\ adapter.actual # Unseen => adapter.actual = game.speed
    <3>1. CASE job.call.m = "connect"
      BY <3>1, <1>1 DEF ClientInv, SpeedInv
    <3>2. CASE job.call.m # "connect"
      <4>1. WorkerRuns /\ client.w = w
        BY <3>2, <1>2
      <4>2. Linked' => Linked
        BY <4>1, <1>1, <1>3, <1>6 DEF Linked, WorkerRuns, Alive
      <4>3. ~Clocked
        BY <1>1 DEF Clocked
      <4>. QED
        BY <4>2, <4>3 DEF ClientInv, SpeedInv
    <3>. QED
      BY <3>1, <3>2
  <2>3. job'.call.m = "connect" => adapter.actual = Unseen
    BY <1>1, <1>5 DEF ClientInv, SpeedInv
  <2>4. worker'[client'.w].st # "replied"
    BY <1>3, <1>6
  <2>. QED
    BY <2>2, <2>3, <2>4, <1>1, <1>5 DEF SpeedInv
<1>. QED
  BY <1>7, <1>8, <1>9, <1>10, <1>11, <1>12 DEF ClientInv

LEMMA SentCalls ==
  ASSUME TypeInv, ClientInv, ClientReply \/ ClientMalformed \/ ClientLoses
  PROVE  ClientInv'
<1>. DEFINE cw == client.w
<1>t. /\ client \in Clients /\ job \in Jobs /\ worker \in [Workers -> Debuggers] /\ seen \in Histories
      /\ game \in Games
  BY DEF TypeInv, DebuggerTypes, BackendTypes
<1>0. /\ Known.k # "ok" /\ UnknownEnd.k # "ok"
  BY DEF Known, UnknownEnd, Reply
<1>1. job.ph = "sent" /\ cw \in Workers /\ adapter' = adapter
  BY DEF ClientReply, ClientMalformed, ClientLoses, Waiting, ClientInv, SentInv
<1>2. ASSUME NEW out, Back(out) PROVE job'.ph = "back" /\ job'.call = job.call /\ job'.out = out
  BY <1>2, <1>t DEF Back, Jobs
<1>3. /\ Distrusted(client).w = client.w /\ Distrusted(client).life = client.life
      /\ Distrusted(client).uncertain = client.life /\ ~Distrusted(client).conn
      /\ \A u : [Distrusted(client) EXCEPT !.lost = u].w = client.w
      /\ \A u : [Distrusted(client) EXCEPT !.lost = u].life = client.life
      /\ \A u : [Distrusted(client) EXCEPT !.lost = u].uncertain = client.life
      /\ \A u : ~[Distrusted(client) EXCEPT !.lost = u].conn
      /\ \A u : [client EXCEPT !.conn = u].w = client.w /\ [client EXCEPT !.conn = u].life = client.life
      /\ ~[client EXCEPT !.conn = FALSE].conn
      /\ \A u : [client EXCEPT !.lost = u, !.conn = FALSE].w = client.w
      /\ \A u : [client EXCEPT !.lost = u, !.conn = FALSE].life = client.life
      /\ \A u : ~[client EXCEPT !.lost = u, !.conn = FALSE].conn
  BY <1>t DEF Distrusted, Clients
<1>4. InDoubt => seen'.doubt = Doubt /\ seen'.calls = seen.calls
  BY <1>t DEF InDoubt, Histories
<1>5. CASE ClientReply
  <2>. DEFINE out == worker[cw].out
              c == IF out.k = "ok" THEN [client EXCEPT !.conn = out.conn] ELSE client
  <2>1. /\ worker[cw].st = "replied" /\ game' = game
        /\ worker' = [worker EXCEPT ![cw].st = "idle", ![cw].out = Offline, ![cw].call = NoCall]
        /\ \/ /\ out.k \in {"unknown", "restart"} /\ client' = Distrusted(client) /\ Back(out) /\ disk' = disk
              /\ IF out.k = "unknown" THEN InDoubt ELSE UNCHANGED seen
           \/ /\ out.k \notin {"unknown", "restart"} /\ seen' = seen
              /\ \/ Crosses(job.call.m) /\ Settle(out, c)
                 \/ Back(out) /\ client' = c
    BY <1>5 DEF ClientReply
  <2>2. /\ worker'[cw].st = "idle" /\ worker'[cw].call = NoCall /\ worker'[cw].on = worker[cw].on
        /\ \A w \in Workers \ {cw} : worker'[w] = worker[w]
    <3>1. worker' = [worker EXCEPT ![cw] = [worker[cw] EXCEPT !.st = "idle", !.out = Offline, !.call = NoCall]]
      BY <2>1, <1>1, <1>t
    <3>2. worker'[cw] = [worker[cw] EXCEPT !.st = "idle", !.out = Offline, !.call = NoCall]
      BY <3>1, <1>1, <1>t
    <3>. QED
      BY <3>1, <3>2, <1>1, <1>t DEF Debuggers
  <2>3. c.w = client.w /\ c.life = client.life /\ c \in Clients
    BY <1>1, <1>3, <1>t DEF Clients, Debuggers, Replies
  <2>. HIDE DEF out, c
  <2>4. CASE /\ out.k \in {"unknown", "restart"} /\ client' = Distrusted(client) /\ Back(out) /\ disk' = disk
             /\ IF out.k = "unknown" THEN InDoubt ELSE UNCHANGED seen
    <3>1. job'.ph = "back" /\ job'.call = job.call /\ job'.out = out /\ out.k # "ok"
      BY <2>4, <1>2
    <3>2. seen'.calls = seen.calls /\
          (seen'.doubt = Doubt \/ (seen' = seen /\ worker[cw].out.k # "unknown"))
      BY <2>4, <1>4 DEF out
    <3>. QED
      BY <1>1, <1>3, <2>1, <2>2, <2>4, <3>1, <3>2, SentKeeps
  <2>5. CASE /\ out.k \notin {"unknown", "restart"} /\ seen' = seen
             /\ \/ Crosses(job.call.m) /\ Settle(out, c)
                \/ Back(out) /\ client' = c
    <3>1. Back(out) \/ Back(Known)
      BY <2>5 DEF Settle
    <3>2. job'.ph = "back" /\ job'.call = job.call /\ (job'.out = out \/ job'.out = Known)
      BY <3>1, <1>2
    <3>3. client'.w = client.w /\ client'.life = client.life
      BY <2>3, <2>5 DEF Settle, Clients
    <3>4. job'.out.k = "ok" => job'.out = worker[cw].out
      BY <3>2, <1>0 DEF out
    <3>5. worker[cw].out.k # "unknown"
      BY <2>5 DEF out
    <3>. QED
      BY <1>1, <2>1, <2>2, <2>5, <3>2, <3>3, <3>4, <3>5, SentKeeps
  <2>. QED
    BY <2>1, <2>4, <2>5
<1>6. CASE ClientMalformed \/ ClientLoses
  <2>1. /\ InDoubt /\ disk' = disk
        /\ Back(Known) \/ Back(UnknownEnd)
        /\ Killed(cw) \/ (~Running(cw) /\ UNCHANGED <<worker, game>>)
        /\ \/ client' = Distrusted(client) \/ client' = [Distrusted(client) EXCEPT !.lost = "unknown"]
           \/ /\ ~Crosses(job.call.m)
              /\ client' = [client EXCEPT !.conn = FALSE] \/ client' = [client EXCEPT !.lost = "known", !.conn = FALSE]
    BY <1>6 DEF ClientMalformed, ClientLoses
  <2>2. job'.ph = "back" /\ job'.call = job.call /\ job'.out.k # "ok"
    BY <2>1, <1>0, <1>2
  <2>3. /\ game'.life = game.life /\ game'.up = game.up /\ game'.focus = game.focus
        /\ game'.last = game.last /\ game'.speed = game.speed
    BY <2>1, <1>t DEF Killed, Games
  <2>4. /\ \A w \in Workers \ {cw} : worker'[w] = worker[w]
        /\ worker'[cw].st = "dead" /\ worker'[cw].on = 0
        /\ worker'[cw].call = NoCall \/ worker' = worker
    <3>1. CASE Killed(cw)
      <4>1. worker'[cw] = Gone(worker[cw])
        BY <3>1, <1>1, <1>t DEF Killed
      <4>. QED
        BY <3>1, <4>1, <1>1, <1>t DEF Killed, Gone, Debuggers
    <3>2. CASE ~Running(cw) /\ UNCHANGED <<worker, game>>
      <4>1. worker[cw].st = "dead"
        BY <3>2, <1>1 DEF Running, ClientInv, SentInv, Busy, Inside
      <4>2. worker[cw].on = 0
        BY <4>1, <1>1 DEF ClientInv, LifeInv
      <4>. QED
        BY <3>2, <4>1, <4>2
    <3>. QED
      BY <2>1, <3>1, <3>2
  <2>5. /\ client'.w = client.w /\ client'.life = client.life /\ ~client'.conn
        /\ Crosses(job.call.m) => client'.uncertain = client.life
    <3>. DEFINE far == [Distrusted(client) EXCEPT !.lost = "unknown"]
                apart == [client EXCEPT !.conn = FALSE]
                near == [client EXCEPT !.lost = "known", !.conn = FALSE]
    <3>0. /\ far.w = client.w /\ far.life = client.life /\ far.uncertain = client.life /\ ~far.conn
          /\ apart.w = client.w /\ apart.life = client.life /\ ~apart.conn
          /\ near.w = client.w /\ near.life = client.life /\ ~near.conn
      BY <1>t DEF Distrusted, Clients
    <3>4. client' = Distrusted(client) \/ client' = far \/ (~Crosses(job.call.m) /\ (client' = apart \/ client' = near))
      BY <2>1
    <3>. HIDE DEF far, apart, near
    <3>1. CASE client' = Distrusted(client)
      BY <3>1, <1>3
    <3>2. CASE client' = far
      BY <3>2, <3>0
    <3>3. CASE ~Crosses(job.call.m) /\ (client' = apart \/ client' = near)
      BY <3>3, <3>0
    <3>. QED
      BY <3>4, <3>1, <3>2, <3>3
  <2>6. seen'.doubt = Doubt /\ seen'.calls = seen.calls
    BY <2>1, <1>4
  <2>. QED
    BY <1>1, <2>1, <2>2, <2>3, <2>4, <2>5, <2>6, SentKeeps
<1>. QED
  BY <1>5, <1>6

-----------------------------------------------------------------------------
(* The theorems *)

LEMMA ClientKept ==
  ASSUME TypeInv, ClientInv, [Next]_vars
  PROVE  ClientInv'
<1>1. CASE UNCHANGED vars
  BY <1>1 DEF vars, ClientInv, CountInv, LifeInv, SentInv, AloneInv, DoubtInv, FocusInv, SpeedInv,
    Closed, Apart, Linked, Clocked, WorkerRuns, Running, Alive
<1>2. CASE UserCommand
  <2>1. \E cmd, arg : Begin(cmd, arg)
    BY <1>2 DEF UserCommand
  <2>. QED
    BY <2>1, StartPlain, PlainKeeps
<1>3. CASE Backend
  <2>1. CASE Status \/ Edit \/ Capture \/ DisableAll \/ LoadProfile
    BY <2>1, StartPlain, PlainKeeps
  <2>2. CASE \/ Reconcile \/ ReconcileSpeed \/ SpeedSet \/ Observed \/ Edited
             \/ Captured \/ TakenBack \/ Disabled
    BY <2>2, ReturnPlain, PlainKeeps
  <2>3. CASE Connect \/ Leave \/ Left \/ BackendDies \/ BackendStarts
    BY <2>3, ConnectKeeps, LeaveKeeps, LeftKeeps, BackendKeeps
  <2>4. CASE Refuse \/ NotNoted \/ NotSent \/ Send \/ ClientReply \/ ClientMalformed \/ ClientLoses
    BY <2>4, UnsentCalls, SendKeeps, SentCalls
  <2>. QED
    BY <1>3, <2>1, <2>2, <2>3, <2>4 DEF Backend
<1>4. CASE Outside
  <2>1. CASE GameStep
    BY <1>4, <2>1, GameKeeps DEF Outside
  <2>2. ASSUME NEW w \in Workers, WorkerStep(w) PROVE ClientInv'
    <3>1. game'.life = game.life
      BY <2>2, WorkerShape DEF Shape, ClientInv
    <3>2. UNCHANGED <<client, adapter, disk, job, seen>>
      BY <1>4, <3>1 DEF Outside
    <3>. QED
      BY <2>2, <3>2, WorkerKeeps
  <2>. QED
    BY <1>4, <2>1, <2>2 DEF Outside
<1>. QED
  BY <1>1, <1>2, <1>3, <1>4 DEF Next

LEMMA InitClient == Init => ClientInv
<1>. SUFFICES ASSUME Init PROVE ClientInv
  OBVIOUS
<1>1. /\ game.life = 1 /\ game.last = 0 /\ game.focus /\ client = NoClient /\ job = Idle
      /\ seen.doubt = 0 /\ seen.calls = 0
      /\ \A w \in Workers : worker[w] = NotStarted
  BY DEF Init
<1>2. NotStarted.st = "none" /\ NotStarted.on = 0 /\ NotStarted.call = NoCall
  BY DEF NotStarted, NewWorker
<1>3. NoCall.id = 0 /\ NoCall.life = 0
  BY DEF NoCall
<1>4. "none" \notin Busy /\ "none" \notin Inside
  BY DEF Busy, Inside
<1>5. NoClient.w = Nobody /\ NoClient.life = 0 /\ Idle.ph = "idle"
  BY DEF NoClient, Idle
<1>6. ~WorkerRuns
  BY <1>1, <1>5 DEF WorkerRuns
<1>7. CountInv /\ LifeInv
  BY <1>1, <1>2, <1>3, <1>4, <1>5 DEF CountInv, LifeInv
<1>8. SentInv /\ AloneInv /\ DoubtInv /\ FocusInv /\ SpeedInv
  BY <1>1, <1>2, <1>4, <1>5, <1>6 DEF SentInv, AloneInv, DoubtInv, FocusInv, SpeedInv, Linked
<1>. QED
  BY <1>7, <1>8 DEF ClientInv

\* The invariants hold of every run: types, the numbering of requests and
\* lifetimes, the one request at a time, the doubt, the focus and the clock.
THEOREM Invariants == Spec => [](TypeInv /\ ClientInv)
<1>1. Init => TypeInv /\ ClientInv
  BY InitTypes, InitClient
<1>2. TypeInv /\ ClientInv /\ [Next]_vars => (TypeInv /\ ClientInv)'
  BY TypesKept, ClientKept DEF ClientInv
<1>. QED
  BY <1>1, <1>2, PTL DEF Spec

\* A request that ended in doubt is the last that the lifetime of the game
\* evaluates: the journal keeps every client away from it, and no worker has
\* another (client.py _call, recovery.py guard).
THEOREM NoBlindReplayAlways == Spec => []NoBlindReplay
<1>1. ClientInv => NoBlindReplay
  BY DEF ClientInv, DoubtInv, NoBlindReplay
<1>. QED
  BY <1>1, Invariants, PTL

\* A game left without its focus requirement is always one of a journalled
\* lifetime (transport.py execute, client.py _call).
THEOREM FocusKeptAlways == Spec => []FocusKept
<1>1. ClientInv => FocusKept
  BY DEF ClientInv, DoubtInv, FocusInv, SentInv, FocusKept
<1>. QED
  BY <1>1, Invariants, PTL

\* The speed shown as applied is the pace of the game (adapter.py
\* _reconcile_speed, set_game_speed, _mark_speed_failed).
THEOREM SpeedTrueAlways == Spec => []SpeedTrue
<1>1. ASSUME ClientInv, Settled, ~adapter.speedError, adapter.actual # Unseen
      PROVE  adapter.actual = game.speed
  <2>1. seen.doubt = 0
    BY <1>1 DEF ClientInv, DoubtInv, Closed, Apart, Settled
  <2>2. Linked /\ ~Clocked
    BY <1>1, <2>1 DEF Linked, Clocked, Settled
  <2>. QED
    BY <1>1, <2>2 DEF ClientInv, SpeedInv
<1>2. ClientInv => SpeedTrue
  BY <1>1 DEF SpeedTrue
<1>. QED
  BY <1>2, Invariants, PTL

-----------------------------------------------------------------------------
(* What the game holds *)

\* A command with a call of its own, and the calls each command makes.
Underway == job.ph \in {"call", "sent", "back"}
Chain    == {"connect", "profile"}
MethodsOf(cmd) ==
  CASE cmd = "connect" -> {"connect", "locks", "rarity", "speed", "setspeed"}
    [] cmd = "profile" -> {"configure", "locks", "rarity", "speed", "setspeed"}
    [] cmd = "status"  -> {"status"}
    [] cmd = "speed"   -> {"setspeed", "status"}
    [] cmd \in {"lock", "value"} -> {cmd, "locks"}
    [] cmd = "off"     -> {"off", "setspeed"}
    [] cmd \in {"feature", "rarity"} -> {cmd}
    [] OTHER -> {"disconnect"}

\* What a call carries, and how the features of the adapter stand to it.
CommandInv ==
  /\ ~adapter.up => ~adapter.conn /\ job.ph = "idle"
  /\ Underway =>
       /\ job.cmd \in Commands /\ job.call.m \in MethodsOf(job.cmd)
       /\ job.cmd \in {"disconnect", "quit"} \/ job.call.m = "connect" \/ adapter.conn
       /\ job.cmd \in Chain /\ job.call.m \notin Clock => job.call.a = adapter.features
       /\ job.cmd = "feature" => /\ job.call.a = job.arg
                                 /\ adapter.features.guard = job.arg.guard
                                 /\ job.arg.guard => adapter.features.lock = NoLock
       /\ job.cmd = "rarity" => job.call.a = job.arg /\ adapter.features.rarity = job.arg.rarity
       /\ job.cmd \in {"lock", "value"} =>
            /\ adapter.features.lock = job.prev.lock
            /\ job.call.m = "locks" => job.call.a = job.prev
       /\ job.cmd = "off" => adapter.features = Defaults

\* The adapter's features are the document's, but for what the user was told an
\* error of; a command that wrote the document has all of it.
DocumentInv ==
  /\ adapter.up /\ ~(Underway /\ job.cmd = "off" /\ job.bad) =>
       \A s \in Settings \ seen.told : adapter.features[s] = disk.prefs[s]
  /\ Underway /\ (job.cmd \in Chain \cup {"feature", "rarity"} \/ (job.cmd = "off" /\ ~job.bad)) =>
       adapter.features = disk.prefs

\* The settings that the calls made so far have brought to the game.
Built ==
  CASE job.cmd \in Chain /\ job.call.m = "locks"  -> {"guard", "rarity"}
    [] job.cmd \in Chain /\ job.call.m = "rarity" -> {"guard", "lock"}
    [] job.cmd \in Chain /\ job.call.m \in Clock  -> Settings
    [] job.cmd = "off" /\ job.call.m = "setspeed" /\ ~job.bad -> Settings
    [] OTHER -> {}

\* The settings that are sure, and what each is to be: the features', but for
\* the rarity that a connection has just put to its default.
Sound  == IF Underway THEN (Settings \ (seen.told \cup Settles)) \cup Built ELSE Settings \ seen.told
Aim(s) == IF Underway /\ job.cmd \in Chain /\ job.call.m = "locks" /\ s = "rarity"
            THEN Heroic ELSE adapter.features[s]

\* The resident holds them, the worker would replay them into a new one, and a
\* good reply it is about to remember tells them.
Holds(s, v) == /\ game.res.here = "ours" => game.res.desire[s] = v
               /\ worker[client.w].mem[s] = v
KeepInv == Linked /\ adapter.conn => \A s \in Sound :
  /\ Holds(s, Aim(s))
  /\ worker[client.w].st = "clean" /\ worker[client.w].out.k = "ok" => worker[client.w].out.desire[s] = Aim(s)

\* What a Lua call acknowledged is what the resident holds, then the worker too,
\* until the command has heard of it.
Lua == {"connect", "configure", "feature", "rarity", "locks", "lock", "value", "off"}
Effect(m, a, e) == \E d \in Desires : e = Called(m, a, d)
Landed(out) ==
  /\ game.res.here = "ours" => game.res.desire = out.desire
  /\ Effect(job.call.m, job.call.a, out.desire)
Held(out) ==
  /\ worker[client.w].mem.lock = out.desire.lock /\ worker[client.w].mem.rarity = out.desire.rarity
  /\ job.call.m \in {"connect", "configure", "feature", "off"} =>
       worker[client.w].mem.guard = out.desire.guard
LandInv == Linked /\ Underway /\ job.call.m \in Lua =>
  LET d == worker[client.w] IN
  /\ job.ph = "sent" /\ d.st \in {"clean", "replied"} /\ d.out.k = "ok" => Landed(d.out)
  /\ job.ph = "sent" /\ d.st = "replied" /\ d.out.k = "ok" => Held(d.out)
  /\ job.ph = "back" /\ job.out.k = "ok" => Landed(job.out) /\ Held(job.out)

BackedInv == CommandInv /\ DocumentInv /\ KeepInv /\ LandInv


LEMMA SettingNames == Settings = {"guard", "lock", "rarity"} /\ NoLock = 0
  BY DEF Settings, NoLock

\* What a call makes of what was desired.
LEMMA Effects ==
  ASSUME NEW m \in Methods, NEW a \in Prefs \cup Desires, NEW d \in Desires
  PROVE  LET e == Called(m, a, d) IN
         /\ m \in {"connect", "configure"} => e.guard = a.guard /\ e.rarity = Heroic
         /\ m = "feature" => /\ e.guard = a.guard /\ e.rarity = d.rarity
                             /\ e.lock = IF a.guard THEN NoLock ELSE d.lock
         /\ m = "rarity" => e.guard = d.guard /\ e.lock = d.lock /\ e.rarity = a.rarity
         /\ m \in {"locks", "lock"} => e.guard = d.guard /\ e.lock = a.lock /\ e.rarity = d.rarity
         /\ m = "value" => /\ e.guard = d.guard /\ e.rarity = d.rarity
                           /\ e.lock = IF d.lock = NoLock THEN NoLock ELSE a.lock
         /\ m = "off" => e = Neutral
         /\ m \notin Lua => e = d
<1>1. Guarded(d, a.guard) \in Desires /\ Guarded(d, a.guard).guard = a.guard
      /\ Guarded(d, a.guard).rarity = d.rarity
      /\ Guarded(d, a.guard).lock = IF a.guard THEN NoLock ELSE d.lock
  <2>1. a.guard \in BOOLEAN
    BY DEF Prefs, Desires
  <2>2. Guarded(d, a.guard) \in Desires
    BY <2>1, GuardTypes
  <2>. QED
    BY <2>1, <2>2 DEF Guarded, Desires
<1>2. m \in {"connect", "configure"} => Called(m, a, d) = [Guarded(d, a.guard) EXCEPT !.rarity = Heroic]
  BY DEF Called
<1>3. [Guarded(d, a.guard) EXCEPT !.rarity = Heroic].guard = a.guard
      /\ [Guarded(d, a.guard) EXCEPT !.rarity = Heroic].rarity = Heroic
  BY <1>1 DEF Desires
<1>4. m = "feature" => Called(m, a, d) = Guarded(d, a.guard)
  BY DEF Called
<1>5. m = "rarity" => Called(m, a, d) = [d EXCEPT !.rarity = a.rarity]
  BY DEF Called
<1>6. m \in {"locks", "lock"} => Called(m, a, d) = [d EXCEPT !.lock = a.lock]
  BY DEF Called
<1>7. m = "value" => Called(m, a, d) = [d EXCEPT !.lock = IF @ = NoLock THEN NoLock ELSE a.lock]
  BY DEF Called
<1>8. (m = "off" => Called(m, a, d) = Neutral) /\ (m \notin Lua => Called(m, a, d) = d)
  BY DEF Called, Lua
<1>9. \A r : LET e == [d EXCEPT !.rarity = r] IN e.guard = d.guard /\ e.lock = d.lock /\ e.rarity = r
  BY DEF Desires
<1>10. \A l : LET e == [d EXCEPT !.lock = l] IN e.guard = d.guard /\ e.lock = l /\ e.rarity = d.rarity
  BY DEF Desires
<1>. DEFINE e == Called(m, a, d)
<1>11. m \in {"connect", "configure"} => e.guard = a.guard /\ e.rarity = Heroic
  BY <1>2, <1>3
<1>12. m = "feature" => /\ e.guard = a.guard /\ e.rarity = d.rarity
                        /\ e.lock = IF a.guard THEN NoLock ELSE d.lock
  BY <1>1, <1>4
<1>13. m = "rarity" => e.guard = d.guard /\ e.lock = d.lock /\ e.rarity = a.rarity
  BY <1>5, <1>9
<1>14. m \in {"locks", "lock"} => e.guard = d.guard /\ e.lock = a.lock /\ e.rarity = d.rarity
  BY <1>6, <1>10
<1>15. m = "value" => /\ e.guard = d.guard /\ e.rarity = d.rarity
                      /\ e.lock = IF d.lock = NoLock THEN NoLock ELSE a.lock
  BY <1>7, <1>10
<1>. HIDE DEF e
<1>. QED
  BY <1>8, <1>11, <1>12, <1>13, <1>14, <1>15 DEF e

\* A resident made anew holds what the worker remembers.
LEMMA Replaying ==
  ASSUME NEW d \in Desires
  PROVE  Replayed(d) = d
<1>. DEFINE x == Called("configure", d, Neutral)
            y == Called("locks", d, x)
            z == Called("rarity", d, y)
<1>1. x \in Desires /\ y \in Desires /\ z \in Desires
  <2>1. x \in Desires
    BY CallTypes, Constants
  <2>2. y \in Desires
    BY <2>1, CallTypes
  <2>. QED
    BY <2>1, <2>2, CallTypes
<1>m. {"configure", "locks", "rarity"} \subseteq Methods /\ d \in Prefs \cup Desires
  BY DEF Methods
<1>2. x.guard = d.guard
  BY <1>m, Effects, Constants
<1>3. \A u \in Desires : LET v == Called("locks", d, u) IN v.guard = u.guard /\ v.lock = d.lock
  BY <1>m, Effects
<1>4. \A u \in Desires : LET v == Called("rarity", d, u)
                        IN v.guard = u.guard /\ v.lock = u.lock /\ v.rarity = d.rarity
  BY <1>m, Effects
<1>. HIDE DEF x
<1>6. y.guard = x.guard /\ y.lock = d.lock
  BY <1>1, <1>3
<1>. HIDE DEF y
<1>7. z.guard = y.guard /\ z.lock = y.lock /\ z.rarity = d.rarity
  BY <1>1, <1>4
<1>. HIDE DEF z
<1>5. z = d
  BY <1>1, <1>2, <1>6, <1>7 DEF Desires
<1>. QED
  BY <1>5 DEF Replayed, x, y, z

\* The call under way changes no setting but those its command is about.
LEMMA Unmoved ==
  ASSUME TypeInv, CommandInv, job.ph = "sent", NEW d \in Desires, NEW s \in Sound, d[s] = Aim(s)
  PROVE  Called(job.call.m, job.call.a, d)[s] = Aim(s)
<1>. DEFINE m == job.call.m
            a == job.call.a
            e == Called(m, a, d)
<1>t. /\ m \in Methods /\ a \in Prefs \cup Desires /\ s \in Settings /\ adapter.features \in Prefs
      /\ job.arg \in Prefs /\ job.prev \in Prefs /\ seen.told \subseteq Settings
  <2>1. job \in Jobs /\ adapter \in Adapters /\ seen \in Histories
    BY DEF TypeInv, BackendTypes
  <2>2. job.call \in Calls /\ seen.told \subseteq Settings /\ job.arg \in Prefs /\ job.prev \in Prefs
        /\ adapter.features \in Prefs
    BY <2>1 DEF Jobs, Histories, Adapters
  <2>3. Built \subseteq Settings
    BY DEF Built, Settings
  <2>. QED
    BY <2>2, <2>3 DEF Calls, Sound
<1>e. e \in Desires
  BY <1>t, CallTypes
<1>0. Underway /\ m \in MethodsOf(job.cmd) /\ job.cmd \in Commands
  BY DEF Underway, CommandInv
<1>1. s \in (Settings \ Settles) \cup Built
  BY <1>0 DEF Sound
<1>2. CASE m \notin Lua
  BY <1>2, <1>t, Effects
<1>3. CASE job.cmd \in {"connect", "profile"}
  <2>1. Settles = Settings
    BY <1>3 DEF Settles, Touched
  <2>2. s \in Built
    BY <1>1, <2>1
  <2>3. m \in {"connect", "configure"} => Built = {}
    BY <1>3 DEF Built, Clock, Chain
  <2>4. CASE m = "locks"
    <3>1. s \in {"guard", "rarity"}
      BY <2>2, <2>4, <1>3 DEF Built, Chain, Clock
    <3>. QED
      BY <3>1, <2>4, <1>t, <1>e, Effects DEF Desires
  <2>5. CASE m = "rarity"
    <3>1. s \in {"guard", "lock"}
      BY <2>2, <2>5, <1>3 DEF Built, Chain, Clock
    <3>. QED
      BY <3>1, <2>5, <1>t, <1>e, Effects DEF Desires
  <2>. QED
    BY <2>2, <2>3, <2>4, <2>5, <1>2, <1>0, <1>3 DEF MethodsOf, Lua
<1>4. CASE job.cmd = "feature"
  <2>1. m = "feature" /\ a = job.arg
    BY <1>0, <1>4 DEF MethodsOf, CommandInv
  <2>2. Built = {}
    BY <1>4, <2>1 DEF Built, Chain
  <2>3. s # "guard" /\ (a.guard => s # "lock")
    BY <1>1, <2>1, <2>2, <1>4 DEF Settles, Touched
  <2>. QED
    BY <2>1, <2>3, <1>t, <1>e, Effects, SettingNames DEF Desires
<1>5. CASE job.cmd = "rarity"
  <2>1. m = "rarity"
    BY <1>0, <1>5 DEF MethodsOf
  <2>2. s # "rarity"
    BY <1>1, <1>5 DEF Settles, Touched, Built, Chain
  <2>. QED
    BY <2>1, <2>2, <1>t, <1>e, Effects, SettingNames DEF Desires
<1>6. CASE job.cmd \in {"lock", "value"}
  <2>1. m \in {"lock", "value", "locks"} /\ (m = "lock" => job.cmd = "lock")
    BY <1>0, <1>6 DEF MethodsOf
  <2>2. s = "lock" => job.cmd = "value" /\ job.prev.lock = NoLock
    BY <1>1, <1>6 DEF Settles, Touched, Built, Chain
  <2>3. Aim(s) = adapter.features[s]
    BY <1>6 DEF Aim, Chain
  <2>4. adapter.features.lock = job.prev.lock /\ (m = "locks" => a = job.prev)
    BY <1>0, <1>6 DEF CommandInv
  <2>5. s # "lock" => e[s] = d[s]
    BY <2>1, <1>t, <1>e, Effects, SettingNames DEF Desires
  <2>6. CASE s = "lock"
    <3>1. Aim(s) = NoLock /\ d.lock = NoLock
      BY <2>2, <2>3, <2>4, <2>6, <1>t DEF Prefs, Desires
    <3>2. m = "locks" => e.lock = NoLock
      BY <2>2, <2>4, <2>6, <1>t, Effects
    <3>3. m = "value" => e.lock = NoLock
      BY <3>1, <1>t, Effects
    <3>4. m # "lock"
      BY <2>1, <2>2, <2>6
    <3>. QED
      BY <2>1, <2>6, <3>1, <3>2, <3>3, <3>4, <1>e DEF Desires
  <2>. QED
    BY <2>5, <2>6
<1>7. CASE job.cmd = "off"
  <2>1. Settles = Settings
    BY <1>7 DEF Settles, Touched
  <2>2. s \in Built
    BY <1>1, <2>1
  <2>3. m = "setspeed"
    BY <2>2, <1>7 DEF Built, Chain
  <2>. QED
    BY <1>2, <2>3 DEF Lua
<1>8. CASE job.cmd \in {"status", "speed", "disconnect", "quit"}
  BY <1>0, <1>2, <1>8 DEF MethodsOf, Lua
<1>. QED
  BY <1>0, <1>3, <1>4, <1>5, <1>6, <1>7, <1>8 DEF Commands

LEMMA SameCommand ==
  ASSUME adapter' = adapter, seen'.told = seen.told, Underway' = Underway, job'.ph = job.ph \/ Underway,
         job'.cmd = job.cmd, job'.arg = job.arg, job'.prev = job.prev, job'.bad = job.bad,
         job'.call.m = job.call.m, job'.call.a = job.call.a
  PROVE  /\ Sound' = Sound /\ \A s : Aim(s)' = Aim(s)
         /\ CommandInv => CommandInv'
         /\ disk'.prefs = disk.prefs /\ DocumentInv => DocumentInv'
<1>1. Built' = Built /\ Settles' = Settles
  BY DEF Built, Settles
<1>2. Sound' = Sound /\ \A s : Aim(s)' = Aim(s)
  BY <1>1 DEF Sound, Aim
<1>3. CommandInv => CommandInv'
  BY DEF CommandInv, Underway
<1>4. disk'.prefs = disk.prefs /\ DocumentInv => DocumentInv'
  BY DEF DocumentInv
<1>. QED
  BY <1>2, <1>3, <1>4

\* A worker inside a call, in the lifetime of the game, has the call that waits.
LEMMA TheCall ==
  ASSUME TypeInv, ClientInv, seen.doubt = 0, NEW w \in Workers, worker[w].st \in Busy,
         Crosses(worker[w].call.m), worker[w].call.life = game.life
  PROVE  job.ph = "sent" /\ client.w = w /\ worker[w].call = job.call
<1>1. job.ph = "sent" /\ client.w = w
  BY DEF ClientInv, AloneInv
<1>. QED
  BY <1>1 DEF ClientInv, SentInv

\* So is a call inside the game.
LEMMA InsideCall ==
  ASSUME TypeInv, ClientInv, seen.doubt = 0, NEW w \in Workers, worker[w].st \in Inside, Alive(w)
  PROVE  job.ph = "sent" /\ client.w = w /\ worker[w].call = job.call
<1>1. worker[w].st \in Busy /\ worker[w].call.life = game.life /\ Crosses(worker[w].call.m)
  BY DEF Busy, ClientInv, LifeInv, Alive, Crosses
<1>. QED
  BY <1>1, TheCall

\* No step of another worker changes the resident.
LEMMA OthersKeep ==
  ASSUME TypeInv, ClientInv, KeepInv, LandInv, NEW w \in Workers, WorkerStep(w), w # client.w,
         UNCHANGED <<client, adapter, disk, job, seen>>
  PROVE  KeepInv' /\ LandInv'
<1>1. \A v \in Workers \ {w} : worker'[v] = worker[v]
  BY WorkerShape DEF ClientInv
<1>2. game'.life = game.life /\ game'.up = game.up
  BY WorkerShape DEF ClientInv, Shape
<1>3. Linked' => client.w \in Workers
  BY DEF Linked, WorkerRuns, TypeInv, BackendTypes, Clients, Nobody, Workers
<1>4. Linked' => Linked /\ worker'[client.w] = worker[client.w]
  BY <1>1, <1>2, <1>3 DEF Linked, WorkerRuns, Running, Alive
<1>5. seen.doubt = 0 => game'.res = game.res
  <2>1. seen.doubt = 0 => ~(worker[w].st = "bound" /\ Alive(w))
    BY InsideCall DEF Inside
  <2>2. game \in Games
    BY DEF TypeInv, DebuggerTypes
  <2>3. CASE Evaluate(w)
    BY <2>1, <2>3 DEF Evaluate
  <2>4. CASE Dispatch(w)
    BY <2>2, <2>4 DEF Dispatch, Attach, Games
  <2>5. CASE Boundary(w) \/ Cleanup(w) \/ ReadSpeed(w) \/ SetSpeed(w)
    BY <2>2, <2>5 DEF Boundary, Cleanup, ReadSpeed, SetSpeed, Games
  <2>6. CASE Disconnect(w) \/ WorkerDies(w) \/ OrphanEnds(w)
    BY <2>2, <2>6 DEF Disconnect, WorkerDies, OrphanEnds, Killed, Detached, Games
  <2>. QED
    BY <2>3, <2>4, <2>5, <2>6 DEF WorkerStep
<1>6. Linked' => game'.res = game.res
  BY <1>4, <1>5 DEF Linked
<1>7. Sound' = Sound /\ \A s : Aim(s)' = Aim(s)
  BY SameCommand DEF Underway
<1>8. KeepInv'
  BY <1>4, <1>6, <1>7 DEF KeepInv, Holds
<1>9. LandInv'
  BY <1>4, <1>6 DEF LandInv, Landed, Held, Underway
<1>. QED
  BY <1>8, <1>9

\* What the game itself does takes the resident away or ends the attachment.
LEMMA GameHolds ==
  ASSUME TypeInv, ClientInv, KeepInv, LandInv, GameStep, UNCHANGED <<client, adapter, disk, job>>,
         seen' = IF game'.life # game.life THEN [seen EXCEPT !.doubt = 0] ELSE seen
  PROVE  KeepInv' /\ LandInv'
<1>0. game \in Games /\ seen \in Histories /\ worker' = worker
  BY DEF TypeInv, DebuggerTypes, BackendTypes, GameStep, GameExits, GameStarts, LuaReset
<1>1. CASE GameExits
  <2>1. ~game'.up
    BY <1>0, <1>1 DEF GameExits, Games
  <2>. QED
    BY <2>1 DEF KeepInv, LandInv, Linked, Alive
<1>2. CASE GameStarts
  <2>1. game'.life = game.life + 1 /\ game.life \in Nat
    BY <1>0, <1>2, Bounds DEF GameStarts, Games, Lives
  <2>2. client'.life = client.life /\ client.life <= game.life /\ client.life \in Nat
    BY Bounds DEF ClientInv, LifeInv, TypeInv, BackendTypes, Clients, AnyLife
  <2>3. ~Linked'
    BY <2>1, <2>2 DEF Linked
  <2>. QED
    BY <2>3 DEF KeepInv, LandInv
<1>3. CASE LuaReset
  <2>1. game'.res.here = "none" /\ game'.up = game.up /\ game'.life = game.life
    BY <1>0, <1>3 DEF LuaReset, Games, NoResident
  <2>2. seen' = seen /\ (Linked' => Linked)
    BY <2>1, <1>0 DEF Linked, WorkerRuns, Running, Alive
  <2>3. Sound' = Sound /\ \A s : Aim(s)' = Aim(s)
    BY <2>2, SameCommand DEF Underway
  <2>4. KeepInv'
    BY <2>1, <2>2, <2>3, <1>0 DEF KeepInv, Holds
  <2>5. LandInv'
    BY <2>1, <2>2, <1>0 DEF LandInv, Landed, Held, Underway
  <2>. QED
    BY <2>4, <2>5
<1>. QED
  BY <1>1, <1>2, <1>3 DEF GameStep

\* A step of the worker that touches neither the resident nor what it remembers,
\* and has no news of a Lua call.
LEMMA QuietKeeps ==
  ASSUME KeepInv, LandInv, UNCHANGED <<client, adapter, job, seen>>, Linked' => Linked,
         game'.res = game.res, worker'[client.w].mem = worker[client.w].mem,
         worker'[client.w].st = "clean" => worker'[client.w].out.k # "ok",
         worker'[client.w].st = "replied" /\ worker'[client.w].out.k = "ok" /\ job.ph = "sent" =>
           job.call.m \notin Lua
  PROVE  KeepInv' /\ LandInv'
<1>1. Sound' = Sound /\ \A s : Aim(s)' = Aim(s)
  BY SameCommand DEF Underway
<1>2. KeepInv'
  BY <1>1 DEF KeepInv, Holds
<1>3. LandInv'
  BY DEF LandInv, Landed, Held, Underway
<1>. QED
  BY <1>2, <1>3

\* Connecting begins with nothing sure.
LEMMA ConnectUnsure ==
  ASSUME CommandInv, job.ph = "sent", job.call.m = "connect"
  PROVE  Sound = {}
<1>1. job.cmd = "connect"
  BY DEF CommandInv, Underway, MethodsOf, Commands
<1>2. Settles = Settings
  BY <1>1 DEF Settles, Touched
<1>3. Built = {}
  BY <1>1 DEF Built, Chain, Clock
<1>. QED
  BY <1>2, <1>3 DEF Sound, Underway

LEMMA DispatchHolds ==
  ASSUME TypeInv, ClientInv, CommandInv, KeepInv, LandInv, client.w \in Workers, Dispatch(client.w),
         UNCHANGED <<client, adapter, disk, job, seen>>
  PROVE  KeepInv' /\ LandInv'
<1>. DEFINE w == client.w
            d == worker[w]
            c == worker[w].call
            e == worker'[w]
<1>t. d \in Debuggers /\ game \in Games /\ worker \in [Workers -> Debuggers]
  BY DEF TypeInv, DebuggerTypes
<1>0. d.st = "got" /\ c.m \notin {"speed", "setspeed", "disconnect"}
  BY DEF Dispatch
<1>a. ASSUME NEW f \in Debuggers, NEW out
      PROVE  /\ Answers(f, out).st = "replied" /\ Answers(f, out).out = out
             /\ Answers(f, out).mem = f.mem /\ Answers(f, out).on = f.on
  BY DEF Answers, Debuggers
<1>k. Known.k # "ok" /\ Restart.k # "ok"
  BY DEF Known, Restart, Reply
<1>1. CASE c.m = "connect"
  <2>. DEFINE fresh == [d EXCEPT !.mem = Guarded(Neutral, c.a.guard)]
  <2>1. Attach(w, fresh, c.life)
    BY <1>1 DEF Dispatch
  <2>2. c.a.guard \in BOOLEAN
    BY <1>t DEF Debuggers, Calls, Prefs, Desires
  <2>3. fresh \in Debuggers /\ fresh.st = "got"
    BY <2>2, <1>0, <1>t, Constants, GuardTypes DEF Debuggers
  <2>. HIDE DEF fresh
  <2>4. [fresh EXCEPT !.on = 0, !.foc = FALSE] \in Debuggers
    <3>1. 0 \in AnyLife
      BY Bounds DEF AnyLife
    <3>. QED
      BY <2>3, <3>1, WorkerTypes
  <2>5. e.st = "exec" \/ (e.st = "replied" /\ e.out.k # "ok")
    <3>1. \/ worker' = [worker EXCEPT ![w] = Answers(fresh, Restart)]
          \/ worker' = [worker EXCEPT ![w] = [fresh EXCEPT !.st = "exec"]]
          \/ worker' = [worker EXCEPT ![w] =
                 [fresh EXCEPT !.st = "exec", !.on = c.life, !.taint = 0, !.foc = FALSE]]
          \/ worker' = [worker EXCEPT ![w] = Answers([fresh EXCEPT !.on = 0, !.foc = FALSE], Known)]
      BY <2>1 DEF Attach
    <3>2. [fresh EXCEPT !.st = "exec"].st = "exec"
          /\ [fresh EXCEPT !.st = "exec", !.on = c.life, !.taint = 0, !.foc = FALSE].st = "exec"
      BY <2>3 DEF Debuggers
    <3>3. /\ Answers(fresh, Restart).st = "replied" /\ Answers(fresh, Restart).out = Restart
          /\ Answers([fresh EXCEPT !.on = 0, !.foc = FALSE], Known).st = "replied"
          /\ Answers([fresh EXCEPT !.on = 0, !.foc = FALSE], Known).out = Known
      BY <2>3, <2>4, <1>a
    <3>. QED
      BY <3>1, <3>2, <3>3, <1>k, <1>t
  <2>6. Linked' => seen.doubt = 0 /\ c.life = game.life
    <3>1. game'.life = game.life
      BY WorkerShape DEF WorkerStep, ClientInv, Shape
    <3>2. Linked' => game.life = client.life /\ e.on = game.life /\ seen.doubt = 0
      BY <3>1 DEF Linked, Alive
    <3>3. game.life # 0
      BY <1>t, Bounds DEF Games, Lives
    <3>4. e.on = 0 \/ e.on = d.on \/ e.on = c.life
      BY WorkerShape DEF WorkerStep, ClientInv, Shape
    <3>5. /\ d.on <= c.life /\ c.life <= client.life
          /\ d.on \in Nat /\ c.life \in Nat /\ client.life \in Nat
      <4>1. d.on <= c.life /\ c.life <= client.life
        BY <1>0 DEF ClientInv, LifeInv, Nobody, Workers
      <4>2. d.on \in AnyLife /\ c.life \in AnyLife /\ client.life \in AnyLife
        BY <1>t DEF Debuggers, Calls, TypeInv, BackendTypes, Clients
      <4>. QED
        BY <4>1, <4>2, Bounds DEF AnyLife
    <3>. QED
      BY <3>1, <3>2, <3>3, <3>4, <3>5
  <2>7. CASE Linked'
    <3>1. job.ph = "sent" /\ c = job.call
      BY <2>6, <2>7, <1>0, <1>1, TheCall DEF Busy, Crosses
    <3>2. Sound = {}
      BY <3>1, <1>1, ConnectUnsure
    <3>3. Sound' = {}
      BY <3>2, SameCommand DEF Underway
    <3>. QED
      BY <2>5, <3>1, <3>3 DEF KeepInv, LandInv, Underway
  <2>. QED
    BY <2>7 DEF KeepInv, LandInv
<1>2. CASE c.m # "connect"
  <2>1. /\ game' = game
        /\ worker' = [worker EXCEPT ![w] =
                     CASE ~Alive(w)      -> Answers(d, IF c.m = "status" THEN Offline ELSE Known)
                       [] d.taint # 0    -> Answers(d, Restart)
                       [] OTHER          -> [d EXCEPT !.st = "exec"]]
    BY <1>2, <1>t DEF Dispatch
  <2>2. \/ ~Alive(w) /\ e = Answers(d, IF c.m = "status" THEN Offline ELSE Known)
        \/ e = Answers(d, Restart) \/ e = [d EXCEPT !.st = "exec"]
    BY <2>1, <1>t
  <2>3. /\ e.mem = d.mem /\ e.on = d.on
        /\ ~Alive(w) \/ e.st = "exec" \/ (e.st = "replied" /\ e.out.k # "ok")
    <3>1. [d EXCEPT !.st = "exec"].st = "exec" /\ [d EXCEPT !.st = "exec"].mem = d.mem
          /\ [d EXCEPT !.st = "exec"].on = d.on
      BY <1>t DEF Debuggers
    <3>2. CASE e = Answers(d, Restart)
      BY <3>2, <1>a, <1>k, <1>t
    <3>3. CASE ~Alive(w) /\ e = Answers(d, IF c.m = "status" THEN Offline ELSE Known)
      BY <3>3, <1>a, <1>t
    <3>. QED
      BY <2>2, <3>1, <3>2, <3>3
  <2>4. Linked' => Linked
    BY <2>1, <2>3, <1>0 DEF Linked, WorkerRuns, Running, Alive
  <2>5. Linked' => Alive(w)
    BY <2>4 DEF Linked
  <2>6. CASE Linked'
    BY <2>1, <2>3, <2>4, <2>5, <2>6, QuietKeeps
  <2>. QED
    BY <2>6 DEF KeepInv, LandInv
<1>. QED
  BY <1>1, <1>2

LEMMA BoundaryHolds ==
  ASSUME TypeInv, ClientInv, CommandInv, KeepInv, LandInv, client.w \in Workers, Boundary(client.w),
         UNCHANGED <<client, adapter, disk, job, seen>>
  PROVE  KeepInv' /\ LandInv'
<1>. DEFINE w == client.w
            d == worker[w]
            e == worker'[w]
<1>t. d \in Debuggers /\ game \in Games /\ worker \in [Workers -> Debuggers]
  BY DEF TypeInv, DebuggerTypes
<1>k. Known.k # "ok"
  BY DEF Known, Reply
<1>1. /\ e = Answers(d, Known) \/ e = [d EXCEPT !.st = "bound", !.foc = TRUE]
         \/ e = [d EXCEPT !.st = "clean", !.foc = TRUE, !.out = Known]
      /\ d.st = "exec" /\ (game' = game \/ game' = [game EXCEPT !.focus = FALSE])
  BY <1>t DEF Boundary
<1>2. /\ e.mem = d.mem /\ e.on = d.on
      /\ e.st = "bound" \/ (e.st \in {"clean", "replied"} /\ e.out.k # "ok")
  BY <1>1, <1>k, <1>t DEF Answers, Debuggers
<1>3. game'.res = game.res /\ game'.up = game.up /\ game'.life = game.life
  BY <1>1, <1>t DEF Games
<1>4. Linked' => Linked
  BY <1>1, <1>2, <1>3 DEF Linked, WorkerRuns, Running, Alive
<1>. QED
  BY <1>2, <1>3, <1>4, QuietKeeps

\* The clock is not the resident's business.
LEMMA ClockHolds ==
  ASSUME TypeInv, ClientInv, CommandInv, KeepInv, LandInv, client.w \in Workers,
         ReadSpeed(client.w) \/ SetSpeed(client.w) \/ Disconnect(client.w),
         UNCHANGED <<client, adapter, disk, job, seen>>
  PROVE  KeepInv' /\ LandInv'
<1>. DEFINE w == client.w
            d == worker[w]
            e == worker'[w]
<1>t. d \in Debuggers /\ game \in Games /\ worker \in [Workers -> Debuggers]
  BY DEF TypeInv, DebuggerTypes
<1>0. d.st = "got" /\ d.call.m \in {"speed", "setspeed", "disconnect"}
  BY DEF ReadSpeed, SetSpeed, Disconnect
<1>1. \/ \E out : worker' = [worker EXCEPT ![w] = Answers(d, out)]
      \/ \E out, l : worker' = [worker EXCEPT ![w] = Answers([d EXCEPT !.taint = l], out)]
      \/ worker' = [worker EXCEPT ![w] = Answers([d EXCEPT !.on = 0, !.foc = FALSE], Offline)]
  <2>1. CASE ReadSpeed(w)
    BY <2>1, <1>t DEF ReadSpeed
  <2>2. CASE SetSpeed(w)
    BY <2>2, <1>t DEF SetSpeed
  <2>3. CASE Disconnect(w)
    BY <2>3, <1>t DEF Disconnect
  <2>. QED
    BY <2>1, <2>2, <2>3
<1>2. e.mem = d.mem /\ e.st = "replied" /\ (e.on = d.on \/ e.on = 0)
  <2>1. CASE \E out : worker' = [worker EXCEPT ![w] = Answers(d, out)]
    BY <2>1, <1>t DEF Answers, Debuggers
  <2>2. CASE \E out, l : worker' = [worker EXCEPT ![w] = Answers([d EXCEPT !.taint = l], out)]
    BY <2>2, <1>t DEF Answers, Debuggers
  <2>3. CASE worker' = [worker EXCEPT ![w] = Answers([d EXCEPT !.on = 0, !.foc = FALSE], Offline)]
    BY <2>3, <1>t DEF Answers, Debuggers
  <2>. QED
    BY <1>1, <2>1, <2>2, <2>3
<1>3. game'.res = game.res /\ game'.up = game.up /\ game'.life = game.life
  BY <1>t DEF ReadSpeed, SetSpeed, Disconnect, Detached, Games
<1>4. Linked' => Linked
  <2>1. game.life # 0
    BY <1>t, Bounds DEF Games, Lives
  <2>. QED
    BY <2>1, <1>0, <1>2, <1>3 DEF Linked, WorkerRuns, Running, Alive
<1>5. job.ph = "sent" => job.call.m \notin Lua
  BY <1>0 DEF ClientInv, SentInv, Busy, Lua
<1>. QED
  BY <1>2, <1>3, <1>4, <1>5, QuietKeeps

LEMMA EndHolds ==
  ASSUME TypeInv, client.w \in Workers, WorkerDies(client.w) \/ OrphanEnds(client.w), client' = client
  PROVE  KeepInv' /\ LandInv'
<1>1. worker \in [Workers -> Debuggers] /\ worker' = [worker EXCEPT ![client.w] = Gone(@)]
  BY DEF TypeInv, DebuggerTypes, WorkerDies, OrphanEnds, Killed
<1>2. Gone(worker[client.w]).st = "dead"
  BY <1>1 DEF Gone, Debuggers
<1>3. worker'[client'.w].st = "dead"
  BY <1>1, <1>2
<1>4. ~Linked'
  BY <1>3 DEF Linked, WorkerRuns, Running
<1>. QED
  BY <1>4 DEF KeepInv, LandInv

\* The one Lua call leaves the settings it is not about as they were, in the
\* resident that was there or in the one made anew.
LEMMA EvaluateHolds ==
  ASSUME TypeInv, ClientInv, CommandInv, KeepInv, LandInv, client.w \in Workers, Evaluate(client.w),
         UNCHANGED <<client, adapter, disk, job, seen>>
  PROVE  KeepInv' /\ LandInv'
<1>. DEFINE w == client.w
            d == worker[w]
            c == worker[w].call
            e == worker'[w]
            b == Bootstrapped(d.mem)
            r == Called(c.m, c.a, b)
<1>t. d \in Debuggers /\ game \in Games /\ worker \in [Workers -> Debuggers]
  BY DEF TypeInv, DebuggerTypes
<1>k. Known.k # "ok" /\ Restart.k # "ok" /\ UnknownEnd.k # "ok"
  BY DEF Known, Restart, UnknownEnd, Reply
<1>0. d.st = "bound"
  BY DEF Evaluate
<1>1. e.mem = d.mem /\ e.on = d.on
  <2>1. \/ e = Answers(d, Known) \/ e = Answers([d EXCEPT !.taint = d.on], UnknownEnd)
        \/ e = [d EXCEPT !.st = "clean", !.out = Restart] \/ e = [d EXCEPT !.st = "clean", !.out = Ok(r)]
        \/ e = [d EXCEPT !.st = "clean", !.out = Known]
        \/ e = [d EXCEPT !.st = "clean", !.out = UnknownEnd, !.taint = d.on]
    BY <1>t DEF Evaluate
  <2>. HIDE DEF r
  <2>. QED
    BY <2>1, <1>t DEF Answers, Debuggers
<1>2. game'.life = game.life /\ game'.up = game.up
  BY <1>t DEF Evaluate, Games
<1>3. Linked' => Linked
  BY <1>0, <1>1, <1>2 DEF Linked, WorkerRuns, Running, Alive
<1>4. CASE ~Linked'
  BY <1>4 DEF KeepInv, LandInv
<1>5. CASE Linked' /\ game.res.here = "other"
  <2>1. Alive(w)
    BY <1>3, <1>5 DEF Linked
  <2>2. game' = game /\ worker' = [worker EXCEPT ![w] = [d EXCEPT !.st = "clean", !.out = Restart]]
    BY <2>1, <1>5, <1>t DEF Evaluate
  <2>3. e = [d EXCEPT !.st = "clean", !.out = Restart]
    BY <2>2, <1>t
  <2>4. e.st = "clean" /\ e.out.k # "ok"
    BY <2>3, <1>k, <1>t DEF Debuggers
  <2>. QED
    BY <2>2, <2>4, <1>1, <1>3, QuietKeeps
<1>6. CASE Linked' /\ game.res.here # "other"
  <2>1. Alive(w) /\ seen.doubt = 0
    BY <1>3, <1>6 DEF Linked
  <2>2. job.ph = "sent" /\ c = job.call
    BY <2>1, <1>0, InsideCall DEF Inside
  <2>3. Sound' = Sound /\ \A s : Aim(s)' = Aim(s)
    BY SameCommand DEF Underway
  <2>4. c.m \in Methods /\ c.a \in Prefs \cup Desires /\ d.mem \in Desires /\ game.res \in Residents
    BY <1>t DEF Debuggers, Calls, Games
  <2>5. b \in Desires
    BY <2>4, Replaying DEF Bootstrapped, Residents
  <2>6. adapter.conn => \A s \in Sound : b[s] = Aim(s) /\ r[s] = Aim(s)
    <3>1. ASSUME adapter.conn, NEW s \in Sound PROVE b[s] = Aim(s)
      <4>1. Holds(s, Aim(s))
        BY <1>3, <1>6, <3>1 DEF KeepInv
      <4>2. CASE game.res.here = "none"
        BY <4>1, <4>2, <2>4, Replaying DEF Holds, Bootstrapped
      <4>3. CASE game.res.here = "ours"
        BY <4>1, <4>3 DEF Holds, Bootstrapped
      <4>. QED
        BY <4>2, <4>3, <2>4, <1>6 DEF Residents
    <3>. QED
      BY <3>1, <2>2, <2>5, Unmoved
  <2>7. Effect(job.call.m, job.call.a, r)
    BY <2>2, <2>5 DEF Effect
  <2>. HIDE DEF b, r
  <2>8. ASSUME NEW x, game'.res = [here |-> "ours", desire |-> x], x = b \/ x = r,
               e.st = "clean", e.out.k = "ok" => e.out.desire = r /\ x = r
        PROVE  KeepInv' /\ LandInv'
    <3>1. game'.res.here = "ours" /\ game'.res.desire = x
      BY <2>8
    <3>2. KeepInv'
      <4>1. ASSUME adapter.conn, NEW s \in Sound
            PROVE  Holds(s, Aim(s))' /\ (e.out.k = "ok" => e.out.desire[s] = Aim(s))
        <5>1. x[s] = Aim(s) /\ r[s] = Aim(s)
          BY <4>1, <2>6, <2>8
        <5>2. d.mem[s] = Aim(s)
          BY <4>1, <1>3, <1>6 DEF KeepInv, Holds
        <5>. QED
          BY <5>1, <5>2, <3>1, <2>3, <2>8, <1>1 DEF Holds
      <4>. QED
        BY <4>1, <2>3 DEF KeepInv
    <3>3. LandInv'
      BY <3>1, <2>2, <2>7, <2>8 DEF LandInv, Landed, Underway
    <3>. QED
      BY <3>2, <3>3
  <2>9. \/ /\ game'.res = [here |-> "ours", desire |-> r]
           /\ worker' = [worker EXCEPT ![w] = [d EXCEPT !.st = "clean", !.out = Ok(r)]]
        \/ /\ \E x \in {b, r} : game'.res = [here |-> "ours", desire |-> x]
           /\ worker' = [worker EXCEPT ![w] = [d EXCEPT !.st = "clean", !.out = Known]]
        \/ /\ \E x \in {b, r} : game'.res = [here |-> "ours", desire |-> x]
           /\ worker' = [worker EXCEPT ![w] =
                 [d EXCEPT !.st = "clean", !.out = UnknownEnd, !.taint = d.on]]
    <3>1. ASSUME NEW x, NEW n, game' = [game EXCEPT !.res = [here |-> "ours", desire |-> x], !.last = n]
          PROVE  game'.res = [here |-> "ours", desire |-> x]
      BY <3>1, <1>t DEF Games
    <3>2. \/ /\ game' = [game EXCEPT !.res = [here |-> "ours", desire |-> r], !.last = c.id]
             /\ worker' = [worker EXCEPT ![w] = [d EXCEPT !.st = "clean", !.out = Ok(r)]]
          \/ /\ \E x \in {b, r} : game' = [game EXCEPT !.res = [here |-> "ours", desire |-> x], !.last = c.id]
             /\ worker' = [worker EXCEPT ![w] = [d EXCEPT !.st = "clean", !.out = Known]]
          \/ /\ \E x \in {b, r} : game' = [game EXCEPT !.res = [here |-> "ours", desire |-> x], !.last = c.id]
             /\ worker' = [worker EXCEPT ![w] =
                 [d EXCEPT !.st = "clean", !.out = UnknownEnd, !.taint = d.on]]
      BY <2>1, <1>6, <1>t DEF Evaluate, b, r
    <3>. QED
      BY <3>1, <3>2
  <2>10. CASE /\ game'.res = [here |-> "ours", desire |-> r]
              /\ worker' = [worker EXCEPT ![w] = [d EXCEPT !.st = "clean", !.out = Ok(r)]]
    <3>1. e.st = "clean" /\ e.out = Ok(r)
      BY <2>10, <1>t DEF Debuggers
    <3>2. Ok(r).desire = r
      BY DEF Ok, Reply
    <3>. QED
      BY <3>1, <3>2, <2>8, <2>10
  <2>11. CASE /\ \E x \in {b, r} : game'.res = [here |-> "ours", desire |-> x]
              /\ worker' = [worker EXCEPT ![w] = [d EXCEPT !.st = "clean", !.out = Known]]
    <3>1. e.st = "clean" /\ e.out = Known
      BY <2>11, <1>t DEF Debuggers
    <3>. QED
      BY <3>1, <2>8, <2>11, <1>k
  <2>12. CASE /\ \E x \in {b, r} : game'.res = [here |-> "ours", desire |-> x]
              /\ worker' = [worker EXCEPT ![w] =
                    [d EXCEPT !.st = "clean", !.out = UnknownEnd, !.taint = d.on]]
    <3>1. e.st = "clean" /\ e.out = UnknownEnd
      BY <2>12, <1>t DEF Debuggers
    <3>. QED
      BY <3>1, <2>8, <2>12, <1>k
  <2>. QED
    BY <2>9, <2>10, <2>11, <2>12
<1>. QED
  BY <1>4, <1>5, <1>6

\* What the worker remembers of an acknowledged call is what the call left,
\* the features as the call gave them.
LEMMA CleanupHolds ==
  ASSUME TypeInv, ClientInv, CommandInv, KeepInv, LandInv, client.w \in Workers, Cleanup(client.w),
         UNCHANGED <<client, adapter, disk, job, seen>>
  PROVE  KeepInv' /\ LandInv'
<1>. DEFINE w == client.w
            d == worker[w]
            c == worker[w].call
            e == worker'[w]
            g == CASE d.call.m \in {"connect", "configure", "feature"} -> d.call.a.guard
                 [] d.call.m = "off" -> FALSE
                 [] OTHER -> d.mem.guard
<1>t. d \in Debuggers /\ game \in Games /\ worker \in [Workers -> Debuggers]
  BY DEF TypeInv, DebuggerTypes
<1>k. UnknownEnd.k # "ok"
  BY DEF UnknownEnd, Reply
<1>0. d.st = "clean"
  BY DEF Cleanup
<1>1. /\ e.st = "replied" /\ e.on = d.on
      /\ \/ e.out = d.out /\ e.mem = Remembered(d).mem
         \/ e.out = UnknownEnd /\ e.mem = d.mem
  <2>0. Remembered(d) \in Debuggers /\ Remembered(d).on = d.on
    <3>1. Remembered(d) \in Debuggers
      BY <1>t, WorkerTypes
    <3>2. Remembered(d) = d \/ \E x : Remembered(d) = [d EXCEPT !.mem = x]
      BY DEF Remembered
    <3>. QED
      BY <3>1, <3>2, <1>t DEF Debuggers
  <2>. DEFINE m == Remembered(d)
  <2>. HIDE DEF m
  <2>1. \/ e = Answers(m, d.out)
        \/ e = Answers([m EXCEPT !.foc = FALSE], d.out)
        \/ \E f : e = Answers([d EXCEPT !.foc = f, !.taint = d.on], UnknownEnd)
    BY <1>t DEF Cleanup, m
  <2>2. m \in Debuggers /\ m.on = d.on
    BY <2>0 DEF m
  <2>3. CASE e = Answers(m, d.out)
    BY <2>2, <2>3, <1>t DEF Answers, Debuggers, m
  <2>4. CASE e = Answers([m EXCEPT !.foc = FALSE], d.out)
    BY <2>2, <2>4, <1>t DEF Answers, Debuggers, m
  <2>5. CASE \E f : e = Answers([d EXCEPT !.foc = f, !.taint = d.on], UnknownEnd)
    BY <2>5, <1>t DEF Answers, Debuggers
  <2>. QED
    BY <2>1, <2>3, <2>4, <2>5
<1>2. game'.res = game.res /\ game'.life = game.life /\ game'.up = game.up
  BY <1>t DEF Cleanup, Games
<1>3. Linked' => Linked
  BY <1>0, <1>1, <1>2 DEF Linked, WorkerRuns, Running, Alive
<1>4. CASE ~Linked'
  BY <1>4 DEF KeepInv, LandInv
<1>5. CASE Linked' /\ (e.out.k # "ok" \/ d.out.k # "ok")
  <2>1. e.out.k # "ok" /\ e.mem = d.mem
    BY <1>1, <1>5, <1>k DEF Remembered
  <2>. QED
    BY <2>1, <1>1, <1>2, <1>3, <1>5, QuietKeeps
<1>6. CASE Linked' /\ e.out.k = "ok" /\ d.out.k = "ok"
  <2>. DEFINE o == d.out.desire
  <2>1. e.out = d.out /\ e.mem = [o EXCEPT !.guard = g]
    BY <1>1, <1>6, <1>k, <1>t DEF Remembered, Debuggers
  <2>2. o \in Desires
    BY <1>t DEF Debuggers, Replies
  <2>. HIDE DEF g
  <2>3. e.mem.guard = g /\ e.mem.lock = o.lock /\ e.mem.rarity = o.rarity
    BY <2>1, <2>2 DEF Desires
  <2>4. Alive(w) /\ seen.doubt = 0
    BY <1>3, <1>6 DEF Linked
  <2>5. job.ph = "sent" /\ c = job.call
    BY <2>4, <1>0, InsideCall DEF Inside
  <2>6. Sound' = Sound /\ \A s : Aim(s)' = Aim(s)
    BY SameCommand DEF Underway
  <2>7. ASSUME adapter.conn, NEW s \in Sound PROVE e.mem[s] = Aim(s)
    <3>1. o[s] = Aim(s) /\ d.mem[s] = Aim(s)
      BY <1>0, <1>3, <1>6, <2>7 DEF KeepInv, Holds
    <3>2. s \in {"guard", "lock", "rarity"}
      BY SettingNames DEF Sound, Built
    <3>3. CASE s = "guard"
      <4>1. c.m \notin {"connect", "configure", "feature", "off"}
        <5>1. job.call.m \in MethodsOf(job.cmd) /\ job.cmd \in Commands
          BY <2>5 DEF CommandInv, Underway
        <5>2. job.call.m \in {"connect", "configure", "feature", "off"} =>
                job.cmd \in {"connect", "profile", "feature", "off"}
          BY <5>1 DEF MethodsOf, Commands
        <5>3. job.cmd \in {"connect", "profile", "feature", "off"} => "guard" \in Settles
          BY DEF Settles, Touched, Settings
        <5>4. job.call.m \in {"connect", "configure", "feature", "off"} => Built = {}
          BY DEF Built, Clock
        <5>. QED
          BY <2>5, <2>7, <3>3, <5>2, <5>3, <5>4 DEF Sound, Underway
      <4>2. g = d.mem.guard
        BY <4>1 DEF g
      <4>. QED
        BY <4>2, <3>1, <3>3, <2>3
    <3>. QED
      BY <3>1, <3>2, <3>3, <2>3
  <2>8. KeepInv'
    BY <2>6, <2>7, <1>1, <1>2, <1>3 DEF KeepInv, Holds
  <2>9. LandInv'
    <3>1. ASSUME job.call.m \in Lua PROVE Landed(d.out)
      BY <3>1, <2>5, <1>0, <1>3, <1>6 DEF LandInv, Underway
    <3>2. ASSUME job.call.m \in {"connect", "configure", "feature", "off"} PROVE g = o.guard
      <4>1. Effect(job.call.m, job.call.a, o)
        BY <3>1, <3>2 DEF Landed, Lua
      <4>2. PICK x \in Desires : o = Called(job.call.m, job.call.a, x)
        BY <4>1 DEF Effect
      <4>3. job.call.m \in Methods /\ job.call.a \in Prefs \cup Desires
        BY <2>5, <1>t DEF Debuggers, Calls
      <4>4. CASE job.call.m = "off"
        <5>1. o = Neutral
          BY <4>2, <4>3, <4>4, Effects
        <5>2. o.guard = FALSE
          BY <5>1 DEF Neutral
        <5>3. g = FALSE
          BY <4>4, <2>5 DEF g
        <5>. QED
          BY <5>2, <5>3
      <4>5. CASE job.call.m # "off"
        <5>1. o.guard = job.call.a.guard
          BY <3>2, <4>2, <4>3, <4>5, Effects
        <5>2. g = job.call.a.guard
          BY <3>2, <4>5, <2>5 DEF g
        <5>. QED
          BY <5>1, <5>2
      <4>. QED
        BY <4>4, <4>5
    <3>. QED
      BY <3>1, <3>2, <2>1, <2>3, <2>5, <1>1, <1>2 DEF LandInv, Landed, Held, Underway, Effect
  <2>. QED
    BY <2>8, <2>9
<1>. QED
  BY <1>4, <1>5, <1>6

LEMMA OutsideHolds ==
  ASSUME TypeInv, ClientInv, CommandInv, DocumentInv, KeepInv, LandInv, Outside
  PROVE  CommandInv' /\ DocumentInv' /\ KeepInv' /\ LandInv'
<1>1. seen'.told = seen.told /\ UNCHANGED <<client, adapter, disk, job>>
  BY DEF Outside, TypeInv, BackendTypes, Histories
<1>2. CommandInv' /\ DocumentInv'
  BY <1>1, SameCommand DEF Underway
<1>3. CASE GameStep
  BY <1>2, <1>3, GameHolds DEF Outside
<1>4. ASSUME NEW w \in Workers, WorkerStep(w) PROVE KeepInv' /\ LandInv'
  <2>1. game'.life = game.life
    BY <1>4, WorkerShape DEF Shape, ClientInv
  <2>2. UNCHANGED <<client, adapter, disk, job, seen>>
    BY <2>1 DEF Outside
  <2>3. CASE w # client.w
    BY <2>2, <2>3, <1>4, OthersKeep
  <2>4. CASE w = client.w
    <3>1. CASE Dispatch(w) \/ Boundary(w)
      BY <3>1, <2>2, <2>4, DispatchHolds, BoundaryHolds
    <3>2. CASE Evaluate(w) \/ Cleanup(w)
      BY <3>2, <2>2, <2>4, EvaluateHolds, CleanupHolds
    <3>3. CASE ReadSpeed(w) \/ SetSpeed(w) \/ Disconnect(w)
      BY <3>3, <2>2, <2>4, ClockHolds
    <3>4. CASE WorkerDies(w) \/ OrphanEnds(w)
      BY <3>4, <2>2, <2>4, EndHolds
    <3>. QED
      BY <1>4, <3>1, <3>2, <3>3, <3>4 DEF WorkerStep
  <2>. QED
    BY <2>3, <2>4
<1>. QED
  BY <1>2, <1>3, <1>4 DEF Outside

(* The commands *)

\* A worker with no request of a call that waits is inside no call.
LEMMA Resting ==
  ASSUME TypeInv, ClientInv, Linked, job.ph # "sent"
  PROVE  client.w \in Workers /\ worker[client.w].st \notin Inside
<1>1. client.w \in Workers
  BY DEF Linked, WorkerRuns, TypeInv, BackendTypes, Clients, Nobody, Workers
<1>. QED
  BY <1>1, InsideCall DEF Linked

\* What a Lua call acknowledged is what the game and the worker hold.
LEMMA Heard ==
  ASSUME TypeInv, LandInv, Linked, job.ph = "back", job.out.k = "ok", job.call.m \in Lua
  PROVE  /\ Holds("lock", job.out.desire.lock) /\ Holds("rarity", job.out.desire.rarity)
         /\ job.call.m \in {"connect", "configure", "feature", "off"} => Holds("guard", job.out.desire.guard)
         /\ \E d \in Desires : job.out.desire = Called(job.call.m, job.call.a, d)
         /\ job.call.m \in Methods /\ job.call.a \in Prefs \cup Desires
<1>1. Landed(job.out) /\ Held(job.out)
  BY DEF LandInv, Underway
<1>2. job.call.m \in Methods /\ job.call.a \in Prefs \cup Desires
  BY DEF TypeInv, BackendTypes, Jobs, Calls
<1>. QED
  BY <1>1, <1>2 DEF Landed, Held, Holds, Effect

Same == client'.w = client.w /\ client'.life = client.life

\* A step of a command that sends nothing: what must be held after it was held
\* before it, or has just been acknowledged.
LEMMA TurnHolds ==
  ASSUME TypeInv, ClientInv, KeepInv, UNCHANGED <<game, worker>>, Same \/ Sound' = {} \/ ~adapter'.conn,
         seen'.doubt = seen.doubt, job.ph # "sent", job'.ph \in {"idle", "start", "call"},
         Linked /\ adapter'.conn => \A s \in Sound' : Holds(s, Aim(s)')
  PROVE  KeepInv' /\ LandInv'
<1>1. LandInv'
  BY DEF LandInv, Underway
<1>2. CASE Sound' = {} \/ ~adapter'.conn
  BY <1>1, <1>2 DEF KeepInv
<1>3. CASE Same
  <2>1. Linked' => Linked
    BY <1>3 DEF Same, Linked, WorkerRuns, Running, Alive
  <2>2. Linked => worker[client.w].st # "clean"
    BY Resting DEF Inside
  <2>3. worker'[client'.w] = worker[client.w]
    BY <1>3 DEF Same
  <2>. QED
    BY <1>1, <2>1, <2>2, <2>3 DEF KeepInv, Holds
<1>. QED
  BY <1>2, <1>3

LEMMA CallFields ==
  ASSUME NEW m, NEW a, NEW j \in Jobs, NEW ad, Call(m, a, j, ad)
  PROVE  /\ job'.ph = "call" /\ job'.cmd = j.cmd /\ job'.arg = j.arg /\ job'.prev = j.prev
         /\ job'.bad = j.bad /\ job'.call.m = m /\ job'.call.a = a
         /\ adapter' = ad /\ seen' = seen /\ Underway'
<1>1. /\ job' = [j EXCEPT !.ph = "call", !.call = [NoCall EXCEPT !.m = m, !.a = a]]
      /\ adapter' = ad /\ seen' = seen
  BY DEF Call
<1>2. [NoCall EXCEPT !.m = m, !.a = a].m = m /\ [NoCall EXCEPT !.m = m, !.a = a].a = a
  BY DEF NoCall
<1>3. \A c : LET i == [j EXCEPT !.ph = "call", !.call = c]
             IN i.ph = "call" /\ i.cmd = j.cmd /\ i.arg = j.arg /\ i.prev = j.prev /\ i.bad = j.bad /\ i.call = c
  BY DEF Jobs
<1>. QED
  BY <1>1, <1>2, <1>3 DEF Underway

LEMMA AnswerFields ==
  ASSUME TypeInv, NEW ok \in BOOLEAN, NEW a, Answer(ok, a)
  PROVE  /\ job' = Idle /\ job'.ph = "idle" /\ adapter' = a /\ ~Underway' /\ seen'.doubt = seen.doubt
         /\ seen'.told = IF ~ok THEN seen.told \cup Touched(job.cmd)
                         ELSE IF a.conn THEN seen.told \ Settles ELSE seen.told
         /\ Sound' = Settings \ seen'.told /\ \A s : Aim(s)' = a.features[s]
<1>1. job' = Idle /\ adapter' = a /\ Told(ok, a.conn) /\ seen \in Histories
  BY DEF Answer, TypeInv, BackendTypes
<1>2. job'.ph = "idle"
  BY <1>1 DEF Idle
<1>3. ~Underway'
  BY <1>2 DEF Underway
<1>4. /\ seen'.doubt = seen.doubt
      /\ seen'.told = IF ~ok THEN seen.told \cup Touched(job.cmd)
                      ELSE IF a.conn THEN seen.told \ Settles ELSE seen.told
  BY <1>1 DEF Told, Histories
<1>. QED
  BY <1>1, <1>2, <1>3, <1>4 DEF Sound, Aim

\* An answer leaves no command, so only the document is to be checked.
LEMMA AnswerKeeps ==
  ASSUME TypeInv, NEW ok \in BOOLEAN, NEW a, Answer(ok, a), a.conn => a.up,
         a.up => \A s \in Settings \ seen'.told : a.features[s] = disk'.prefs[s]
  PROVE  CommandInv' /\ DocumentInv'
<1>1. job'.ph = "idle" /\ adapter' = a /\ ~Underway'
  BY AnswerFields
<1>. QED
  BY <1>1 DEF CommandInv, DocumentInv

LEMMA Sides == Settles \subseteq Touched(job.cmd) /\ \A cmd : Touched(cmd) \subseteq Settings
<1>1. \A cmd : Touched(cmd) \subseteq Settings
  BY DEF Touched, Settings
<1>2. Settles \subseteq Touched(job.cmd)
  BY DEF Settles, Touched
<1>. QED
  BY <1>1, <1>2

\* A command that failed leaves in question all that it touched.
LEMMA FailHolds ==
  ASSUME TypeInv, ClientInv, CommandInv, DocumentInv, KeepInv, UNCHANGED <<game, worker>>,
         Same \/ Touched(job.cmd) = Settings, job.ph \in {"start", "back"}, disk'.prefs = disk.prefs,
         NEW a, Answer(FALSE, a), a.up = adapter.up, a.conn => adapter.conn,
         \A s \in Settings \ (seen.told \cup Touched(job.cmd)) : a.features[s] = adapter.features[s]
  PROVE  CommandInv' /\ DocumentInv' /\ KeepInv' /\ LandInv'
<1>1. /\ job'.ph = "idle" /\ adapter' = a /\ seen'.doubt = seen.doubt
      /\ seen'.told = seen.told \cup Touched(job.cmd)
      /\ Sound' = Settings \ seen'.told /\ \A s : Aim(s)' = a.features[s]
  BY AnswerFields
<1>2. ASSUME NEW s \in Settings \ seen'.told
      PROVE  s \in Sound /\ Aim(s) = adapter.features[s] /\ a.features[s] = adapter.features[s]
  <2>1. s \in Sound
    BY <1>1, <1>2, Sides DEF Sound
  <2>2. ~(job.cmd \in Chain)
    BY <1>1, <1>2 DEF Touched, Chain
  <2>. QED
    BY <2>1, <2>2, <1>1, <1>2 DEF Aim
<1>3. CommandInv' /\ DocumentInv'
  <2>1. ~(Underway /\ job.cmd = "off") \/ Settings \ seen'.told = {}
    BY <1>1 DEF Touched
  <2>2. adapter.up => \A s \in Settings \ seen'.told : adapter.features[s] = disk.prefs[s]
    BY <1>1, <2>1 DEF DocumentInv
  <2>3. a.conn => a.up
    BY DEF CommandInv
  <2>. QED
    BY <2>2, <2>3, <1>2, AnswerKeeps
<1>4. Linked /\ adapter'.conn => \A s \in Sound' : Holds(s, Aim(s)')
  BY <1>1, <1>2 DEF KeepInv
<1>5. Same \/ Sound' = {}
  BY <1>1
<1>. QED
  BY <1>1, <1>3, <1>4, <1>5, TurnHolds

\* A command that succeeded: the document and the game agree on what is settled.
LEMMA DoneHolds ==
  ASSUME TypeInv, ClientInv, KeepInv, UNCHANGED <<game, worker>>, job.ph # "sent",
         NEW a, Answer(TRUE, a), Same \/ ~a.conn, a.conn => a.up,
         a.up => \A s \in Settings \ seen'.told : a.features[s] = disk'.prefs[s],
         Linked /\ a.conn => \A s \in Settings \ seen'.told : Holds(s, a.features[s])
  PROVE  CommandInv' /\ DocumentInv' /\ KeepInv' /\ LandInv'
<1>1. /\ job'.ph = "idle" /\ adapter' = a /\ seen'.doubt = seen.doubt
      /\ Sound' = Settings \ seen'.told /\ \A s : Aim(s)' = a.features[s]
  BY AnswerFields
<1>2. CommandInv' /\ DocumentInv'
  BY AnswerKeeps
<1>. QED
  BY <1>1, <1>2, TurnHolds

LEMMA AdapterFields ==
  ASSUME NEW a \in Adapters
  PROVE  /\ \A v, e : LET b == [a EXCEPT !.actual = v, !.speedError = e]
                      IN b.features = a.features /\ b.conn = a.conn /\ b.up = a.up
         /\ \A c, v, e : LET b == [a EXCEPT !.conn = c, !.actual = v, !.speedError = e]
                         IN b.features = a.features /\ b.conn = c /\ b.up = a.up
         /\ \A f, u, v, e : LET b == [a EXCEPT !.features = f, !.unread = u, !.actual = v, !.speedError = e]
                            IN b.features = f /\ b.conn = a.conn /\ b.up = a.up
<1>1. \A v, e : LET b == [a EXCEPT !.actual = v, !.speedError = e]
                IN b.features = a.features /\ b.conn = a.conn /\ b.up = a.up
  BY DEF Adapters
<1>2. \A c, v, e : LET b == [a EXCEPT !.conn = c, !.actual = v, !.speedError = e]
                   IN b.features = a.features /\ b.conn = c /\ b.up = a.up
  BY DEF Adapters
<1>3. \A f, u, v, e : LET b == [a EXCEPT !.features = f, !.unread = u, !.actual = v, !.speedError = e]
                      IN b.features = f /\ b.conn = a.conn /\ b.up = a.up
  BY DEF Adapters
<1>. QED
  BY <1>1, <1>2, <1>3

\* A document that is read anew says no other than what was known of it.
LEMMA KnownSame ==
  ASSUME TypeInv, DocumentInv, adapter.up, job.ph = "start"
  PROVE  LET a == Known_(adapter) IN
         /\ a \in Adapters /\ a.conn = adapter.conn /\ a.up = adapter.up /\ a.features \in Prefs
         /\ \A s \in Settings \ seen.told :
              a.features[s] = adapter.features[s] /\ a.features[s] = disk.prefs[s]
<1>1. adapter \in Adapters /\ disk.prefs \in Prefs
  BY DEF TypeInv, BackendTypes, Disks
<1>2. Known_(adapter) = adapter \/ Known_(adapter) = [adapter EXCEPT !.features = disk.prefs, !.unread = FALSE]
  BY DEF Known_
<1>3. Known_(adapter) \in Adapters
  BY <1>1, <1>2, AdapterTypes
<1>4. \A s \in Settings \ seen.told : adapter.features[s] = disk.prefs[s]
  BY DEF DocumentInv, Underway
<1>. DEFINE a == Known_(adapter)
<1>5. a.conn = adapter.conn /\ a.up = adapter.up /\ a.features \in {adapter.features, disk.prefs}
  BY <1>1, <1>2 DEF Adapters
<1>6. a.features \in Prefs
  BY <1>1, <1>5 DEF Adapters
<1>. HIDE DEF a
<1>7. \A s \in Settings \ seen.told :
        a.features[s] = adapter.features[s] /\ a.features[s] = disk.prefs[s]
  BY <1>4, <1>5
<1>. QED
  BY <1>3, <1>5, <1>6, <1>7 DEF a

LEMMA BeginHolds ==
  ASSUME TypeInv, ClientInv, CommandInv, DocumentInv, KeepInv, NEW cmd, NEW arg, Begin(cmd, arg)
  PROVE  CommandInv' /\ DocumentInv' /\ KeepInv' /\ LandInv'
<1>1. /\ adapter.up /\ job.ph = "idle" /\ UNCHANGED <<game, worker, client, adapter, disk, seen>>
      /\ job'.ph = "start"
  BY DEF Begin, Idle
<1>2. ~Underway /\ ~Underway'
  BY <1>1 DEF Underway
<1>3. CommandInv' /\ DocumentInv'
  BY <1>1, <1>2 DEF CommandInv, DocumentInv
<1>4. Sound' = Sound /\ \A s : Aim(s)' = Aim(s)
  BY <1>1, <1>2 DEF Sound, Aim
<1>. QED
  BY <1>1, <1>3, <1>4, TurnHolds DEF Same, KeepInv

LEMMA ConnectHolds ==
  ASSUME TypeInv, ClientInv, CommandInv, DocumentInv, KeepInv, Connect
  PROVE  CommandInv' /\ DocumentInv' /\ KeepInv' /\ LandInv'
<1>t. adapter \in Adapters /\ job \in Jobs /\ disk \in Disks
  BY DEF TypeInv, BackendTypes
<1>. DEFINE a == [adapter EXCEPT !.features = disk.prefs, !.unread = FALSE, !.actual = Unseen,
                                 !.speedError = FALSE]
            j == [job EXCEPT !.prev = a.features]
<1>0. /\ job.ph = "start" /\ job.cmd = "connect" /\ UNCHANGED <<game, worker>> /\ Touched(job.cmd) = Settings
      /\ adapter.up
  BY DEF Connect, Started, Touched, CommandInv
<1>1. a.features = disk.prefs /\ a.conn = adapter.conn /\ a.up = adapter.up
  BY <1>t, AdapterFields
<1>. HIDE DEF a
<1>2. \/ (Answer(FALSE, adapter) \/ Answer(FALSE, a)) /\ disk' = disk
      \/ disk' = [disk EXCEPT !.journal = 0] /\ Call("connect", a.features, j, a)
  BY DEF Connect, ReadAnew, a
<1>3. CASE (Answer(FALSE, adapter) \/ Answer(FALSE, a)) /\ disk' = disk
  BY <1>0, <1>1, <1>3, FailHolds
<1>4. CASE disk' = [disk EXCEPT !.journal = 0] /\ Call("connect", a.features, j, a)
  <2>1. j \in Jobs /\ j.cmd = job.cmd
    BY <1>1, <1>t DEF Jobs, Disks
  <2>. HIDE DEF j
  <2>2. /\ job'.ph = "call" /\ job'.cmd = "connect" /\ job'.call.m = "connect" /\ job'.call.a = a.features
        /\ adapter' = a /\ seen' = seen /\ Underway'
    BY <2>1, <1>0, <1>4, CallFields
  <2>3. disk'.prefs = disk.prefs
    BY <1>4, <1>t DEF Disks
  <2>4. CommandInv'
    BY <2>2, <1>0, <1>1 DEF CommandInv, Commands, MethodsOf
  <2>5. DocumentInv'
    BY <2>2, <2>3, <1>1 DEF DocumentInv
  <2>6. Settles' = Settings /\ Built' = {}
    BY <2>2 DEF Settles, Touched, Built, Clock
  <2>7. Sound' = {}
    BY <2>6, <2>2 DEF Sound
  <2>. QED
    BY <2>2, <2>4, <2>5, <2>7, <1>0, TurnHolds
<1>. QED
  BY <1>2, <1>3, <1>4

\* An edit moves no setting but those that its success settles.
LEMMA MergedSame ==
  ASSUME NEW f \in Prefs, NEW arg \in Prefs, job.cmd \in {"feature", "rarity", "speed"}, job.arg = arg
  PROVE  LET doc == Merged(job.cmd, arg, f) IN
         /\ \A s \in Settings \ Settles : doc[s] = f[s]
         /\ job.cmd = "feature" => doc.guard = arg.guard /\ (arg.guard => doc.lock = NoLock)
         /\ job.cmd = "rarity" => doc.rarity = arg.rarity
<1>1. CASE job.cmd = "feature"
  <2>. DEFINE g == [Guarded(f, arg.guard) EXCEPT !.speed = f.speed]
  <2>1. /\ g.guard = arg.guard /\ g.rarity = f.rarity
        /\ g.lock = IF arg.guard THEN NoLock ELSE f.lock
    BY DEF Guarded, Prefs
  <2>2. Merged(job.cmd, arg, f) = g
    BY <1>1 DEF Merged
  <2>. HIDE DEF g
  <2>3. "guard" \in Settles /\ (arg.guard => "lock" \in Settles)
    BY <1>1 DEF Settles, Touched
  <2>4. arg.guard \in BOOLEAN
    BY DEF Prefs
  <2>. QED
    BY <1>1, <2>1, <2>2, <2>3, <2>4, SettingNames
<1>2. CASE job.cmd = "rarity"
  <2>1. Merged(job.cmd, arg, f) = [f EXCEPT !.rarity = arg.rarity]
    BY <1>2 DEF Merged
  <2>2. "rarity" \in Settles
    BY <1>2 DEF Settles, Touched
  <2>. QED
    BY <1>2, <2>1, <2>2, SettingNames DEF Prefs
<1>3. CASE job.cmd = "speed"
  <2>1. Merged(job.cmd, arg, f) = [f EXCEPT !.speed = arg.speed]
    BY <1>3 DEF Merged
  <2>. QED
    BY <1>3, <2>1, SettingNames DEF Prefs
<1>. QED
  BY <1>1, <1>2, <1>3

LEMMA StatusHolds ==
  ASSUME TypeInv, ClientInv, CommandInv, DocumentInv, KeepInv, Status \/ Leave
  PROVE  CommandInv' /\ DocumentInv' /\ KeepInv' /\ LandInv'
<1>t. adapter \in Adapters /\ job \in Jobs
  BY DEF TypeInv, BackendTypes
<1>0. /\ job.ph = "start" /\ job.cmd \in {"status", "disconnect", "quit"} /\ UNCHANGED <<game, worker, disk>>
      /\ adapter.up
  BY DEF Status, Leave, Started, CommandInv
<1>1. ~Underway /\ \A s \in Settings \ seen.told : adapter.features[s] = disk.prefs[s]
  BY <1>0 DEF Underway, DocumentInv
<1>2. ASSUME NEW a, Answer(TRUE, a), ~a.conn, a.up => a.features = adapter.features
      PROVE  CommandInv' /\ DocumentInv' /\ KeepInv' /\ LandInv'
  <2>1. seen'.told = seen.told
    BY <1>2, AnswerFields
  <2>. QED
    BY <2>1, <1>0, <1>1, <1>2, DoneHolds
<1>3. ASSUME NEW m \in {"status", "disconnect"}, Call(m, Defaults, job, adapter), client' = client,
             m = "status" => adapter.conn, m \in MethodsOf(job.cmd), job.cmd = "status" => m = "status"
      PROVE  CommandInv' /\ DocumentInv' /\ KeepInv' /\ LandInv'
  <2>1. /\ job'.ph = "call" /\ job'.cmd = job.cmd /\ job'.call.m = m
        /\ adapter' = adapter /\ seen' = seen /\ Underway'
    BY <1>3, <1>t, CallFields
  <2>2. CommandInv'
    BY <2>1, <1>0, <1>3 DEF CommandInv, Commands, Chain, MethodsOf
  <2>3. DocumentInv'
    BY <2>1, <1>0, <1>1 DEF DocumentInv, Chain
  <2>4. Sound' \subseteq Sound /\ \A s : Aim(s)' = Aim(s)
    <3>1. Built' = {}
      BY <2>1, <1>0 DEF Built, Chain
    <3>. QED
      BY <3>1, <2>1, <1>0, <1>1 DEF Sound, Aim, Chain
  <2>. QED
    BY <2>1, <2>2, <2>3, <2>4, <1>0, <1>3, TurnHolds DEF Same, KeepInv
<1>4. CASE Status
  <2>1. \/ ~adapter.conn /\ Answer(TRUE, adapter)
        \/ Answer(TRUE, [adapter EXCEPT !.conn = FALSE, !.actual = Unseen, !.speedError = FALSE])
        \/ adapter.conn /\ Call("status", Defaults, job, adapter)
    BY <1>4 DEF Status
  <2>2. client' = client /\ job.cmd = "status"
    BY <1>4 DEF Status, Started
  <2>3. CASE ~adapter.conn /\ Answer(TRUE, adapter)
    BY <2>3, <1>2
  <2>4. CASE Answer(TRUE, [adapter EXCEPT !.conn = FALSE, !.actual = Unseen, !.speedError = FALSE])
    <3>. DEFINE b == [adapter EXCEPT !.conn = FALSE, !.actual = Unseen, !.speedError = FALSE]
    <3>1. ~b.conn /\ b.features = adapter.features
      BY <1>t, AdapterFields
    <3>. HIDE DEF b
    <3>2. Answer(TRUE, b)
      BY <2>4 DEF b
    <3>. QED
      BY <3>1, <3>2, <1>2
  <2>5. CASE adapter.conn /\ Call("status", Defaults, job, adapter)
    BY <2>2, <2>5, <1>3 DEF MethodsOf
  <2>. QED
    BY <2>1, <2>3, <2>4, <2>5
<1>5. CASE Leave
  <2>. DEFINE b == IF job.cmd = "quit" THEN NoAdapter
                   ELSE [adapter EXCEPT !.conn = FALSE, !.actual = Unseen, !.speedError = FALSE]
  <2>1. job.cmd \in {"disconnect", "quit"}
        /\ \/ Call("disconnect", Defaults, job, adapter) /\ client' = client
           \/ Answer(TRUE, b)
    BY <1>5 DEF Leave
  <2>2. ~b.conn /\ (b.up => b.features = adapter.features)
    <3>1. ~NoAdapter.conn /\ ~NoAdapter.up
      BY DEF NoAdapter
    <3>2. LET x == [adapter EXCEPT !.conn = FALSE, !.actual = Unseen, !.speedError = FALSE]
          IN ~x.conn /\ x.features = adapter.features
      BY <1>t, AdapterFields
    <3>. QED
      BY <3>1, <3>2
  <2>. HIDE DEF b
  <2>3. CASE Call("disconnect", Defaults, job, adapter) /\ client' = client
    <3>1. "disconnect" \in MethodsOf(job.cmd)
      BY <2>1 DEF MethodsOf
    <3>. QED
      BY <2>1, <2>3, <3>1, <1>3
  <2>. QED
    BY <2>1, <2>2, <2>3, <1>2
<1>. QED
  BY <1>4, <1>5

LEMMA EditHolds ==
  ASSUME TypeInv, ClientInv, CommandInv, DocumentInv, KeepInv, Edit
  PROVE  CommandInv' /\ DocumentInv' /\ KeepInv' /\ LandInv'
<1>. DEFINE a == Known_(adapter)
            doc == Merged(job.cmd, job.arg, a.features)
            b == [a EXCEPT !.features = doc]
            m == IF job.cmd = "speed" THEN "setspeed" ELSE job.cmd
<1>t. job \in Jobs /\ job.arg \in Prefs /\ disk \in Disks
  BY DEF TypeInv, BackendTypes, Jobs
<1>0. /\ job.ph = "start" /\ job.cmd \in {"feature", "rarity", "speed"} /\ UNCHANGED <<game, worker, client>>
      /\ adapter.up /\ ~Underway
  BY DEF Edit, Started, CommandInv, Underway
<1>1. /\ a \in Adapters /\ a.conn = adapter.conn /\ a.up = adapter.up /\ a.features \in Prefs
      /\ \A s \in Settings \ seen.told : a.features[s] = adapter.features[s] /\ a.features[s] = disk.prefs[s]
  BY <1>0, KnownSame
<1>2. /\ \A s \in Settings \ Settles : doc[s] = a.features[s]
      /\ job.cmd = "feature" => doc.guard = job.arg.guard /\ (job.arg.guard => doc.lock = NoLock)
      /\ job.cmd = "rarity" => doc.rarity = job.arg.rarity
  BY <1>0, <1>1, <1>t, MergedSame
<1>3. \/ Saved(doc) /\ \/ a.conn /\ Call(m, job.arg, job, b)
                       \/ ~a.conn /\ Answer(TRUE, b)
                       \/ ~a.conn /\ Answer(TRUE, [b EXCEPT !.actual = Unseen, !.speedError = FALSE])
      \/ SaveFails /\ Answer(FALSE, a)
  BY DEF Edit
<1>. HIDE DEF a, doc
<1>4. b \in Adapters /\ b.features = doc /\ b.conn = a.conn /\ b.up = a.up
  <2>1. doc \in Prefs
    BY <1>0, <1>1, <1>t, MergeTypes DEF doc
  <2>2. b \in Adapters
    BY <2>1, <1>1, AdapterTypes
  <2>3. b.features = doc /\ b.conn = a.conn /\ b.up = a.up
    BY <1>1 DEF Adapters
  <2>. QED
    BY <2>2, <2>3
<1>. HIDE DEF b, m
<1>5. CASE Saved(doc) /\ a.conn /\ Call(m, job.arg, job, b)
  <2>1. disk'.prefs = doc
    BY <1>5, <1>t DEF Saved, Disks
  <2>2. /\ job'.ph = "call" /\ job'.cmd = job.cmd /\ job'.arg = job.arg /\ job'.prev = job.prev
        /\ job'.call.m = m /\ job'.call.a = job.arg
        /\ adapter' = b /\ seen' = seen /\ Underway'
    BY <1>5, <1>t, CallFields
  <2>3. CommandInv'
    <3>1. m \in MethodsOf(job.cmd) /\ job.cmd \in Commands /\ adapter'.conn /\ adapter'.up
      BY <1>0, <1>1, <1>4, <1>5, <2>2 DEF Commands, MethodsOf, m
    <3>2. job.cmd = "feature" => /\ adapter'.features.guard = job.arg.guard
                                 /\ job.arg.guard => adapter'.features.lock = NoLock
      BY <1>2, <1>4, <2>2
    <3>3. job.cmd = "rarity" => adapter'.features.rarity = job.arg.rarity
      BY <1>2, <1>4, <2>2
    <3>. QED
      BY <2>2, <3>1, <3>2, <3>3, <1>0 DEF CommandInv, Chain
  <2>4. DocumentInv'
    BY <2>1, <2>2, <1>4 DEF DocumentInv
  <2>5. Settles' = Settles /\ Built' = {}
    BY <2>2, <1>0 DEF Settles, Built, Chain
  <2>6. Linked /\ adapter'.conn => \A s \in Sound' : Holds(s, Aim(s)')
    <3>1. ASSUME NEW s \in Sound'
          PROVE  s \in Sound /\ Aim(s)' = adapter.features[s] /\ Aim(s) = adapter.features[s]
      <4>1. s \in Settings \ (seen.told \cup Settles)
        BY <2>2, <2>5, <3>1 DEF Sound
      <4>2. doc[s] = adapter.features[s]
        BY <4>1, <1>1, <1>2
      <4>3. Aim(s)' = doc[s]
        BY <2>2, <1>0, <1>4 DEF Aim, Chain
      <4>. QED
        BY <4>1, <4>2, <4>3, <1>0 DEF Sound, Aim
    <3>2. adapter'.conn => adapter.conn
      BY <2>2, <1>1, <1>4
    <3>. QED
      BY <3>1, <3>2 DEF KeepInv
  <2>. QED
    BY <2>2, <2>3, <2>4, <2>6, <1>0, TurnHolds DEF Same
<1>6. ASSUME NEW x, Saved(doc), ~a.conn, Answer(TRUE, x), x.conn = b.conn, x.up = b.up, x.features = b.features
      PROVE  CommandInv' /\ DocumentInv' /\ KeepInv' /\ LandInv'
  <2>1. disk'.prefs = doc
    BY <1>6, <1>t DEF Saved, Disks
  <2>. QED
    BY <2>1, <1>0, <1>4, <1>6, DoneHolds
<1>7. CASE Saved(doc) /\ ~a.conn /\ Answer(TRUE, [b EXCEPT !.actual = Unseen, !.speedError = FALSE])
  <2>. DEFINE x == [b EXCEPT !.actual = Unseen, !.speedError = FALSE]
  <2>1. x.conn = b.conn /\ x.up = b.up /\ x.features = b.features
    BY <1>4, AdapterFields
  <2>. HIDE DEF x
  <2>2. Answer(TRUE, x)
    BY <1>7 DEF x
  <2>. QED
    BY <2>1, <2>2, <1>6, <1>7
<1>8. CASE SaveFails /\ Answer(FALSE, a)
  BY <1>0, <1>1, <1>8, FailHolds DEF SaveFails, Same
<1>. QED
  BY <1>3, <1>5, <1>6, <1>7, <1>8

LEMMA CaptureHolds ==
  ASSUME TypeInv, ClientInv, CommandInv, DocumentInv, KeepInv, Capture
  PROVE  CommandInv' /\ DocumentInv' /\ KeepInv' /\ LandInv'
<1>. DEFINE a == IF job.cmd = "lock" THEN Known_(adapter) ELSE adapter
            j == [job EXCEPT !.prev = a.features]
<1>t. job \in Jobs /\ adapter \in Adapters /\ adapter.features \in Prefs
  BY DEF TypeInv, BackendTypes, Adapters
<1>0. /\ job.ph = "start" /\ job.cmd \in {"lock", "value"} /\ UNCHANGED <<game, worker, client, disk>>
      /\ adapter.up /\ ~Underway
  BY DEF Capture, Started, CommandInv, Underway
<1>1. /\ a \in Adapters /\ a.conn = adapter.conn /\ a.up = adapter.up /\ a.features \in Prefs
      /\ \A s \in Settings \ seen.told : a.features[s] = adapter.features[s] /\ a.features[s] = disk.prefs[s]
  <2>1. \A s \in Settings \ seen.told : adapter.features[s] = disk.prefs[s]
    BY <1>0 DEF DocumentInv
  <2>. QED
    BY <2>1, <1>0, <1>t, KnownSame
<1>2. \/ ~adapter.conn /\ Answer(FALSE, adapter)
      \/ adapter.conn /\ Call(job.cmd, job.arg, j, a)
  BY DEF Capture
<1>. HIDE DEF a
<1>3. CASE ~adapter.conn /\ Answer(FALSE, adapter)
  BY <1>0, <1>3, FailHolds DEF Same
<1>4. CASE adapter.conn /\ Call(job.cmd, job.arg, j, a)
  <2>1. j \in Jobs /\ j.cmd = job.cmd /\ j.prev = a.features
    BY <1>1, <1>t DEF Jobs
  <2>. HIDE DEF j
  <2>2. /\ job'.ph = "call" /\ job'.cmd = job.cmd /\ job'.prev = a.features /\ job'.call.m = job.cmd
        /\ adapter' = a /\ seen' = seen /\ Underway'
    BY <2>1, <1>4, CallFields
  <2>3. CommandInv'
    BY <2>2, <1>0, <1>1, <1>4 DEF CommandInv, Commands, Chain, MethodsOf
  <2>4. DocumentInv'
    BY <2>2, <1>0, <1>1 DEF DocumentInv, Chain
  <2>5. Linked /\ adapter'.conn => \A s \in Sound' : Holds(s, Aim(s)')
    <3>1. Built' = {}
      BY <2>2, <1>0 DEF Built, Chain
    <3>2. ASSUME NEW s \in Sound'
          PROVE  s \in Sound /\ Aim(s)' = adapter.features[s] /\ Aim(s) = adapter.features[s]
      <4>1. s \in Settings \ seen.told
        BY <2>2, <3>1, <3>2 DEF Sound
      <4>2. Aim(s)' = a.features[s]
        BY <2>2, <1>0 DEF Aim, Chain
      <4>. QED
        BY <4>1, <4>2, <1>0, <1>1 DEF Sound, Aim
    <3>. QED
      BY <3>2, <1>4 DEF KeepInv
  <2>. QED
    BY <2>2, <2>3, <2>4, <2>5, <1>0, TurnHolds DEF Same
<1>. QED
  BY <1>2, <1>3, <1>4

LEMMA WholeHolds ==
  ASSUME TypeInv, ClientInv, CommandInv, DocumentInv, KeepInv, DisableAll \/ LoadProfile
  PROVE  CommandInv' /\ DocumentInv' /\ KeepInv' /\ LandInv'
<1>t. job \in Jobs /\ adapter \in Adapters /\ disk \in Disks /\ job.arg \in Prefs
  BY DEF TypeInv, BackendTypes, Jobs
<1>0. /\ job.ph = "start" /\ job.cmd \in {"off", "profile"} /\ UNCHANGED <<game, worker, client>>
      /\ adapter.up /\ Touched(job.cmd) = Settings
  BY DEF DisableAll, LoadProfile, Started, CommandInv, Touched
\* The call that hands over the whole document, written or, at Disable All, not.
<1>1. ASSUME NEW m, NEW a, NEW j \in Jobs, Call(m, a.features, j, a), j.cmd = job.cmd, a.conn, a.up,
             m \in MethodsOf(job.cmd) \ (Clock \cup {"locks", "rarity"}),
             disk'.prefs = a.features \/ (job.cmd = "off" /\ j.bad), job.cmd = "off" => a.features = Defaults
      PROVE  CommandInv' /\ DocumentInv' /\ KeepInv' /\ LandInv'
  <2>1. /\ job'.ph = "call" /\ job'.cmd = job.cmd /\ job'.bad = j.bad /\ job'.call.m = m
        /\ job'.call.a = a.features /\ adapter' = a /\ seen' = seen /\ Underway'
    BY <1>1, CallFields
  <2>2. CommandInv'
    BY <2>1, <1>0, <1>1 DEF CommandInv, Commands
  <2>3. DocumentInv'
    BY <2>1, <1>0, <1>1 DEF DocumentInv, Chain
  <2>4. Settles' = Settings /\ Built' = {}
    BY <2>1, <1>0, <1>1 DEF Settles, Touched, Built, Clock
  <2>5. Sound' = {}
    BY <2>1, <2>4 DEF Sound
  <2>. QED
    BY <2>1, <2>2, <2>3, <2>5, <1>0, TurnHolds
<1>2. ASSUME NEW a, Answer(TRUE, a), ~a.conn, disk'.prefs = a.features
      PROVE  CommandInv' /\ DocumentInv' /\ KeepInv' /\ LandInv'
  BY <1>0, <1>2, DoneHolds
<1>3. CASE DisableAll
  <2>1. job.cmd = "off"
    BY <1>3 DEF DisableAll, Started
  <2>2. PICK saved \in BOOLEAN :
          LET a == [adapter EXCEPT !.features = Defaults, !.unread = @ /\ ~saved] IN
          /\ IF saved THEN Saved(Defaults) ELSE SaveFails
          /\ IF a.conn THEN Call("off", Defaults, [job EXCEPT !.bad = ~saved], a)
             ELSE Answer(saved, [a EXCEPT !.actual = Unseen])
    BY <1>3 DEF DisableAll
  <2>. DEFINE a == [adapter EXCEPT !.features = Defaults, !.unread = @ /\ ~saved]
              b == [a EXCEPT !.actual = Unseen]
              j == [job EXCEPT !.bad = ~saved]
  <2>3. a.features = Defaults /\ a.conn = adapter.conn /\ a.up = adapter.up
    BY <1>t DEF Adapters
  <2>4. b.features = Defaults /\ b.conn = adapter.conn /\ b.up = adapter.up
    BY <1>t DEF Adapters
  <2>5. j \in Jobs /\ j.cmd = job.cmd /\ j.bad = ~saved
    BY <1>t DEF Jobs
  <2>. HIDE DEF a, b, j
  <2>6. /\ IF saved THEN Saved(Defaults) ELSE SaveFails
        /\ IF a.conn THEN Call("off", Defaults, j, a) ELSE Answer(saved, b)
    BY <2>2 DEF a, b, j
  <2>7. saved => disk'.prefs = Defaults
    BY <2>6, <1>t DEF Saved, Disks
  <2>8. CASE a.conn
    <3>1. "off" \in MethodsOf(job.cmd) \ (Clock \cup {"locks", "rarity"})
      BY <2>1 DEF MethodsOf, Clock
    <3>2. Call("off", a.features, j, a)
      BY <2>3, <2>6, <2>8
    <3>. QED
      BY <3>1, <3>2, <2>1, <2>3, <2>5, <2>7, <2>8, <1>0, <1>1
  <2>9. CASE ~a.conn /\ saved
    BY <2>3, <2>4, <2>6, <2>7, <2>9, <1>2
  <2>10. CASE ~a.conn /\ ~saved
    <3>1. Answer(FALSE, b) /\ disk' = disk
      BY <2>6, <2>10 DEF SaveFails
    <3>. QED
      BY <3>1, <2>4, <1>0, FailHolds DEF Same
  <2>. QED
    BY <2>8, <2>9, <2>10
<1>4. CASE LoadProfile
  <2>. DEFINE a == [adapter EXCEPT !.features = job.arg, !.unread = FALSE]
  <2>1. job.cmd = "profile"
    BY <1>4 DEF LoadProfile, Started
  <2>2. a.features = job.arg /\ a.conn = adapter.conn /\ a.up = adapter.up
    BY <1>t DEF Adapters
  <2>. HIDE DEF a
  <2>3. \/ Saved(job.arg) /\ IF a.conn THEN Call("configure", job.arg, job, a) ELSE Answer(TRUE, a)
        \/ SaveFails /\ Answer(FALSE, adapter)
    BY <1>4 DEF LoadProfile, a
  <2>4. CASE Saved(job.arg)
    <3>1. disk'.prefs = job.arg
      BY <2>4, <1>t DEF Saved, Disks
    <3>2. "configure" \in MethodsOf(job.cmd) \ (Clock \cup {"locks", "rarity"})
      BY <2>1 DEF MethodsOf, Clock
    <3>3. CASE Answer(FALSE, adapter) /\ SaveFails
      BY <3>3, <1>0, FailHolds DEF SaveFails, Same
    <3>4. CASE a.conn /\ Call("configure", job.arg, job, a)
      <4>1. Call("configure", a.features, job, a)
        BY <2>2, <3>4
      <4>. QED
        BY <4>1, <2>1, <2>2, <3>1, <3>2, <3>4, <1>0, <1>1, <1>t
    <3>5. CASE ~a.conn /\ Answer(TRUE, a)
      BY <3>1, <3>5, <2>2, <1>2
    <3>. QED
      BY <2>3, <3>3, <3>4, <3>5
  <2>5. CASE SaveFails /\ Answer(FALSE, adapter)
    BY <2>5, <1>0, FailHolds DEF SaveFails, Same
  <2>. QED
    BY <2>3, <2>4, <2>5
<1>. QED
  BY <1>3, <1>4

(* A call of the client *)

LEMMA BackFields ==
  ASSUME TypeInv, NEW out, Back(out)
  PROVE  /\ job'.ph = "back" /\ job'.out = out /\ job'.cmd = job.cmd /\ job'.arg = job.arg
         /\ job'.prev = job.prev /\ job'.bad = job.bad /\ job'.call = job.call
<1>1. job \in Jobs /\ job' = [job EXCEPT !.ph = "back", !.out = out]
  BY DEF TypeInv, BackendTypes, Back
<1>. QED
  BY <1>1 DEF Jobs

LEMMA UnsentHolds ==
  ASSUME TypeInv, ClientInv, CommandInv, DocumentInv, KeepInv, LandInv, Refuse \/ NotNoted \/ NotSent
  PROVE  CommandInv' /\ DocumentInv' /\ KeepInv' /\ LandInv'
<1>t. client \in Clients /\ disk \in Disks
  BY DEF TypeInv, BackendTypes
<1>1. /\ job.ph = "call" /\ UNCHANGED <<game, worker, adapter, seen>>
      /\ Back(Known) \/ Back(Restart) \/ Back(UnknownEnd)
  BY DEF Refuse, NotNoted, NotSent, Calling
<1>2. client'.w = client.w /\ client'.life = client.life /\ disk'.prefs = disk.prefs
  BY <1>t DEF Refuse, NotNoted, NotSent, Distrusted, Cleared, Clients, Disks
<1>3. /\ job'.ph = "back" /\ job'.out.k # "ok" /\ job'.cmd = job.cmd /\ job'.arg = job.arg
      /\ job'.prev = job.prev /\ job'.bad = job.bad /\ job'.call = job.call
  <2>1. Known.k # "ok" /\ Restart.k # "ok" /\ UnknownEnd.k # "ok"
    BY DEF Known, Restart, UnknownEnd, Reply
  <2>. QED
    BY <1>1, <2>1, BackFields
<1>4. Underway /\ Underway'
  BY <1>1, <1>3 DEF Underway
<1>5. Sound' = Sound /\ (\A s : Aim(s)' = Aim(s)) /\ CommandInv' /\ DocumentInv'
  BY <1>1, <1>2, <1>3, <1>4, SameCommand
<1>6. Linked' => Linked
  BY <1>1, <1>2 DEF Linked, WorkerRuns, Running, Alive
<1>7. KeepInv'
  BY <1>1, <1>2, <1>5, <1>6 DEF KeepInv, Holds
<1>8. LandInv'
  BY <1>3 DEF LandInv
<1>. QED
  BY <1>5, <1>7, <1>8

LEMMA SendHolds ==
  ASSUME TypeInv, ClientInv, CommandInv, DocumentInv, KeepInv, LandInv, Send
  PROVE  CommandInv' /\ DocumentInv' /\ KeepInv' /\ LandInv'
<1>t. /\ client \in Clients /\ disk \in Disks /\ seen \in Histories /\ job \in Jobs
      /\ worker \in [Workers -> Debuggers] /\ game \in Games
  BY DEF TypeInv, DebuggerTypes, BackendTypes
<1>1. PICK w \in Workers :
        /\ IF WorkerRuns THEN w = client.w ELSE job.call.m = "connect" /\ Free(w)
        /\ Deliver(w, seen.calls + 1)
        /\ client' = [client EXCEPT !.w = w]
  BY DEF Send
<1>2. /\ job.ph = "call" /\ UNCHANGED <<game, adapter>>
      /\ job' = [job EXCEPT !.ph = "sent", !.call.life = client.life, !.call.id = seen.calls + 1]
      /\ disk' = [disk EXCEPT !.journal = client.life] \/ disk' = disk
      /\ seen' = [seen EXCEPT !.calls = @ + 1]
  BY DEF Send, Calling
<1>3. /\ job'.ph = "sent" /\ job'.cmd = job.cmd /\ job'.arg = job.arg
      /\ job'.prev = job.prev /\ job'.bad = job.bad
      /\ job'.call.m = job.call.m /\ job'.call.a = job.call.a
  <2>1. job.call \in [m : Methods, a : Prefs \cup Desires, life : AnyLife, id : Nat]
    BY <1>t DEF Jobs, Calls
  <2>. QED
    BY <2>1, <1>2, <1>t DEF Jobs
<1>4. Underway /\ Underway'
  BY <1>2, <1>3 DEF Underway
<1>5. disk'.prefs = disk.prefs /\ seen'.told = seen.told /\ seen'.doubt = seen.doubt
      /\ client'.w = w /\ client'.life = client.life
  BY <1>1, <1>2, <1>t DEF Disks, Histories, Clients
<1>6. Sound' = Sound /\ (\A s : Aim(s)' = Aim(s)) /\ CommandInv' /\ DocumentInv'
  BY <1>2, <1>3, <1>4, <1>5, SameCommand
<1>. DEFINE old == IF worker[w].st = "none" THEN NewWorker ELSE worker[w]
            call == [job.call EXCEPT !.life = client.life, !.id = seen.calls + 1]
<1>7. worker'[w].st = "got" /\ worker'[w].mem = old.mem /\ worker'[w].on = old.on
  <2>1. worker' = [worker EXCEPT ![w] = [old EXCEPT !.st = "got", !.call = call]]
    BY <1>1, <1>t DEF Deliver
  <2>2. old \in Debuggers
    BY <1>t, Constants
  <2>. HIDE DEF old, call
  <2>. QED
    BY <2>1, <2>2, <1>t DEF Debuggers
<1>8. LandInv'
  BY <1>3, <1>5, <1>7 DEF LandInv
<1>9. CASE WorkerRuns
  <2>1. w = client.w /\ old = worker[w]
    BY <1>1, <1>9 DEF WorkerRuns, Running
  <2>2. Linked' => Linked
    BY <2>1, <1>2, <1>5, <1>7, <1>9 DEF Linked, Alive
  <2>. QED
    BY <2>1, <2>2, <1>2, <1>5, <1>6, <1>7, <1>8 DEF KeepInv, Holds
<1>10. CASE ~WorkerRuns
  <2>1. old.on = 0 /\ game.life # 0
    BY <1>1, <1>10, <1>t, Bounds DEF Free, NewWorker, Games, Lives
  <2>2. ~Linked'
    BY <2>1, <1>2, <1>5, <1>7 DEF Linked, Alive
  <2>. QED
    BY <2>2, <1>6, <1>8 DEF KeepInv
<1>. QED
  BY <1>9, <1>10

LEMMA SentHolds ==
  ASSUME TypeInv, ClientInv, CommandInv, DocumentInv, KeepInv, LandInv,
         ClientReply \/ ClientMalformed \/ ClientLoses
  PROVE  CommandInv' /\ DocumentInv' /\ KeepInv' /\ LandInv'
<1>. DEFINE cw == client.w
<1>t. /\ client \in Clients /\ disk \in Disks /\ seen \in Histories
      /\ worker \in [Workers -> Debuggers] /\ game \in Games
  BY DEF TypeInv, DebuggerTypes, BackendTypes
<1>0. job.ph = "sent" /\ cw \in Workers /\ adapter' = adapter
  BY DEF ClientReply, ClientMalformed, ClientLoses, Waiting, ClientInv, SentInv
<1>1. \E out : Back(out)
  BY DEF ClientReply, ClientMalformed, ClientLoses, Settle
<1>2. /\ job'.ph = "back" /\ job'.cmd = job.cmd /\ job'.arg = job.arg
      /\ job'.prev = job.prev /\ job'.bad = job.bad /\ job'.call = job.call
  BY <1>1, BackFields
<1>3. disk'.prefs = disk.prefs /\ seen'.told = seen.told
  BY <1>t DEF ClientReply, ClientMalformed, ClientLoses, Settle, InDoubt, Disks, Histories
<1>4. Underway /\ Underway'
  BY <1>0, <1>2 DEF Underway
<1>5. Sound' = Sound /\ (\A s : Aim(s)' = Aim(s)) /\ CommandInv' /\ DocumentInv'
  BY <1>0, <1>2, <1>3, <1>4, SameCommand
<1>6. client'.w = cw /\ client'.life = client.life
  BY <1>t DEF ClientReply, ClientMalformed, ClientLoses, Settle, Distrusted, Clients
<1>7. CASE ClientMalformed \/ ClientLoses
  <2>1. Killed(cw) \/ (~Running(cw) /\ worker' = worker)
    BY <1>7 DEF ClientMalformed, ClientLoses
  <2>2. Gone(worker[cw]).st = "dead"
    BY <1>0, <1>t DEF Gone, Debuggers
  <2>3. worker'[cw].st \in {"none", "dead"}
    BY <2>1, <2>2, <1>0, <1>t DEF Killed, Running
  <2>4. ~Linked'
    BY <2>3, <1>6 DEF Linked, WorkerRuns, Running
  <2>. QED
    BY <2>4, <1>5 DEF KeepInv, LandInv
<1>8. CASE ClientReply
  <2>. DEFINE out == worker[cw].out
  <2>1. /\ worker[cw].st = "replied" /\ game' = game
        /\ worker' = [worker EXCEPT ![cw] = [worker[cw] EXCEPT !.st = "idle", !.out = Offline, !.call = NoCall]]
        /\ Back(out) \/ Back(Known)
    BY <1>8, <1>0, <1>t DEF ClientReply, Settle
  <2>2. worker'[cw].st = "idle" /\ worker'[cw].mem = worker[cw].mem /\ worker'[cw].on = worker[cw].on
    BY <2>1, <1>0, <1>t DEF Debuggers
  <2>3. job'.out.k = "ok" => job'.out = out
    BY <2>1, BackFields DEF Known, Reply
  <2>4. seen.doubt = 0
    BY <1>0 DEF ClientInv, DoubtInv
  <2>5. Linked' => Linked
    BY <2>1, <2>2, <2>4, <1>6 DEF Linked, WorkerRuns, Running, Alive
  <2>6. KeepInv'
    BY <2>1, <2>2, <2>5, <1>0, <1>5, <1>6 DEF KeepInv, Holds
  <2>7. ASSUME Linked', job.call.m \in Lua, job'.out.k = "ok" PROVE Landed(out) /\ Held(out)
    BY <2>1, <2>3, <2>5, <2>7, <1>0, <1>4 DEF LandInv
  <2>8. LandInv'
    BY <2>1, <2>2, <2>3, <2>7, <1>2, <1>6 DEF LandInv, Landed, Held, Effect
  <2>. QED
    BY <2>6, <2>8, <1>5
<1>. QED
  BY <1>7, <1>8

LEMMA BackendHolds ==
  ASSUME TypeInv, ClientInv, CommandInv, DocumentInv, KeepInv, LandInv, BackendDies \/ BackendStarts
  PROVE  CommandInv' /\ DocumentInv' /\ KeepInv' /\ LandInv'
<1>1. /\ ~adapter'.conn /\ job'.ph = "idle" /\ seen'.told = Settings
  <2>1. seen \in Histories /\ ~NoAdapter.conn /\ Idle.ph = "idle"
    BY DEF TypeInv, BackendTypes, NoAdapter, Idle
  <2>2. CASE BackendDies
    BY <2>1, <2>2 DEF BackendDies, Histories
  <2>3. CASE BackendStarts
    <3>1. job' = job /\ job.ph = "idle"
      BY <2>3 DEF BackendStarts, CommandInv
    <3>2. ~adapter'.conn
      BY <2>3 DEF BackendStarts, NoAdapter
    <3>. QED
      BY <2>1, <2>3, <3>1, <3>2 DEF BackendStarts, Histories
  <2>. QED
    BY <2>2, <2>3
<1>. QED
  BY <1>1 DEF CommandInv, DocumentInv, KeepInv, LandInv, Underway

(* What the adapter does with the answer *)

\* The facts that every return begins with.
LEMMA ReturnFacts ==
  ASSUME TypeInv, ClientInv, CommandInv, NEW ms, Returned(ms), job.cmd \notin {"disconnect", "quit"}
  PROVE  /\ job.ph = "back" /\ Underway /\ game' = game /\ adapter.up
         /\ job.cmd \in Commands /\ job.call.m \in MethodsOf(job.cmd) \cap ms
         /\ job.call.m # "connect" => adapter.conn
         /\ adapter \in Adapters /\ adapter.features \in Prefs /\ job \in Jobs
         /\ job.out \in Replies /\ job.out.desire \in Desires
<1>1. job.ph = "back" /\ game' = game /\ job.call.m \in ms
  BY DEF Returned
<1>2. job \in Jobs /\ adapter \in Adapters
  BY DEF TypeInv, BackendTypes
<1>3. job.out \in Replies /\ job.out.desire \in Desires /\ adapter.features \in Prefs
  BY <1>2 DEF Jobs, Replies, Adapters
<1>. QED
  BY <1>1, <1>2, <1>3 DEF CommandInv, Underway

\* The next call of the chain that connecting and loading a profile are.
LEMMA ChainCalls ==
  ASSUME TypeInv, ClientInv, CommandInv, DocumentInv, KeepInv, UNCHANGED <<game, worker>>, client' = client,
         disk' = disk, job.ph = "back", job.cmd \in Chain, Underway, NEW m \in {"locks", "rarity", "speed", "setspeed"},
         NEW x, NEW a, Call(m, x, job, a), a.conn, a.up, a.features = adapter.features,
         m \notin Clock => x = a.features,
         Linked => \A s \in {"guard", "lock", "rarity"} :
           \/ m = "locks" /\ s = "lock"
           \/ m = "rarity" /\ s = "rarity"
           \/ Holds(s, IF m = "locks" /\ s = "rarity" THEN Heroic ELSE a.features[s])
  PROVE  CommandInv' /\ DocumentInv' /\ KeepInv' /\ LandInv'
<1>0. job \in Jobs
  BY DEF TypeInv, BackendTypes
<1>1. /\ job'.ph = "call" /\ job'.cmd = job.cmd /\ job'.call.m = m /\ job'.call.a = x
      /\ adapter' = a /\ seen' = seen /\ Underway'
  BY <1>0, CallFields
<1>2. CommandInv'
  <2>1. m \in MethodsOf(job.cmd) /\ job.cmd \in Commands
    BY DEF MethodsOf, Chain, Commands
  <2>. QED
    BY <1>1, <2>1 DEF CommandInv, Chain
<1>3. DocumentInv'
  <2>1. adapter.features = disk.prefs
    BY DEF DocumentInv
  <2>. QED
    BY <2>1, <1>1 DEF DocumentInv
<1>4. Settles' = Settings
  BY <1>1 DEF Settles, Touched, Chain
<1>5. Linked /\ adapter'.conn => \A s \in Sound' : Holds(s, Aim(s)')
  <2>1. ASSUME Linked, NEW s \in Sound' PROVE Holds(s, Aim(s)')
    <3>1. s \in Built'
      BY <1>1, <1>4, <2>1 DEF Sound
    <3>2. s \in {"guard", "lock", "rarity"} /\ ~(m = "locks" /\ s = "lock") /\ ~(m = "rarity" /\ s = "rarity")
      BY <1>1, <3>1, SettingNames DEF Built, Chain, Clock
    <3>3. Aim(s)' = IF m = "locks" /\ s = "rarity" THEN Heroic ELSE a.features[s]
      BY <1>1 DEF Aim
    <3>. QED
      BY <2>1, <3>2, <3>3
  <2>. QED
    BY <2>1
<1>. QED
  BY <1>1, <1>2, <1>3, <1>5, TurnHolds DEF Same

\* The chain, step by step: the features, the locks, the rarity.
LEMMA ReconcileHolds ==
  ASSUME TypeInv, ClientInv, CommandInv, DocumentInv, KeepInv, LandInv, Reconcile
  PROVE  CommandInv' /\ DocumentInv' /\ KeepInv' /\ LandInv'
<1>. DEFINE m == job.call.m
            a == IF m = "connect" THEN [adapter EXCEPT !.conn = job.out.conn] ELSE adapter
            d == job.out.desire
            failed == IF job.cmd = "profile" /\ Lost(job.out.k) THEN [adapter EXCEPT !.conn = FALSE] ELSE adapter
<1>0. /\ job.cmd \in Chain /\ Returned({"connect", "configure", "locks", "rarity"})
      /\ UNCHANGED <<game, worker, client, disk>> /\ job.cmd \notin {"disconnect", "quit"}
  BY DEF Reconcile, Chained, Returned, Quiet, Chain
<1>1. /\ job.ph = "back" /\ Underway /\ adapter.up /\ job.cmd \in Commands
      /\ m \in MethodsOf(job.cmd) /\ m \in {"connect", "configure", "locks", "rarity"}
      /\ m # "connect" => adapter.conn
      /\ adapter \in Adapters /\ adapter.features \in Prefs /\ job \in Jobs /\ d \in Desires
  BY <1>0, ReturnFacts
<1>2. a.features = adapter.features /\ a.up = adapter.up /\ (m # "connect" => a.conn)
  BY <1>1 DEF Adapters
<1>3. failed.features = adapter.features /\ failed.up = adapter.up /\ (failed.conn => adapter.conn)
  BY <1>1 DEF Adapters
<1>4. /\ ~Good => Answer(FALSE, failed)
      /\ Good /\ m \in {"connect", "configure"} => NextLocks(a)
      /\ Good /\ m = "locks" => NextRarity(a)
      /\ Good /\ m = "rarity" => NextSpeed(a)
  BY <1>1 DEF Reconcile, ChainFails
<1>. HIDE DEF a, failed
<1>5. CASE ~Good
  BY <1>0, <1>1, <1>3, <1>4, <1>5, FailHolds DEF Same
<1>6. CASE Good /\ ~a.conn
  <2>1. Answer(TRUE, a)
    BY <1>1, <1>2, <1>4, <1>6 DEF NextLocks, NextRarity
  <2>2. adapter.features = disk.prefs
    BY <1>0, <1>1 DEF DocumentInv
  <2>. QED
    BY <2>1, <2>2, <1>0, <1>1, <1>2, <1>6, DoneHolds
<1>7. CASE Good /\ a.conn
  <2>. DEFINE f == adapter.features
  <2>1. \/ m \in {"connect", "configure"} /\ Call("locks", a.features, job, a)
        \/ /\ m \in {"connect", "configure"} => d.lock = f.lock
           /\ m \in {"connect", "configure", "locks"}
           /\ Call("rarity", a.features, job, a)
        \/ /\ m \in {"connect", "configure"} => d.lock = f.lock
           /\ m # "rarity" => f.rarity = Heroic
           /\ Call("speed", Defaults, job, a)
    BY <1>1, <1>2, <1>4, <1>7 DEF NextLocks, NextRarity, NextSpeed
  <2>2. job.call.a = f
    BY <1>0, <1>1 DEF CommandInv, Clock
  <2>3. ASSUME Linked
        PROVE  \A s \in {"guard", "lock", "rarity"} :
                 /\ m \in {"connect", "configure"} =>
                      Holds(s, CASE s = "guard" -> f.guard [] s = "lock" -> d.lock [] OTHER -> Heroic)
                 /\ m = "locks" => Holds(s, IF s = "rarity" THEN Heroic ELSE f[s])
                 /\ m = "rarity" => Holds(s, f[s])
    <3>1. /\ Holds("lock", d.lock) /\ Holds("rarity", d.rarity)
          /\ m \in {"connect", "configure"} => Holds("guard", d.guard)
          /\ \E x \in Desires : d = Called(m, f, x)
          /\ m \in Methods /\ f \in Prefs \cup Desires
      BY <1>1, <1>7, <2>2, <2>3, Heard DEF Good, Lua
    <3>2. PICK x \in Desires : d = Called(m, f, x)
      BY <3>1
    <3>3. /\ m \in {"connect", "configure"} => d.guard = f.guard /\ d.rarity = Heroic
          /\ m = "locks" => d.lock = f.lock
          /\ m = "rarity" => d.rarity = f.rarity
      BY <3>1, <3>2, Effects
    <3>4. m # "connect" => \A s \in Sound : Holds(s, Aim(s))
      BY <1>1, <2>3 DEF KeepInv
    <3>5. CASE m \in {"connect", "configure"}
      BY <3>1, <3>3, <3>5
    <3>6. CASE m = "locks"
      <4>1. {"guard", "rarity"} \subseteq Sound /\ Aim("guard") = f.guard /\ Aim("rarity") = Heroic
        BY <1>0, <1>1, <3>6 DEF Sound, Built, Aim, Clock, Chain
      <4>. QED
        BY <3>1, <3>3, <3>4, <3>6, <4>1
    <3>7. CASE m = "rarity"
      <4>1. {"guard", "lock"} \subseteq Sound /\ Aim("guard") = f.guard /\ Aim("lock") = f.lock
        BY <1>0, <1>1, <3>7 DEF Sound, Built, Aim, Clock, Chain
      <4>. QED
        BY <3>1, <3>3, <3>4, <3>7, <4>1
    <3>. QED
      BY <1>1, <3>5, <3>6, <3>7
  <2>4. CASE m \in {"connect", "configure"} /\ Call("locks", a.features, job, a)
    <3>1. Linked => \A s \in {"guard", "lock", "rarity"} :
            s = "lock" \/ Holds(s, IF s = "rarity" THEN Heroic ELSE a.features[s])
      BY <2>3, <2>4, <1>2
    <3>. QED
      BY <3>1, <2>4, <1>0, <1>1, <1>2, <1>7, ChainCalls DEF Clock
  <2>5. CASE /\ m \in {"connect", "configure"} => d.lock = f.lock
             /\ m \in {"connect", "configure", "locks"}
             /\ Call("rarity", a.features, job, a)
    <3>1. Linked => \A s \in {"guard", "lock", "rarity"} : s = "rarity" \/ Holds(s, a.features[s])
      BY <2>3, <2>5, <1>2
    <3>. QED
      BY <3>1, <2>5, <1>0, <1>1, <1>2, <1>7, ChainCalls DEF Clock
  <2>6. CASE /\ m \in {"connect", "configure"} => d.lock = f.lock
             /\ m # "rarity" => f.rarity = Heroic
             /\ Call("speed", Defaults, job, a)
    <3>1. Linked => \A s \in {"guard", "lock", "rarity"} : Holds(s, a.features[s])
      BY <2>3, <2>6, <1>1, <1>2
    <3>. QED
      BY <3>1, <2>6, <1>0, <1>1, <1>2, <1>7, ChainCalls DEF Clock
  <2>. QED
    BY <2>1, <2>4, <2>5, <2>6
<1>. QED
  BY <1>5, <1>6, <1>7

LEMMA SpeedFailedFields ==
  ASSUME NEW a \in Adapters, NEW out
  PROVE  LET b == SpeedFailed(a, out)
         IN b.features = a.features /\ b.up = a.up /\ (b.conn => a.conn)
  BY DEF SpeedFailed, Adapters

\* The end of the chain: the speed, and then all of the document is in the game.
LEMMA SpeedHolds ==
  ASSUME TypeInv, ClientInv, CommandInv, DocumentInv, KeepInv, ReconcileSpeed
  PROVE  CommandInv' /\ DocumentInv' /\ KeepInv' /\ LandInv'
<1>. DEFINE a == [adapter EXCEPT !.actual = job.out.speed]
            b == [a EXCEPT !.speedError = FALSE]
            failed == [SpeedFailed(adapter, job.out) EXCEPT !.conn = @ /\ ~Lost(job.out.k)]
<1>0. /\ job.cmd \in Chain /\ Returned({"speed", "setspeed"})
      /\ UNCHANGED <<game, worker, client, disk>> /\ job.cmd \notin {"disconnect", "quit"}
  BY DEF ReconcileSpeed, Chained, Returned, Quiet, Chain
<1>1. /\ job.ph = "back" /\ Underway /\ adapter.up /\ job.cmd \in Commands
      /\ job.call.m \in Clock /\ adapter.conn
      /\ adapter \in Adapters /\ adapter.features \in Prefs /\ job \in Jobs /\ job.out \in Replies
  BY <1>0, ReturnFacts DEF Clock
<1>2. a.features = adapter.features /\ a.up = adapter.up /\ a.conn = adapter.conn
  BY <1>1 DEF Adapters
<1>3. b.features = adapter.features /\ b.up = adapter.up /\ b.conn = adapter.conn
  BY <1>1 DEF Adapters
<1>4. failed.features = adapter.features /\ failed.up = adapter.up /\ (failed.conn => adapter.conn)
  <2>1. SpeedFailed(adapter, job.out) \in Adapters
    BY <1>1, SpeedFailedTypes
  <2>. DEFINE g == SpeedFailed(adapter, job.out)
  <2>2. g \in Adapters /\ g.features = adapter.features /\ g.up = adapter.up /\ (g.conn => adapter.conn)
    BY <2>1, <1>1, SpeedFailedFields
  <2>. HIDE DEF g
  <2>3. LET z == [g EXCEPT !.conn = @ /\ ~Lost(job.out.k)]
        IN z.features = g.features /\ z.up = g.up /\ (z.conn => g.conn)
    BY <2>2 DEF Adapters
  <2>. QED
    BY <2>2, <2>3 DEF g
<1>. HIDE DEF a, b, failed
<1>5. \/ Answer(job.cmd = "connect", failed)
      \/ Call("setspeed", a.features, job, a)
      \/ Answer(TRUE, b)
  BY DEF ReconcileSpeed, a, b, failed
<1>6. adapter.features = disk.prefs
  BY <1>0, <1>1 DEF DocumentInv
<1>7. Linked => \A s \in Settings : Holds(s, adapter.features[s])
  <2>1. Built = Settings
    BY <1>0, <1>1 DEF Built, Clock, Chain
  <2>2. Settings \subseteq Sound /\ \A s : Aim(s) = adapter.features[s]
    BY <2>1, <1>1 DEF Sound, Aim, Clock
  <2>. QED
    BY <2>2, <1>1 DEF KeepInv
<1>8. ASSUME NEW x, Answer(TRUE, x), x.features = adapter.features, x.up = adapter.up
      PROVE  CommandInv' /\ DocumentInv' /\ KeepInv' /\ LandInv'
  BY <1>0, <1>1, <1>6, <1>7, <1>8, DoneHolds DEF Same
<1>9. CASE Answer(job.cmd = "connect", failed)
  <2>1. CASE job.cmd = "connect"
    <3>1. Answer(TRUE, failed)
      BY <1>9, <2>1
    <3>. QED
      BY <3>1, <1>4, <1>8
  <2>2. CASE job.cmd # "connect"
    <3>1. Answer(FALSE, failed)
      BY <1>9, <2>2
    <3>. QED
      BY <3>1, <1>0, <1>1, <1>4, FailHolds DEF Same
  <2>. QED
    BY <2>1, <2>2
<1>10. CASE Call("setspeed", a.features, job, a)
  <2>1. Linked => \A s \in {"guard", "lock", "rarity"} : Holds(s, a.features[s])
    BY <1>2, <1>7, SettingNames
  <2>. QED
    BY <2>1, <1>0, <1>1, <1>2, <1>10, ChainCalls DEF Clock
<1>11. CASE Answer(TRUE, b)
  BY <1>3, <1>8, <1>11
<1>. QED
  BY <1>5, <1>9, <1>10, <1>11

LEMMA SpeedSetHolds ==
  ASSUME TypeInv, ClientInv, CommandInv, DocumentInv, KeepInv, SpeedSet
  PROVE  CommandInv' /\ DocumentInv' /\ KeepInv' /\ LandInv'
<1>. DEFINE a == [adapter EXCEPT !.actual = job.out.speed, !.speedError = FALSE]
            failed == SpeedFailed(adapter, job.out)
<1>0. /\ job.cmd = "speed" /\ Returned({"setspeed"})
      /\ UNCHANGED <<game, worker, client, disk>> /\ job.cmd \notin {"disconnect", "quit"}
  BY DEF SpeedSet, Returned, Quiet
<1>1. /\ job.ph = "back" /\ Underway /\ adapter.up /\ job.cmd \in Commands /\ adapter.conn
      /\ adapter \in Adapters /\ adapter.features \in Prefs /\ job \in Jobs
  BY <1>0, ReturnFacts
<1>2. a.features = adapter.features /\ a.up = adapter.up /\ a.conn = adapter.conn
  BY <1>1 DEF Adapters
<1>3. failed.features = adapter.features /\ failed.up = adapter.up /\ (failed.conn => adapter.conn)
  BY <1>1, SpeedFailedFields
<1>. HIDE DEF a, failed
<1>4. Call("status", Defaults, job, a) \/ Answer(FALSE, failed)
  BY DEF SpeedSet, a, failed
<1>5. CASE Call("status", Defaults, job, a)
  <2>1. /\ job'.ph = "call" /\ job'.cmd = "speed" /\ job'.call.m = "status"
        /\ adapter' = a /\ seen' = seen /\ Underway'
    BY <1>0, <1>1, <1>5, CallFields
  <2>2. CommandInv'
    BY <2>1, <1>1, <1>2 DEF CommandInv, Commands, Chain, MethodsOf
  <2>3. DocumentInv'
    BY <2>1, <1>0, <1>1, <1>2 DEF DocumentInv, Chain
  <2>4. Sound' \subseteq Sound /\ \A s : Aim(s)' = Aim(s)
    <3>1. Built' = {} /\ Settles = {}
      BY <2>1, <1>0 DEF Built, Chain, Settles, Touched
    <3>. QED
      BY <3>1, <2>1, <1>0, <1>1, <1>2 DEF Sound, Aim, Chain
  <2>. QED
    BY <2>1, <2>2, <2>3, <2>4, <1>0, <1>1, TurnHolds DEF Same, KeepInv
<1>6. CASE Answer(FALSE, failed)
  BY <1>0, <1>1, <1>3, <1>6, FailHolds DEF Same
<1>. QED
  BY <1>4, <1>5, <1>6

LEMMA ObservedHolds ==
  ASSUME TypeInv, ClientInv, CommandInv, DocumentInv, KeepInv, Observed
  PROVE  CommandInv' /\ DocumentInv' /\ KeepInv' /\ LandInv'
<1>. DEFINE a == IF job.cmd = "status" /\ ~job.out.conn
                   THEN [adapter EXCEPT !.conn = FALSE, !.actual = Unseen, !.speedError = FALSE]
                   ELSE [adapter EXCEPT !.conn = job.out.conn]
<1>0. /\ job.cmd \in {"status", "speed"} /\ Returned({"status"})
      /\ UNCHANGED <<game, worker, client, disk>> /\ job.cmd \notin {"disconnect", "quit"}
  BY DEF Observed, Returned, Quiet
<1>1. /\ job.ph = "back" /\ Underway /\ adapter.up /\ job.cmd \in Commands /\ adapter.conn
      /\ adapter \in Adapters /\ adapter.features \in Prefs /\ job \in Jobs
  BY <1>0, ReturnFacts
<1>2. a.features = adapter.features /\ a.up = adapter.up
  BY <1>1 DEF Adapters
<1>. HIDE DEF a
<1>3. Answer(FALSE, adapter) \/ Answer(TRUE, a)
  BY DEF Observed, a
<1>4. CASE Answer(TRUE, a)
  <2>1. Settles = {} /\ Built = {}
    BY <1>0 DEF Settles, Touched, Built, Chain
  <2>2. Settings \ seen'.told = Sound /\ \A s : Aim(s) = adapter.features[s]
    BY <2>1, <1>0, <1>1, <1>4, AnswerFields DEF Sound, Aim, Chain
  <2>3. \A s \in Settings \ seen'.told : a.features[s] = disk.prefs[s]
    BY <2>1, <2>2, <1>0, <1>1, <1>2 DEF DocumentInv, Sound
  <2>. QED
    BY <2>2, <2>3, <1>0, <1>1, <1>2, <1>4, DoneHolds DEF Same, KeepInv
<1>5. CASE Answer(FALSE, adapter)
  BY <1>0, <1>1, <1>5, FailHolds DEF Same
<1>. QED
  BY <1>3, <1>4, <1>5

LEMMA EditedHolds ==
  ASSUME TypeInv, ClientInv, CommandInv, DocumentInv, KeepInv, LandInv, Edited
  PROVE  CommandInv' /\ DocumentInv' /\ KeepInv' /\ LandInv'
<1>. DEFINE a == [adapter EXCEPT !.conn = job.out.conn]
            d == job.out.desire
            f == adapter.features
<1>0. /\ job.cmd \in {"feature", "rarity"} /\ Returned({"feature", "rarity"})
      /\ UNCHANGED <<game, worker, client, disk>> /\ job.cmd \notin {"disconnect", "quit"}
  BY DEF Edited, Returned, Quiet
<1>1. /\ job.ph = "back" /\ Underway /\ adapter.up /\ job.cmd \in Commands /\ adapter.conn
      /\ adapter \in Adapters /\ f \in Prefs /\ job \in Jobs /\ d \in Desires
      /\ job.call.m \in MethodsOf(job.cmd)
  BY <1>0, ReturnFacts
<1>2. a.features = f /\ a.up = adapter.up
  BY <1>1 DEF Adapters
<1>m. job.call.m = job.cmd /\ job.call.a = job.arg
  BY <1>0, <1>1 DEF MethodsOf, CommandInv
<1>. HIDE DEF a
<1>3. (Good /\ Answer(TRUE, a)) \/ Answer(FALSE, adapter)
  BY DEF Edited, a
<1>4. CASE Good /\ Answer(TRUE, a)
  <2>1. f = disk.prefs
    BY <1>0, <1>1 DEF DocumentInv
  <2>2. ASSUME Linked, NEW s \in Settings \ seen'.told PROVE Holds(s, a.features[s])
    <3>1. /\ Holds("lock", d.lock) /\ Holds("rarity", d.rarity)
          /\ job.cmd = "feature" => Holds("guard", d.guard)
          /\ \E x \in Desires : d = Called(job.cmd, job.arg, x)
          /\ job.cmd \in Methods /\ job.arg \in Prefs \cup Desires
      <4>1. job.call.m \in Lua
        BY <1>0, <1>m DEF Lua
      <4>2. job.out.k = "ok"
        BY <1>4 DEF Good
      <4>. QED
        BY <4>1, <4>2, <1>1, <1>m, <2>2, Heard
    <3>2. PICK x \in Desires : d = Called(job.cmd, job.arg, x)
      BY <3>1
    <3>3. /\ job.cmd = "feature" => d.guard = job.arg.guard /\ (job.arg.guard => d.lock = NoLock)
          /\ job.cmd = "rarity" => d.rarity = job.arg.rarity
      BY <3>1, <3>2, Effects
    <3>4. /\ job.cmd = "feature" => f.guard = job.arg.guard /\ (job.arg.guard => f.lock = NoLock)
          /\ job.cmd = "rarity" => f.rarity = job.arg.rarity
      BY <1>1 DEF CommandInv
    <3>5. CASE s \notin Settles
      <4>1. s \in Sound /\ Aim(s) = f[s]
        BY <3>5, <2>2, <1>0, <1>1, <1>4, AnswerFields DEF Sound, Aim, Chain
      <4>. QED
        BY <4>1, <2>2, <1>1, <1>2 DEF KeepInv
    <3>6. CASE s \in Settles
      <4>1. \/ s = "guard" /\ job.cmd = "feature"
            \/ s = "lock" /\ job.cmd = "feature" /\ job.arg.guard
            \/ s = "rarity" /\ job.cmd = "rarity"
        BY <3>6, <1>0 DEF Settles, Touched
      <4>. QED
        BY <4>1, <3>1, <3>3, <3>4, <1>2
    <3>. QED
      BY <3>5, <3>6
  <2>. QED
    BY <2>1, <2>2, <1>0, <1>1, <1>2, <1>4, DoneHolds DEF Same
<1>5. CASE Answer(FALSE, adapter)
  BY <1>0, <1>1, <1>5, FailHolds DEF Same
<1>. QED
  BY <1>3, <1>4, <1>5

LEMMA CapturedHolds ==
  ASSUME TypeInv, ClientInv, CommandInv, DocumentInv, KeepInv, LandInv, Captured
  PROVE  CommandInv' /\ DocumentInv' /\ KeepInv' /\ LandInv'
<1>. DEFINE d == job.out.desire
            f == adapter.features
            doc == [f EXCEPT !.lock = d.lock]
            a == [adapter EXCEPT !.features = doc, !.conn = job.out.conn]
            b == [adapter EXCEPT !.conn = job.out.conn]
            j == [job EXCEPT !.bad = TRUE]
<1>0. /\ job.cmd \in {"lock", "value"} /\ Returned({"lock", "value"})
      /\ UNCHANGED <<game, worker, client>> /\ job.cmd \notin {"disconnect", "quit"}
  BY DEF Captured, Returned
<1>1. /\ job.ph = "back" /\ Underway /\ adapter.up /\ job.cmd \in Commands /\ adapter.conn
      /\ adapter \in Adapters /\ f \in Prefs /\ job \in Jobs /\ d \in Desires /\ job.call.m \in {"lock", "value"}
  BY <1>0, ReturnFacts
<1>t. disk \in Disks
  BY DEF TypeInv, BackendTypes
<1>2. /\ a.features = doc /\ a.up = adapter.up
      /\ b.features = f /\ b.up = adapter.up
  BY <1>1 DEF Adapters
<1>3. doc.lock = d.lock /\ doc.guard = f.guard /\ doc.rarity = f.rarity
  BY <1>1 DEF Prefs
<1>4. j \in Jobs /\ j.cmd = job.cmd /\ j.prev = job.prev /\ j.arg = job.arg
  BY <1>1 DEF Jobs
<1>. HIDE DEF a, b, j, doc
<1>5. \/ Answer(FALSE, adapter) /\ disk' = disk
      \/ /\ Good /\ job.cmd = "value" /\ job.prev.lock = NoLock
         /\ Answer(TRUE, b) /\ disk' = disk
      \/ disk' = disk /\ Call("locks", job.prev, j, adapter)
      \/ /\ Good /\ ~(job.cmd = "value" /\ job.prev.lock = NoLock)
         /\ Saved(doc) /\ Answer(TRUE, a)
  BY DEF Captured, SaveFails, a, b, j, doc
<1>6. \A s \in Settings \ (seen.told \cup Settles) : s \in Sound /\ Aim(s) = f[s] /\ f[s] = disk.prefs[s]
  BY <1>0, <1>1 DEF Sound, Aim, Chain, DocumentInv
<1>7. CASE Answer(FALSE, adapter) /\ disk' = disk
  BY <1>0, <1>1, <1>7, FailHolds DEF Same
<1>8. CASE /\ Good /\ job.cmd = "value" /\ job.prev.lock = NoLock
           /\ Answer(TRUE, b) /\ disk' = disk
  <2>1. Settles = {}
    <3>1. job.cmd # "feature"
      BY <1>8
    <3>. QED
      BY <1>8, <3>1 DEF Settles
  <2>2. Settings \ seen'.told \subseteq Settings \ (seen.told \cup Settles)
    BY <2>1, <1>8, AnswerFields
  <2>3. disk' = disk /\ b.features = f /\ b.up = adapter.up /\ adapter.up /\ Same /\ UNCHANGED <<game, worker>>
    BY <1>0, <1>1, <1>2, <1>8 DEF Same
  <2>4. \A s \in Settings \ seen'.told : b.features[s] = disk'.prefs[s]
    BY <2>2, <2>3, <1>6
  <2>5. Linked => \A s \in Settings \ seen'.told : Holds(s, b.features[s])
    BY <2>2, <2>3, <1>1, <1>6 DEF KeepInv
  <2>6. Answer(TRUE, b)
    BY <1>8
  <2>. QED
    BY <2>3, <2>4, <2>5, <2>6, <1>1, DoneHolds
<1>9. CASE disk' = disk /\ Call("locks", job.prev, j, adapter)
  <2>1. /\ job'.ph = "call" /\ job'.cmd = job.cmd /\ job'.prev = job.prev /\ job'.arg = job.arg
        /\ job'.call.m = "locks" /\ job'.call.a = job.prev
        /\ adapter' = adapter /\ seen' = seen /\ Underway'
    BY <1>4, <1>9, CallFields
  <2>2. CommandInv'
    BY <2>1, <1>0, <1>1 DEF CommandInv, Chain, MethodsOf
  <2>3. DocumentInv'
    BY <2>1, <1>0, <1>1, <1>9 DEF DocumentInv, Chain
  <2>4. Sound' \subseteq Sound /\ \A s : Aim(s)' = Aim(s)
    <3>1. Built' = {} /\ Settles' = Settles
      BY <2>1, <1>0 DEF Built, Chain, Settles
    <3>. QED
      BY <3>1, <2>1, <1>0, <1>1 DEF Sound, Aim, Chain
  <2>. QED
    BY <2>1, <2>2, <2>3, <2>4, <1>0, <1>1, TurnHolds DEF Same, KeepInv
<1>10. CASE /\ Good /\ ~(job.cmd = "value" /\ job.prev.lock = NoLock)
            /\ Saved(doc) /\ Answer(TRUE, a)
  <2>1. disk'.prefs = doc
    BY <1>10, <1>t DEF Saved, Disks
  <2>2. Settles = {"lock"}
    BY <1>0, <1>10 DEF Settles, Touched
  <2>3. ASSUME Linked, NEW s \in Settings \ seen'.told PROVE Holds(s, doc[s])
    <3>1. CASE s = "lock"
      <4>1. Holds("lock", d.lock)
        <5>1. job.call.m \in Lua /\ job.out.k = "ok"
          BY <1>1, <1>10 DEF Lua, Good
        <5>. QED
          BY <5>1, <1>1, <2>3, Heard
      <4>. QED
        BY <3>1, <4>1, <1>3
    <3>2. CASE s # "lock"
      <4>1. s \in Settings \ (seen.told \cup Settles)
        BY <3>2, <2>2, <2>3, <1>10, AnswerFields
      <4>2. doc[s] = f[s]
        BY <3>2, <2>3, <1>3, SettingNames
      <4>. QED
        BY <4>1, <4>2, <2>3, <1>1, <1>6 DEF KeepInv
    <3>. QED
      BY <3>1, <3>2
  <2>. QED
    BY <2>1, <2>3, <1>0, <1>1, <1>2, <1>10, DoneHolds DEF Same
<1>. QED
  BY <1>5, <1>7, <1>8, <1>9, <1>10

LEMMA TakenBackHolds ==
  ASSUME TypeInv, ClientInv, CommandInv, DocumentInv, KeepInv, LandInv, TakenBack
  PROVE  CommandInv' /\ DocumentInv' /\ KeepInv' /\ LandInv'
<1>. DEFINE d == job.out.desire
            f == adapter.features
<1>0. /\ job.cmd \in {"lock", "value"} /\ Returned({"locks"}) /\ job' = Idle /\ adapter' = adapter
      /\ UNCHANGED <<game, worker, client, disk>> /\ job.cmd \notin {"disconnect", "quit"}
  BY DEF TakenBack, Returned, Quiet
<1>1. /\ job.ph = "back" /\ Underway /\ adapter.up /\ adapter.conn /\ job \in Jobs /\ job.call.m = "locks"
      /\ f \in Prefs /\ d \in Desires
  BY <1>0, ReturnFacts
<1>2. job'.ph = "idle" /\ ~Underway'
  BY <1>0 DEF Idle, Underway
<1>3. /\ seen'.doubt = seen.doubt /\ seen.told \subseteq seen'.told
      /\ Good \/ "lock" \in seen'.told
      /\ seen'.told \subseteq seen.told \cup {"lock"}
  <2>1. seen \in Histories
    BY DEF TypeInv, BackendTypes
  <2>. QED
    BY <2>1 DEF TakenBack, Histories, Good
<1>4. Settles \subseteq {"lock"} /\ Built = {}
  BY <1>0 DEF Settles, Touched, Built, Chain
<1>5. CommandInv' /\ DocumentInv'
  <2>1. \A s \in Settings \ seen.told : f[s] = disk.prefs[s]
    BY <1>0, <1>1 DEF DocumentInv
  <2>. QED
    BY <2>1, <1>0, <1>1, <1>2, <1>3 DEF CommandInv, DocumentInv
<1>6. ASSUME Linked, NEW s \in Sound' PROVE Holds(s, Aim(s)')
  <2>1. s \in Settings \ seen'.told /\ Aim(s)' = f[s]
    BY <1>0, <1>2, <1>6 DEF Sound, Aim
  <2>2. CASE s # "lock" \/ s \notin Settles
    <3>1. s \in Sound /\ Aim(s) = f[s]
      BY <2>1, <2>2, <1>0, <1>1, <1>3, <1>4 DEF Sound, Aim, Chain
    <3>. QED
      BY <3>1, <2>1, <1>1, <1>6 DEF KeepInv
  <2>3. CASE s = "lock"
    <3>1. Good
      BY <2>1, <2>3, <1>3
    <3>2. Holds("lock", d.lock) /\ \E x \in Desires : d = Called("locks", job.call.a, x)
          /\ job.call.a \in Prefs \cup Desires
      <4>1. job.call.m \in Lua /\ job.out.k = "ok"
        BY <3>1, <1>1 DEF Lua, Good
      <4>. QED
        BY <4>1, <1>1, <1>6, Heard
    <3>3. PICK x \in Desires : d = Called("locks", job.call.a, x)
      BY <3>2
    <3>4. d.lock = job.call.a.lock
      <4>1. "locks" \in Methods
        BY DEF Methods
      <4>. QED
        BY <4>1, <3>2, <3>3, Effects
    <3>5. job.call.a = job.prev /\ f.lock = job.prev.lock
      BY <1>0, <1>1 DEF CommandInv
    <3>. QED
      BY <3>2, <3>4, <3>5, <2>1, <2>3
  <2>. QED
    BY <2>2, <2>3
<1>. QED
  BY <1>0, <1>1, <1>2, <1>3, <1>5, <1>6, TurnHolds DEF Same

LEMMA DisabledHolds ==
  ASSUME TypeInv, ClientInv, CommandInv, DocumentInv, KeepInv, LandInv, Disabled
  PROVE  CommandInv' /\ DocumentInv' /\ KeepInv' /\ LandInv'
<1>. DEFINE f == adapter.features
            conn == adapter.conn /\ (Good \/ client.conn)
            a == [adapter EXCEPT !.conn = conn, !.actual = IF conn THEN @ ELSE Unseen]
            j == [job EXCEPT !.bad = @ \/ ~Good]
            b == [adapter EXCEPT !.actual = job.out.speed, !.speedError = FALSE]
            failed == SpeedFailed(adapter, job.out)
<1>0. /\ job.cmd = "off" /\ Returned({"off", "setspeed"})
      /\ UNCHANGED <<game, worker, client, disk>> /\ job.cmd \notin {"disconnect", "quit"}
  BY DEF Disabled, Returned, Quiet
<1>1. /\ job.ph = "back" /\ Underway /\ adapter.up /\ job.cmd \in Commands /\ adapter.conn
      /\ adapter \in Adapters /\ f \in Prefs /\ job \in Jobs /\ job.call.m \in {"off", "setspeed"}
  BY <1>0, ReturnFacts
<1>2. /\ a.features = f /\ a.up = adapter.up /\ a.conn = conn
      /\ b.features = f /\ b.up = adapter.up /\ b.conn = adapter.conn
  BY <1>1 DEF Adapters
<1>3. failed.features = f /\ failed.up = adapter.up /\ (failed.conn => adapter.conn)
  BY <1>1, SpeedFailedFields
<1>4. j \in Jobs /\ j.cmd = job.cmd /\ (~j.bad => ~job.bad /\ Good)
  BY <1>1 DEF Jobs
<1>5. f = Defaults /\ (~job.bad => f = disk.prefs)
  BY <1>0, <1>1 DEF CommandInv, DocumentInv
<1>6. Touched(job.cmd) = Settings
  BY <1>0 DEF Touched
<1>. HIDE DEF a, b, j, failed
<1>7. \/ job.call.m = "off" /\ conn /\ Call("setspeed", Defaults, j, a)
      \/ job.call.m = "setspeed" /\ Good /\ ~job.bad /\ Answer(TRUE, b)
      \/ Answer(FALSE, a) \/ Answer(FALSE, b) \/ Answer(FALSE, failed)
  BY <1>1 DEF Disabled, a, b, j, failed
<1>8. CASE Answer(FALSE, a) \/ Answer(FALSE, b) \/ Answer(FALSE, failed)
  BY <1>0, <1>1, <1>2, <1>3, <1>6, <1>8, FailHolds
<1>9. CASE job.call.m = "off" /\ conn /\ Call("setspeed", Defaults, j, a)
  <2>1. /\ job'.ph = "call" /\ job'.cmd = "off" /\ job'.bad = j.bad /\ job'.call.m = "setspeed"
        /\ adapter' = a /\ seen' = seen /\ Underway'
    BY <1>0, <1>4, <1>9, CallFields
  <2>2. CommandInv'
    BY <2>1, <1>1, <1>2, <1>5, <1>9 DEF CommandInv, Commands, Chain, MethodsOf
  <2>3. DocumentInv'
    BY <2>1, <1>0, <1>2, <1>4, <1>5 DEF DocumentInv, Chain
  <2>4. ASSUME Linked, NEW s \in Sound' PROVE Holds(s, Aim(s)')
    <3>1. Settles' = Settings
      BY <2>1 DEF Settles, Touched
    <3>2. ~j.bad /\ s \in Settings
      BY <2>1, <2>4, <3>1 DEF Sound, Built, Chain
    <3>3. Aim(s)' = f[s]
      BY <2>1, <1>2 DEF Aim, Chain
    <3>. DEFINE d == job.out.desire
    <3>4. /\ Holds("lock", d.lock) /\ Holds("rarity", d.rarity) /\ Holds("guard", d.guard)
          /\ \E x \in Desires : d = Called("off", job.call.a, x)
          /\ job.call.a \in Prefs \cup Desires
      <4>1. job.call.m \in Lua /\ job.out.k = "ok"
        BY <3>2, <1>4, <1>9 DEF Lua, Good
      <4>. QED
        BY <4>1, <1>1, <1>9, <2>4, Heard
    <3>5. d = Neutral
      <4>1. "off" \in Methods
        BY DEF Methods
      <4>2. PICK x \in Desires : d = Called("off", job.call.a, x)
        BY <3>4
      <4>. QED
        BY <4>1, <4>2, <3>4, Effects
    <3>6. d.guard = f.guard /\ d.lock = f.lock /\ d.rarity = f.rarity
      BY <3>5, <1>5 DEF Neutral, Defaults
    <3>. QED
      BY <3>2, <3>3, <3>4, <3>6, SettingNames
  <2>. QED
    BY <2>1, <2>2, <2>3, <2>4, <1>0, <1>1, TurnHolds DEF Same
<1>10. CASE job.call.m = "setspeed" /\ Good /\ ~job.bad /\ Answer(TRUE, b)
  <2>1. Built = Settings
    BY <1>0, <1>10 DEF Built, Chain
  <2>2. Settings \subseteq Sound /\ \A s : Aim(s) = f[s]
    BY <2>1, <1>0, <1>1 DEF Sound, Aim, Chain
  <2>. QED
    BY <2>2, <1>0, <1>1, <1>2, <1>5, <1>10, DoneHolds DEF Same, KeepInv
<1>. QED
  BY <1>7, <1>8, <1>9, <1>10

LEMMA LeftHolds ==
  ASSUME TypeInv, ClientInv, CommandInv, DocumentInv, KeepInv, Left
  PROVE  CommandInv' /\ DocumentInv' /\ KeepInv' /\ LandInv'
<1>. DEFINE f == adapter.features
            gone == [adapter EXCEPT !.conn = FALSE, !.actual = 1, !.speedError = FALSE]
            failed == SpeedFailed(adapter, job.out)
<1>t. adapter \in Adapters
  BY DEF TypeInv, BackendTypes
<1>0. /\ job.cmd \in {"disconnect", "quit"} /\ job.ph = "back" /\ Underway /\ disk' = disk /\ adapter.up
  BY DEF Left, Underway, CommandInv
<1>1. \A s \in Settings \ seen.told : f[s] = disk.prefs[s]
  BY <1>0 DEF DocumentInv
<1>2. /\ gone.features = f /\ ~gone.conn
      /\ failed.features = f /\ failed.up = adapter.up /\ (failed.conn => adapter.conn)
      /\ ~NoAdapter.up /\ ~NoAdapter.conn
  BY <1>t, AdapterFields, SpeedFailedFields DEF NoAdapter
<1>. HIDE DEF gone, failed
<1>3. \/ Answer(Good, NoAdapter)
      \/ Answer(TRUE, gone)
      \/ Answer(FALSE, failed) /\ UNCHANGED <<game, worker, client>>
  BY DEF Left, gone, failed
<1>4. CASE Answer(FALSE, failed) /\ UNCHANGED <<game, worker, client>>
  BY <1>0, <1>2, <1>4, FailHolds DEF Same
<1>5. CASE Answer(Good, NoAdapter)
  <2>1. Good \in BOOLEAN
    BY DEF Good
  <2>2. job'.ph = "idle" /\ adapter' = NoAdapter
    BY <2>1, <1>5, AnswerFields
  <2>3. CommandInv' /\ DocumentInv'
    BY <2>1, <1>2, <1>5, AnswerKeeps
  <2>. QED
    BY <2>2, <2>3, <1>2 DEF KeepInv, LandInv, Underway
<1>6. CASE Answer(TRUE, gone)
  <2>1. job'.ph = "idle" /\ adapter' = gone /\ seen'.told = seen.told
    BY <1>2, <1>6, AnswerFields
  <2>2. CommandInv' /\ DocumentInv'
    BY <2>1, <1>0, <1>1, <1>2, <1>6, AnswerKeeps
  <2>. QED
    BY <2>1, <2>2, <1>2 DEF KeepInv, LandInv, Underway
<1>. QED
  BY <1>3, <1>4, <1>5, <1>6

LEMMA BackedKept ==
  ASSUME TypeInv, ClientInv, BackedInv, [Next]_vars
  PROVE  BackedInv'
<1>. USE DEF BackedInv
<1>1. CASE UNCHANGED vars
  BY <1>1 DEF vars, CommandInv, DocumentInv, KeepInv, LandInv, Sound, Aim, Settles, Built, Underway,
    Holds, Landed, Held, Linked, WorkerRuns, Running, Alive
<1>2. CASE UserCommand
  <2>1. \E cmd, arg : Begin(cmd, arg)
    BY <1>2 DEF UserCommand
  <2>. QED
    BY <2>1, BeginHolds
<1>3. CASE Backend
  <2>1. CASE Connect \/ Status \/ Edit \/ Capture \/ DisableAll \/ LoadProfile \/ Leave
    BY <2>1, ConnectHolds, StatusHolds, EditHolds, CaptureHolds, WholeHolds
  <2>2. CASE Refuse \/ NotNoted \/ NotSent \/ Send \/ ClientReply \/ ClientMalformed \/ ClientLoses
    BY <2>2, UnsentHolds, SendHolds, SentHolds
  <2>3. CASE Reconcile \/ ReconcileSpeed \/ SpeedSet \/ Observed \/ Edited
    BY <2>3, ReconcileHolds, SpeedHolds, SpeedSetHolds, ObservedHolds, EditedHolds
  <2>4. CASE Captured \/ TakenBack \/ Disabled \/ Left
    BY <2>4, CapturedHolds, TakenBackHolds, DisabledHolds, LeftHolds
  <2>5. CASE BackendDies \/ BackendStarts
    BY <2>5, BackendHolds
  <2>. QED
    BY <1>3, <2>1, <2>2, <2>3, <2>4, <2>5 DEF Backend
<1>4. CASE Outside
  BY <1>4, OutsideHolds
<1>. QED
  BY <1>1, <1>2, <1>3, <1>4 DEF Next

\* Between commands a connected resident holds every durable setting the user
\* has not been told an error of (adapter.py connect, load_profile, the edits
\* and their compensation, lldb_worker.py's replay of what was acknowledged).
THEOREM BackedAlways == Spec => []Backed
<1>1. ASSUME Init PROVE BackedInv
  <2>1. adapter.up /\ ~adapter.conn /\ job.ph = "idle" /\ seen.told = Settings
    BY <1>1 DEF Init, NoAdapter, Idle
  <2>. QED
    BY <2>1 DEF BackedInv, CommandInv, DocumentInv, KeepInv, LandInv, Underway
<1>2. TypeInv /\ ClientInv /\ BackedInv /\ [Next]_vars => BackedInv'
  BY BackedKept
<1>3. ASSUME TypeInv, ClientInv, BackedInv PROVE Backed
  <2>1. SUFFICES ASSUME Settled, game.res.here = "ours", NEW s \in Settings \ seen.told
                 PROVE  game.res.desire[s] = disk.prefs[s]
    BY DEF Backed
  <2>2. seen.doubt = 0
    BY <1>3, <2>1 DEF ClientInv, DoubtInv, Closed, Apart, Settled
  <2>3. Linked /\ adapter.conn /\ ~Underway /\ adapter.up
    BY <1>3, <2>1, <2>2 DEF Linked, Settled, Underway, BackedInv, CommandInv
  <2>4. s \in Sound /\ Aim(s) = adapter.features[s]
    BY <2>1, <2>3 DEF Sound, Aim
  <2>5. adapter.features[s] = disk.prefs[s]
    BY <1>3, <2>1, <2>3 DEF BackedInv, DocumentInv
  <2>. QED
    BY <1>3, <2>1, <2>3, <2>4, <2>5 DEF BackedInv, KeepInv, Holds
<1>. QED
  BY <1>1, <1>2, <1>3, Invariants, PTL DEF Spec

=============================================================================
