---------------------------- MODULE CommandMailbox ----------------------------
(***************************************************************************)
(* The single-flight command mailbox of Hades II: one shared slot for each *)
(* attachment lease, the worker that publishes into it, and the pump that  *)
(* the game's main thread runs once a frame (native/MailboxProtocol.h and  *)
(* CommandMailbox.c, as Backend/games/hades2/mailbox.py and                *)
(* native_mailbox.py use them).                                            *)
(*                                                                         *)
(* The control word of a slot is its state and three flags; every action   *)
(* below that changes one stands for one compare-and-swap or fetch-or.     *)
(***************************************************************************)
EXTENDS Integers, Sequences, FiniteSets

CONSTANTS
  Commands,      \* resident commands, each with its own requestId
  NoCommand,
  MaxLeases,     \* bound on the mailboxes made in one game process
  MaxReloads     \* bound on the Lua generations of the game

ASSUME MailboxAssumption ==
  NoCommand \notin Commands /\ MaxLeases \in Nat /\ MaxReloads \in Nat

Leases == 1..MaxLeases
NoLease == 0

VARIABLES
  slot,     \* the shared mapping of each lease
  active,   \* active_lease: the lease the game serves
  pump,     \* where the game's main thread is in mgtCommandMailboxPump
  found,    \* what the evaluated source gave the pump
  tainted,  \* process_tainted: the game refuses every later lease
  gameUp, lua, \* is the game alive, and its Lua generation
  booted,   \* the runtime table is loaded in that generation
  ran       \* history: commands that changed the game, in that order

gameVars == <<active, pump, found, tainted, gameUp, lua, booted, ran>>

\* What a receipt says.  "ok", "handoff" (the menu is asked to close first) and
\* "unsure" (the payload names an earlier unknown action) are SUCCESS; "refused",
\* "gone" (GENERATION_CHANGED), "nil" (the runtime table is missing) and "marker"
\* (MGT_OUTCOME_UNKNOWN) are ERROR.
Success  == {"ok", "handoff", "unsure"}

NewSlot == [state |-> "idle", closed |-> FALSE, poisoned |-> FALSE, read |-> FALSE,
            cmd |-> NoCommand, boot |-> FALSE, outcome |-> "unknown", gen |-> 0]

MailboxInit ==
  /\ slot = [l \in Leases |-> [NewSlot EXCEPT !.state = "absent"]]
  /\ active = NoLease /\ pump = "idle" /\ found = "unknown"
  /\ tainted = FALSE /\ gameUp = TRUE /\ lua = 0 /\ booted = FALSE
  /\ ran = <<>>

-----------------------------------------------------------------------------
(* Transitions of one slot, by either side. *)

Flagged(s) == s.closed \/ s.poisoned

\* Only the owner of the state reaches the terminal one; it keeps the flags.
Terminal(s, outcome) ==
  [s EXCEPT !.state = "complete", !.outcome = outcome, !.read = FALSE]

\* Close or poison: the flag and the claim share a word, so that a request not yet
\* claimed is cancelled for good, and one being executed keeps its receipt.
Invalidate(s, poison) ==
  LET flagged == [s EXCEPT !.closed = TRUE, !.poisoned = @ \/ poison]
  IN  IF s.state = "posted" THEN Terminal(flagged, "cancelled") ELSE flagged

CanSubmit(s) == s.state = "idle" /\ ~Flagged(s)
Reserve(s, c, boot) ==
  [s EXCEPT !.state = "reserving", !.cmd = c, !.boot = boot, !.outcome = "unknown"]
Post(s)      == [s EXCEPT !.state = "posted"]
CanCancel(s) == s.state = "posted" /\ ~Flagged(s)
Read(s)      == [s EXCEPT !.read = TRUE]
CanAck(s)    == s.state = "complete" /\ s.read
Ack(s)       == [s EXCEPT !.state = "idle", !.read = FALSE]

-----------------------------------------------------------------------------
(* The game's main thread. *)

Serving == gameUp /\ active # NoLease

\* A frame that finds the lease poisoned taints the game process for good.
PumpTaint ==
  /\ Serving /\ pump = "idle" /\ slot[active].poisoned /\ ~tainted
  /\ tainted' = TRUE
  /\ UNCHANGED <<slot, active, pump, found, gameUp, lua, booted, ran>>

\* A frame that finds a request: its producer must still be there.
PumpCheck(producerAlive) ==
  /\ Serving /\ pump = "idle" /\ ~tainted
  /\ slot[active].state = "posted" /\ ~Flagged(slot[active])
  /\ IF producerAlive
     THEN pump' = "checked" /\ UNCHANGED slot
     ELSE slot' = [slot EXCEPT ![active] = Invalidate(@, FALSE)] /\ UNCHANGED pump
  /\ UNCHANGED <<active, found, tainted, gameUp, lua, booted, ran>>

\* Mutant: the pump stores EXECUTING without comparing the word it checked.
PumpClaimBlind ==
  /\ Serving /\ pump = "checked"
  /\ slot' = [slot EXCEPT ![active].state = "executing"]
  /\ pump' = "claimed"
  /\ UNCHANGED <<active, found, tainted, gameUp, lua, booted, ran>>

\* The claim loses to a cancellation, a close or a poison that came first.
PumpClaim ==
  /\ Serving /\ pump = "checked"
  /\ IF CanCancel(slot[active])
     THEN /\ slot' = [slot EXCEPT ![active].state = "executing"]
          /\ pump' = "claimed"
     ELSE pump' = "idle" /\ UNCHANGED slot
  /\ UNCHANGED <<active, found, tainted, gameUp, lua, booted, ran>>

\* What the source does in this generation: without the runtime it was not sent
\* with, it fails before it changes anything; an error of Lua changes nothing
\* unless it carries the marker; only "handoff" succeeds without the action.
Effects(s) ==
  IF s.boot \/ booted
  THEN {<<o, TRUE>> : o \in {"ok", "unsure", "marker", "unknown"}}
       \cup {<<"handoff", FALSE>>, <<"refused", FALSE>>}
  ELSE {<<"nil", FALSE>>}

PumpRun ==
  /\ Serving /\ pump = "claimed"
  /\ pump' = "evaluated"
  /\ IF slot[active].gen # lua
     THEN found' = "gone" /\ UNCHANGED <<ran, booted>>
     ELSE \E e \in Effects(slot[active]) :
            /\ found' = e[1]
            /\ ran' = IF e[2] THEN Append(ran, slot[active].cmd) ELSE ran
            /\ booted' = (booted \/ slot[active].boot)
  /\ UNCHANGED <<slot, active, tainted, gameUp, lua>>

\* The receipt.  An unknown completion poisons the lease, and a lease poisoned
\* while the source ran taints the process; a changed generation closes the lease.
PumpFinish ==
  /\ Serving /\ pump = "evaluated"
  /\ LET s == Terminal(slot[active], found) IN
       /\ slot' = [slot EXCEPT ![active] =
                     IF found = "unknown" THEN Invalidate(s, TRUE)
                     ELSE IF s.gen # lua THEN Invalidate(s, FALSE) ELSE s]
       /\ tainted' = (tainted \/ found = "unknown" \/ s.poisoned)
  /\ pump' = "idle"
  /\ UNCHANGED <<active, found, gameUp, lua, booted, ran>>

LuaReload ==
  /\ gameUp /\ pump = "idle" /\ lua < MaxReloads
  /\ lua' = lua + 1 /\ booted' = FALSE
  /\ UNCHANGED <<slot, active, pump, found, tainted, gameUp, ran>>

GameExit ==
  /\ gameUp /\ gameUp' = FALSE
  /\ UNCHANGED <<slot, active, pump, found, tainted, lua, booted, ran>>

\* A frame that finds a flag and changes nothing is left out.
Game(producerAlive) ==
  \/ PumpTaint \/ PumpCheck(producerAlive) \/ PumpClaim \/ PumpRun \/ PumpFinish
  \/ LuaReload \/ GameExit

-----------------------------------------------------------------------------
(* Installation, on the game's main thread at a debugger boundary. *)

\* Mutant: any closed lease is retired, whatever its receipt says.
RetireClosed(producerAlive) ==
  IF tainted THEN "restart"
  ELSE IF active = NoLease \/ slot[active].closed THEN "ok"
  ELSE IF slot[active].poisoned THEN "restart"
  ELSE IF producerAlive THEN "refused" ELSE "ok"

\* canRetireLease: what the game says of the lease it serves.  A receipt that was
\* not acknowledged stays evidence unless it proves that nothing was evaluated.
Retire(producerAlive) ==
  LET s == slot[active] IN
  IF tainted THEN "restart"
  ELSE IF active = NoLease THEN "ok"
  ELSE IF s.poisoned THEN "restart"
  ELSE IF ~s.closed /\ producerAlive THEN "refused"
  ELSE IF s.state = "idle" \/ (s.state = "complete" /\ s.outcome \in {"cancelled", "gone"})
       THEN "ok"
  ELSE "restart"

\* The new lease is served from the next frame on; the old one is closed.
Install(l) ==
  /\ active' = l
  /\ slot' = [k \in Leases |->
                IF k = l THEN [slot[l] EXCEPT !.gen = lua]
                ELSE IF k = active THEN Invalidate(slot[k], FALSE) ELSE slot[k]]
================================================================================
