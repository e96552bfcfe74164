------------------------------ MODULE CommandPath ------------------------------
(***************************************************************************)
(* A resident command from the backend's ResidentSession to the game and   *)
(* back: the session (resident_session.py) and its transport facade        *)
(* (transport_client.py, over core/sidecar.py) in the main process; the    *)
(* LLDB worker (lldb_worker.py, transport.py, mailbox.py) in a process of  *)
(* its own; the slot and the game's pump of CommandMailbox.  Workers die,  *)
(* replies are lost or come too late, the game reloads its Lua state or    *)
(* exits, and the main process dies and leaves a worker behind.            *)
(***************************************************************************)
EXTENDS CommandMailbox

CONSTANTS
  Statuses,     \* the status commands; the others are mutations
  MaxWorkers,   \* bound on the LLDB workers started
  MaxHandoffs,  \* bound on the handoffs of one command (0.75 s of the code)
  MaxLosses     \* bound on the deaths of workers and of the main process

ASSUME PathAssumption ==
  Statuses \subseteq Commands /\ MaxWorkers \in Nat /\ MaxHandoffs \in Nat /\ MaxLosses \in Nat

Workers == 1..MaxWorkers
NoWorker == 0

VARIABLES
  worker,   \* the LLDB workers
  rpc,      \* the request each worker was sent, and its reply with its state
  main,     \* the session and its transport facade
  call,     \* the command in hand
  result,   \* how each command was answered
  accepted, \* history: commands whose result the session decoded and accepted
  losses

mainVars == <<main, call, result, accepted, losses>>
vars == <<slot, gameVars, worker, rpc, mainVars>>

\* box, with pending, is the Hades2CommandMailbox the transport holds.
NewWorker == [state |-> "idle", attached |-> FALSE, tainted |-> FALSE,
              box |-> NoLease, pending |-> FALSE]

NoRpc == [method |-> "none", cmd |-> NoCommand, boot |-> FALSE, reply |-> "none",
          pid |-> FALSE, tainted |-> FALSE]

\* fatal is _terminal_error, lostAttach _initial_attach_reply_lost, broken the
\* session's _connection_error, ready its _generation_ready.
NewMain == [worker |-> NoWorker, fatal |-> "none", lostAttach |-> FALSE, pid |-> FALSE,
            tainted |-> FALSE, ready |-> FALSE, broken |-> FALSE]

NoCall == [cmd |-> NoCommand, stage |-> "none", retried |-> FALSE, handoffs |-> 0]

Init ==
  /\ MailboxInit
  /\ worker = [w \in Workers |-> [NewWorker EXCEPT !.state = "unborn"]]
  /\ rpc = [w \in Workers |-> NoRpc]
  /\ main = NewMain /\ call = NoCall
  /\ result = [c \in Commands |-> "none"] /\ accepted = {} /\ losses = 0

Up(w) == worker[w].state \notin {"unborn", "dead"}
ProducerAlive == \E w \in Workers : Up(w) /\ worker[w].box = active

-----------------------------------------------------------------------------
(* The worker. *)

\* The transport is tainted together with the mailbox it holds.
Tainted(w) == [worker[w] EXCEPT !.tainted = TRUE]
PoisonSlot(w) ==
  IF worker[w].box = NoLease THEN slot
  ELSE [slot EXCEPT ![worker[w].box] = Invalidate(@, TRUE)]
CloseSlot(w) ==
  IF worker[w].box = NoLease THEN slot
  ELSE [slot EXCEPT ![worker[w].box] = Invalidate(@, FALSE)]
Unboxed(r) == [r EXCEPT !.box = NoLease, !.pending = FALSE]

Released(r) == Unboxed([r EXCEPT !.attached = FALSE, !.tainted = FALSE])

Requested(w, method) ==
  /\ worker[w].state = "idle" /\ rpc[w].method = method /\ rpc[w].reply = "none"

\* One reply, with the state that goes with it: the worker is idle again.
Reply(w, r, answer) ==
  /\ worker' = [worker EXCEPT ![w] = [r EXCEPT !.state = "idle"]]
  /\ rpc' = [rpc EXCEPT ![w].reply = answer, ![w].pid = r.attached,
                        ![w].tainted = r.tainted]
  /\ UNCHANGED mainVars

Goto(w, state) ==
  /\ worker' = [worker EXCEPT ![w].state = state]
  /\ UNCHANGED <<rpc, mainVars>>

\* attach: a live attachment is reused, macOS gives the process to one debugger.
\* A failure after the debugger has the process ends in detach(), which may fail
\* itself; a process that then cannot be resumed stays attached as well.
WorkerAttach(w) ==
  /\ Requested(w, "attach")
  /\ IF worker[w].attached /\ gameUp
     THEN Reply(w, worker[w], "ok") /\ UNCHANGED slot
     ELSE LET left == IF worker[w].attached THEN Released(worker[w]) ELSE worker[w]
          IN /\ slot' = CloseSlot(w)
             /\ \/ /\ gameUp /\ \A v \in Workers \ {w} : Up(v) => ~worker[v].attached
                   /\ \/ \E answer \in {"ok", "failed"} :
                           Reply(w, [left EXCEPT !.attached = TRUE, !.tainted = FALSE], answer)
                      \/ Reply(w, Released(left), "failed")
                \/ Reply(w, left, "failed")
  /\ UNCHANGED gameVars

\* detach closes the mailbox first; stopping or releasing the game may then fail,
\* and only a detach that succeeds forgets the taint.
WorkerDetach(w) ==
  /\ Requested(w, "detach")
  /\ slot' = CloseSlot(w)
  /\ \/ Reply(w, Released(worker[w]), "ok")
     \/ worker[w].attached /\ gameUp /\ Reply(w, Unboxed(worker[w]), "failed")
  /\ UNCHANGED gameVars

WorkerTaint(w) ==
  /\ Requested(w, "taint")
  /\ slot' = PoisonSlot(w) /\ Reply(w, Tainted(w), "ok")
  /\ UNCHANGED gameVars

\* acknowledge_result: releases the slot of the last accepted result.
WorkerAcknowledge(w) ==
  /\ Requested(w, "acknowledge")
  /\ LET b == worker[w].box IN
     IF b = NoLease \/ ~worker[w].pending
     THEN Reply(w, worker[w], "ok") /\ UNCHANGED slot
     ELSE IF CanAck(slot[b])
     THEN /\ slot' = [slot EXCEPT ![b] = Ack(@)]
          /\ Reply(w, [worker[w] EXCEPT !.pending = FALSE], "ok")
     ELSE slot' = PoisonSlot(w) /\ Reply(w, Tainted(w), "failed")
  /\ UNCHANGED gameVars

\* _execute_mailbox before publication: what it refuses, and the lazy mailbox.
WorkerExecute(w) ==
  /\ Requested(w, "execute")
  /\ LET r == worker[w] IN
     IF r.tainted \/ ~r.attached \/ ~gameUp \/ r.pending
     THEN Reply(w, r, "notRun") /\ UNCHANGED slot
     ELSE IF r.box # NoLease THEN Goto(w, "submit") /\ UNCHANGED slot
     ELSE \E l \in Leases :
            /\ slot[l].state = "absent" /\ \A k \in 1..(l - 1) : slot[k].state # "absent"
            /\ slot' = [slot EXCEPT ![l] = NewSlot]
            /\ worker' = [worker EXCEPT ![w].box = l, ![w].state = "install"]
            /\ UNCHANGED <<rpc, mainVars>>
  /\ UNCHANGED gameVars

\* boundary: the debugger stops the game where its update begins, never inside the
\* pump; a stop elsewhere, a game that is gone or a deadline ends in an error.
Boundary == gameUp /\ pump = "idle"

\* The game accepted the mailbox, and the boundary was released.
WorkerInstalled(w) ==
  /\ worker[w].state = "install" /\ Boundary
  /\ Retire(ProducerAlive) = "ok"
  /\ Install(worker[w].box) /\ Goto(w, "submit")
  /\ UNCHANGED <<pump, found, tainted, gameUp, lua, booted, ran>>

\* Every other end of an installation closes the mailbox and drops it.  When the
\* game says restart, the evaluation did not return or the boundary could not be
\* released, it is poisoned and the transport tainted first; an evaluation that
\* did not return may have installed it.
WorkerNotInstalled(w) ==
  /\ worker[w].state = "install"
  /\ LET b == worker[w].box
         free == Boundary
         answer == Retire(ProducerAlive)
         drop(poison) == [slot EXCEPT ![b] = Invalidate(@, poison)]
         r(poison) == Unboxed([worker[w] EXCEPT !.tainted = @ \/ poison])
     IN \/ /\ ~free \/ answer # "restart"
           /\ \E unsure \in BOOLEAN : slot' = drop(unsure) /\ Reply(w, r(unsure), "notRun")
           /\ UNCHANGED <<active, tainted>>
        \/ /\ free /\ answer = "restart"
           /\ slot' = IF active # NoLease
                      THEN [drop(TRUE) EXCEPT ![active] =
                              IF tainted THEN @ ELSE Invalidate(@, TRUE)]
                      ELSE drop(TRUE)
           /\ tainted' = TRUE /\ UNCHANGED active
           /\ Reply(w, r(TRUE), "notRun")
        \/ /\ free /\ answer = "ok"
           /\ active' = b
           /\ slot' = [k \in Leases |->
                         IF k = b THEN [Invalidate(slot[k], TRUE) EXCEPT !.gen = lua]
                         ELSE IF k = active THEN Invalidate(slot[k], FALSE) ELSE slot[k]]
           /\ Reply(w, r(TRUE), "notRun")
           /\ UNCHANGED tainted
  /\ UNCHANGED <<pump, found, gameUp, lua, booted, ran>>

\* Publication in two steps of the shared word: the source is copied between them.
WorkerReserve(w) ==
  /\ worker[w].state = "submit"
  /\ LET b == worker[w].box IN
     IF CanSubmit(slot[b])
     THEN /\ slot' = [slot EXCEPT ![b] = Reserve(@, rpc[w].cmd, rpc[w].boot)]
          /\ Goto(w, "reserved")
     ELSE IF slot[b].poisoned
     THEN slot' = PoisonSlot(w) /\ Reply(w, Tainted(w), "unknown")
     ELSE UNCHANGED slot /\ Reply(w, worker[w], "notRun")
  /\ UNCHANGED gameVars

WorkerPost(w) ==
  /\ worker[w].state = "reserved"
  /\ slot' = [slot EXCEPT ![worker[w].box] = Post(@)]
  /\ Goto(w, "wait")
  /\ UNCHANGED gameVars

\* _read and _finish: a success stays pending until the session accepts it; an
\* error is acknowledged here, except one that leaves the outcome unknown; a
\* changed generation drops the mailbox.
WorkerFinish(w) ==
  /\ worker[w].state \in {"wait", "late"}
  /\ LET b == worker[w].box
         s == slot[b]
         acked == [slot EXCEPT ![b] = Ack(Read(@))]
     IN
     /\ s.state = "complete"
     /\ \/ /\ s.outcome \in {"unknown", "marker"}
           /\ slot' = [slot EXCEPT ![b] = Invalidate(Read(@), TRUE)]
           /\ Reply(w, Tainted(w), "unknown")
        \/ /\ s.outcome \in {"cancelled", "refused", "nil"}
           /\ slot' = acked
           /\ Reply(w, worker[w], IF s.outcome = "nil" THEN "nil" ELSE "notRun")
        \/ /\ s.outcome = "gone"
           /\ slot' = [acked EXCEPT ![b] = Invalidate(@, FALSE)]
           /\ Reply(w, Unboxed(worker[w]), "gone")
        \/ /\ s.outcome \in Success
           /\ slot' = [slot EXCEPT ![b] = Read(@)]
           /\ Reply(w, [worker[w] EXCEPT !.pending = TRUE], s.outcome)
  /\ UNCHANGED gameVars

\* The deadline passes, or the game is gone: cancel, unless the claim came first.
WorkerCancel(w) ==
  /\ worker[w].state = "wait"
  /\ LET b == worker[w].box IN
     IF CanCancel(slot[b])
     THEN slot' = [slot EXCEPT ![b].state = "reserving"] /\ Goto(w, "cancelling")
     ELSE Goto(w, "late") /\ UNCHANGED slot
  /\ UNCHANGED gameVars

WorkerCancelled(w) ==
  /\ worker[w].state = "cancelling"
  /\ slot' = [slot EXCEPT ![worker[w].box] = Ack(Read(Terminal(@, "cancelled")))]
  /\ Reply(w, worker[w], "notRun")
  /\ UNCHANGED gameVars

\* Neither cancelled nor complete: the completion is unknown from here on.
WorkerLate(w) ==
  /\ worker[w].state = "late" /\ slot[worker[w].box].state # "complete"
  /\ slot' = PoisonSlot(w) /\ Reply(w, Tainted(w), "unknown")
  /\ UNCHANGED gameVars

\* A worker whose input ends (the main process is gone) finishes the request it
\* was sent and closes its mailbox.
Dead == [NewWorker EXCEPT !.state = "dead"]

WorkerEnds(w) ==
  /\ worker[w].state = "idle" /\ main.worker # w
  /\ rpc[w].method = "none" \/ rpc[w].reply # "none"
  /\ slot' = CloseSlot(w) /\ worker' = [worker EXCEPT ![w] = Dead]
  /\ UNCHANGED <<gameVars, rpc, mainVars>>

\* An interrupt cancels what execute published, or poisons the lease when that is
\* too late, and the worker ends the same way; a killed worker does nothing at all.
WorkerInterrupted(w) ==
  /\ Up(w) /\ rpc[w].reply = "none" /\ losses < MaxLosses /\ losses' = losses + 1
  /\ slot' = IF worker[w].state \in {"wait", "late"} /\ ~CanCancel(slot[worker[w].box])
             THEN PoisonSlot(w) ELSE CloseSlot(w)
  /\ worker' = [worker EXCEPT ![w] = Dead]
  /\ UNCHANGED <<gameVars, rpc, main, call, result, accepted>>

WorkerKilled(w) ==
  /\ Up(w) /\ losses < MaxLosses /\ losses' = losses + 1
  /\ worker' = [worker EXCEPT ![w] = Dead]
  /\ UNCHANGED <<slot, gameVars, rpc, main, call, result, accepted>>

WorkerStep(w) ==
  \/ WorkerAttach(w) \/ WorkerDetach(w) \/ WorkerTaint(w) \/ WorkerAcknowledge(w)
  \/ WorkerExecute(w) \/ WorkerInstalled(w) \/ WorkerNotInstalled(w)
  \/ WorkerReserve(w) \/ WorkerPost(w) \/ WorkerFinish(w) \/ WorkerCancel(w)
  \/ WorkerCancelled(w) \/ WorkerLate(w) \/ WorkerEnds(w)

-----------------------------------------------------------------------------
(* The main process: one call at a time, each reply awaited with a deadline. *)

Waiting == main.worker # NoWorker /\ rpc[main.worker].method # "none"
Idle    == call = NoCall /\ ~Waiting
Available == main.fatal = "none" /\ main.worker # NoWorker /\ Up(main.worker)

Send(w, method, boot) ==
  rpc' = [rpc EXCEPT ![w] = [NoRpc EXCEPT !.method = method, !.cmd = call.cmd, !.boot = boot]]
Received == rpc' = [rpc EXCEPT ![main.worker] = NoRpc]
Adopt(m) == [m EXCEPT !.pid = rpc[m.worker].pid, !.tainted = rpc[m.worker].tainted]

Answer(c, r) == result' = [result EXCEPT ![c] = r] /\ call' = NoCall

\* The worker that serves the next request: a child that died between requests is
\* replaced, since no request was in doubt.
Serves(m, w) ==
  IF m.worker # NoWorker /\ Up(m.worker) THEN w = m.worker
  ELSE worker[w].state = "unborn" /\ \A v \in 1..(w - 1) : worker[v].state # "unborn"

\* attach, a user's (recover) or an automatic one, and detach.  Only a user's attach
\* replaces a worker that was lost before its first attachment was acknowledged.
Reopened(recover) ==
  IF recover /\ main.lostAttach /\ main.fatal = "restart" /\ ~main.pid /\ ~main.tainted
  THEN NewMain ELSE main

Request(method, recover) ==
  /\ Idle /\ LET m == Reopened(recover) IN
       /\ m.fatal = "none"
       /\ method = "detach" => m.worker # NoWorker
       /\ \E w \in Workers :
            /\ Serves(m, w) /\ Send(w, method, FALSE)
            /\ main' = [m EXCEPT !.worker = w]
            /\ worker' = [worker EXCEPT ![w].state = "idle"]
  /\ UNCHANGED <<slot, gameVars, call, result, accepted, losses>>

\* A new attachment starts with no connection error and an unknown generation.
Attached(m) == [m EXCEPT !.lostAttach = FALSE, !.broken = FALSE, !.ready = FALSE]

Connected ==
  /\ Waiting /\ call = NoCall
  /\ LET r == rpc[main.worker] IN
       /\ r.reply # "none"
       /\ main' = IF r.method = "attach" /\ r.reply = "ok"
                  THEN Attached(Adopt(main)) ELSE Adopt(main)
  /\ Received /\ UNCHANGED <<slot, gameVars, worker, call, result, accepted, losses>>

\* What a call is told without being sent; an earlier unknown outcome is repeated.
Start(c) ==
  /\ Idle /\ result[c] = "none"
  /\ IF main.broken \/ ~main.pid THEN Answer(c, "notRun")
     ELSE IF main.fatal # "none"
     THEN Answer(c, IF main.fatal = "unknown" THEN "unknown" ELSE "notRun")
     ELSE call' = [NoCall EXCEPT !.cmd = c, !.stage = "cross"] /\ UNCHANGED result
  /\ UNCHANGED <<slot, gameVars, worker, rpc, main, accepted, losses>>

\* A worker found dead is a disconnection, or a terminal loss when it died under the
\* first byte; either way nothing was sent.
Cross ==
  /\ call.stage = "cross" /\ ~Waiting
  /\ IF Available
     THEN Send(main.worker, "execute", ~main.ready) /\ UNCHANGED <<main, call, result>>
     ELSE /\ Answer(call.cmd, "notRun") /\ UNCHANGED rpc
          /\ \E f \in {main.fatal, "restart"} : main' = [main EXCEPT !.fatal = f]
  /\ UNCHANGED <<slot, gameVars, worker, accepted, losses>>

Executed == call.stage = "cross" /\ Waiting /\ rpc[main.worker].reply # "none"

\* An error reply.  A status whose generation is gone is sent once more, with the
\* runtime; a mutation is never repeated.
Refused ==
  /\ Executed /\ LET r == rpc[main.worker].reply IN
       /\ r \in {"notRun", "unknown", "gone", "nil"}
       /\ IF r \in {"gone", "nil"} /\ call.cmd \in Statuses /\ ~call.retried
          THEN call' = [call EXCEPT !.retried = TRUE] /\ UNCHANGED result
          ELSE Answer(call.cmd, IF r = "unknown" THEN "unknown" ELSE "notRun")
       /\ main' = [Adopt(main) EXCEPT !.fatal = IF r = "unknown" THEN "unknown" ELSE @,
                                      !.ready = @ /\ r \notin {"gone", "nil"}]
  /\ Received /\ UNCHANGED <<slot, gameVars, worker, accepted, losses>>

\* Mutant: the handoff marker is taken for an observation.
DecodedAnyPayload ==
  /\ Executed /\ rpc[main.worker].reply \in {"ok", "handoff"}
  /\ accepted' = accepted \cup {call.cmd}
  /\ main' = [Adopt(main) EXCEPT !.ready = TRUE]
  /\ call' = [call EXCEPT !.stage = "accept"]
  /\ Received /\ UNCHANGED <<slot, gameVars, worker, result, losses>>

\* A result: accepted when it can be decoded and does not itself report an unknown
\* outcome; otherwise the transport is tainted first.
Decoded ==
  /\ Executed /\ rpc[main.worker].reply = "ok"
  /\ accepted' = accepted \cup {call.cmd}
  /\ main' = [Adopt(main) EXCEPT !.ready = TRUE]
  /\ call' = [call EXCEPT !.stage = "accept"]
  /\ Received /\ UNCHANGED <<slot, gameVars, worker, result, losses>>

Doubtful ==
  /\ Executed /\ rpc[main.worker].reply \in Success
  /\ \E decoded \in BOOLEAN :
       /\ decoded => rpc[main.worker].reply = "unsure"
       /\ main' = [Adopt(main) EXCEPT !.ready = @ \/ decoded, !.tainted = TRUE]
  /\ call' = [call EXCEPT !.stage = "tainting"]
  /\ Received /\ UNCHANGED <<slot, gameVars, worker, result, accepted, losses>>

Handoff ==
  /\ Executed /\ rpc[main.worker].reply = "handoff"
  /\ main' = Adopt(main) /\ call' = [call EXCEPT !.stage = "handoff"]
  /\ Received /\ UNCHANGED <<slot, gameVars, worker, result, accepted, losses>>

\* The acceptance of a result, or of a handoff, is sent; it never starts a worker.
Broken(m) == [m EXCEPT !.fatal = "restart", !.lostAttach = FALSE, !.broken = TRUE,
                       !.ready = FALSE]

\* A lost acceptance: the receipt is known, the connection is not used again.
Unaccepted ==
  /\ main' = Broken(main) /\ Answer(call.cmd, IF call.stage = "accept" THEN "ok" ELSE "notRun")
  /\ worker' = [worker EXCEPT ![main.worker] = Dead]

Accept ==
  /\ call.stage \in {"accept", "handoff"} /\ ~Waiting
  /\ IF Available
     THEN Send(main.worker, "acknowledge", FALSE) /\ UNCHANGED <<main, call, result, worker>>
     ELSE Unaccepted /\ UNCHANGED rpc
  /\ UNCHANGED <<slot, gameVars, accepted, losses>>

\* The slot is free again while the menu closes: the call crosses once more, up to
\* the handoff deadline.
HandedOff ==
  \/ /\ call.handoffs < MaxHandoffs
     /\ call' = [call EXCEPT !.stage = "cross", !.handoffs = @ + 1] /\ UNCHANGED result
  \/ Answer(call.cmd, "notRun")

Accepted ==
  /\ call.stage \in {"accept", "handoff"} /\ Waiting
  /\ rpc[main.worker].reply # "none"
  /\ IF rpc[main.worker].reply = "ok"
     THEN /\ main' = Adopt(main) /\ UNCHANGED worker
          /\ IF call.stage = "accept" THEN Answer(call.cmd, "ok") ELSE HandedOff
     ELSE Unaccepted
  /\ Received /\ UNCHANGED <<slot, gameVars, accepted, losses>>

\* mark_tainted: a notification whose failure does not hide the unknown outcome; it
\* may start a fresh worker, which holds no mailbox.
Taint ==
  /\ call.stage = "tainting" /\ ~Waiting
  /\ IF main.fatal = "none"
     THEN /\ \E w \in Workers :
              /\ Serves(main, w) /\ Send(w, "taint", FALSE)
              /\ main' = [main EXCEPT !.worker = w]
              /\ worker' = [worker EXCEPT ![w].state = "idle"]
          /\ UNCHANGED <<call, result>>
     ELSE Answer(call.cmd, "unknown") /\ UNCHANGED <<rpc, main, worker>>
  /\ UNCHANGED <<slot, gameVars, accepted, losses>>

Noted ==
  /\ call.stage = "tainting" /\ Waiting /\ rpc[main.worker].reply # "none"
  /\ main' = Adopt(main) /\ Answer(call.cmd, "unknown")
  /\ Received /\ UNCHANGED <<slot, gameVars, worker, accepted, losses>>

\* The reply does not come: end of file, the deadline, an answer to something else.
\* The worker is terminated, the facade terminal; only a risky method whose bytes
\* were sent leaves the outcome unknown.
LoseReply ==
  /\ Waiting
  /\ LET method == rpc[main.worker].method IN
     \/ /\ method = "execute" /\ Answer(call.cmd, "unknown")
        /\ main' = [main EXCEPT !.fatal = "unknown"]
     \/ /\ method = "acknowledge"
        /\ main' = Broken(main)
        /\ Answer(call.cmd, IF call.stage = "accept" THEN "ok" ELSE "notRun")
     \/ /\ method = "taint" /\ Answer(call.cmd, "unknown")
        /\ main' = [main EXCEPT !.fatal = "restart"]
     \/ /\ method \in {"attach", "detach"} /\ UNCHANGED <<call, result>>
        /\ main' = [main EXCEPT !.fatal = "restart", !.lostAttach = @ \/ method = "attach"]
  /\ worker' = [worker EXCEPT ![main.worker] = Dead]
  /\ Received /\ UNCHANGED <<slot, gameVars, accepted, losses>>

\* The host starts a new main process; the old worker still has its request.
MainDies ==
  /\ main # NewMain /\ losses < MaxLosses /\ losses' = losses + 1
  /\ main' = NewMain /\ call' = NoCall
  /\ result' = [c \in Commands |-> IF c = call.cmd THEN "unknown" ELSE result[c]]
  /\ UNCHANGED <<slot, gameVars, worker, rpc, accepted>>

MainStep ==
  \/ Connected \/ Cross \/ Refused \/ Decoded \/ Doubtful \/ Handoff \/ Accept \/ Accepted
  \/ Taint \/ Noted \/ LoseReply

Next ==
  \/ MainStep
  \/ \E method \in {"attach", "detach"}, recover \in BOOLEAN : Request(method, recover)
  \/ \E c \in Commands : Start(c)
  \/ MainDies
  \/ \E w \in Workers : WorkerStep(w) \/ WorkerInterrupted(w) \/ WorkerKilled(w)
  \/ Game(ProducerAlive) /\ UNCHANGED <<worker, rpc, mainVars>>

Spec == Init /\ [][Next]_vars

-----------------------------------------------------------------------------
\* A command that was answered as not executed never ran, and never will.
NotRunTrue == \A c \in Commands : result[c] = "notRun" => \A i \in DOMAIN ran : ran[i] # c

\* A command changes the game at most once, although a status is repeated after a
\* reload and a mutation after each handoff; one that is answered did so.
OnceOnly ==
  /\ \A i, j \in DOMAIN ran : ran[i] = ran[j] => i = j
  /\ \A c \in Commands : result[c] = "ok" => \E i \in DOMAIN ran : ran[i] = c

\* A command that changed the game while no session accepted its result is the last
\* one this game process runs, whatever dies, reattaches or is started anew.
UncertaintyKept == \A i \in 1..(Len(ran) - 1) : ran[i] \in accepted
================================================================================
