----------------------------- MODULE BackendClient -----------------------------
(***************************************************************************)
(* BackendClient (Sources/Core/Runtime/BackendClient.swift) above its      *)
(* BackendProcess: one request in flight, a bounded queue that coalesces   *)
(* by key, timeouts, a worker that may exit or answer garbage, and writes  *)
(* that finish on another queue.                                           *)
(*                                                                         *)
(* All of the client runs on the main queue, but its handlers call the     *)
(* application back, and a callback may call send and stop before the      *)
(* handler goes on.  What the handlers have still to do is the stack: the  *)
(* first task runs next, and the task "app" is a callback that has not     *)
(* returned.                                                               *)
(*                                                                         *)
(* The callbacks end in the session that owns the client, so the next-state*)
(* relation is the one of TrainerBackendSession.                           *)
(***************************************************************************)
EXTENDS Integers, Sequences, FiniteSets, Functions

CONSTANTS
  Requests,   \* calls of send
  NoRequest,
  Key,        \* their coalesceKey
  NoKey,
  Answers,    \* the replies that are explored, see Replies
  MaxQueue,   \* maxQueueDepth
  MaxWorkers, \* bound on the workers started
  MaxStops    \* bound on the calls of stop

ASSUME NamesAssumption == NoRequest \notin Requests
ASSUME KeyAssumption == DOMAIN Key = Requests
ASSUME AnswersAssumption == Answers \subseteq {"ok", "failed", "unknown", "fatal", "fatalUnknown"}
ASSUME BoundsAssumption == MaxQueue \in Nat \ {0} /\ MaxWorkers \in Nat /\ MaxStops \in Nat

VARIABLES
  worker,     \* its process: "none", "running", "exited" and not yet reaped, "stopping"
  gen,        \* workers started so far
  writing,    \* jobs of the write queue
  inbox,      \* requests the worker has read and not answered
  main,       \* blocks posted to the main queue
  current, queue, timer, delivering, terminal,
  stack,
  stops,
  \* history:
  asked,      \* requests sent so far
  reached,    \* requests of which bytes have reached a worker
  result      \* how each was completed

process == <<worker, gen, inbox>>
client  == <<current, queue, timer, delivering, terminal>>
history == <<asked, reached, result>>
vars    == <<process, writing, main, client, stack, stops, history>>

\* Failures whose request never left the client, and those that leave it open
\* whether the worker acted on the request (outcomeUnknown).
NotSent == {"unavailable", "cancelled", "queueFull", "encodeFailed", "sendFailed"}
Unknown == {"unknown", "fatalUnknown", "sendUnknown", "mismatch", "timeout",
            "protocolError", "interrupted"}
Replies == {"ok", "failed", "unknown", "fatal", "fatalUnknown"}
Results == NotSent \cup Unknown \cup Replies \cup {"none", "twice"}

\* Replies with error.terminal, and those that cancel the queue.
Fatal   == {"fatal", "fatalUnknown"}
PurgingFatal == Fatal
Purging == Fatal \cup {"unknown"}

Task(fn, r, code) == [fn |-> fn, req |-> r, code |-> code]
App               == Task("app", NoRequest, "none")
Callback(code)    == Task("error", NoRequest, code)
Complete(r, code) == Task("complete", r, code)
CompleteAll(rs, code) == [i \in DOMAIN rs |-> Complete(rs[i], code)]
StopProcess       == Task("stopProcess", NoRequest, "none")

Init ==
  /\ worker = "none" /\ gen = 0 /\ writing = <<>> /\ inbox = <<>> /\ main = <<>>
  /\ current = NoRequest /\ queue = <<>> /\ timer = NoRequest
  /\ delivering = FALSE /\ terminal = FALSE
  /\ stack = <<>> /\ stops = 0
  /\ asked = {} /\ reached = {} /\ result = [r \in Requests |-> "none"]

\* isRunning and isStarted of the process.  A process that was told to stop still runs.
IsRunning == worker \in {"running", "stopping"}
IsStarted == worker # "none"

\* The main queue is free, or application code runs in a callback.
AppRuns == stack # <<>> => stack[1] = App
Idle    == stack = <<>>

\* The task on top is fn, and the handler goes on with tasks.
Top(fn) == stack # <<>> /\ stack[1].fn = fn
Then(tasks) == stack' = tasks \o Tail(stack)
Call(tasks) == stack' = tasks \o stack

--------------------------------------------------------------------------------
(* The worker process and its pipes. *)

\* start: its callers are the startup and a scheduled recovery, never a callback.
Start ==
  /\ Idle /\ ~IsStarted /\ gen < MaxWorkers
  /\ worker' = "running" /\ gen' = gen + 1 /\ inbox' = <<>>
  /\ current' = NoRequest /\ queue' = <<>> /\ timer' = NoRequest
  /\ delivering' = FALSE /\ terminal' = FALSE
  /\ UNCHANGED <<writing, main, stack, stops, history>>

Post(ev, r, code) == main' = Append(main, Task(ev, r, code))

\* The next job of the write queue.  Encoding may fail; the write fails without
\* a byte written, or after some, and does when its process is gone or was stopped.
Write ==
  /\ writing # <<>> /\ writing' = Tail(writing)
  /\ LET job == Head(writing) IN
     \/ /\ job.gen = gen /\ worker = "running"
        /\ inbox' = Append(inbox, job.req) /\ reached' = reached \cup {job.req}
        /\ UNCHANGED main
     \/ /\ job.gen = gen /\ worker = "running"
        /\ reached' = reached \cup {job.req}
        /\ Post("sent", job.req, "sendUnknown")
        /\ UNCHANGED inbox
     \/ /\ \E code \in {"encodeFailed", "sendFailed"} : Post("sent", job.req, code)
        /\ UNCHANGED <<inbox, reached>>
  /\ UNCHANGED <<worker, gen, client, stack, stops, asked, result>>

\* The worker answers, in a dialect that the client expects or not.
Answer ==
  /\ IsRunning /\ inbox # <<>>
  /\ \E code \in Answers \cup {"mismatch"} : Post("message", Head(inbox), code)
  /\ inbox' = Tail(inbox)
  /\ UNCHANGED <<worker, gen, writing, client, stack, stops, history>>

\* Its output is no JSON, no object, no result, or too long.
Garble ==
  /\ IsRunning /\ \A i \in DOMAIN main : main[i].fn # "violation"
  /\ Post("violation", NoRequest, "none")
  /\ UNCHANGED <<process, writing, client, stack, stops, history>>

Exit ==
  /\ IsRunning
  /\ worker' = "exited" /\ inbox' = <<>>
  /\ Post("terminated", NoRequest, "none")
  /\ UNCHANGED <<gen, writing, client, stack, stops, history>>

--------------------------------------------------------------------------------
(* send, enqueue and dispatch. *)

\* r is dispatched and waiting stays in the queue.  Without a worker both fail.
Dispatch(r, waiting, rest) ==
  IF IsRunning /\ ~terminal
  THEN /\ current' = r /\ queue' = waiting
       /\ stack' = <<Task("started", r, "none"), Task("transmit", r, "none")>> \o rest
       /\ UNCHANGED terminal
  ELSE /\ terminal' = TRUE /\ queue' = <<>>
       /\ stack' = <<Callback("unavailable"), Complete(r, "unavailable")>>
                     \o CompleteAll(waiting, "cancelled") \o <<StopProcess>> \o rest
       /\ UNCHANGED current

\* The queue is at its depth.
Full == Len(queue) >= MaxQueue

\* What the request that gives up its place is told.
Replace(r) == <<Complete(r, "cancelled")>>

\* A request takes the place of the queued one with its key, or joins the queue.
Enqueue(r) ==
  LET same == {i \in DOMAIN queue : Key[r] # NoKey /\ Key[queue[i]] = Key[r]} IN
  \/ \E i \in same :
       /\ \A j \in same : j <= i
       /\ queue' = [queue EXCEPT ![i] = r]
       /\ Call(Replace(queue[i]))
  \/ same = {} /\ ~Full /\ queue' = Append(queue, r) /\ UNCHANGED stack
  \/ /\ same = {} /\ Full
     /\ UNCHANGED queue /\ Call(<<Callback("queueFull"), Complete(r, "queueFull")>>)

\* Requests wait for the one in flight, and for the callbacks of the last reply.
Busy == current # NoRequest \/ delivering

Send(r) ==
  /\ AppRuns /\ r \notin asked
  /\ asked' = asked \cup {r}
  /\ \/ /\ ~IsRunning \/ terminal
        /\ Call(<<Callback("unavailable"), Complete(r, "unavailable")>>)
        /\ UNCHANGED client
     \/ /\ IsRunning /\ ~terminal
        /\ Busy
        /\ Enqueue(r)
        /\ UNCHANGED <<current, timer, delivering, terminal>>
     \/ /\ IsRunning /\ ~terminal
        /\ ~Busy
        /\ Dispatch(r, queue, stack)
        /\ UNCHANGED <<timer, delivering>>
  /\ UNCHANGED <<process, writing, main, stops, reached, result>>

\* The send failed: here and now, or in a block posted by the write queue.  A
\* failure that comes too late leaves the timer t.
SendFailed(r, code, t, rest) ==
  IF current = r /\ ~terminal
  THEN /\ current' = NoRequest /\ timer' = NoRequest /\ delivering' = TRUE
       /\ terminal' = (code # "encodeFailed")
       /\ IF code = "encodeFailed"
          THEN /\ stack' = <<Callback(code), Complete(r, code),
                             Task("endDelivery", NoRequest, "flush")>> \o rest
               /\ UNCHANGED queue
          ELSE /\ stack' = <<Callback(code), StopProcess, Complete(r, code)>>
                             \o CompleteAll(queue, "cancelled")
                             \o <<Task("endDelivery", NoRequest, "none")>> \o rest
               /\ queue' = <<>>
  ELSE stack' = rest /\ timer' = t /\ UNCHANGED <<current, queue, delivering, terminal>>

\* After the started callbacks the timer is set and the write is queued; a
\* process that is not running fails the send at once.
Transmit ==
  /\ Top("transmit")
  /\ LET r == stack[1].req IN
     IF IsRunning
     THEN /\ timer' = r /\ writing' = Append(writing, [req |-> r, gen |-> gen])
          /\ Then(<<>>)
          /\ UNCHANGED <<current, queue, delivering, terminal>>
     ELSE SendFailed(r, "sendFailed", r, Tail(stack)) /\ UNCHANGED writing
  /\ UNCHANGED <<process, main, stops, history>>

--------------------------------------------------------------------------------
(* What ends requests.  An interrupted request is reported before anything is *)
(* taken from the client.                                                     *)

Outstanding(code) ==
  (IF current = NoRequest THEN <<>> ELSE <<Complete(current, code)>>)
    \o CompleteAll(queue, "cancelled")

TakeOutstanding ==
  /\ current' = NoRequest /\ queue' = <<>> /\ timer' = NoRequest /\ delivering' = FALSE

InterruptingUnsent(fn) == <<Task(fn, current, "cancelled")>>

\* The handler goes on with what is left, the interruption reported or not.
Interrupting(fn) ==
  IF current # NoRequest /\ ~terminal
  THEN <<Callback("interrupted"), Task(fn, current, "interrupted")>>
  ELSE <<Task(fn, current, "cancelled")>>

Stop ==
  /\ AppRuns /\ stops < MaxStops /\ stops' = stops + 1
  /\ Call(Interrupting("stop"))
  /\ UNCHANGED <<process, writing, main, client, history>>

\* The worker exited: its process is forgotten before the client is told.
Terminated ==
  /\ Idle /\ main # <<>> /\ Head(main).fn = "terminated"
  /\ main' = Tail(main) /\ worker' = "none"
  /\ Call(Interrupting("terminate"))
  /\ UNCHANGED <<gen, inbox, writing, client, stops, history>>

\* The rest of stop and of terminated.
Finish ==
  /\ Top("stop") \/ Top("terminate")
  /\ terminal' = TRUE
  /\ TakeOutstanding
  /\ Then(Outstanding(stack[1].code) \o
            (IF Top("terminate") THEN <<Task("onTermination", NoRequest, "none")>> ELSE <<>>))
  /\ worker' = IF Top("stop") /\ IsRunning THEN "stopping" ELSE worker
  /\ UNCHANGED <<gen, inbox, writing, main, stops, history>>

\* requestTimedOut and protocolViolation.
Fail(code) ==
  /\ terminal' = TRUE
  /\ TakeOutstanding
  /\ stack' = <<Callback(code), StopProcess>> \o Outstanding(code) \o stack

Timeout ==
  /\ Idle /\ timer # NoRequest
  /\ IF terminal \/ current # timer
     THEN timer' = NoRequest /\ UNCHANGED <<current, queue, delivering, terminal, stack>>
     ELSE Fail("timeout")
  /\ UNCHANGED <<process, writing, main, stops, history>>

Violation ==
  /\ Idle /\ main # <<>> /\ Head(main).fn = "violation"
  /\ main' = Tail(main)
  /\ IF terminal THEN UNCHANGED <<client, stack>>
     ELSE Fail(IF current = NoRequest THEN "idleProtocolError" ELSE "protocolError")
  /\ UNCHANGED <<process, writing, stops, history>>

Sent ==
  /\ Idle /\ main # <<>> /\ Head(main).fn = "sent"
  /\ main' = Tail(main)
  /\ SendFailed(Head(main).req, Head(main).code, timer, stack)
  /\ UNCHANGED <<process, writing, stops, history>>

\* A result for a request that is no longer current is ignored, however late.
Expects(r) == current = r

Receive ==
  /\ Idle /\ main # <<>> /\ Head(main).fn = "message"
  /\ main' = Tail(main)
  /\ LET r == Head(main).req
         code == Head(main).code
     IN
     \/ ~Expects(r) /\ UNCHANGED <<worker, client, stack>>
     \/ /\ Expects(r) /\ code = "mismatch"
        /\ terminal' = TRUE /\ timer' = NoRequest /\ current' = NoRequest /\ queue' = <<>>
        /\ worker' = IF IsRunning THEN "stopping" ELSE worker
        /\ Call(<<Callback("mismatch"), Complete(r, "mismatch")>>
                  \o CompleteAll(queue, "cancelled"))
        /\ UNCHANGED delivering
     \/ /\ Expects(r) /\ code \in Replies
        /\ terminal' = (terminal \/ code \in Fatal)
        /\ timer' = NoRequest /\ current' = NoRequest /\ delivering' = TRUE
        /\ Call(<<Task("reply", r, code), Task("deliver", r, code)>>)
        /\ UNCHANGED <<worker, queue>>
  /\ UNCHANGED <<gen, inbox, writing, stops, history>>

\* After onReply: the queue is cancelled behind a reply that ends the worker or
\* leaves its outcome open.
Deliver ==
  /\ Top("deliver")
  /\ LET r == stack[1].req
         code == stack[1].code
         cancelled == IF code \in Purging THEN queue ELSE <<>>
     IN /\ queue' = IF code \in Purging THEN <<>> ELSE queue
        /\ Then(<<Complete(r, code)>> \o CompleteAll(cancelled, "cancelled")
                  \o (IF code \in Fatal THEN <<StopProcess>> ELSE <<>>)
                  \o <<Task("endDelivery", NoRequest, "flush")>>)
  /\ UNCHANGED <<process, writing, main, current, timer, delivering, terminal, stops, history>>

\* flushNext dispatches the next request.
EndDelivery ==
  /\ Top("endDelivery")
  /\ delivering' = FALSE
  /\ IF stack[1].code = "flush" /\ current = NoRequest /\ queue # <<>>
     THEN Dispatch(Head(queue), Tail(queue), Tail(stack))
     ELSE Then(<<>>) /\ UNCHANGED <<queue, current, terminal>>
  /\ UNCHANGED <<process, writing, main, timer, stops, history>>

--------------------------------------------------------------------------------
(* Tasks without state of the client. *)

\* process.stop closes the input and signals the worker.
StopWorker ==
  /\ Top("stopProcess")
  /\ worker' = IF IsRunning THEN "stopping" ELSE worker
  /\ Then(<<>>)
  /\ UNCHANGED <<gen, inbox, writing, main, client, stops, history>>

\* The callbacks of the owner: onRequestStarted, onReply, onClientError,
\* onProtocolMismatch and onTermination.
Owner == {"started", "reply", "error", "onTermination"}

CallOwner ==
  /\ stack # <<>> /\ stack[1].fn \in Owner
  /\ Then(<<App>>)
  /\ UNCHANGED <<process, writing, main, client, stops, history>>

\* The callbacks of a request: reply, failed and completion.
CallRequest ==
  /\ Top("complete")
  /\ result' = [result EXCEPT ![stack[1].req] = IF @ = "none" THEN stack[1].code ELSE "twice"]
  /\ Then(<<App>>)
  /\ UNCHANGED <<process, writing, main, client, stops, asked, reached>>

Return ==
  /\ Top("app") /\ Then(<<>>)
  /\ UNCHANGED <<process, writing, main, client, stops, history>>

--------------------------------------------------------------------------------
MainQueue == Terminated \/ Violation \/ Sent \/ Receive

World == Write \/ Answer \/ Garble \/ Exit

--------------------------------------------------------------------------------
(* Properties *)

\* What the caller is told of a request is true: not sent means that no byte of
\* it reached a worker, then or later.
NotSentTrue == \A r \in Requests : result[r] \in NotSent => r \notin reached
================================================================================
