------------------------- MODULE TrainerBackendSession -------------------------
(***************************************************************************)
(* TrainerBackendSession (Sources/Core/Runtime/TrainerBackendSession.swift)*)
(* around its BackendClient: the status that the user interface shows, the *)
(* bounded recovery of a worker that exits, and the gate that keeps        *)
(* requests from a game process in which an operation may have happened or *)
(* not.                                                                    *)
(*                                                                         *)
(* The session acts in the callbacks of the client, so its actions take    *)
(* the place of CallOwner; every other handler of the client leaves the    *)
(* session alone.                                                          *)
(***************************************************************************)
EXTENDS BackendClient

CONSTANTS
  Trusted,      \* the requests with requiresTrustedTarget
  MaxLifetimes  \* bound on the game processes observed

ASSUME TrustedAssumption == Trusted \subseteq Requests
ASSUME LifetimesAssumption == MaxLifetimes \in Nat \ {0}

VARIABLES
  configured,
  terminationRequested,
  restartPending,
  suppressed,       \* suppressTerminationError
  recovery,         \* recoveryWorkItem: "none", "auto" or "manual"
  attempts,         \* automaticRecoveryAttempts
  available, compatible, busy,         \* of the status
  lifetime,         \* targetLifetimeID
  untrusted,        \* untrustedTargetLifetimeID, 0 when there is none
  activeLifetime, activeTrusted,       \* of the request that started last
  startedIn         \* history: the lifetime in which each request was started

lifecycle   == <<configured, terminationRequested, restartPending, suppressed, recovery, attempts>>
status      == <<available, compatible, busy>>
active      == <<activeLifetime, activeTrusted, startedIn>>
trust       == <<lifetime, untrusted, active>>
session     == <<lifecycle, status, trust>>
sessionVars == <<vars, session>>

MaxAttempts == 2  \* maximumAutomaticRecoveryAttempts

SessionInit ==
  /\ Init
  /\ configured = FALSE /\ terminationRequested = FALSE /\ restartPending = FALSE
  /\ suppressed = FALSE /\ recovery = "none" /\ attempts = 0
  /\ available = FALSE /\ compatible = TRUE /\ busy = FALSE
  /\ lifetime = 1 /\ untrusted = 0
  /\ activeLifetime = 0 /\ activeTrusted = TRUE
  /\ startedIn = [r \in Requests |-> 0]

Allowed == ~terminationRequested

--------------------------------------------------------------------------------
(* Starting a worker. *)

Started ==
  /\ Start
  /\ available' = TRUE /\ busy' = FALSE /\ suppressed' = FALSE

\* client.start threw: it had been reset and its process was not started.
StartFailed ==
  /\ Idle /\ ~IsStarted
  /\ terminal' = FALSE /\ delivering' = FALSE /\ suppressed' = FALSE
  /\ UNCHANGED <<process, writing, main, current, queue, timer, stack, stops, history>>

\* Automatic starts since the last successful reply are bounded.
MayRecover == attempts < MaxAttempts

\* start: at the start of the game module, and whenever it sees the game start or
\* exit while there is no worker, a recovery being due or not.
Startup ==
  /\ Allowed
  /\ configured' = TRUE /\ attempts' = 0 /\ compatible' = TRUE
  /\ \/ Started
     \/ StartFailed /\ available' = FALSE /\ busy' = FALSE
  /\ UNCHANGED <<terminationRequested, restartPending, recovery, trust>>

\* resolveScriptURL threw in start: the client and the configuration stay what
\* they were, a worker that a recovery is to start included.
ScriptMissing ==
  /\ Allowed /\ Idle /\ ~IsStarted
  /\ available' = FALSE /\ busy' = FALSE
  /\ UNCHANGED <<vars, lifecycle, compatible, trust>>

\* The recovery work item.  An automatic one that cannot start is tried again.
Recover ==
  /\ Idle /\ recovery # "none"
  /\ \/ /\ ~Allowed \/ IsStarted
        /\ recovery' = "none" /\ UNCHANGED <<vars, suppressed, attempts, available, busy>>
     \/ /\ Allowed /\ Started
        /\ recovery' = "none" /\ UNCHANGED attempts
     \/ /\ Allowed /\ StartFailed
        /\ recovery = "auto" /\ MayRecover
        /\ attempts' = attempts + 1
        /\ UNCHANGED <<recovery, available, busy>>
     \/ /\ Allowed /\ StartFailed
        /\ recovery = "manual" \/ ~MayRecover
        /\ recovery' = "none" /\ available' = FALSE /\ busy' = FALSE
        /\ UNCHANGED attempts
  /\ UNCHANGED <<configured, terminationRequested, restartPending, compatible, trust>>

--------------------------------------------------------------------------------
(* What the application calls. *)

\* A request that needs a trusted target is refused once the outcome of another
\* is unknown in this lifetime.
Gated(r) == r \in Trusted /\ untrusted = lifetime

SessionSend(r) ==
  /\ IF Gated(r)
     THEN /\ AppRuns /\ r \notin asked
          /\ asked' = asked \cup {r}
          /\ Call(<<Complete(r, "cancelled")>>)
          /\ UNCHANGED <<process, writing, main, client, stops, reached, result>>
     ELSE Send(r)
  /\ UNCHANGED session

\* restart stops the worker there is, and its termination starts the next one.
Restart ==
  /\ Idle /\ Allowed /\ configured
  /\ busy' = TRUE
  /\ \/ /\ IsStarted /\ Stop
        /\ restartPending' = TRUE /\ suppressed' = TRUE /\ recovery' = "none"
     \/ /\ ~IsStarted /\ stops < MaxStops /\ stops' = stops + 1
        /\ restartPending' = FALSE /\ suppressed' = FALSE /\ recovery' = "manual"
        /\ UNCHANGED <<process, writing, main, client, stack, history>>
  /\ UNCHANGED <<configured, terminationRequested, attempts, available, compatible, trust>>

\* Only a module that prepares for the end of the application calls stop.
SessionStop ==
  /\ ~Allowed
  /\ Stop
  /\ restartPending' = FALSE /\ suppressed' = TRUE /\ recovery' = "none"
  /\ UNCHANGED <<configured, terminationRequested, attempts, status, trust>>

\* hasInFlightRequest
InFlight == current # NoRequest

BeginTermination ==
  /\ Idle /\ ~terminationRequested
  /\ terminationRequested' = TRUE /\ restartPending' = FALSE /\ recovery' = "none"
  /\ busy' = InFlight
  /\ UNCHANGED <<vars, configured, suppressed, attempts, available, compatible, trust>>

TargetLifetimeChanged ==
  /\ Idle /\ ~terminationRequested /\ lifetime < MaxLifetimes
  /\ lifetime' = lifetime + 1 /\ untrusted' = 0
  /\ UNCHANGED <<vars, lifecycle, status, active>>

--------------------------------------------------------------------------------
(* The callbacks of the client. *)

\* preserveUnknownOutcome
Preserve(code) ==
  untrusted' = IF code \in Unknown /\ activeTrusted /\ activeLifetime = lifetime
               THEN lifetime ELSE untrusted

RequestStarted ==
  /\ Top("started")
  /\ LET r == stack[1].req
     IN /\ activeLifetime' = lifetime /\ activeTrusted' = (r \in Trusted)
        /\ startedIn' = [startedIn EXCEPT ![r] = lifetime]
  /\ busy' = TRUE
  /\ CallOwner
  /\ UNCHANGED <<lifecycle, available, compatible, lifetime, untrusted>>

\* onReply publishes the status before it looks at the failure, and the
\* application may act in between.
OnReply ==
  /\ Top("reply")
  /\ attempts' = IF stack[1].code = "ok" THEN 0 ELSE attempts
  /\ compatible' = TRUE /\ busy' = FALSE
  /\ Then(<<App, Task("replied", stack[1].req, stack[1].code)>>)
  /\ UNCHANGED <<process, writing, main, client, stops, history>>
  /\ UNCHANGED <<configured, terminationRequested, restartPending, suppressed, recovery,
                 available, trust>>

Replied ==
  /\ Top("replied")
  /\ Preserve(stack[1].code)
  /\ Then(<<App>>)
  /\ UNCHANGED <<process, writing, main, client, stops, history>>
  /\ UNCHANGED <<lifecycle, status, lifetime, active>>

OnMismatch ==
  /\ Top("error") /\ stack[1].code = "mismatch"
  /\ Preserve("mismatch")
  /\ compatible' = FALSE /\ available' = FALSE /\ busy' = FALSE
  /\ recovery' = "none"
  /\ CallOwner
  /\ UNCHANGED <<configured, terminationRequested, restartPending, suppressed, attempts,
                 lifetime, active>>

\* The failures after which the client goes on.
Recoverable == {"queueFull", "encodeFailed"}

\* Somebody else brings the worker back, so the failure is not shown yet.
RecoveryAssumed == TRUE
RecoveryOwned == IsStarted \/ recovery # "none" \/ restartPending

OnClientError ==
  /\ Top("error") /\ stack[1].code # "mismatch"
  /\ CallOwner
  /\ IF ~configured
     THEN UNCHANGED <<untrusted, available, busy>>
     ELSE LET code == stack[1].code IN
          /\ Preserve(code)
          /\ busy' = IF code \in Recoverable THEN InFlight ELSE RecoveryOwned
          /\ available' = (available /\ (code \in Recoverable \/ RecoveryOwned))
  /\ UNCHANGED <<lifecycle, compatible, lifetime, active>>

Automatic == ~restartPending /\ ~suppressed /\ compatible /\ MayRecover

\* handleTermination publishes the status and resets the state of the game, and
\* a request of the application may fail there before the recovery is scheduled.
HandleTermination ==
  /\ Top("onTermination")
  /\ LET kind == IF ~Allowed \/ ~(restartPending \/ Automatic) THEN "none"
                 ELSE IF restartPending THEN "manual" ELSE "auto"
     IN /\ busy' = (kind # "none")
        /\ Then(<<App, Task("schedule", NoRequest, kind)>>)
  /\ available' = FALSE /\ restartPending' = FALSE
  /\ UNCHANGED <<process, writing, main, client, stops, history>>
  /\ UNCHANGED <<configured, terminationRequested, suppressed, recovery, attempts, compatible, trust>>

\* The rest of it, with scheduleRecovery.
ScheduleRecovery ==
  /\ Top("schedule")
  /\ LET kind == stack[1].code
     IN /\ recovery' = IF kind = "none" THEN recovery ELSE kind
        /\ attempts' = IF kind = "auto" THEN attempts + 1 ELSE attempts
  /\ suppressed' = FALSE
  /\ Then(<<>>)
  /\ UNCHANGED <<process, writing, main, client, stops, history>>
  /\ UNCHANGED <<configured, terminationRequested, restartPending, status, trust>>

--------------------------------------------------------------------------------
SessionCallbacks ==
  \/ RequestStarted \/ OnReply \/ Replied \/ OnMismatch \/ OnClientError \/ HandleTermination
    \/ ScheduleRecovery

SessionHandlers ==
  \/ SessionCallbacks
  \/ /\ Transmit \/ Finish \/ Deliver \/ EndDelivery \/ StopWorker \/ CallRequest \/ Return
     /\ UNCHANGED session

SessionMainQueue == MainQueue /\ UNCHANGED session
SessionTimeout   == Timeout /\ UNCHANGED session
SessionWorld     == World /\ UNCHANGED session

SessionApplication ==
  \/ Startup \/ ScriptMissing \/ Restart \/ SessionStop \/ BeginTermination \/ TargetLifetimeChanged
  \/ \E r \in Requests : SessionSend(r)

SessionNext ==
  SessionApplication \/ SessionHandlers \/ SessionMainQueue \/ SessionTimeout \/ Recover
    \/ SessionWorld

SessionSpec == SessionInit /\ [][SessionNext]_sessionVars

--------------------------------------------------------------------------------
(* Properties *)

\* The outcome of r is unknown, and r could act on the game process of now.
Doubtful(r) == r \in Trusted /\ startedIn[r] = lifetime /\ result[r] \in Unknown

\* No request that needs a trusted target is given to a running worker while another is
\* in doubt: not even one that was queued, or sent by a callback, before the
\* doubt arose.
TrustGate ==
  [][\A r \in Trusted :
       worker = "running" /\ writing' = Append(writing, [req |-> r, gen |-> gen]) =>
         \A q \in Requests : ~Doubtful(q)]_sessionVars

\* A request waits for its end, or the interface shows that something does.
Waiting == busy \/ \E r \in asked : result[r] = "none"

\* Something will happen by itself: a handler, a block on the main queue, a timer,
\* a recovery, the end of a worker that was told to stop.
Scheduled ==
  ~Idle \/ main # <<>> \/ timer # NoRequest \/ recovery # "none" \/ worker = "stopping"

\* Nobody waits for nothing: whatever the worker does, a request that is not
\* completed, queued ones too, and an interface that is busy have an event before
\* them that the code has scheduled (TrainerBackendSession.swift:347, BackendClient
\* .swift:394).
NeverStuck == Waiting => Scheduled
================================================================================
