-------------------------- MODULE BackendSessionProofs --------------------------
(* Theorems about TrainerBackendSession and the BackendClient below it, for *)
(* every set of requests, keys, replies and trusted requests, every depth   *)
(* of the queue and any number of workers and game processes.               *)
EXTENDS TrainerBackendSession, SequenceTheorems, TLAPS

(* What the client has still to do, and what waits on the main queue.       *)
On     == Range(stack)
Under  == Range(Tail(stack))
Blocks == Range(main)

Codes == Results \cup {"flush", "idleProtocolError", "manual", "auto"}

TaskKinds ==
  {"started", "transmit", "reply", "replied", "deliver", "endDelivery", "error", "complete",
   "stopProcess", "stop", "terminate", "onTermination", "schedule", "app"}
BlockKinds == {"sent", "message", "violation", "terminated"}

OfRequest == {"started", "transmit", "reply", "replied", "deliver", "complete", "sent", "message"}

(* What a termination schedules.                                            *)
Kinds == {"none", "manual", "auto"}

Tasks ==
  {t \in [fn : TaskKinds, req : Requests \cup {NoRequest}, code : Codes] :
     /\ t.fn \in OfRequest => t.req \in Requests
     /\ t.fn \in {"reply", "replied", "deliver"} => t.code \in Replies
     /\ t.fn \in {"stop", "terminate"} => t.code \in {"cancelled", "interrupted"}
     /\ t.fn = "schedule" => t.code \in Kinds}

Posted ==
  {t \in [fn : BlockKinds, req : Requests \cup {NoRequest}, code : Codes] :
     /\ t.fn \in OfRequest => t.req \in Requests
     /\ t.fn = "sent" => t.code \in {"encodeFailed", "sendFailed", "sendUnknown"}}

ClientTypeOK ==
  /\ stack \in Seq(Tasks) /\ main \in Seq(Posted)
  /\ queue \in Seq(Requests) /\ inbox \in Seq(Requests)
  /\ writing \in Seq([req : Requests, gen : Nat])
  /\ current \in Requests \cup {NoRequest} /\ timer \in Requests \cup {NoRequest}
  /\ terminal \in BOOLEAN /\ delivering \in BOOLEAN
  /\ worker \in {"none", "running", "exited", "stopping"} /\ gen \in Nat
  /\ asked \subseteq Requests /\ reached \subseteq Requests
  /\ result \in [Requests -> Codes]

SessionTypeOK ==
  /\ lifetime \in Nat \ {0} /\ untrusted \in Nat
  /\ activeLifetime \in Nat /\ activeTrusted \in BOOLEAN
  /\ startedIn \in [Requests -> Nat]
  /\ configured \in BOOLEAN /\ restartPending \in BOOLEAN /\ suppressed \in BOOLEAN
  /\ busy \in BOOLEAN /\ terminationRequested \in BOOLEAN
  /\ recovery \in {"none", "auto", "manual"}

(* Which task may lie above which: a callback or a start is on top, there   *)
(* is one write to come, and no reply below the one being delivered.        *)
TopOnly(u) ==
  \/ u.fn \in {"started", "error", "reply"}
  \/ u.fn \in {"stop", "terminate"} /\ u.code = "cancelled"

Fits(t, u) ==
  /\ ~TopOnly(u)
  /\ ~(t.fn = "transmit" /\ u.fn = "transmit")
  /\ ~(t.fn = "deliver" /\ u.fn \in {"replied", "deliver"})

Neat(tasks) == \A i, j \in DOMAIN tasks : i < j => Fits(tasks[i], tasks[j])

Base == ClientTypeOK /\ SessionTypeOK /\ Neat(stack)

(* The request in flight and the tasks that go with it.                     *)
Replying == {"reply", "replied", "deliver"}

FlowOf(t) ==
  /\ t.fn \in {"stop", "terminate"} =>
       IF t.code = "cancelled" THEN current = NoRequest ELSE current # NoRequest \/ terminal
  /\ t.fn = "transmit" => current = t.req \/ terminal
  /\ t.fn = "started" => current = t.req /\ ~terminal
  /\ t.fn \in Replying =>
       /\ current = NoRequest /\ (delivering \/ terminal)
       /\ \A u \in On : u.fn \notin {"transmit", "endDelivery"}

FlowInv ==
  /\ terminal => current = NoRequest
  /\ \A t \in On : FlowOf(t)

(* Where a request that has not been dispatched, written, or refused is: at *)
(* one place.                                                               *)
Queued(r)  == r \in Range(queue)
Sending(r) == \E t \in On : t.fn = "transmit" /\ t.req = r
Handed(r)  == \E j \in Range(writing) : j.req = r
Refused(r) ==
  \/ result[r] \in NotSent
  \/ \E t \in On : t.fn = "complete" /\ t.req = r /\ t.code \in NotSent
  \/ \E t \in Blocks : t.fn = "sent" /\ t.req = r /\ t.code \in NotSent

OneStage(r) ==
  /\ r \notin asked => ~Queued(r) /\ ~Sending(r) /\ ~Handed(r) /\ r \notin reached /\ ~Refused(r)
  /\ Queued(r)      => ~Sending(r) /\ ~Handed(r) /\ r \notin reached /\ ~Refused(r)
  /\ Sending(r)     => ~Handed(r) /\ r \notin reached /\ ~Refused(r)
  /\ Handed(r)      => r \notin reached /\ ~Refused(r)
  /\ r \in reached  => ~Refused(r)

Distinct ==
  /\ \A i, j \in DOMAIN queue : queue[i] = queue[j] => i = j
  /\ \A i, j \in DOMAIN writing : writing[i].req = writing[j].req => i = j

StageInv == Distinct /\ \A r \in Requests : OneStage(r)

(* What the session knows of a request whose outcome is unknown.            *)
Aware == untrusted = lifetime

Active(r) == activeLifetime = startedIn[r] /\ activeTrusted = (r \in Trusted) /\ startedIn[r] # 0

Telling ==
  /\ stack # <<>> /\ stack[1].fn = "error" /\ stack[1].code \in Unknown
  /\ activeTrusted /\ activeLifetime = lifetime

Here(q) == q \in Trusted /\ startedIn[q] = lifetime

Starting(r) == \E t \in On : t.fn = "started" /\ t.req = r

Ended(q) ==
  \/ result[q] \in Unknown
  \/ \E t \in On : t.fn = "complete" /\ t.req = q /\ t.code \in Unknown

(* No trusted request waits for a worker that could still read it.          *)
Purged == \A q \in Trusted : ~Queued(q) /\ (Sending(q) => worker # "running")

TrustOf(r) ==
  /\ startedIn[r] <= lifetime
  /\ r \notin asked \/ Queued(r) \/ Starting(r) => startedIn[r] = 0
  /\ current = r /\ ~Starting(r) => Active(r)
  /\ Ended(r) => startedIn[r] # 0
  /\ Ended(r) /\ Here(r) => (Aware \/ Telling) /\ Purged

TrustOn(t) ==
  /\ t.fn \in {"reply", "replied"} => Active(t.req)
  /\ t.fn = "deliver" => startedIn[t.req] # 0
  /\ t.fn = "deliver" /\ t.code \in Unknown /\ Here(t.req) =>
       Aware \/ \E u \in On : u.fn \in {"reply", "replied"} /\ u.req = t.req /\ u.code = t.code
  /\ t.fn \in {"stop", "terminate"} /\ t.code = "interrupted" /\ current # NoRequest
       /\ Here(current) => Aware \/ Telling
  /\ t.fn = "terminate" => worker = "none"
  /\ t.fn = "started" => Sending(t.req) /\ \A u \in On : u.fn \notin {"stop", "terminate"}

(* Before the first start.                                                  *)
Unconfigured ==
  /\ worker = "none" /\ recovery = "none" /\ current = NoRequest
  /\ \A t \in Blocks : t.fn # "terminated"
  /\ \A t \in On : /\ t.fn \notin {"terminate", "onTermination", "schedule"}
                   /\ ~(t.fn = "error" /\ t.code \in Unknown)

TrustInv ==
  /\ \A r \in Requests : TrustOf(r)
  /\ \A t \in On : TrustOn(t)
  /\ configured \/ Unconfigured

(* What each kind of waiting waits for: the worker, which is on its way out,*)
Ending(t) == t.fn \in {"stopProcess", "stop"} \/ (t.fn = "deliver" /\ t.code \in Fatal)
Closing(t) == t.fn \in {"terminate", "onTermination"}

Leaving ==
  \/ worker = "stopping" \/ worker = "exited"
  \/ worker = "running" /\ \E t \in On : Ending(t)
  \/ worker = "none" /\ \E t \in On : Closing(t)

ExitInv ==
  /\ worker = "exited" <=> \E t \in Blocks : t.fn = "terminated"
  /\ \A i, j \in DOMAIN main : main[i].fn = "terminated" /\ main[j].fn = "terminated" => i = j

(* the client, the worker on its way out;                                   *)
Lost(t) == t.fn = "error" /\ t.code \notin Recoverable \cup {"mismatch"}

(* A recovery that the session is about to schedule.                        *)
Planned(t) == t.fn = "schedule" /\ t.code # "none"

LeavingInv ==
  /\ \A t \in On : t.fn = "onTermination" => worker = "none"
  /\ \A t \in On : t.fn = "schedule" => worker = "none" /\ (Planned(t) => Allowed)
  /\ terminal => worker = "none" \/ Leaving
  /\ restartPending => Leaving
  /\ (\E t \in On : Lost(t)) => worker = "none" \/ Leaving

(* the queue and the request in flight;                                     *)
Turning(t) == t.fn = "deliver" \/ (t.fn = "endDelivery" /\ t.code = "flush")

TurnInv ==
  /\ queue # <<>> => current # NoRequest \/ \E t \in On : Turning(t)
  /\ delivering => \E t \in On : t.fn \in {"deliver", "endDelivery"}
  /\ current # NoRequest => timer = current \/ Sending(current)
  /\ worker = "none" /\ current # NoRequest => \E t \in On : t.fn = "terminate"
  /\ \A t \in On : t.fn = "endDelivery" => t.code = "flush" \/ terminal

(* each request, until it is told how it ended;                             *)
Accounted(r) ==
  \/ result[r] # "none" \/ Queued(r) \/ current = r
  \/ \E t \in On : t.fn \in {"complete", "deliver"} /\ t.req = r

AccountInv ==
  /\ \A r \in asked : Accounted(r)
  /\ \A t \in On : t.fn = "complete" => t.code # "none"

(* the interface, until it shows that nothing is going on.                  *)
Shown ==
  \/ current # NoRequest \/ (recovery # "none" /\ worker = "none") \/ Leaving
  \/ \E t \in On : t.fn \in {"reply", "error"} \/ Planned(t)

BusyInv ==
  /\ terminationRequested => recovery = "none"
  /\ busy => configured /\ Shown

--------------------------------------------------------------------------------
(* Sequences and the sets of what is in them.                               *)
LEMMA RangeOf ==
  ASSUME NEW S, NEW s \in Seq(S)
  PROVE  /\ Range(s) \subseteq S
         /\ \A i \in 1..Len(s) : s[i] \in Range(s)
         /\ \A x \in Range(s) : \E i \in 1..Len(s) : x = s[i]
BY DEF Range

LEMMA RangeConcat ==
  ASSUME NEW S, NEW s \in Seq(S), NEW t \in Seq(S)
  PROVE  Range(s \o t) = Range(s) \cup Range(t)
<1>1. /\ s \o t \in Seq(S) /\ Len(s \o t) = Len(s) + Len(t)
      /\ \A i \in 1..Len(s) : (s \o t)[i] = s[i]
      /\ \A i \in 1..Len(t) : (s \o t)[Len(s) + i] = t[i]
  BY ConcatProperties
<1>2. Range(s \o t) \subseteq Range(s) \cup Range(t)
  <2>1. SUFFICES ASSUME NEW i \in 1..(Len(s) + Len(t))
                 PROVE  (s \o t)[i] \in Range(s) \cup Range(t)
    BY <1>1 DEF Range
  <2>2. CASE i \in 1..Len(s) BY <1>1, <2>2 DEF Range
  <2>3. CASE i \notin 1..Len(s)
    <3>1. i - Len(s) \in 1..Len(t) /\ Len(s) + (i - Len(s)) = i BY <2>1, <2>3
    <3>. QED BY <1>1, <3>1 DEF Range
  <2>. QED BY <2>2, <2>3
<1>3. \A i \in 1..Len(s) : i \in 1..(Len(s) + Len(t)) OBVIOUS
<1>4. \A i \in 1..Len(t) : Len(s) + i \in 1..(Len(s) + Len(t)) OBVIOUS
<1>5. Range(s) \subseteq Range(s \o t) BY <1>1, <1>3 DEF Range
<1>6. Range(t) \subseteq Range(s \o t)
  <2>1. SUFFICES ASSUME NEW i \in 1..Len(t) PROVE t[i] \in Range(s \o t) BY DEF Range
  <2>2. Len(s) + i \in DOMAIN (s \o t) /\ (s \o t)[Len(s) + i] = t[i] BY <1>1, <1>4
  <2>. QED BY <2>2 DEF Range
<1>. QED BY <1>2, <1>5, <1>6

LEMMA RangeTuples ==
  /\ Range(<<>>) = {}
  /\ \A a : Range(<<a>>) = {a}
  /\ \A a, b : Range(<<a, b>>) = {a, b}
  /\ \A a, b, c : Range(<<a, b, c>>) = {a, b, c}
BY DEF Range

LEMMA RangeTail ==
  ASSUME NEW S, NEW s \in Seq(S), s # <<>>
  PROVE  /\ Head(s) = s[1] /\ s[1] \in S /\ Tail(s) \in Seq(S)
         /\ Len(Tail(s)) = Len(s) - 1 /\ \A i \in 1..(Len(s) - 1) : Tail(s)[i] = s[i + 1]
         /\ Range(s) = {s[1]} \cup Range(Tail(s))
<1>1. /\ Head(s) = s[1] /\ s[1] \in S /\ Tail(s) \in Seq(S)
      /\ Len(Tail(s)) = Len(s) - 1 /\ \A i \in 1..(Len(s) - 1) : Tail(s)[i] = s[i + 1]
      /\ Len(s) \in Nat \ {0}
  BY HeadTailProperties
<1>2. Range(s) \subseteq {s[1]} \cup Range(Tail(s))
  <2>1. SUFFICES ASSUME NEW i \in 1..Len(s) PROVE s[i] \in {s[1]} \cup Range(Tail(s)) BY DEF Range
  <2>2. CASE i = 1 BY <2>2
  <2>3. CASE i # 1
    <3>1. i - 1 \in 1..(Len(s) - 1) /\ i - 1 + 1 = i BY <2>1, <2>3, <1>1
    <3>2. i - 1 \in DOMAIN Tail(s) /\ Tail(s)[i - 1] = s[i] BY <1>1, <3>1
    <3>. QED BY <3>2 DEF Range
  <2>. QED BY <2>2, <2>3
<1>3. \A i \in 1..(Len(s) - 1) : i + 1 \in 1..Len(s) BY <1>1
<1>4. 1 \in 1..Len(s) BY <1>1
<1>. QED BY <1>1, <1>2, <1>3, <1>4 DEF Range

LEMMA RangeAppend ==
  ASSUME NEW S, NEW s \in Seq(S), NEW x \in S
  PROVE  Append(s, x) \in Seq(S) /\ Range(Append(s, x)) = Range(s) \cup {x}
<1>1. /\ Append(s, x) \in Seq(S) /\ Len(Append(s, x)) = Len(s) + 1
      /\ \A i \in 1..Len(s) : Append(s, x)[i] = s[i]
      /\ Append(s, x)[Len(s) + 1] = x
  BY AppendProperties
<1>2. Range(Append(s, x)) \subseteq Range(s) \cup {x}
  <2>1. SUFFICES ASSUME NEW i \in 1..(Len(s) + 1) PROVE Append(s, x)[i] \in Range(s) \cup {x}
    BY <1>1 DEF Range
  <2>2. i \in 1..Len(s) \/ i = Len(s) + 1 BY <2>1
  <2>. QED BY <1>1, <2>2 DEF Range
<1>3. \A i \in 1..Len(s) : i \in 1..(Len(s) + 1) OBVIOUS
<1>4. Len(s) + 1 \in 1..(Len(s) + 1) OBVIOUS
<1>5. Range(s) \subseteq Range(Append(s, x)) BY <1>1, <1>3 DEF Range
<1>6. x \in Range(Append(s, x)) BY <1>1, <1>4 DEF Range
<1>. QED BY <1>1, <1>2, <1>5, <1>6

--------------------------------------------------------------------------------
(* Tasks.                                                                   *)
LEMMA TaskTypes ==
  /\ App \in Tasks /\ StopProcess \in Tasks
  /\ Task("onTermination", NoRequest, "none") \in Tasks
  /\ \A code \in {"none", "flush"} : Task("endDelivery", NoRequest, code) \in Tasks
  /\ \A kind \in Kinds : Task("schedule", NoRequest, kind) \in Tasks
  /\ \A code \in Codes : Callback(code) \in Tasks
  /\ \A r \in Requests :
       /\ Task("started", r, "none") \in Tasks /\ Task("transmit", r, "none") \in Tasks
       /\ \A code \in Codes : Complete(r, code) \in Tasks
       /\ \A code \in Replies : /\ Task("reply", r, code) \in Tasks
                                /\ Task("replied", r, code) \in Tasks
                                /\ Task("deliver", r, code) \in Tasks
BY DEF App, StopProcess, Callback, Complete, Task, Tasks, TaskKinds, OfRequest, Codes, Results,
       Replies, NotSent, Unknown, Kinds

Simple(u) == ~TopOnly(u) /\ u.fn \notin {"transmit", "replied", "deliver"}

SimpleTasks == {t \in Tasks : Simple(t)}

LEMMA SimpleTypes ==
  /\ App \in SimpleTasks /\ StopProcess \in SimpleTasks
  /\ Task("onTermination", NoRequest, "none") \in SimpleTasks
  /\ \A code \in {"none", "flush"} : Task("endDelivery", NoRequest, code) \in SimpleTasks
  /\ \A kind \in Kinds : Task("schedule", NoRequest, kind) \in SimpleTasks
  /\ \A r \in Requests, code \in Codes : Complete(r, code) \in SimpleTasks
<1>1. /\ Simple(App) /\ Simple(StopProcess)
      /\ Simple(Task("onTermination", NoRequest, "none"))
      /\ \A code \in {"none", "flush"} : Simple(Task("endDelivery", NoRequest, code))
      /\ \A kind \in Kinds : Simple(Task("schedule", NoRequest, kind))
      /\ \A r \in Requests, code \in Codes : Simple(Complete(r, code))
  BY DEF Simple, TopOnly, App, StopProcess, Complete, Task
<1>. QED BY <1>1, TaskTypes DEF SimpleTasks

(* Tasks of which only the first may be one that has to be on top.          *)
Fine(tasks) == tasks \in Seq(Tasks) /\ \A i \in 2..Len(tasks) : Simple(tasks[i])

LEMMA FineSimple ==
  ASSUME NEW tasks \in Seq(SimpleTasks)
  PROVE  Fine(tasks)
BY DEF Fine, SimpleTasks

LEMMA FineConcat ==
  ASSUME NEW tasks, Fine(tasks), tasks # <<>>, NEW more \in Seq(SimpleTasks)
  PROVE  Fine(tasks \o more) /\ tasks \o more # <<>> /\ (tasks \o more)[1] = tasks[1]
<1>1. tasks \in Seq(Tasks) /\ more \in Seq(Tasks) /\ Len(tasks) \in Nat \ {0} /\ Len(more) \in Nat
  BY DEF Fine, SimpleTasks
<1>2. /\ tasks \o more \in Seq(Tasks) /\ Len(tasks \o more) = Len(tasks) + Len(more)
      /\ \A i \in 1..Len(tasks) : (tasks \o more)[i] = tasks[i]
      /\ \A i \in 1..Len(more) : (tasks \o more)[Len(tasks) + i] = more[i]
  BY <1>1, ConcatProperties
<1>3. ASSUME NEW i \in 2..(Len(tasks) + Len(more))
      PROVE  Simple((tasks \o more)[i])
  <2>1. CASE i \in 1..Len(tasks)
    <3>1. i \in 2..Len(tasks) /\ (tasks \o more)[i] = tasks[i] BY <1>2, <1>3, <2>1
    <3>. QED BY <3>1 DEF Fine
  <2>2. CASE i \notin 1..Len(tasks)
    <3>1. i - Len(tasks) \in 1..Len(more) /\ Len(tasks) + (i - Len(tasks)) = i BY <1>1, <1>3, <2>2
    <3>2. (tasks \o more)[i] = more[i - Len(tasks)] BY <1>2, <3>1
    <3>3. more[i - Len(tasks)] \in SimpleTasks BY <3>1
    <3>. QED BY <3>2, <3>3 DEF SimpleTasks
  <2>. QED BY <2>1, <2>2
<1>. QED BY <1>1, <1>2, <1>3 DEF Fine

LEMMA CompleteAllTasks ==
  ASSUME NEW rs \in Seq(Requests), NEW code \in Codes
  PROVE  /\ CompleteAll(rs, code) \in Seq(SimpleTasks)
         /\ Range(CompleteAll(rs, code)) = {Complete(x, code) : x \in Range(rs)}
<1>1. DOMAIN rs = 1..Len(rs) /\ \A i \in 1..Len(rs) : rs[i] \in Requests OBVIOUS
<1>2. CompleteAll(rs, code) = [i \in 1..Len(rs) |-> Complete(rs[i], code)]
  BY <1>1 DEF CompleteAll
<1>3. \A i \in 1..Len(rs) : Complete(rs[i], code) \in SimpleTasks BY <1>1, SimpleTypes
<1>4. CompleteAll(rs, code) \in [1..Len(rs) -> SimpleTasks] BY <1>2, <1>3
<1>5. CompleteAll(rs, code) \in Seq(SimpleTasks) BY <1>4, SeqDef
<1>6. Range(CompleteAll(rs, code)) = {Complete(rs[i], code) : i \in 1..Len(rs)}
  BY <1>2 DEF Range
<1>7. Range(rs) = {rs[i] : i \in 1..Len(rs)} BY DEF Range
<1>. QED BY <1>5, <1>6, <1>7

(* What is put on the stack above the tasks that stay.                      *)
LEMMA Stacked ==
  ASSUME NEW rest \in Seq(Tasks), Neat(rest), NEW tasks \in Seq(Tasks), Neat(tasks),
         \A t \in Range(tasks), u \in Range(rest) : Fits(t, u)
  PROVE  /\ tasks \o rest \in Seq(Tasks) /\ Neat(tasks \o rest)
         /\ Range(tasks \o rest) = Range(tasks) \cup Range(rest)
         /\ tasks # <<>> => tasks \o rest # <<>> /\ (tasks \o rest)[1] = tasks[1]
<1>. DEFINE all == tasks \o rest
            n == Len(tasks)
<1>1. /\ all \in Seq(Tasks) /\ Len(all) = n + Len(rest)
      /\ \A i \in 1..n : all[i] = tasks[i]
      /\ \A i \in 1..Len(rest) : all[n + i] = rest[i]
      /\ n \in Nat /\ Len(rest) \in Nat
  BY ConcatProperties
<1>2. Range(all) = Range(tasks) \cup Range(rest) BY RangeConcat
<1>3. ASSUME NEW i \in 1..Len(all), NEW j \in 1..Len(all), i < j
      PROVE  Fits(all[i], all[j])
  <2>. HIDE DEF all, n
  <2>1. CASE j \in 1..n
    <3>1. i \in 1..n BY <1>1, <1>3, <2>1
    <3>. QED BY <1>1, <1>3, <2>1, <3>1 DEF Neat, n
  <2>2. CASE j \notin 1..n
    <3>1. j - n \in 1..Len(rest) /\ n + (j - n) = j BY <1>1, <1>3, <2>2
    <3>2. all[j] = rest[j - n] /\ all[j] \in Range(rest) BY <1>1, <3>1, RangeOf
    <3>3. CASE i \in 1..n
      <4>1. all[i] \in Range(tasks) BY <1>1, <3>3, RangeOf DEF n
      <4>. QED BY <3>2, <4>1
    <3>4. CASE i \notin 1..n
      <4>1. i - n \in 1..Len(rest) /\ n + (i - n) = i /\ i - n < j - n BY <1>1, <1>3, <3>1, <3>4
      <4>2. all[i] = rest[i - n] BY <1>1, <4>1
      <4>. QED BY <3>1, <3>2, <4>1, <4>2 DEF Neat
    <3>. QED BY <3>3, <3>4
  <2>. QED BY <2>1, <2>2
<1>4. Neat(all) BY <1>1, <1>3 DEF Neat
<1>5. tasks # <<>> => n # 0 OBVIOUS
<1>6. tasks # <<>> => all # <<>> /\ all[1] = tasks[1]
  <2>1. HAVE tasks # <<>>
  <2>2. 1 \in 1..n /\ Len(all) # 0 BY <1>1, <1>5, <2>1
  <2>. QED BY <1>1, <2>2
<1>. QED BY <1>1, <1>2, <1>4, <1>6

LEMMA FineNeat ==
  ASSUME NEW tasks, Fine(tasks)
  PROVE  Neat(tasks)
<1>1. SUFFICES ASSUME NEW i \in DOMAIN tasks, NEW j \in DOMAIN tasks, i < j
               PROVE  Fits(tasks[i], tasks[j])
  BY DEF Neat
<1>2. j \in 2..Len(tasks) BY <1>1 DEF Fine
<1>. QED BY <1>2 DEF Fine, Simple, Fits

(* What lies under the first task.                                          *)
LEMMA UnderTop ==
  ASSUME Base, stack # <<>>
  PROVE  /\ stack[1] \in Tasks /\ Tail(stack) \in Seq(Tasks) /\ Neat(Tail(stack))
         /\ On = {stack[1]} \cup Under /\ On \subseteq Tasks
         /\ \A u \in Under : Fits(stack[1], u)
<1>1. stack \in Seq(Tasks) BY DEF Base, ClientTypeOK
<1>2. /\ stack[1] \in Tasks /\ Tail(stack) \in Seq(Tasks) /\ On = {stack[1]} \cup Under
      /\ Len(Tail(stack)) = Len(stack) - 1
      /\ \A i \in 1..(Len(stack) - 1) : Tail(stack)[i] = stack[i + 1]
  BY <1>1, RangeTail DEF On, Under
<1>3. \A i \in 1..(Len(stack) - 1) : i + 1 \in 1..Len(stack) /\ 1 < i + 1 BY <1>1
<1>4. \A i, j \in 1..(Len(stack) - 1) : i < j => i + 1 < j + 1 OBVIOUS
<1>5. Neat(Tail(stack)) BY <1>1, <1>2, <1>3, <1>4 DEF Base, Neat
<1>6. 1 \in 1..Len(stack) BY <1>1
<1>7. \A i \in 1..(Len(stack) - 1) : Fits(stack[1], Tail(stack)[i])
  BY <1>1, <1>2, <1>3, <1>6 DEF Base, Neat
<1>8. \A u \in Under : \E i \in 1..(Len(stack) - 1) : u = Tail(stack)[i]
  BY <1>2, RangeOf DEF Under
<1>9. On \subseteq Tasks BY <1>1, RangeOf DEF On
<1>. QED BY <1>2, <1>5, <1>7, <1>8, <1>9

LEMMA NothingOn ==
  ASSUME Idle
  PROVE  On = {} /\ AppRuns
BY RangeTuples DEF Idle, On, AppRuns

(* Application code runs, so nothing on the stack has to be on top.         *)
LEMMA AppOnTop ==
  ASSUME Base, AppRuns
  PROVE  \A u \in On : ~TopOnly(u)
<1>1. CASE stack = <<>> BY <1>1, NothingOn DEF Idle
<1>2. CASE stack # <<>>
  <2>1. stack[1] = App BY <1>2 DEF AppRuns
  <2>2. ~TopOnly(App) BY DEF TopOnly, App, Task
  <2>. QED BY <1>2, <2>1, <2>2, UnderTop DEF Fits
<1>. QED BY <1>1, <1>2

(* Fine tasks without a write or a delivery go on top of anything.          *)
Plain(tasks) == Fine(tasks) /\ \A t \in Range(tasks) : t.fn \notin {"transmit", "deliver"}

LEMMA CallStep ==
  ASSUME Base, AppRuns, NEW tasks, Plain(tasks), Call(tasks)
  PROVE  /\ stack' \in Seq(Tasks) /\ Neat(stack)' /\ On' = Range(tasks) \cup On
         /\ tasks # <<>> => stack' # <<>> /\ stack'[1] = tasks[1]
<1>1. stack \in Seq(Tasks) /\ Neat(stack) BY DEF Base, ClientTypeOK
<1>2. tasks \in Seq(Tasks) /\ Neat(tasks) BY FineNeat DEF Plain, Fine
<1>3. \A t \in Range(tasks), u \in Range(stack) : Fits(t, u)
  BY AppOnTop DEF Plain, Fits, On
<1>4. stack' = tasks \o stack BY DEF Call
<1>. QED BY <1>1, <1>2, <1>3, <1>4, Stacked DEF On

LEMMA ThenStep ==
  ASSUME Base, stack # <<>>, NEW tasks, Plain(tasks), Then(tasks)
  PROVE  /\ stack' \in Seq(Tasks) /\ Neat(stack)' /\ On' = Range(tasks) \cup Under
         /\ tasks # <<>> => stack' # <<>> /\ stack'[1] = tasks[1]
<1>1. Tail(stack) \in Seq(Tasks) /\ Neat(Tail(stack)) BY UnderTop
<1>2. tasks \in Seq(Tasks) /\ Neat(tasks) BY FineNeat DEF Plain, Fine
<1>3. \A t \in Range(tasks), u \in Range(Tail(stack)) : Fits(t, u)
  BY UnderTop DEF Plain, Fits, Under
<1>4. stack' = tasks \o Tail(stack) BY DEF Then
<1>. QED BY <1>1, <1>2, <1>3, <1>4, Stacked DEF On, Under

--------------------------------------------------------------------------------
(* What each handler puts on the stack.                                     *)
Cancelled == {Complete(x, "cancelled") : x \in Range(queue)}

Interruption(fn) ==
  IF current # NoRequest /\ ~terminal
  THEN {Callback("interrupted"), Task(fn, current, "interrupted")}
  ELSE {Task(fn, current, "cancelled")}

(* The stack stays well formed and holds these tasks, with that one on top. *)
Holds(tasks) == stack' \in Seq(Tasks) /\ Neat(stack)' /\ On' = tasks

Leaves(tasks, first) == Holds(tasks) /\ stack' # <<>> /\ stack'[1] = first

LEMMA CodeTypes ==
  /\ NotSent \subseteq Codes /\ Unknown \subseteq Codes /\ Replies \subseteq Codes
  /\ "flush" \in Codes /\ "none" \in Codes /\ "idleProtocolError" \in Codes
BY DEF Codes, Results

LEMMA PlainOne ==
  ASSUME NEW a \in Tasks, a.fn \notin {"transmit", "deliver"}
  PROVE  Plain(<<a>>) /\ Range(<<a>>) = {a} /\ <<a>> # <<>> /\ <<a>>[1] = a
<1>1. Fine(<<a>>) BY DEF Fine
<1>. QED BY <1>1, RangeTuples DEF Plain

LEMMA PlainTwo ==
  ASSUME NEW a \in Tasks, a.fn \notin {"transmit", "deliver"}, NEW b \in SimpleTasks
  PROVE  Plain(<<a, b>>) /\ Range(<<a, b>>) = {a, b} /\ <<a, b>> # <<>> /\ <<a, b>>[1] = a
<1>1. b \in Tasks /\ Simple(b) BY DEF SimpleTasks
<1>2. Fine(<<a, b>>) BY <1>1 DEF Fine
<1>3. b.fn \notin {"transmit", "deliver"} BY <1>1 DEF Simple
<1>. QED BY <1>2, <1>3, RangeTuples DEF Plain

LEMMA PlainThree ==
  ASSUME NEW a \in Tasks, a.fn \notin {"transmit", "deliver"}, NEW b \in SimpleTasks,
         NEW c \in SimpleTasks
  PROVE  /\ Plain(<<a, b, c>>) /\ Range(<<a, b, c>>) = {a, b, c}
         /\ <<a, b, c>> # <<>> /\ <<a, b, c>>[1] = a
<1>1. b \in Tasks /\ Simple(b) /\ c \in Tasks /\ Simple(c) BY DEF SimpleTasks
<1>2. Fine(<<a, b, c>>) BY <1>1 DEF Fine
<1>3. b.fn \notin {"transmit", "deliver"} /\ c.fn \notin {"transmit", "deliver"}
  BY <1>1 DEF Simple
<1>. QED BY <1>2, <1>3, RangeTuples DEF Plain

LEMMA PlainNone == Plain(<<>>) /\ Range(<<>>) = {}
BY RangeTuples DEF Plain, Fine

LEMMA PlainConcat ==
  ASSUME NEW tasks, Plain(tasks), tasks # <<>>, NEW more \in Seq(SimpleTasks)
  PROVE  /\ Plain(tasks \o more) /\ Range(tasks \o more) = Range(tasks) \cup Range(more)
         /\ tasks \o more # <<>> /\ (tasks \o more)[1] = tasks[1]
<1>1. Fine(tasks \o more) /\ tasks \o more # <<>> /\ (tasks \o more)[1] = tasks[1]
  BY FineConcat DEF Plain
<1>2. tasks \in Seq(Tasks) /\ more \in Seq(Tasks) BY DEF Plain, Fine, SimpleTasks
<1>3. Range(tasks \o more) = Range(tasks) \cup Range(more) BY <1>2, RangeConcat
<1>4. \A t \in Range(more) : t.fn \notin {"transmit", "deliver"}
  BY RangeOf DEF SimpleTasks, Simple
<1>. QED BY <1>1, <1>3, <1>4 DEF Plain

LEMMA PlainSimple ==
  ASSUME NEW tasks \in Seq(SimpleTasks)
  PROVE  Plain(tasks)
<1>1. \A t \in Range(tasks) : t.fn \notin {"transmit", "deliver"}
  BY RangeOf DEF SimpleTasks, Simple
<1>. QED BY <1>1, FineSimple DEF Plain

(* The requests the client gives up.                                        *)
LEMMA OutstandingTasks ==
  ASSUME Base, NEW code \in Codes
  PROVE  /\ Outstanding(code) \in Seq(SimpleTasks)
         /\ Range(Outstanding(code)) =
              (IF current = NoRequest THEN {} ELSE {Complete(current, code)}) \cup Cancelled
<1>. DEFINE first == IF current = NoRequest THEN <<>> ELSE <<Complete(current, code)>>
            given == IF current = NoRequest THEN {} ELSE {Complete(current, code)}
<1>1. queue \in Seq(Requests) /\ current \in Requests \cup {NoRequest} BY DEF Base, ClientTypeOK
<1>2. "cancelled" \in Codes BY CodeTypes DEF NotSent
<1>3. CompleteAll(queue, "cancelled") \in Seq(SimpleTasks)
      /\ Range(CompleteAll(queue, "cancelled")) = Cancelled
  BY <1>1, <1>2, CompleteAllTasks DEF Cancelled
<1>4. first \in Seq(SimpleTasks) /\ Range(first) = given
  <2>1. CASE current = NoRequest BY <2>1, RangeTuples
  <2>2. CASE current # NoRequest
    <3>1. Complete(current, code) \in SimpleTasks BY <1>1, <2>2, SimpleTypes
    <3>. QED BY <2>2, <3>1, RangeTuples
  <2>. QED BY <2>1, <2>2
<1>5. Outstanding(code) = first \o CompleteAll(queue, "cancelled") BY DEF Outstanding
<1>. HIDE DEF first, given
<1>6. Outstanding(code) \in Seq(SimpleTasks) /\ Range(Outstanding(code)) = given \cup Cancelled
  BY <1>3, <1>4, <1>5, ConcatProperties, RangeConcat
<1>. QED BY <1>6 DEF given

LEMMA InterruptingTasks ==
  ASSUME Base, NEW fn \in {"stop", "terminate"}
  PROVE  /\ Plain(Interrupting(fn)) /\ Range(Interrupting(fn)) = Interruption(fn)
         /\ Interrupting(fn) # <<>>
         /\ Interrupting(fn)[1] = IF current # NoRequest /\ ~terminal
                                  THEN Callback("interrupted") ELSE Task(fn, current, "cancelled")
<1>1. current \in Requests \cup {NoRequest} BY DEF Base, ClientTypeOK
<1>2. {"cancelled", "interrupted"} \subseteq Codes BY CodeTypes DEF NotSent, Unknown
<1>3. \A code \in {"cancelled", "interrupted"} : Task(fn, current, code) \in Tasks
  BY <1>1, <1>2 DEF Task, Tasks, TaskKinds, OfRequest
<1>4. CASE current # NoRequest /\ ~terminal
  <2>. DEFINE a == Callback("interrupted")
              b == Task(fn, current, "interrupted")
  <2>1. a \in Tasks /\ a.fn \notin {"transmit", "deliver"} BY <1>2, TaskTypes DEF Callback, Task
  <2>2. Simple(b) BY DEF Simple, TopOnly, Task
  <2>3. b \in SimpleTasks BY <1>3, <2>2 DEF SimpleTasks
  <2>4. Interrupting(fn) = <<a, b>> BY <1>4 DEF Interrupting
  <2>. HIDE DEF a, b
  <2>5. Plain(<<a, b>>) /\ Range(<<a, b>>) = {a, b} /\ <<a, b>> # <<>> /\ <<a, b>>[1] = a
    BY <2>1, <2>3, PlainTwo
  <2>. QED BY <1>4, <2>4, <2>5 DEF Interruption, a, b
<1>5. CASE ~(current # NoRequest /\ ~terminal)
  <2>. DEFINE a == Task(fn, current, "cancelled")
  <2>1. a \in Tasks BY <1>3
  <2>2. a.fn \notin {"transmit", "deliver"} BY DEF Task
  <2>3. Interrupting(fn) = <<a>> BY <1>5 DEF Interrupting
  <2>. HIDE DEF a
  <2>4. Plain(<<a>>) /\ Range(<<a>>) = {a} /\ <<a>> # <<>> /\ <<a>>[1] = a BY <2>1, <2>2, PlainOne
  <2>. QED BY <1>5, <2>3, <2>4 DEF Interruption, a
<1>. QED BY <1>4, <1>5

(* Above: rest is what stays, all of the stack or what is under the top.    *)
Rest(rest) == (rest = stack /\ AppRuns) \/ (stack # <<>> /\ rest = Tail(stack))

LEMMA RestStep ==
  ASSUME Base, NEW rest, Rest(rest), NEW tasks, Plain(tasks), stack' = tasks \o rest
  PROVE  /\ stack' \in Seq(Tasks) /\ Neat(stack)' /\ On' = Range(tasks) \cup Range(rest)
         /\ tasks # <<>> => stack' # <<>> /\ stack'[1] = tasks[1]
<1>1. CASE rest = stack /\ AppRuns BY <1>1, CallStep DEF Call, On
<1>2. CASE stack # <<>> /\ rest = Tail(stack) BY <1>2, ThenStep DEF Then, Under
<1>. QED BY <1>1, <1>2 DEF Rest

(* A dispatch: the start, the write, or the end of the client.              *)
LEMMA DispatchEffect ==
  ASSUME Base, NEW r \in Requests, NEW waiting \in Seq(Requests), NEW rest, Rest(rest),
         Dispatch(r, waiting, rest),
         IsRunning /\ ~terminal => \A u \in Range(rest) : u.fn # "transmit"
  PROVE  \/ /\ IsRunning /\ ~terminal
            /\ current' = r /\ queue' = waiting /\ UNCHANGED terminal
            /\ Leaves({Task("started", r, "none"), Task("transmit", r, "none")} \cup Range(rest),
                      Task("started", r, "none"))
         \/ /\ ~(IsRunning /\ ~terminal)
            /\ terminal' = TRUE /\ queue' = <<>> /\ UNCHANGED current
            /\ Leaves({Callback("unavailable"), Complete(r, "unavailable"), StopProcess}
                        \cup {Complete(x, "cancelled") : x \in Range(waiting)} \cup Range(rest),
                      Callback("unavailable"))
<1>1. CASE IsRunning /\ ~terminal
  <2>. DEFINE a == Task("started", r, "none")
              b == Task("transmit", r, "none")
  <2>1. a \in Tasks /\ b \in Tasks BY TaskTypes
  <2>2. a.fn = "started" /\ b.fn = "transmit" BY DEF Task
  <2>3. stack' = <<a, b>> \o rest BY <1>1 DEF Dispatch
  <2>. HIDE DEF a, b
  <2>4. ~TopOnly(b) BY <2>2 DEF TopOnly
  <2>5. Neat(<<a, b>>)
    <3>1. Fits(a, b) BY <2>2, <2>4 DEF Fits
    <3>2. SUFFICES ASSUME NEW i \in 1..2, NEW j \in 1..2, i < j
                   PROVE  Fits(<<a, b>>[i], <<a, b>>[j])
      BY DEF Neat
    <3>3. i = 1 /\ j = 2 BY <3>2
    <3>. QED BY <3>1, <3>3
  <2>6. rest \in Seq(Tasks) /\ Neat(rest) /\ \A u \in Range(rest) : ~TopOnly(u)
    <3>1. CASE rest = stack /\ AppRuns BY <3>1, AppOnTop DEF Base, ClientTypeOK, On
    <3>2. CASE stack # <<>> /\ rest = Tail(stack) BY <3>2, UnderTop DEF Under, Fits
    <3>. QED BY <3>1, <3>2 DEF Rest
  <2>7. Range(<<a, b>>) = {a, b} BY RangeTuples
  <2>8. \A t \in Range(<<a, b>>), u \in Range(rest) : Fits(t, u)
    BY <1>1, <2>2, <2>6, <2>7 DEF Fits
  <2>9. <<a, b>> \in Seq(Tasks) /\ <<a, b>> # <<>> /\ <<a, b>>[1] = a BY <2>1
  <2>10. /\ stack' \in Seq(Tasks) /\ Neat(stack') /\ Range(stack') = {a, b} \cup Range(rest)
         /\ stack' # <<>> /\ stack'[1] = a
    BY <2>3, <2>5, <2>6, <2>7, <2>8, <2>9, Stacked
  <2>11. Leaves({a, b} \cup Range(rest), a) BY <2>10 DEF Leaves, Holds, On, Neat
  <2>. QED BY <1>1, <2>11 DEF Dispatch, a, b
<1>2. CASE ~(IsRunning /\ ~terminal)
  <2>. DEFINE a == Callback("unavailable")
              b == Complete(r, "unavailable")
              m == CompleteAll(waiting, "cancelled")
  <2>1. {"unavailable", "cancelled"} \subseteq Codes BY CodeTypes DEF NotSent
  <2>2. a \in Tasks /\ a.fn \notin {"transmit", "deliver"} BY <2>1, TaskTypes DEF Callback, Task
  <2>3. b \in SimpleTasks BY <2>1, SimpleTypes
  <2>4. m \in Seq(SimpleTasks) /\ Range(m) = {Complete(x, "cancelled") : x \in Range(waiting)}
    BY <2>1, CompleteAllTasks
  <2>. DEFINE p == <<a, b>>
              s == <<StopProcess>>
              all == (p \o m) \o s
  <2>5. stack' = all \o rest BY <1>2 DEF Dispatch
  <2>. HIDE DEF a, b, m
  <2>6. Plain(p) /\ Range(p) = {a, b} /\ p # <<>> /\ p[1] = a BY <2>2, <2>3, PlainTwo
  <2>7. s \in Seq(SimpleTasks) /\ Range(s) = {StopProcess} BY SimpleTypes, RangeTuples
  <2>. HIDE DEF p, s
  <2>. DEFINE q == p \o m
  <2>8. Plain(q) /\ Range(q) = {a, b} \cup Range(m) /\ q # <<>> /\ q[1] = a
    BY <2>4, <2>6, PlainConcat
  <2>. HIDE DEF q
  <2>9. /\ Plain(all) /\ Range(all) = {a, b} \cup Range(m) \cup {StopProcess}
        /\ all # <<>> /\ all[1] = a
    <3>1. Plain(q \o s) /\ Range(q \o s) = Range(q) \cup Range(s) /\ q \o s # <<>> /\ (q \o s)[1] = q[1]
      BY <2>7, <2>8, PlainConcat
    <3>. QED BY <2>7, <2>8, <3>1 DEF q
  <2>. HIDE DEF all
  <2>10. /\ stack' \in Seq(Tasks) /\ Neat(stack)'
         /\ On' = ({a, b} \cup Range(m) \cup {StopProcess}) \cup Range(rest)
         /\ stack' # <<>> /\ stack'[1] = a
    <3>1. /\ stack' \in Seq(Tasks) /\ Neat(stack)' /\ On' = Range(all) \cup Range(rest)
          /\ all # <<>> => stack' # <<>> /\ stack'[1] = all[1]
      <4>1. Plain(all) BY <2>9
      <4>. QED BY <4>1, <2>5, RestStep
    <3>. QED BY <2>9, <3>1
  <2>11. Leaves({a, b, StopProcess} \cup Range(m) \cup Range(rest), a) BY <2>10 DEF Leaves, Holds
  <2>. QED BY <1>2, <2>4, <2>11 DEF Dispatch, a, b
<1>. QED BY <1>1, <1>2

(* A failed send.                                                           *)
LEMMA SendFailedEffect ==
  ASSUME Base, NEW r \in Requests, NEW code \in {"encodeFailed", "sendFailed", "sendUnknown"},
         NEW t, NEW rest, Rest(rest), SendFailed(r, code, t, rest)
  PROVE  \/ /\ current = r /\ ~terminal /\ code = "encodeFailed"
            /\ current' = NoRequest /\ timer' = NoRequest /\ delivering' = TRUE
            /\ UNCHANGED <<terminal, queue>>
            /\ Leaves({Callback(code), Complete(r, code), Task("endDelivery", NoRequest, "flush")}
                        \cup Range(rest), Callback(code))
         \/ /\ current = r /\ ~terminal /\ code # "encodeFailed"
            /\ current' = NoRequest /\ timer' = NoRequest /\ delivering' = TRUE
            /\ terminal' = TRUE /\ queue' = <<>>
            /\ Leaves({Callback(code), StopProcess, Complete(r, code),
                       Task("endDelivery", NoRequest, "none")} \cup Cancelled \cup Range(rest),
                      Callback(code))
         \/ /\ ~(current = r /\ ~terminal)
            /\ timer' = t /\ UNCHANGED <<current, queue, delivering, terminal>>
            /\ stack' = rest /\ stack' \in Seq(Tasks) /\ Neat(stack)' /\ On' = Range(rest)
<1>. DEFINE a == Callback(code)
            b == Complete(r, code)
            m == CompleteAll(queue, "cancelled")
            f == Task("endDelivery", NoRequest, "flush")
            n == Task("endDelivery", NoRequest, "none")
<1>1. code \in Codes /\ "cancelled" \in Codes BY CodeTypes DEF NotSent, Unknown
<1>2. a \in Tasks /\ a.fn \notin {"transmit", "deliver"} BY <1>1, TaskTypes DEF Callback, Task
<1>3. b \in SimpleTasks /\ f \in SimpleTasks /\ n \in SimpleTasks /\ StopProcess \in SimpleTasks
  BY <1>1, SimpleTypes
<1>4. queue \in Seq(Requests) BY DEF Base, ClientTypeOK
<1>5. m \in Seq(SimpleTasks) /\ Range(m) = Cancelled
  BY <1>1, <1>4, CompleteAllTasks DEF Cancelled
<1>6. CASE current = r /\ ~terminal /\ code = "encodeFailed"
  <2>1. stack' = <<a, b, f>> \o rest BY <1>6 DEF SendFailed
  <2>. HIDE DEF a, b, f
  <2>. DEFINE u == <<a, b, f>>
  <2>2. Plain(u) /\ Range(u) = {a, b, f} /\ u # <<>> /\ u[1] = a BY <1>2, <1>3, PlainThree
  <2>3. stack' = u \o rest BY <2>1
  <2>. HIDE DEF u
  <2>4. /\ stack' \in Seq(Tasks) /\ Neat(stack)' /\ On' = Range(u) \cup Range(rest)
        /\ u # <<>> => stack' # <<>> /\ stack'[1] = u[1]
    <3>1. Plain(u) BY <2>2
    <3>. QED BY <3>1, <2>3, RestStep
  <2>5. Range(u) \cup Range(rest) = {a, b, f} \cup Range(rest) BY <2>2
  <2>6. Leaves({a, b, f} \cup Range(rest), a) BY <2>2, <2>4, <2>5 DEF Leaves, Holds
  <2>7. /\ current' = NoRequest /\ timer' = NoRequest /\ delivering' = TRUE
        /\ UNCHANGED <<terminal, queue>>
    <3>1. terminal' = (code # "encodeFailed") BY <1>6 DEF SendFailed
    <3>2. terminal' = FALSE /\ terminal = FALSE BY <1>6, <3>1 DEF Base, ClientTypeOK
    <3>. QED BY <1>6, <3>2 DEF SendFailed
  <2>. QED BY <1>6, <2>6, <2>7 DEF a, b, f
<1>7. CASE current = r /\ ~terminal /\ code # "encodeFailed"
  <2>1. stack' = <<a, StopProcess, b>> \o m \o <<n>> \o rest BY <1>7 DEF SendFailed
  <2>. HIDE DEF a, b, m, n
  <2>. DEFINE u == <<a, StopProcess, b>>
              v == <<n>>
              all == u \o m \o v
  <2>2. Plain(u) /\ Range(u) = {a, StopProcess, b} /\ u # <<>> /\ u[1] = a
    BY <1>2, <1>3, PlainThree
  <2>3. v \in Seq(SimpleTasks) /\ Range(v) = {n} BY <1>3, RangeTuples
  <2>7. stack' = all \o rest BY <2>1
  <2>. HIDE DEF u, v
  <2>8. Plain(u \o m) /\ Range(u \o m) = {a, StopProcess, b} \cup Range(m)
        /\ u \o m # <<>> /\ (u \o m)[1] = a
    BY <1>5, <2>2, PlainConcat
  <2>9. Plain(all) /\ Range(all) = {a, StopProcess, b} \cup Range(m) \cup {n}
        /\ all # <<>> /\ all[1] = a
    BY <2>3, <2>8, PlainConcat
  <2>. HIDE DEF all
  <2>10. Leaves({a, StopProcess, b, n} \cup Range(m) \cup Range(rest), a)
    <3>1. /\ stack' \in Seq(Tasks) /\ Neat(stack)' /\ On' = Range(all) \cup Range(rest)
          /\ all # <<>> => stack' # <<>> /\ stack'[1] = all[1]
      <4>1. Plain(all) BY <2>9
      <4>. QED BY <4>1, <2>7, RestStep
    <3>2. Range(all) \cup Range(rest) = {a, StopProcess, b, n} \cup Range(m) \cup Range(rest)
      BY <2>9
    <3>. QED BY <2>9, <3>1, <3>2 DEF Leaves, Holds
  <2>. QED BY <1>5, <1>7, <2>10 DEF SendFailed, a, b, n
<1>8. CASE ~(current = r /\ ~terminal)
  <2>1. rest \in Seq(Tasks) /\ Neat(rest)
    <3>1. CASE rest = stack /\ AppRuns BY <3>1 DEF Base, ClientTypeOK
    <3>2. CASE stack # <<>> /\ rest = Tail(stack) BY <3>2, UnderTop
    <3>. QED BY <3>1, <3>2 DEF Rest
  <2>2. stack' = rest /\ timer' = t /\ UNCHANGED <<current, queue, delivering, terminal>>
    BY <1>8 DEF SendFailed
  <2>. QED BY <1>8, <2>1, <2>2 DEF On, Neat
<1>. QED BY <1>6, <1>7, <1>8

(* A failure of the worker that ends all requests.                          *)
LEMMA FailEffect ==
  ASSUME Base, AppRuns, NEW code \in Codes, Fail(code)
  PROVE  /\ terminal' = TRUE /\ TakeOutstanding
         /\ Leaves({Callback(code), StopProcess}
                     \cup (IF current = NoRequest THEN {} ELSE {Complete(current, code)})
                     \cup Cancelled \cup On, Callback(code))
<1>. DEFINE a == Callback(code)
            o == Outstanding(code)
<1>1. a \in Tasks /\ a.fn \notin {"transmit", "deliver"} BY TaskTypes DEF Callback, Task
<1>2. o \in Seq(SimpleTasks)
      /\ Range(o) = (IF current = NoRequest THEN {} ELSE {Complete(current, code)}) \cup Cancelled
  BY OutstandingTasks
<1>. DEFINE p == <<a, StopProcess>>
            all == p \o o
<1>3. stack' = all \o stack BY DEF Fail
<1>. HIDE DEF a, o
<1>4. Plain(p) /\ Range(p) = {a, StopProcess} /\ p # <<>> /\ p[1] = a
  BY <1>1, SimpleTypes, PlainTwo
<1>. HIDE DEF p
<1>5. Plain(all) /\ Range(all) = {a, StopProcess} \cup Range(o) /\ all # <<>> /\ all[1] = a
  BY <1>2, <1>4, PlainConcat
<1>. HIDE DEF all
<1>6. Leaves({a, StopProcess} \cup Range(o) \cup On, a) BY <1>3, <1>5, CallStep DEF Leaves, Holds, Call
<1>. QED BY <1>2, <1>6 DEF Fail, a

--------------------------------------------------------------------------------
(* The events of the client, as what they leave on the stack.               *)
(* The tasks that tell nothing of a request.                                *)
Plainly == {"error", "stopProcess", "endDelivery", "onTermination"}

(* Each queued request is told that it was not sent.                        *)
Drops(drop) ==
  /\ \A t \in drop : t.fn = "complete" /\ t.req \in Range(queue) /\ t.code \in NotSent
  /\ \A x \in Range(queue) : \E t \in drop : t.req = x

Given(code) == IF current = NoRequest THEN {} ELSE {Complete(current, code)}

(* The client ends: what is in flight is given code, what is queued is      *)
(* dropped, and base stays below.                                           *)
Ends(base, code, told) ==
  /\ terminal' = TRUE /\ current' = NoRequest /\ queue' = <<>>
  /\ \A t \in told : t.fn \in Plainly
  /\ \E drop : Drops(drop) /\ Holds(told \cup Given(code) \cup drop \cup base)

LEMMA CancelledDrops ==
  ASSUME Base
  PROVE  Drops(Cancelled)
<1>1. \A x : /\ Complete(x, "cancelled").fn = "complete" /\ Complete(x, "cancelled").req = x
             /\ Complete(x, "cancelled").code \in NotSent
  BY DEF Complete, Task, NotSent
<1>. QED BY <1>1 DEF Drops, Cancelled

(* A call of send.                                                          *)
Declined(r, code) ==
  /\ r \in Requests \ asked /\ asked' = asked \cup {r} /\ AppRuns
  /\ code \in NotSent
  /\ \/ Holds({Complete(r, code)} \cup On)
     \/ /\ code = "queueFull" \/ ~IsRunning \/ terminal
        /\ Holds({Callback(code), Complete(r, code)} \cup On)
  /\ UNCHANGED <<process, writing, main, client, reached, result, session>>

Replaced(r, i) ==
  /\ r \in Requests \ asked /\ asked' = asked \cup {r} /\ AppRuns
  /\ i \in DOMAIN queue /\ queue' = [queue EXCEPT ![i] = r]
  /\ Holds({Complete(queue[i], "cancelled")} \cup On)
  /\ UNCHANGED <<process, writing, main, current, timer, delivering, terminal, reached, result,
                 session>>

Joined(r) ==
  /\ r \in Requests \ asked /\ asked' = asked \cup {r} /\ AppRuns
  /\ Busy /\ ~terminal
  /\ queue' = Append(queue, r)
  /\ UNCHANGED <<process, writing, main, current, timer, delivering, terminal, reached, result,
                 session, stack>>

StartOf(r) == {Task("started", r, "none"), Task("transmit", r, "none")}

Dispatched(r) ==
  /\ r \in Requests /\ IsRunning /\ ~terminal /\ current = NoRequest /\ current' = r
  /\ ~delivering'
  /\ \/ /\ r \notin asked /\ asked' = asked \cup {r} /\ AppRuns /\ ~delivering
        /\ Holds(StartOf(r) \cup On)
        /\ UNCHANGED queue
     \/ /\ Top("endDelivery") /\ stack[1].code = "flush" /\ queue # <<>>
        /\ r = Head(queue) /\ queue' = Tail(queue)
        /\ Holds(StartOf(r) \cup Under)
        /\ UNCHANGED asked
  /\ UNCHANGED <<process, writing, main, timer, terminal, reached, result, session>>

LEMMA NothingToSend ==
  ASSUME Base, FlowInv, current = NoRequest, ~terminal
  PROVE  \A t \in On : t.fn \notin {"transmit", "started"}
<1>1. \A t \in On : t \in Tasks BY RangeOf DEF Base, ClientTypeOK, On
<1>. QED BY <1>1, NamesAssumption DEF FlowInv, FlowOf, Tasks, OfRequest

LEMMA SendEffect ==
  ASSUME Base, FlowInv, NEW r \in Requests, SessionSend(r)
  PROVE  \/ \E code \in NotSent : Declined(r, code)
         \/ /\ ~Gated(r)
            /\ \/ \E i \in DOMAIN queue : Replaced(r, i)
               \/ Joined(r)
               \/ Dispatched(r)
<1>1. {"cancelled", "unavailable", "queueFull"} \subseteq NotSent BY DEF NotSent
<1>2. {"cancelled", "unavailable", "queueFull"} \subseteq Codes BY <1>1, CodeTypes
<1>3. \A code \in {"cancelled", "unavailable", "queueFull"} :
        /\ Complete(r, code) \in SimpleTasks
        /\ Complete(r, code) \in Tasks /\ Complete(r, code).fn \notin {"transmit", "deliver"}
        /\ Callback(code) \in Tasks /\ Callback(code).fn \notin {"transmit", "deliver"}
  BY <1>2, SimpleTypes, TaskTypes DEF Complete, Callback, Task
<1>4. CASE Gated(r)
  <2>. DEFINE a == Complete(r, "cancelled")
  <2>1. /\ AppRuns /\ r \notin asked /\ asked' = asked \cup {r} /\ Call(<<a>>)
        /\ UNCHANGED <<process, writing, main, client, reached, result, session>>
    BY <1>4 DEF SessionSend
  <2>2. a \in Tasks /\ a.fn \notin {"transmit", "deliver"} BY <1>3
  <2>. HIDE DEF a
  <2>3. Plain(<<a>>) /\ Range(<<a>>) = {a} /\ <<a>> # <<>> /\ <<a>>[1] = a BY <2>2, PlainOne
  <2>4. Leaves({a} \cup On, a) BY <2>1, <2>3, CallStep DEF Leaves, Holds
  <2>5. Declined(r, "cancelled") BY <1>1, <2>1, <2>4 DEF Declined, Leaves, a
  <2>. QED BY <1>1, <2>5
<1>5. CASE ~Gated(r)
  <2>1. Send(r) /\ UNCHANGED session BY <1>5 DEF SessionSend
  <2>2. /\ AppRuns /\ r \notin asked /\ asked' = asked \cup {r}
        /\ UNCHANGED <<process, writing, main, stops, reached, result>>
    BY <2>1 DEF Send
  <2>3. ASSUME NEW code \in {"unavailable", "queueFull"}, UNCHANGED client,
               code = "queueFull" \/ ~IsRunning \/ terminal,
               Call(<<Callback(code), Complete(r, code)>>)
        PROVE  Declined(r, code)
    <3>. DEFINE a == Callback(code)
                b == Complete(r, code)
    <3>1. a \in Tasks /\ a.fn \notin {"transmit", "deliver"} /\ b \in SimpleTasks BY <1>3
    <3>2. Call(<<a, b>>) BY <2>3
    <3>. HIDE DEF a, b
    <3>3. Plain(<<a, b>>) /\ Range(<<a, b>>) = {a, b} /\ <<a, b>> # <<>> /\ <<a, b>>[1] = a
      BY <3>1, PlainTwo
    <3>4. Leaves({a, b} \cup On, a) BY <2>2, <3>2, <3>3, CallStep DEF Leaves, Holds
    <3>. QED BY <1>1, <2>1, <2>2, <2>3, <3>4 DEF Declined, Leaves, a, b
  <2>4. CASE ~IsRunning \/ terminal
    <3>1. Call(<<Callback("unavailable"), Complete(r, "unavailable")>>) /\ UNCHANGED client
      BY <2>1, <2>4 DEF Send
    <3>. QED BY <1>1, <2>3, <2>4, <3>1
  <2>5. CASE IsRunning /\ ~terminal /\ Busy
    <3>1. Enqueue(r) /\ UNCHANGED <<current, timer, delivering, terminal>> BY <2>1, <2>5 DEF Send
    <3>2. CASE /\ UNCHANGED queue /\ Call(<<Callback("queueFull"), Complete(r, "queueFull")>>)
      BY <1>1, <2>3, <3>1, <3>2 DEF client
    <3>3. CASE queue' = Append(queue, r) /\ UNCHANGED stack
      BY <1>5, <2>1, <2>2, <2>5, <3>1, <3>3 DEF Joined
    <3>4. ASSUME NEW i \in DOMAIN queue, queue' = [queue EXCEPT ![i] = r], Call(Replace(queue[i]))
          PROVE  Replaced(r, i)
      <4>. DEFINE a == Complete(queue[i], "cancelled")
      <4>1. queue[i] \in Requests BY DEF Base, ClientTypeOK
      <4>2. a \in Tasks BY <1>2, <4>1, TaskTypes
      <4>3. a.fn \notin {"transmit", "deliver"} BY DEF Complete, Task
      <4>4. Call(<<a>>) BY <3>4 DEF Replace
      <4>. HIDE DEF a
      <4>5. Plain(<<a>>) /\ Range(<<a>>) = {a} /\ <<a>> # <<>> /\ <<a>>[1] = a
        BY <4>2, <4>3, PlainOne
      <4>6. Leaves({a} \cup On, a) BY <2>2, <4>4, <4>5, CallStep DEF Leaves, Holds
      <4>. QED BY <2>1, <2>2, <3>1, <3>4, <4>6 DEF Replaced, Leaves, a
    <3>. QED BY <1>5, <3>1, <3>2, <3>3, <3>4 DEF Enqueue
  <2>6. CASE IsRunning /\ ~terminal /\ ~Busy
    <3>1. Dispatch(r, queue, stack) /\ UNCHANGED <<timer, delivering>> BY <2>1, <2>6 DEF Send
    <3>2. current = NoRequest /\ ~delivering BY <2>6 DEF Busy
    <3>3. Rest(stack) BY <2>2 DEF Rest
    <3>4. \A u \in Range(stack) : u.fn # "transmit" BY <2>6, <3>2, NothingToSend DEF On
    <3>5. queue \in Seq(Requests) BY DEF Base, ClientTypeOK
    <3>6. /\ current' = r /\ queue' = queue /\ UNCHANGED terminal
          /\ Leaves({Task("started", r, "none"), Task("transmit", r, "none")} \cup Range(stack),
                    Task("started", r, "none"))
      BY <2>6, <3>1, <3>3, <3>4, <3>5, DispatchEffect
    <3>7. ~delivering' BY <3>1, <3>2
    <3>. QED BY <1>5, <2>1, <2>2, <2>6, <3>1, <3>2, <3>6, <3>7 DEF Dispatched, Leaves, StartOf, On
  <2>. QED BY <2>4, <2>5, <2>6
<1>. QED BY <1>4, <1>5

(* An interruption that is reported before anything is taken.               *)
Interrupts(fn) ==
  Leaves(Interruption(fn) \cup On,
         IF current # NoRequest /\ ~terminal THEN Callback("interrupted")
         ELSE Task(fn, current, "cancelled"))

LEMMA InterruptEffect ==
  ASSUME Base, AppRuns, NEW fn \in {"stop", "terminate"}, Call(Interrupting(fn))
  PROVE  Interrupts(fn)
<1>. DEFINE tasks == Interrupting(fn)
<1>1. /\ Plain(tasks) /\ Range(tasks) = Interruption(fn) /\ tasks # <<>>
      /\ tasks[1] = IF current # NoRequest /\ ~terminal
                    THEN Callback("interrupted") ELSE Task(fn, current, "cancelled")
  BY InterruptingTasks
<1>. HIDE DEF tasks
<1>2. Call(tasks) BY DEF tasks
<1>. QED BY <1>1, <1>2, CallStep DEF Interrupts, Leaves, Holds

(* The first task is taken.                                                 *)
Popped(added) == stack # <<>> /\ Holds(added \cup Under)

LEMMA PopEffect ==
  ASSUME Base, stack # <<>>
  PROVE  /\ Then(<<>>) => Popped({})
         /\ Then(<<App>>) => Popped({App})
<1>1. App \in Tasks /\ App.fn \notin {"transmit", "deliver"} BY TaskTypes DEF App, Task
<1>2. Then(<<>>) => Popped({})
  <2>1. PICK none : none = <<>> OBVIOUS
  <2>2. Plain(none) /\ Range(none) = {} BY <2>1, PlainNone
  <2>. QED BY <2>1, <2>2, ThenStep DEF Popped, Holds
<1>3. Then(<<App>>) => Popped({App})
  <2>1. PICK one : one = <<App>> OBVIOUS
  <2>2. Plain(one) /\ Range(one) = {App} BY <1>1, <2>1, PlainOne
  <2>. QED BY <2>1, <2>2, ThenStep DEF Popped, Holds
<1>. QED BY <1>2, <1>3

(* A write that fails before the client ends, and one that ends it.         *)
Unencoded(r, base) ==
  /\ current = r /\ ~terminal
  /\ current' = NoRequest /\ timer' = NoRequest /\ delivering' = TRUE
  /\ UNCHANGED <<terminal, queue>>
  /\ Leaves({Callback("encodeFailed"), Complete(r, "encodeFailed"),
             Task("endDelivery", NoRequest, "flush")} \cup base, Callback("encodeFailed"))

SendEnds(r, code, base) ==
  /\ current = r /\ ~terminal
  /\ timer' = NoRequest /\ delivering' = TRUE
  /\ Ends(base, code, {Callback(code), StopProcess, Task("endDelivery", NoRequest, "none")})
  /\ stack' # <<>> /\ stack'[1] = Callback(code)

SendPasses(r, t, base) ==
  /\ ~(current = r /\ ~terminal)
  /\ timer' = t /\ UNCHANGED <<current, queue, delivering, terminal>>
  /\ Holds(base)

LEMMA SendFails ==
  ASSUME Base, NEW r \in Requests, NEW code \in {"encodeFailed", "sendFailed", "sendUnknown"},
         NEW t, NEW rest, Rest(rest), SendFailed(r, code, t, rest)
  PROVE  \/ code = "encodeFailed" /\ Unencoded(r, Range(rest))
         \/ code # "encodeFailed" /\ SendEnds(r, code, Range(rest))
         \/ SendPasses(r, t, Range(rest)) /\ stack' = rest
<1>1. PICK told : told = {Callback(code), StopProcess, Task("endDelivery", NoRequest, "none")}
  OBVIOUS
<1>2. \A u \in told : u.fn \in Plainly
  BY <1>1 DEF Callback, StopProcess, Task, Plainly
<1>3. r # NoRequest BY NamesAssumption
<1>4. CASE /\ current = r /\ ~terminal /\ code # "encodeFailed"
           /\ current' = NoRequest /\ timer' = NoRequest /\ delivering' = TRUE
           /\ terminal' = TRUE /\ queue' = <<>>
           /\ Leaves({Callback(code), StopProcess, Complete(r, code),
                      Task("endDelivery", NoRequest, "none")} \cup Cancelled \cup Range(rest),
                     Callback(code))
  <2>1. Given(code) = {Complete(r, code)} BY <1>3, <1>4 DEF Given
  <2>2. {Callback(code), StopProcess, Complete(r, code), Task("endDelivery", NoRequest, "none")}
          \cup Cancelled \cup Range(rest)
          = told \cup Given(code) \cup Cancelled \cup Range(rest)
    BY <1>1, <2>1
  <2>3. Holds(told \cup Given(code) \cup Cancelled \cup Range(rest)) BY <1>4, <2>2 DEF Leaves
  <2>4. Ends(Range(rest), code, told) BY <1>2, <1>4, <2>3, CancelledDrops DEF Ends
  <2>. QED BY <1>1, <1>4, <2>4 DEF SendEnds, Leaves
<1>. QED BY <1>4, SendFailedEffect DEF Unencoded, SendPasses, Holds

LEMMA TransmitEffect ==
  ASSUME Base, Transmit
  PROVE  /\ stack # <<>> /\ stack[1].fn = "transmit" /\ stack[1].req \in Requests
         /\ UNCHANGED <<process, main, stops, history>>
         /\ \/ /\ IsRunning /\ Popped({}) /\ timer' = stack[1].req
               /\ writing' = Append(writing, [req |-> stack[1].req, gen |-> gen])
               /\ UNCHANGED <<current, queue, delivering, terminal>>
            \/ /\ ~IsRunning /\ UNCHANGED writing
               /\ \/ SendEnds(stack[1].req, "sendFailed", Under)
                  \/ SendPasses(stack[1].req, stack[1].req, Under)
<1>1. stack # <<>> /\ stack[1].fn = "transmit" BY DEF Transmit, Top
<1>2. stack[1].req \in Requests BY <1>1, UnderTop DEF Tasks, OfRequest
<1>3. UNCHANGED <<process, main, stops, history>> BY DEF Transmit
<1>4. CASE IsRunning
  <2>1. Then(<<>>) BY <1>4 DEF Transmit
  <2>2. Popped({}) BY <1>1, <2>1, PopEffect
  <2>. QED BY <1>1, <1>2, <1>3, <1>4, <2>2 DEF Transmit
<1>5. CASE ~IsRunning
  <2>1. SendFailed(stack[1].req, "sendFailed", stack[1].req, Tail(stack)) /\ UNCHANGED writing
    BY <1>5 DEF Transmit
  <2>2. Rest(Tail(stack)) BY <1>1 DEF Rest
  <2>3. PICK r, rest : r = stack[1].req /\ rest = Tail(stack) OBVIOUS
  <2>4. \/ SendEnds(r, "sendFailed", Range(rest)) \/ SendPasses(r, r, Range(rest))
    BY <1>2, <2>1, <2>2, <2>3, SendFails
  <2>. QED BY <1>1, <1>2, <1>3, <1>5, <2>1, <2>3, <2>4 DEF Under
<1>. QED BY <1>4, <1>5

LEMMA FinishEffect ==
  ASSUME Base, Finish
  PROVE  /\ stack # <<>> /\ stack[1].fn \in {"stop", "terminate"}
         /\ stack[1].code \in {"cancelled", "interrupted"}
         /\ Ends(Under, stack[1].code, IF stack[1].fn = "terminate"
                                       THEN {Task("onTermination", NoRequest, "none")} ELSE {})
         /\ timer' = NoRequest /\ delivering' = FALSE
         /\ worker' = IF stack[1].fn = "stop" /\ IsRunning THEN "stopping" ELSE worker
         /\ UNCHANGED <<gen, inbox, writing, main, stops, history>>
<1>1. stack # <<>> /\ stack[1].fn \in {"stop", "terminate"} BY DEF Finish, Top
<1>2. stack[1].code \in {"cancelled", "interrupted"} BY <1>1, UnderTop DEF Tasks
<1>3. PICK code : code = stack[1].code OBVIOUS
<1>4. PICK last : last = IF stack[1].fn = "terminate"
                         THEN <<Task("onTermination", NoRequest, "none")>> ELSE <<>>
  OBVIOUS
<1>5. PICK told : told = IF stack[1].fn = "terminate"
                         THEN {Task("onTermination", NoRequest, "none")} ELSE {}
  OBVIOUS
<1>6. code \in Codes BY <1>2, <1>3, CodeTypes DEF NotSent, Unknown
<1>7. last \in Seq(SimpleTasks) /\ Range(last) = told
  <2>1. PICK a : a = Task("onTermination", NoRequest, "none") OBVIOUS
  <2>2. a \in SimpleTasks BY <2>1, SimpleTypes
  <2>3. <<a>> \in Seq(SimpleTasks) /\ Range(<<a>>) = {a} BY <2>2, RangeTuples
  <2>4. <<>> \in Seq(SimpleTasks) /\ Range(<<>>) = {} BY RangeTuples
  <2>. QED BY <1>4, <1>5, <2>1, <2>3, <2>4
<1>8. PICK out : out = Outstanding(code) OBVIOUS
<1>9. out \in Seq(SimpleTasks) /\ Range(out) = Given(code) \cup Cancelled
  BY <1>6, <1>8, OutstandingTasks DEF Given
<1>10. Then(out \o last)
  <2>1. Then(Outstanding(stack[1].code) \o
               (IF Top("terminate") THEN <<Task("onTermination", NoRequest, "none")>> ELSE <<>>))
    BY DEF Finish
  <2>. QED BY <1>1, <1>3, <1>4, <1>8, <2>1 DEF Top
<1>11. PICK all : all = out \o last OBVIOUS
<1>12. all \in Seq(SimpleTasks) /\ Range(all) = Given(code) \cup Cancelled \cup told
  BY <1>7, <1>9, <1>11, ConcatProperties, RangeConcat
<1>13. Plain(all) BY <1>12, PlainSimple
<1>14. Then(all) BY <1>10, <1>11
<1>15. Holds(Range(all) \cup Under) BY <1>1, <1>13, <1>14, ThenStep DEF Holds
<1>16. Range(all) \cup Under = told \cup Given(code) \cup Cancelled \cup Under BY <1>12
<1>17. \A t \in told : t.fn \in Plainly BY <1>5 DEF Plainly, Task
<1>18. terminal' = TRUE /\ TakeOutstanding BY DEF Finish
<1>19. Ends(Under, code, told)
  BY <1>15, <1>16, <1>17, <1>18, CancelledDrops DEF Ends, TakeOutstanding
<1>20. worker' = IF stack[1].fn = "stop" /\ IsRunning THEN "stopping" ELSE worker
  BY <1>1 DEF Finish, Top
<1>. QED BY <1>1, <1>2, <1>3, <1>5, <1>18, <1>19, <1>20 DEF Finish, TakeOutstanding

Delivered(r, code) ==
  {Complete(r, code), Task("endDelivery", NoRequest, "flush")}
    \cup (IF code \in Purging THEN Cancelled ELSE {})
    \cup (IF code \in Fatal THEN {StopProcess} ELSE {})

LEMMA DeliverEffect ==
  ASSUME Base, Deliver
  PROVE  /\ stack # <<>> /\ stack[1].fn = "deliver"
         /\ stack[1].req \in Requests /\ stack[1].code \in Replies
         /\ Popped(Delivered(stack[1].req, stack[1].code))
         /\ queue' = IF stack[1].code \in Purging THEN <<>> ELSE queue
         /\ UNCHANGED <<process, writing, main, current, timer, delivering, terminal, stops, history>>
<1>1. stack # <<>> /\ stack[1].fn = "deliver" BY DEF Deliver, Top
<1>2. stack[1].req \in Requests /\ stack[1].code \in Replies BY <1>1, UnderTop DEF Tasks, OfRequest
<1>3. PICK r, code : r = stack[1].req /\ code = stack[1].code OBVIOUS
<1>4. PICK given : given = IF code \in Purging THEN queue ELSE <<>> OBVIOUS
<1>5. PICK a, f, s : a = Complete(r, code) /\ f = Task("endDelivery", NoRequest, "flush")
                     /\ s = StopProcess
  OBVIOUS
<1>6. r \in Requests /\ code \in Codes /\ "cancelled" \in Codes
  BY <1>2, <1>3, CodeTypes DEF NotSent
<1>7. queue \in Seq(Requests) BY DEF Base, ClientTypeOK
<1>8. a \in SimpleTasks /\ f \in SimpleTasks /\ s \in SimpleTasks BY <1>5, <1>6, SimpleTypes
<1>9. PICK m : m = CompleteAll(given, "cancelled") OBVIOUS
<1>10. m \in Seq(SimpleTasks) /\ Range(m) = IF code \in Purging THEN Cancelled ELSE {}
  <2>1. given \in Seq(Requests) BY <1>4, <1>7
  <2>2. m \in Seq(SimpleTasks) /\ Range(m) = {Complete(x, "cancelled") : x \in Range(given)}
    BY <1>6, <1>9, <2>1, CompleteAllTasks
  <2>3. code \notin Purging => Range(given) = {} BY <1>4, RangeTuples
  <2>. QED BY <1>4, <2>2, <2>3 DEF Cancelled
<1>11. PICK k : k = IF code \in Fatal THEN <<s>> ELSE <<>> OBVIOUS
<1>12. k \in Seq(SimpleTasks) /\ Range(k) = IF code \in Fatal THEN {s} ELSE {}
  <2>1. <<s>> \in Seq(SimpleTasks) /\ Range(<<s>>) = {s} BY <1>8, RangeTuples
  <2>2. <<>> \in Seq(SimpleTasks) /\ Range(<<>>) = {} BY RangeTuples
  <2>. QED BY <1>11, <2>1, <2>2
<1>13. PICK h, z : h = <<a>> /\ z = <<f>> OBVIOUS
<1>14. h \in Seq(SimpleTasks) /\ Range(h) = {a} /\ z \in Seq(SimpleTasks) /\ Range(z) = {f}
  <2>1. <<a>> \in Seq(SimpleTasks) /\ Range(<<a>>) = {a} BY <1>8, RangeTuples
  <2>2. <<f>> \in Seq(SimpleTasks) /\ Range(<<f>>) = {f} BY <1>8, RangeTuples
  <2>. QED BY <1>13, <2>1, <2>2
<1>15. Then(h \o m \o k \o z)
  BY <1>3, <1>4, <1>5, <1>9, <1>11, <1>13 DEF Deliver
<1>16. PICK x : x = h \o m OBVIOUS
<1>17. x \in Seq(SimpleTasks) /\ Range(x) = Range(h) \cup Range(m)
  BY <1>10, <1>14, <1>16, ConcatProperties, RangeConcat
<1>18. PICK y : y = x \o k OBVIOUS
<1>19. y \in Seq(SimpleTasks) /\ Range(y) = Range(x) \cup Range(k)
  BY <1>12, <1>17, <1>18, ConcatProperties, RangeConcat
<1>20. PICK all : all = y \o z OBVIOUS
<1>21. all \in Seq(SimpleTasks) /\ Range(all) = Range(y) \cup Range(z)
  BY <1>14, <1>19, <1>20, ConcatProperties, RangeConcat
<1>22. Then(all) BY <1>15, <1>16, <1>18, <1>20
<1>23. Holds(Range(all) \cup Under) BY <1>1, <1>21, <1>22, PlainSimple, ThenStep DEF Holds
<1>24. Range(all) = Delivered(r, code)
  BY <1>5, <1>10, <1>12, <1>14, <1>17, <1>19, <1>21 DEF Delivered
<1>25. Popped(Delivered(r, code)) BY <1>1, <1>23, <1>24 DEF Popped
<1>26. queue' = IF stack[1].code \in Purging THEN <<>> ELSE queue BY DEF Deliver
<1>27. UNCHANGED <<process, writing, main, current, timer, delivering, terminal, stops, history>>
  BY DEF Deliver
<1>. QED BY <1>1, <1>2, <1>3, <1>25, <1>26, <1>27

(* The end of a delivery: the next request, the end of the client, or       *)
(* nothing.                                                                 *)
FlushFails ==
  /\ current = NoRequest /\ queue # <<>> /\ ~(IsRunning /\ ~terminal)
  /\ Ends(Under, "none", {Callback("unavailable"), StopProcess})

LEMMA EndDeliveryEffect ==
  ASSUME Base, FlowInv, EndDelivery, UNCHANGED session
  PROVE  /\ stack # <<>> /\ stack[1].fn = "endDelivery" /\ delivering' = FALSE
         /\ UNCHANGED <<process, writing, main, timer, stops, history>>
         /\ \/ \E r \in Requests : Dispatched(r)
            \/ FlushFails
            \/ /\ stack[1].code = "flush" => current # NoRequest \/ queue = <<>>
               /\ Popped({}) /\ UNCHANGED <<queue, current, terminal>>
<1>1. stack # <<>> /\ stack[1].fn = "endDelivery" BY DEF EndDelivery, Top
<1>2. delivering' = FALSE /\ UNCHANGED <<process, writing, main, timer, stops, history>>
  BY DEF EndDelivery
<1>3. CASE ~(stack[1].code = "flush" /\ current = NoRequest /\ queue # <<>>)
  <2>1. Then(<<>>) /\ UNCHANGED <<queue, current, terminal>> BY <1>3 DEF EndDelivery
  <2>. QED BY <1>1, <1>2, <1>3, <2>1, PopEffect
<1>4. CASE stack[1].code = "flush" /\ current = NoRequest /\ queue # <<>>
  <2>1. PICK r, waiting, rest : r = Head(queue) /\ waiting = Tail(queue) /\ rest = Tail(stack)
    OBVIOUS
  <2>2. Dispatch(r, waiting, rest) BY <1>4, <2>1 DEF EndDelivery
  <2>3. queue \in Seq(Requests) BY DEF Base, ClientTypeOK
  <2>4. /\ r \in Requests /\ waiting \in Seq(Requests)
        /\ Range(queue) = {r} \cup Range(waiting)
    BY <1>4, <2>1, <2>3, RangeTail
  <2>5. Rest(rest) /\ Range(rest) = Under BY <1>1, <2>1 DEF Rest, Under
  <2>6. On = {stack[1]} \cup Under BY <1>1, UnderTop
  <2>7. ~terminal => \A u \in Range(rest) : u.fn # "transmit"
    BY <1>4, <2>5, <2>6, NothingToSend
  <2>8. CASE IsRunning /\ ~terminal
    <3>1. /\ current' = r /\ queue' = waiting /\ UNCHANGED terminal
          /\ Leaves({Task("started", r, "none"), Task("transmit", r, "none")} \cup Range(rest),
                    Task("started", r, "none"))
      BY <2>2, <2>4, <2>5, <2>7, <2>8, DispatchEffect
    <3>2. Holds(StartOf(r) \cup Under) BY <2>5, <3>1 DEF Leaves, StartOf
    <3>3. Dispatched(r)
      BY <1>1, <1>2, <1>4, <2>1, <2>4, <2>8, <3>1, <3>2 DEF Dispatched, Top, history
    <3>. QED BY <1>1, <1>2, <2>4, <3>3
  <2>9. CASE ~(IsRunning /\ ~terminal)
    <3>1. PICK told : told = {Callback("unavailable"), StopProcess} OBVIOUS
    <3>2. PICK drop : drop = {Complete(r, "unavailable")}
                               \cup {Complete(x, "cancelled") : x \in Range(waiting)}
      OBVIOUS
    <3>3. /\ terminal' = TRUE /\ queue' = <<>> /\ UNCHANGED current
          /\ Leaves({Callback("unavailable"), Complete(r, "unavailable"), StopProcess}
                      \cup {Complete(x, "cancelled") : x \in Range(waiting)} \cup Range(rest),
                    Callback("unavailable"))
      BY <2>2, <2>4, <2>5, <2>9, DispatchEffect
    <3>4. {Callback("unavailable"), Complete(r, "unavailable"), StopProcess}
            \cup {Complete(x, "cancelled") : x \in Range(waiting)} \cup Range(rest)
            = told \cup Given("none") \cup drop \cup Under
      BY <1>4, <2>5, <3>1, <3>2 DEF Given
    <3>5. Holds(told \cup Given("none") \cup drop \cup Under) BY <3>3, <3>4 DEF Leaves
    <3>6. Drops(drop)
      <4>1. \A x, code : /\ Complete(x, code).fn = "complete" /\ Complete(x, code).req = x
                         /\ Complete(x, code).code = code
        BY DEF Complete, Task
      <4>2. {"unavailable", "cancelled"} \subseteq NotSent BY DEF NotSent
      <4>. QED BY <2>4, <3>2, <4>1, <4>2 DEF Drops
    <3>7. \A t \in told : t.fn \in Plainly BY <3>1 DEF Plainly, Callback, StopProcess, Task
    <3>8. Ends(Under, "none", told) BY <1>4, <3>3, <3>5, <3>6, <3>7 DEF Ends
    <3>. QED BY <1>1, <1>2, <1>4, <2>9, <3>1, <3>8 DEF FlushFails
  <2>. QED BY <2>8, <2>9
<1>. QED BY <1>3, <1>4

LEMMA FailEnds ==
  ASSUME Base, AppRuns, NEW code \in Codes, Fail(code)
  PROVE  /\ Ends(On, code, {Callback(code), StopProcess})
         /\ timer' = NoRequest /\ delivering' = FALSE
         /\ stack' # <<>> /\ stack'[1] = Callback(code)
<1>1. PICK told : told = {Callback(code), StopProcess} OBVIOUS
<1>2. /\ terminal' = TRUE /\ TakeOutstanding
      /\ Leaves(told \cup Given(code) \cup Cancelled \cup On, Callback(code))
  BY <1>1, FailEffect DEF Given
<1>3. \A t \in told : t.fn \in Plainly BY <1>1 DEF Plainly, Callback, StopProcess, Task
<1>4. Ends(On, code, told) BY <1>2, <1>3, CancelledDrops DEF Ends, Leaves, TakeOutstanding
<1>. QED BY <1>1, <1>2, <1>4 DEF Leaves, TakeOutstanding

LEMMA MainHead ==
  ASSUME Base, main # <<>>
  PROVE  /\ Head(main) \in Posted /\ Tail(main) \in Seq(Posted)
         /\ Blocks = {Head(main)} \cup Range(Tail(main))
BY RangeTail DEF Base, ClientTypeOK, Blocks

(* A reply, and an answer in another dialect.                               *)
Answered(r, code) ==
  /\ current = r /\ code \in Replies
  /\ terminal' = (terminal \/ code \in Fatal)
  /\ timer' = NoRequest /\ current' = NoRequest /\ delivering' = TRUE
  /\ Holds({Task("reply", r, code), Task("deliver", r, code)})
  /\ UNCHANGED <<worker, queue>>

Mismatches(r) ==
  /\ current = r
  /\ Ends({}, "mismatch", {Callback("mismatch")})
  /\ stack' # <<>> /\ stack'[1] = Callback("mismatch")
  /\ timer' = NoRequest /\ UNCHANGED delivering
  /\ worker' = IF IsRunning THEN "stopping" ELSE worker

LEMMA ReceiveEffect ==
  ASSUME Base, Receive
  PROVE  /\ Idle /\ main # <<>> /\ Head(main).fn = "message" /\ main' = Tail(main)
         /\ Head(main).req \in Requests
         /\ UNCHANGED <<gen, inbox, writing, stops, history>>
         /\ \/ UNCHANGED <<worker, client, stack>>
            \/ Mismatches(Head(main).req)
            \/ Answered(Head(main).req, Head(main).code)
<1>1. Idle /\ main # <<>> /\ Head(main).fn = "message" /\ main' = Tail(main)
  BY DEF Receive
<1>2. Head(main).req \in Requests BY <1>1, MainHead DEF Posted, OfRequest
<1>3. UNCHANGED <<gen, inbox, writing, stops, history>> BY DEF Receive
<1>4. PICK r, code : r = Head(main).req /\ code = Head(main).code OBVIOUS
<1>5. On = {} /\ AppRuns BY <1>1, NothingOn
<1>6. r \in Requests /\ r # NoRequest BY <1>2, <1>4, NamesAssumption
<1>7. CASE /\ Expects(r) /\ code = "mismatch"
           /\ terminal' = TRUE /\ timer' = NoRequest /\ current' = NoRequest /\ queue' = <<>>
           /\ worker' = IF IsRunning THEN "stopping" ELSE worker
           /\ Call(<<Callback("mismatch"), Complete(r, "mismatch")>>
                     \o CompleteAll(queue, "cancelled"))
           /\ UNCHANGED delivering
  <2>1. PICK a, b, m, p : /\ a = Callback("mismatch") /\ b = Complete(r, "mismatch")
                          /\ m = CompleteAll(queue, "cancelled") /\ p = <<a, b>>
    OBVIOUS
  <2>2. "mismatch" \in Codes /\ "cancelled" \in Codes BY CodeTypes DEF NotSent, Unknown
  <2>3. a \in Tasks /\ a.fn \notin {"transmit", "deliver"}
    BY <2>1, <2>2, TaskTypes DEF Callback, Task
  <2>4. b \in SimpleTasks BY <1>6, <2>1, <2>2, SimpleTypes
  <2>5. queue \in Seq(Requests) BY DEF Base, ClientTypeOK
  <2>6. m \in Seq(SimpleTasks) /\ Range(m) = Cancelled
    BY <2>1, <2>2, <2>5, CompleteAllTasks DEF Cancelled
  <2>7. Plain(p) /\ Range(p) = {a, b} /\ p # <<>> /\ p[1] = a BY <2>1, <2>3, <2>4, PlainTwo
  <2>8. PICK all : all = p \o m OBVIOUS
  <2>9. Plain(all) /\ Range(all) = {a, b} \cup Cancelled /\ all # <<>> /\ all[1] = a
    BY <2>6, <2>7, <2>8, PlainConcat
  <2>10. Call(all) BY <1>7, <2>1, <2>8
  <2>11. Leaves({a, b} \cup Cancelled, a) BY <1>5, <2>9, <2>10, CallStep DEF Leaves, Holds
  <2>12. current = r BY <1>7 DEF Expects
  <2>13. Given("mismatch") = {b} BY <1>6, <2>1, <2>12 DEF Given
  <2>14. {a, b} \cup Cancelled = {a} \cup Given("mismatch") \cup Cancelled \cup {} BY <2>13
  <2>15. Holds({a} \cup Given("mismatch") \cup Cancelled \cup {}) BY <2>11, <2>14 DEF Leaves
  <2>16. \A t \in {a} : t.fn \in Plainly BY <2>1 DEF Plainly, Callback, Task
  <2>17. Ends({}, "mismatch", {a}) BY <1>7, <2>15, <2>16, CancelledDrops DEF Ends
  <2>18. Mismatches(r) BY <1>7, <2>1, <2>11, <2>12, <2>17 DEF Mismatches, Leaves
  <2>. QED BY <1>1, <1>2, <1>3, <1>4, <2>18
<1>8. CASE /\ Expects(r) /\ code \in Replies
           /\ terminal' = (terminal \/ code \in Fatal)
           /\ timer' = NoRequest /\ current' = NoRequest /\ delivering' = TRUE
           /\ Call(<<Task("reply", r, code), Task("deliver", r, code)>>)
           /\ UNCHANGED <<worker, queue>>
  <2>1. PICK a, b, p, none : /\ a = Task("reply", r, code) /\ b = Task("deliver", r, code)
                             /\ p = <<a, b>> /\ none = <<>>
    OBVIOUS
  <2>2. a \in Tasks /\ b \in Tasks BY <1>6, <1>8, <2>1, TaskTypes
  <2>3. a.fn = "reply" /\ b.fn = "deliver" BY <2>1 DEF Task
  <2>4. Fits(a, b) BY <2>3 DEF Fits, TopOnly
  <2>5. p \in Seq(Tasks) /\ Range(p) = {a, b} BY <2>1, <2>2, RangeTuples
  <2>6. Neat(p)
    <3>1. SUFFICES ASSUME NEW i \in 1..2, NEW j \in 1..2, i < j PROVE Fits(p[i], p[j])
      BY <2>1 DEF Neat
    <3>2. i = 1 /\ j = 2 BY <3>1
    <3>. QED BY <2>1, <2>4, <3>2
  <2>7. none \in Seq(Tasks) /\ Neat(none) /\ Range(none) = {} BY <2>1, RangeTuples DEF Neat
  <2>8. stack = none BY <1>1, <2>1 DEF Idle
  <2>9. stack' = p \o none BY <1>8, <2>1, <2>8 DEF Call
  <2>10. /\ p \o none \in Seq(Tasks) /\ Neat(p \o none)
         /\ Range(p \o none) = Range(p) \cup Range(none)
    BY <2>5, <2>6, <2>7, Stacked
  <2>11. Holds({a, b}) BY <2>5, <2>7, <2>9, <2>10 DEF Holds, On, Neat
  <2>12. Answered(r, code) BY <1>8, <2>1, <2>11 DEF Answered, Expects
  <2>. QED BY <1>1, <1>2, <1>3, <1>4, <2>12
<1>9. CASE ~Expects(r) /\ UNCHANGED <<worker, client, stack>> BY <1>1, <1>2, <1>3, <1>9
<1>10. \/ ~Expects(r) /\ UNCHANGED <<worker, client, stack>>
       \/ /\ Expects(r) /\ code = "mismatch"
          /\ terminal' = TRUE /\ timer' = NoRequest /\ current' = NoRequest /\ queue' = <<>>
          /\ worker' = IF IsRunning THEN "stopping" ELSE worker
          /\ Call(<<Callback("mismatch"), Complete(r, "mismatch")>>
                    \o CompleteAll(queue, "cancelled"))
          /\ UNCHANGED delivering
       \/ /\ Expects(r) /\ code \in Replies
          /\ terminal' = (terminal \/ code \in Fatal)
          /\ timer' = NoRequest /\ current' = NoRequest /\ delivering' = TRUE
          /\ Call(<<Task("reply", r, code), Task("deliver", r, code)>>)
          /\ UNCHANGED <<worker, queue>>
  BY <1>4 DEF Receive
<1>. QED BY <1>7, <1>8, <1>9, <1>10

(* The owner hears of a reply before the application does.                  *)
LEMMA OnReplyEffect ==
  ASSUME Base, OnReply
  PROVE  /\ stack # <<>> /\ stack[1].fn = "reply"
         /\ stack[1].req \in Requests /\ stack[1].code \in Replies
         /\ Popped({App, Task("replied", stack[1].req, stack[1].code)})
<1>1. stack # <<>> /\ stack[1].fn = "reply" BY DEF OnReply, Top
<1>2. stack[1].req \in Requests /\ stack[1].code \in Replies BY <1>1, UnderTop DEF Tasks, OfRequest
<1>3. PICK a, b, p, rest : /\ a = App /\ b = Task("replied", stack[1].req, stack[1].code)
                           /\ p = <<a, b>> /\ rest = Tail(stack)
  OBVIOUS
<1>4. a \in Tasks /\ b \in Tasks BY <1>2, <1>3, TaskTypes
<1>5. a.fn = "app" /\ b.fn = "replied" BY <1>3 DEF App, Task
<1>6. Fits(a, b) BY <1>5 DEF Fits, TopOnly
<1>7. p \in Seq(Tasks) /\ Range(p) = {a, b} BY <1>3, <1>4, RangeTuples
<1>8. Neat(p)
  <2>1. SUFFICES ASSUME NEW i \in 1..2, NEW j \in 1..2, i < j PROVE Fits(p[i], p[j])
    BY <1>3 DEF Neat
  <2>2. i = 1 /\ j = 2 BY <2>1
  <2>. QED BY <1>3, <1>6, <2>2
<1>9. rest \in Seq(Tasks) /\ Neat(rest) /\ Range(rest) = Under BY <1>1, <1>3, UnderTop DEF Under
<1>10. \A u \in Range(rest) : ~TopOnly(u) BY <1>1, <1>9, UnderTop DEF Fits
<1>11. \A t \in Range(p), u \in Range(rest) : Fits(t, u) BY <1>5, <1>7, <1>10 DEF Fits
<1>12. stack' = p \o rest BY <1>3 DEF OnReply, Then
<1>13. /\ p \o rest \in Seq(Tasks) /\ Neat(p \o rest)
       /\ Range(p \o rest) = Range(p) \cup Range(rest)
  BY <1>7, <1>8, <1>9, <1>11, Stacked
<1>14. Holds({a, b} \cup Under) BY <1>7, <1>9, <1>12, <1>13 DEF Holds, On, Neat
<1>. QED BY <1>1, <1>2, <1>3, <1>14 DEF Popped

(* The state of the game is reset before a recovery is scheduled.           *)
LEMMA TerminationEffect ==
  ASSUME Base, HandleTermination
  PROVE  /\ stack # <<>> /\ stack[1].fn = "onTermination"
         /\ \E kind \in Kinds :
              /\ Popped({App, Task("schedule", NoRequest, kind)})
              /\ busy' = (kind # "none") /\ (kind # "none" => Allowed)
<1>1. stack # <<>> /\ stack[1].fn = "onTermination" BY DEF HandleTermination, Top
<1>2. PICK kind : kind = IF ~Allowed \/ ~(restartPending \/ Automatic) THEN "none"
                         ELSE IF restartPending THEN "manual" ELSE "auto"
  OBVIOUS
<1>3. kind \in Kinds /\ (kind # "none" => Allowed) BY <1>2 DEF Kinds
<1>4. PICK a, b, p : a = App /\ b = Task("schedule", NoRequest, kind) /\ p = <<a, b>> OBVIOUS
<1>5. Then(p) /\ busy' = (kind # "none") BY <1>2, <1>4 DEF HandleTermination
<1>6. a \in Tasks /\ a.fn \notin {"transmit", "deliver"} /\ b \in SimpleTasks
  BY <1>3, <1>4, TaskTypes, SimpleTypes DEF App, Task
<1>7. Plain(p) /\ Range(p) = {a, b} BY <1>4, <1>6, PlainTwo
<1>8. Popped({a, b}) BY <1>1, <1>5, <1>7, ThenStep DEF Popped, Holds
<1>. QED BY <1>1, <1>3, <1>4, <1>5, <1>8

(* A task that is taken leaves those below it, and the session may go on    *)
(* after the application has run.                                           *)
LEMMA TaskEffect ==
  ASSUME Base, StopWorker \/ CallRequest \/ Return \/ SessionCallbacks
  PROVE  /\ stack # <<>> /\ stack' \in Seq(Tasks) /\ Neat(stack)'
         /\ UNCHANGED <<client, writing, main, asked, reached>>
         /\ Under \subseteq On'
         /\ \A t \in On' : t \in Under \/ t.fn \in {"app", "replied", "schedule"}
<1>1. App.fn = "app" /\ \A fn, r, code : Task(fn, r, code).fn = fn BY DEF App, Task
<1>2. stack # <<>> /\ UNCHANGED <<client, writing, main, asked, reached>>
  BY DEF StopWorker, CallRequest, Return, SessionCallbacks, RequestStarted, OnReply, Replied,
         OnMismatch, OnClientError, HandleTermination, ScheduleRecovery, CallOwner, Top, history
<1>3. CASE OnReply BY <1>1, <1>2, <1>3, OnReplyEffect DEF Popped, Holds
<1>4. CASE HandleTermination BY <1>1, <1>2, <1>4, TerminationEffect DEF Popped, Holds
<1>5. CASE ~OnReply /\ ~HandleTermination
  <2>1. Then(<<>>) \/ Then(<<App>>)
    BY <1>5 DEF StopWorker, CallRequest, Return, SessionCallbacks, RequestStarted, Replied,
                OnMismatch, OnClientError, ScheduleRecovery, CallOwner
  <2>. QED BY <1>1, <1>2, <2>1, PopEffect DEF Popped, Holds
<1>. QED BY <1>3, <1>4, <1>5

--------------------------------------------------------------------------------
(* Types, and the order on the stack.                                       *)
ClientParts ==
  /\ queue' \in Seq(Requests)
  /\ current' \in Requests \cup {NoRequest} /\ timer' \in Requests \cup {NoRequest}
  /\ terminal' \in BOOLEAN /\ delivering' \in BOOLEAN

WorldParts ==
  /\ main' \in Seq(Posted) /\ inbox' \in Seq(Requests)
  /\ writing' \in Seq([req : Requests, gen : Nat])
  /\ worker' \in {"none", "running", "exited", "stopping"} /\ gen' \in Nat
  /\ asked' \subseteq Requests /\ reached' \subseteq Requests
  /\ result' \in [Requests -> Codes]

LEMMA BaseParts ==
  ASSUME ClientParts, WorldParts, SessionTypeOK', stack' \in Seq(Tasks), Neat(stack)'
  PROVE  Base'
BY DEF ClientParts, WorldParts, Base, ClientTypeOK, Neat

LEMMA SamePlace ==
  ASSUME Base
  PROVE  /\ UNCHANGED stack => stack' \in Seq(Tasks) /\ Neat(stack)' /\ On' = On
         /\ \A tasks : Holds(tasks) => stack' \in Seq(Tasks) /\ Neat(stack)'
BY DEF Base, ClientTypeOK, Neat, Holds, On

LEMMA SameClient ==
  ASSUME Base, UNCHANGED client
  PROVE  ClientParts
BY DEF Base, ClientTypeOK, ClientParts, client

LEMMA SameWorld ==
  ASSUME Base, UNCHANGED <<process, writing, main, history>>
  PROVE  WorldParts
BY DEF Base, ClientTypeOK, WorldParts, process, history

LEMMA SameSession ==
  ASSUME Base, UNCHANGED session
  PROVE  SessionTypeOK'
BY DEF Base, SessionTypeOK, session, lifecycle, status, trust, active

LEMMA EndsTypes ==
  ASSUME Base, NEW base, NEW code, NEW told, Ends(base, code, told),
         timer' \in {NoRequest, timer}, delivering' \in {delivering, TRUE, FALSE}
  PROVE  ClientParts /\ stack' \in Seq(Tasks) /\ Neat(stack)'
<1>1. terminal' = TRUE /\ current' = NoRequest /\ queue' = <<>> BY DEF Ends
<1>2. queue' \in Seq(Requests) BY <1>1
<1>3. stack' \in Seq(Tasks) /\ Neat(stack)' BY DEF Ends, Holds
<1>. QED BY <1>1, <1>2, <1>3 DEF ClientParts, Base, ClientTypeOK

LEMMA SendTypes ==
  ASSUME Base, FlowInv, NEW r \in Requests, SessionSend(r)
  PROVE  Base'
<1>1. CASE \E code \in NotSent : Declined(r, code)
  <2>1. /\ UNCHANGED <<process, writing, main, client, reached, result, session>>
        /\ asked' = asked \cup {r} /\ stack' \in Seq(Tasks) /\ Neat(stack)'
    BY <1>1 DEF Declined, Holds
  <2>2. WorldParts BY <2>1 DEF WorldParts, Base, ClientTypeOK, process
  <2>. QED BY <2>1, <2>2, SameClient, SameSession, BaseParts
<1>2. ASSUME NEW i \in DOMAIN queue, Replaced(r, i)
      PROVE  Base'
  <2>1. /\ UNCHANGED <<process, writing, main, current, timer, delivering, terminal, reached,
                       result, session>>
        /\ asked' = asked \cup {r} /\ stack' \in Seq(Tasks) /\ Neat(stack)'
        /\ queue' = [queue EXCEPT ![i] = r]
    BY <1>2 DEF Replaced, Holds
  <2>2. WorldParts BY <2>1 DEF WorldParts, Base, ClientTypeOK, process
  <2>3. queue' \in Seq(Requests) BY <2>1 DEF Base, ClientTypeOK
  <2>4. ClientParts BY <2>1, <2>3 DEF ClientParts, Base, ClientTypeOK
  <2>. QED BY <2>1, <2>2, <2>4, SameSession, BaseParts
<1>3. CASE Joined(r)
  <2>1. /\ UNCHANGED <<process, writing, main, current, timer, delivering, terminal, reached,
                       result, session, stack>>
        /\ asked' = asked \cup {r} /\ queue' = Append(queue, r)
    BY <1>3 DEF Joined
  <2>2. WorldParts BY <2>1 DEF WorldParts, Base, ClientTypeOK, process
  <2>3. queue' \in Seq(Requests) BY <2>1 DEF Base, ClientTypeOK
  <2>4. ClientParts BY <2>1, <2>3 DEF ClientParts, Base, ClientTypeOK
  <2>. QED BY <2>1, <2>2, <2>4, SamePlace, SameSession, BaseParts
<1>4. CASE Dispatched(r) /\ UNCHANGED queue /\ asked' = asked \cup {r} /\ UNCHANGED delivering
  <2>1. /\ UNCHANGED <<process, writing, main, timer, terminal, reached, result, session>>
        /\ current' = r /\ stack' \in Seq(Tasks) /\ Neat(stack)'
    BY <1>4 DEF Dispatched, Holds
  <2>2. WorldParts BY <1>4, <2>1 DEF WorldParts, Base, ClientTypeOK, process
  <2>3. ClientParts BY <1>4, <2>1 DEF ClientParts, Base, ClientTypeOK
  <2>. QED BY <2>1, <2>2, <2>3, SameSession, BaseParts
<1>5. Dispatched(r) => UNCHANGED <<queue, delivering>> /\ asked' = asked \cup {r}
  <2>1. HAVE Dispatched(r)
  <2>2. r \notin asked /\ asked' = asked \cup {r} BY DEF SessionSend, Send
  <2>3. r \notin asked /\ asked' # asked BY <2>2
  <2>4. ~delivering /\ ~delivering' /\ UNCHANGED queue BY <2>1, <2>3 DEF Dispatched
  <2>5. delivering \in BOOLEAN BY DEF Base, ClientTypeOK
  <2>6. delivering' \in BOOLEAN
    <3>1. CASE Gated(r) BY <3>1, <2>5 DEF SessionSend, client
    <3>2. CASE ~Gated(r) BY <3>2, <2>5 DEF SessionSend, Send, client
    <3>. QED BY <3>1, <3>2
  <2>7. delivering' = delivering BY <2>4, <2>5, <2>6
  <2>. QED BY <2>2, <2>4, <2>7
<1>. QED BY <1>1, <1>2, <1>3, <1>4, <1>5, SendEffect

LEMMA PoppedTypes ==
  ASSUME Base, NEW added, Popped(added)
  PROVE  stack' \in Seq(Tasks) /\ Neat(stack)' /\ stack # <<>> /\ On' = added \cup Under
BY DEF Popped, Holds

LEMMA TransmitTypes ==
  ASSUME Base, Transmit, UNCHANGED session
  PROVE  Base'
<1>1. /\ stack[1].req \in Requests /\ UNCHANGED <<process, main, history>>
  BY TransmitEffect
<1>2. CASE /\ Popped({}) /\ timer' = stack[1].req
           /\ writing' = Append(writing, [req |-> stack[1].req, gen |-> gen])
           /\ UNCHANGED <<current, queue, delivering, terminal>>
  <2>1. [req |-> stack[1].req, gen |-> gen] \in [req : Requests, gen : Nat]
    BY <1>1 DEF Base, ClientTypeOK
  <2>2. writing' \in Seq([req : Requests, gen : Nat]) BY <1>2, <2>1 DEF Base, ClientTypeOK
  <2>3. WorldParts BY <1>1, <2>2 DEF WorldParts, Base, ClientTypeOK, process, history
  <2>4. ClientParts BY <1>1, <1>2 DEF ClientParts, Base, ClientTypeOK
  <2>. QED BY <1>2, <2>3, <2>4, PoppedTypes, SameSession, BaseParts
<1>3. CASE UNCHANGED writing /\ SendEnds(stack[1].req, "sendFailed", Under)
  <2>1. ClientParts /\ stack' \in Seq(Tasks) /\ Neat(stack)'
    BY <1>3, EndsTypes DEF SendEnds
  <2>. QED BY <1>1, <1>3, <2>1, SameWorld, SameSession, BaseParts
<1>4. CASE UNCHANGED writing /\ SendPasses(stack[1].req, stack[1].req, Under)
  <2>1. stack' \in Seq(Tasks) /\ Neat(stack)' BY <1>4 DEF SendPasses, Holds
  <2>2. ClientParts BY <1>1, <1>4 DEF SendPasses, ClientParts, Base, ClientTypeOK
  <2>. QED BY <1>1, <1>4, <2>1, <2>2, SameWorld, SameSession, BaseParts
<1>. QED BY <1>2, <1>3, <1>4, TransmitEffect

LEMMA HandlerTypes ==
  ASSUME Base, FlowInv, UNCHANGED session, Finish \/ Deliver \/ EndDelivery
  PROVE  Base'
<1>1. CASE Finish
  <2>1. /\ timer' = NoRequest /\ delivering' = FALSE
        /\ worker' \in {worker, "stopping"}
        /\ UNCHANGED <<gen, inbox, writing, main, stops, history>>
        /\ \E told : Ends(Under, stack[1].code, told)
    BY <1>1, FinishEffect
  <2>2. ClientParts /\ stack' \in Seq(Tasks) /\ Neat(stack)' BY <2>1, EndsTypes
  <2>3. WorldParts BY <2>1 DEF WorldParts, Base, ClientTypeOK, history
  <2>. QED BY <2>2, <2>3, SameSession, BaseParts
<1>2. CASE Deliver
  <2>1. /\ queue' \in {<<>>, queue}
        /\ UNCHANGED <<process, writing, main, current, timer, delivering, terminal, history>>
        /\ stack' \in Seq(Tasks) /\ Neat(stack)'
    BY <1>2, DeliverEffect, PoppedTypes
  <2>2. queue \in Seq(Requests) /\ <<>> \in Seq(Requests) BY DEF Base, ClientTypeOK
  <2>3. queue' \in Seq(Requests) BY <2>1, <2>2
  <2>4. ClientParts BY <2>1, <2>3 DEF ClientParts, Base, ClientTypeOK
  <2>. QED BY <2>1, <2>4, SameWorld, SameSession, BaseParts
<1>3. CASE EndDelivery
  <2>1. delivering' = FALSE /\ UNCHANGED <<process, writing, main, timer, stops, history>>
    BY <1>3, EndDeliveryEffect
  <2>2. CASE \E r \in Requests : Dispatched(r)
    <3>1. PICK r \in Requests : Dispatched(r) BY <2>2
    <3>2. UNCHANGED asked BY <2>1 DEF history
    <3>3. r \in asked \/ asked' # asked \cup {r} \/ r \in asked' OBVIOUS
    <3>4. /\ queue # <<>> /\ queue' = Tail(queue) /\ current' = r /\ UNCHANGED terminal
          /\ stack' \in Seq(Tasks) /\ Neat(stack)'
      BY <3>1, <3>2 DEF Dispatched, Holds
    <3>5. queue' \in Seq(Requests) BY <3>4 DEF Base, ClientTypeOK
    <3>6. ClientParts BY <2>1, <3>4, <3>5 DEF ClientParts, Base, ClientTypeOK
    <3>. QED BY <2>1, <3>4, <3>6, SameWorld, SameSession, BaseParts
  <2>3. CASE FlushFails
    <3>1. ClientParts /\ stack' \in Seq(Tasks) /\ Neat(stack)'
      BY <2>1, <2>3, EndsTypes DEF FlushFails
    <3>. QED BY <2>1, <3>1, SameWorld, SameSession, BaseParts
  <2>4. CASE Popped({}) /\ UNCHANGED <<queue, current, terminal>>
    <3>1. ClientParts BY <2>1, <2>4 DEF ClientParts, Base, ClientTypeOK
    <3>. QED BY <2>1, <2>4, <3>1, PoppedTypes, SameWorld, SameSession, BaseParts
  <2>. QED BY <1>3, <2>2, <2>3, <2>4, EndDeliveryEffect
<1>. QED BY <1>1, <1>2, <1>3

LEMMA TaskHandlerTypes ==
  ASSUME Base, UNCHANGED session, StopWorker \/ CallRequest \/ Return
  PROVE  Base'
<1>1. stack # <<>> /\ UNCHANGED <<gen, inbox, writing, main, client, asked, reached>>
      /\ (Then(<<>>) \/ Then(<<App>>))
  BY DEF StopWorker, CallRequest, Return, Top, process, history
<1>2. stack' \in Seq(Tasks) /\ Neat(stack)' BY <1>1, PopEffect, PoppedTypes
<1>3. worker' \in {"none", "running", "exited", "stopping"}
  BY DEF StopWorker, CallRequest, Return, process, Base, ClientTypeOK
<1>4. result' \in [Requests -> Codes]
  <2>1. CASE StopWorker \/ Return
    BY <2>1 DEF StopWorker, Return, history, Base, ClientTypeOK
  <2>2. CASE CallRequest
    <3>1. stack[1] \in Tasks /\ stack[1].fn = "complete" BY <1>1, <2>2, UnderTop DEF CallRequest, Top
    <3>2. PICK c : c = stack[1].code OBVIOUS
    <3>3. PICK q : q = stack[1].req OBVIOUS
    <3>4. result' = [result EXCEPT ![q] = IF @ = "none" THEN c ELSE "twice"]
      BY <2>2, <3>2, <3>3 DEF CallRequest
    <3>5. c \in Codes BY <3>1, <3>2 DEF Tasks
    <3>6. "twice" \in Codes BY DEF Codes, Results
    <3>7. result \in [Requests -> Codes] BY DEF Base, ClientTypeOK
    <3>. QED BY <3>4, <3>5, <3>6, <3>7
  <2>. QED BY <2>1, <2>2
<1>5. WorldParts BY <1>1, <1>3, <1>4 DEF WorldParts, Base, ClientTypeOK
<1>. QED BY <1>1, <1>2, <1>5, SameClient, SameSession, BaseParts

LEMMA CallbackTypes ==
  ASSUME Base, SessionCallbacks
  PROVE  Base'
<1>1. SessionTypeOK'
  <2>1. CASE RequestStarted
    <3>1. PICK q : q = stack[1].req OBVIOUS
    <3>2. activeLifetime' = lifetime /\ activeTrusted' = (q \in Trusted)
          /\ startedIn' = [startedIn EXCEPT ![q] = lifetime] /\ busy' = TRUE
          /\ UNCHANGED <<lifecycle, available, compatible, lifetime, untrusted>>
      BY <2>1, <3>1 DEF RequestStarted
    <3>3. startedIn' \in [Requests -> Nat] BY <3>2 DEF Base, SessionTypeOK
    <3>. QED BY <3>2, <3>3 DEF Base, SessionTypeOK, lifecycle
  <2>2. CASE OnReply
    BY <2>2 DEF OnReply, Base, SessionTypeOK, trust, active
  <2>3. CASE Replied
    BY <2>3 DEF Replied, Preserve, Base, SessionTypeOK, lifecycle, status, active
  <2>4. CASE OnMismatch
    BY <2>4 DEF OnMismatch, Preserve, Base, SessionTypeOK, active
  <2>5. CASE OnClientError
    BY <2>5 DEF OnClientError, Preserve, Base, SessionTypeOK, lifecycle, active, InFlight,
                RecoveryOwned
  <2>6. CASE HandleTermination
    <3>1. busy' \in BOOLEAN BY <2>6, TerminationEffect
    <3>2. /\ restartPending' = FALSE
          /\ UNCHANGED <<configured, terminationRequested, suppressed, recovery, trust>>
      BY <2>6 DEF HandleTermination
    <3>. QED BY <3>1, <3>2 DEF Base, SessionTypeOK, trust, active
  <2>7. CASE ScheduleRecovery
    <3>1. stack # <<>> /\ stack[1].fn = "schedule" BY <2>7 DEF ScheduleRecovery, Top
    <3>2. stack[1].code \in Kinds BY <3>1, UnderTop DEF Tasks
    <3>3. /\ suppressed' = FALSE /\ recovery' \in {recovery, "manual", "auto"}
          /\ UNCHANGED <<configured, terminationRequested, restartPending, status, trust>>
      BY <2>7, <3>2 DEF ScheduleRecovery, Kinds
    <3>. QED BY <3>3 DEF Base, SessionTypeOK, status, trust, active
  <2>. QED BY <2>1, <2>2, <2>3, <2>4, <2>5, <2>6, <2>7 DEF SessionCallbacks
<1>2. UNCHANGED <<process, writing, main, client, history>>
  BY DEF SessionCallbacks, RequestStarted, OnReply, Replied, OnMismatch, OnClientError,
         HandleTermination, ScheduleRecovery, CallOwner
<1>. QED BY <1>1, <1>2, TaskEffect, SameClient, SameWorld, BaseParts

LEMMA MainTypes ==
  ASSUME Base, UNCHANGED session, Terminated \/ Violation \/ Sent \/ Receive
  PROVE  Base'
<1>1. Idle /\ main # <<>> /\ main' = Tail(main) BY DEF Terminated, Violation, Sent, Receive
<1>2. main' \in Seq(Posted) /\ Head(main) \in Posted BY <1>1, MainHead
<1>3. AppRuns /\ On = {} BY <1>1, NothingOn
<1>4. UNCHANGED <<gen, inbox, writing, history>>
      /\ worker' \in {"none", "running", "exited", "stopping"}
  BY DEF Terminated, Violation, Sent, Receive, process, Base, ClientTypeOK
<1>5. WorldParts BY <1>2, <1>4 DEF WorldParts, Base, ClientTypeOK, history
<1>6. ClientParts /\ stack' \in Seq(Tasks) /\ Neat(stack)'
  <2>1. CASE Terminated
    <3>1. Call(Interrupting("terminate")) /\ UNCHANGED client BY <2>1 DEF Terminated
    <3>2. Interrupts("terminate") BY <1>3, <3>1, InterruptEffect
    <3>. QED BY <3>1, <3>2, SameClient DEF Interrupts, Leaves, Holds
  <2>2. CASE Violation
    <3>1. CASE UNCHANGED <<client, stack>> BY <3>1, SameClient, SamePlace
    <3>2. CASE Fail(IF current = NoRequest THEN "idleProtocolError" ELSE "protocolError")
      <4>1. PICK c : c = IF current = NoRequest THEN "idleProtocolError" ELSE "protocolError"
        OBVIOUS
      <4>2. c \in Codes BY <4>1, CodeTypes DEF Unknown
      <4>. QED BY <1>3, <3>2, <4>1, <4>2, FailEnds, EndsTypes
    <3>. QED BY <2>2, <3>1, <3>2 DEF Violation
  <2>3. CASE Sent
    <3>1. Head(main).fn = "sent" /\ SendFailed(Head(main).req, Head(main).code, timer, stack)
      BY <2>3 DEF Sent
    <3>2. PICK r, code, rest : r = Head(main).req /\ code = Head(main).code /\ rest = stack
      OBVIOUS
    <3>3. r \in Requests /\ code \in {"encodeFailed", "sendFailed", "sendUnknown"}
      BY <1>2, <3>1, <3>2 DEF Posted, OfRequest
    <3>4. Rest(rest) BY <1>3, <3>2 DEF Rest
    <3>5. \/ Unencoded(r, Range(rest))
          \/ SendEnds(r, code, Range(rest))
          \/ SendPasses(r, timer, Range(rest))
      BY <3>1, <3>2, <3>3, <3>4, SendFails
    <3>6. CASE Unencoded(r, Range(rest))
      BY <3>6 DEF Unencoded, Leaves, Holds, ClientParts, Base, ClientTypeOK
    <3>7. CASE SendEnds(r, code, Range(rest)) BY <3>7, EndsTypes DEF SendEnds
    <3>8. CASE SendPasses(r, timer, Range(rest))
      BY <3>8 DEF SendPasses, Holds, ClientParts, Base, ClientTypeOK
    <3>. QED BY <3>5, <3>6, <3>7, <3>8
  <2>4. CASE Receive
    <3>1. CASE UNCHANGED <<worker, client, stack>> BY <3>1, SameClient, SamePlace
    <3>2. CASE Mismatches(Head(main).req) BY <3>2, EndsTypes DEF Mismatches
    <3>3. CASE Answered(Head(main).req, Head(main).code)
      <4>1. terminal' \in BOOLEAN BY <3>3 DEF Answered
      <4>2. stack' \in Seq(Tasks) /\ Neat(stack)' BY <3>3 DEF Answered, Holds
      <4>3. /\ timer' = NoRequest /\ current' = NoRequest /\ delivering' = TRUE
            /\ UNCHANGED queue
        BY <3>3 DEF Answered
      <4>. QED BY <4>1, <4>2, <4>3 DEF ClientParts, Base, ClientTypeOK
    <3>. QED BY <2>4, <3>1, <3>2, <3>3, ReceiveEffect
  <2>. QED BY <2>1, <2>2, <2>3, <2>4
<1>. QED BY <1>5, <1>6, SameSession, BaseParts

LEMMA PostTypes ==
  ASSUME Base, NEW ev \in BlockKinds, NEW r \in Requests \cup {NoRequest}, NEW code \in Codes,
         ev \in OfRequest => r \in Requests,
         ev = "sent" => code \in {"encodeFailed", "sendFailed", "sendUnknown"},
         Post(ev, r, code)
  PROVE  main' \in Seq(Posted) /\ Blocks' = Blocks \cup {Task(ev, r, code)}
<1>1. PICK t : t = Task(ev, r, code) OBVIOUS
<1>2. t \in Posted BY <1>1 DEF Task, Posted
<1>3. main' = Append(main, t) BY <1>1 DEF Post
<1>4. main \in Seq(Posted) BY DEF Base, ClientTypeOK
<1>5. Append(main, t) \in Seq(Posted) /\ Range(Append(main, t)) = Range(main) \cup {t}
  BY <1>2, <1>4, RangeAppend
<1>. QED BY <1>1, <1>3, <1>5 DEF Blocks

LEMMA WorldTypes ==
  ASSUME Base, UNCHANGED session, World
  PROVE  Base'
<1>1. UNCHANGED <<gen, client, stack, stops, asked, result>>
  BY DEF World, Write, Answer, Garble, Exit, process, history
<1>2. UNCHANGED main => main' \in Seq(Posted) BY DEF Base, ClientTypeOK
<1>3. UNCHANGED inbox => inbox' \in Seq(Requests) BY DEF Base, ClientTypeOK
<1>4. UNCHANGED writing => writing' \in Seq([req : Requests, gen : Nat]) BY DEF Base, ClientTypeOK
<1>5. UNCHANGED reached => reached' \subseteq Requests BY DEF Base, ClientTypeOK
<1>6. /\ main' \in Seq(Posted) /\ inbox' \in Seq(Requests) /\ reached' \subseteq Requests
      /\ writing' \in Seq([req : Requests, gen : Nat])
      /\ worker' \in {"none", "running", "exited", "stopping"}
  <2>1. CASE Write
    <3>1. PICK job : job = Head(writing) OBVIOUS
    <3>2. /\ writing # <<>> /\ writing' = Tail(writing) /\ UNCHANGED worker
          /\ \/ /\ inbox' = Append(inbox, job.req) /\ reached' = reached \cup {job.req}
                /\ UNCHANGED main
             \/ /\ reached' = reached \cup {job.req}
                /\ Post("sent", job.req, "sendUnknown")
                /\ UNCHANGED inbox
             \/ /\ \E code \in {"encodeFailed", "sendFailed"} : Post("sent", job.req, code)
                /\ UNCHANGED <<inbox, reached>>
      BY <2>1, <3>1 DEF Write
    <3>3. job.req \in Requests /\ Tail(writing) \in Seq([req : Requests, gen : Nat])
      <4>1. writing \in Seq([req : Requests, gen : Nat]) BY DEF Base, ClientTypeOK
      <4>2. job \in [req : Requests, gen : Nat]
            /\ Tail(writing) \in Seq([req : Requests, gen : Nat])
        BY <3>1, <3>2, <4>1, RangeTail
      <4>. QED BY <4>2
    <3>4. {"encodeFailed", "sendFailed", "sendUnknown"} \subseteq Codes
      BY CodeTypes DEF NotSent, Unknown
    <3>5. \A code \in {"encodeFailed", "sendFailed", "sendUnknown"} :
            Post("sent", job.req, code) => main' \in Seq(Posted)
      BY <3>3, <3>4, PostTypes DEF BlockKinds, OfRequest
    <3>6. reached \cup {job.req} \subseteq Requests BY <3>3 DEF Base, ClientTypeOK
    <3>7. Append(inbox, job.req) \in Seq(Requests) BY <3>3 DEF Base, ClientTypeOK
    <3>8. worker' \in {"none", "running", "exited", "stopping"} BY <3>2 DEF Base, ClientTypeOK
    <3>. QED BY <1>2, <1>3, <1>5, <3>2, <3>3, <3>5, <3>6, <3>7, <3>8
  <2>2. CASE Answer
    <3>1. /\ inbox # <<>> /\ inbox' = Tail(inbox) /\ UNCHANGED <<worker, writing, reached>>
          /\ \E code \in Answers \cup {"mismatch"} : Post("message", Head(inbox), code)
      BY <2>2 DEF Answer, history
    <3>2. Head(inbox) \in Requests /\ Tail(inbox) \in Seq(Requests)
      BY <3>1 DEF Base, ClientTypeOK
    <3>3. Answers \cup {"mismatch"} \subseteq Codes
      BY AnswersAssumption, CodeTypes DEF Replies, Unknown
    <3>4. main' \in Seq(Posted) BY <3>1, <3>2, <3>3, PostTypes DEF BlockKinds
    <3>5. worker' \in {"none", "running", "exited", "stopping"} BY <3>1 DEF Base, ClientTypeOK
    <3>. QED BY <1>4, <1>5, <3>1, <3>2, <3>4, <3>5
  <2>3. CASE Garble
    <3>1. Post("violation", NoRequest, "none") /\ UNCHANGED <<worker, inbox, writing, reached>>
      BY <2>3 DEF Garble, process, history
    <3>2. main' \in Seq(Posted) BY <3>1, CodeTypes, PostTypes DEF BlockKinds, OfRequest
    <3>3. worker' \in {"none", "running", "exited", "stopping"} BY <3>1 DEF Base, ClientTypeOK
    <3>. QED BY <1>3, <1>4, <1>5, <3>1, <3>2, <3>3
  <2>4. CASE Exit
    <3>1. /\ Post("terminated", NoRequest, "none") /\ UNCHANGED <<writing, reached>>
          /\ worker' = "exited" /\ inbox' = <<>>
      BY <2>4 DEF Exit, history
    <3>2. main' \in Seq(Posted) BY <3>1, CodeTypes, PostTypes DEF BlockKinds, OfRequest
    <3>. QED BY <1>4, <1>5, <3>1, <3>2
  <2>. QED BY <2>1, <2>2, <2>3, <2>4 DEF World
<1>7. WorldParts BY <1>1, <1>6 DEF WorldParts, Base, ClientTypeOK
<1>. QED BY <1>1, <1>7, SamePlace, SameClient, SameSession, BaseParts

(* Starts of a worker, and what the session does by itself.                 *)
LEMMA StartEffect ==
  ASSUME Base, Startup \/ Recover
  PROVE  /\ Idle /\ UNCHANGED <<writing, main, stack, stops, history, trust,
                               terminationRequested, restartPending>>
         /\ \/ /\ Startup \/ recovery # "none"
               /\ ~IsStarted /\ worker' = "running" /\ gen' = gen + 1 /\ inbox' = <<>>
               /\ current' = NoRequest /\ queue' = <<>> /\ timer' = NoRequest
               /\ delivering' = FALSE /\ terminal' = FALSE /\ busy' = FALSE /\ suppressed' = FALSE
            \/ /\ Startup \/ recovery # "none"
               /\ ~IsStarted /\ terminal' = FALSE /\ delivering' = FALSE /\ suppressed' = FALSE
               /\ UNCHANGED <<process, current, queue, timer>>
               /\ busy' = FALSE \/ (UNCHANGED <<busy, recovery>> /\ recovery # "none")
            \/ ~Startup /\ recovery' = "none" /\ recovery # "none"
               /\ (~Allowed \/ IsStarted) /\ UNCHANGED <<vars, suppressed, busy>>
         /\ \/ Startup /\ Allowed /\ configured' = TRUE /\ recovery' = recovery
            \/ recovery # "none" /\ UNCHANGED configured /\ recovery' \in {"none", recovery}
<1>1. CASE Startup
  BY <1>1 DEF Startup, Started, StartFailed, Start, process, history
<1>2. CASE Recover
  <2>1. /\ Idle /\ recovery # "none"
        /\ UNCHANGED <<configured, terminationRequested, restartPending, trust>>
    BY <1>2 DEF Recover
  <2>2. CASE /\ ~Allowed \/ IsStarted
             /\ recovery' = "none" /\ UNCHANGED <<vars, suppressed, attempts, available, busy>>
    <3>1. ~Startup BY <2>1, <2>2 DEF Startup, Started, StartFailed, Start
    <3>. QED BY <2>1, <2>2, <3>1 DEF vars, history
  <2>3. CASE Allowed /\ Started /\ recovery' = "none"
    BY <2>1, <2>3 DEF Started, Start
  <2>4. CASE Allowed /\ StartFailed /\ UNCHANGED <<recovery, available, busy>>
    BY <2>1, <2>4 DEF StartFailed
  <2>5. CASE Allowed /\ StartFailed /\ recovery' = "none" /\ busy' = FALSE
    BY <2>1, <2>5 DEF StartFailed
  <2>. QED BY <1>2, <2>2, <2>3, <2>4, <2>5 DEF Recover
<1>. QED BY <1>1, <1>2

LEMMA StartTypes ==
  ASSUME Base, Startup \/ Recover
  PROVE  Base'
<1>1. stack' \in Seq(Tasks) /\ Neat(stack)' BY StartEffect, SamePlace
<1>2. SessionTypeOK'
  BY StartEffect DEF Base, SessionTypeOK, trust, active
<1>3. ClientParts
  <2>1. <<>> \in Seq(Requests) /\ queue \in Seq(Requests) BY DEF Base, ClientTypeOK
  <2>2. queue' \in {<<>>, queue} BY StartEffect DEF vars, client
  <2>3. queue' \in Seq(Requests) BY <2>1, <2>2
  <2>4. /\ current' \in {NoRequest, current} /\ timer' \in {NoRequest, timer}
        /\ terminal' \in {FALSE, terminal} /\ delivering' \in {FALSE, delivering}
    BY StartEffect DEF vars, client
  <2>. QED BY <2>3, <2>4 DEF ClientParts, Base, ClientTypeOK
<1>4. WorldParts
  <2>1. /\ UNCHANGED <<writing, main, history>> /\ gen' \in {gen, gen + 1}
        /\ worker' \in {worker, "running"} /\ inbox' \in {<<>>, inbox}
    BY StartEffect DEF vars, process
  <2>2. inbox' \in Seq(Requests)
    <3>1. <<>> \in Seq(Requests) /\ inbox \in Seq(Requests) BY DEF Base, ClientTypeOK
    <3>. QED BY <2>1, <3>1
  <2>. QED BY <2>1, <2>2 DEF WorldParts, Base, ClientTypeOK, history
<1>. QED BY <1>1, <1>2, <1>3, <1>4, BaseParts

LEMMA StopEffect ==
  ASSUME Base, Stop
  PROVE  /\ AppRuns /\ Interrupts("stop")
         /\ UNCHANGED <<process, writing, main, client, history>>
BY InterruptEffect DEF Stop

(* The calls of the application besides send.                               *)
LEMMA ApplicationEffect ==
  ASSUME Base, Restart \/ SessionStop \/ BeginTermination \/ TargetLifetimeChanged \/ ScriptMissing
  PROVE  /\ UNCHANGED <<process, writing, main, client, history, configured, active>>
         /\ \/ AppRuns /\ Interrupts("stop")
            \/ UNCHANGED stack
BY StopEffect
   DEF Restart, SessionStop, BeginTermination, TargetLifetimeChanged, ScriptMissing, vars, trust, lifecycle,
       process, history, client

LEMMA ApplicationTypes ==
  ASSUME Base, Restart \/ SessionStop \/ BeginTermination \/ TargetLifetimeChanged \/ ScriptMissing
  PROVE  Base'
<1>1. stack' \in Seq(Tasks) /\ Neat(stack)'
  BY ApplicationEffect, SamePlace DEF Interrupts, Leaves, Holds
<1>2. SessionTypeOK'
  <2>1. CASE Restart
    BY <2>1 DEF Restart, trust, active, Base, SessionTypeOK
  <2>2. CASE SessionStop
    BY <2>2 DEF SessionStop, trust, active, status, Base, SessionTypeOK
  <2>3. CASE BeginTermination
    BY <2>3 DEF BeginTermination, trust, active, Base, SessionTypeOK, InFlight
  <2>4. CASE TargetLifetimeChanged
    <3>1. /\ lifetime' = lifetime + 1 /\ untrusted' = 0 /\ UNCHANGED <<lifecycle, status, active>>
      BY <2>4 DEF TargetLifetimeChanged
    <3>2. lifetime' \in Nat \ {0} /\ untrusted' \in Nat BY <3>1 DEF Base, SessionTypeOK
    <3>. QED BY <3>1, <3>2 DEF lifecycle, status, active, Base, SessionTypeOK
  <2>5. CASE ScriptMissing
    BY <2>5 DEF ScriptMissing, lifecycle, trust, active, Base, SessionTypeOK
  <2>. QED BY <2>1, <2>2, <2>3, <2>4, <2>5
<1>. QED BY <1>1, <1>2, ApplicationEffect, SameClient, SameWorld, BaseParts

LEMMA TimeoutTypes ==
  ASSUME Base, Timeout, UNCHANGED session
  PROVE  Base'
<1>1. AppRuns BY NothingOn DEF Timeout
<1>2. UNCHANGED <<process, writing, main, history>> BY DEF Timeout
<1>3. CASE timer' = NoRequest /\ UNCHANGED <<current, queue, delivering, terminal, stack>>
  <2>1. ClientParts BY <1>3 DEF ClientParts, Base, ClientTypeOK
  <2>. QED BY <1>2, <1>3, <2>1, SamePlace, SameWorld, SameSession, BaseParts
<1>4. CASE Fail("timeout")
  <2>1. "timeout" \in Codes BY CodeTypes DEF Unknown
  <2>2. ClientParts /\ stack' \in Seq(Tasks) /\ Neat(stack)' BY <1>1, <1>4, <2>1, FailEnds, EndsTypes
  <2>. QED BY <1>2, <2>2, SameWorld, SameSession, BaseParts
<1>. QED BY <1>3, <1>4 DEF Timeout

LEMMA Stutter ==
  ASSUME UNCHANGED sessionVars
  PROVE  /\ UNCHANGED <<process, writing, main, client, stack, stops, history, session>>
         /\ UNCHANGED <<worker, gen, inbox, current, queue, timer, delivering, terminal, asked,
                        reached, result>>
         /\ UNCHANGED <<configured, terminationRequested, restartPending, suppressed, recovery,
                        busy, lifetime, untrusted, activeLifetime, activeTrusted, startedIn>>
BY DEF sessionVars, vars, process, client, history, session, lifecycle, status, trust, active

LEMMA BaseNext ==
  ASSUME Base, FlowInv, [SessionNext]_sessionVars
  PROVE  Base'
<1>1. CASE SessionNext
  BY <1>1, SendTypes, TransmitTypes, HandlerTypes, TaskHandlerTypes, CallbackTypes, MainTypes,
     WorldTypes, StartTypes, ApplicationTypes, TimeoutTypes
     DEF SessionNext, SessionApplication, SessionHandlers, SessionMainQueue, SessionTimeout,
         SessionWorld, MainQueue
<1>2. CASE UNCHANGED sessionVars
  BY <1>2, Stutter, SamePlace, SameClient, SameWorld, SameSession, BaseParts
<1>. QED BY <1>1, <1>2

LEMMA BaseInit == SessionInit => Base
<1>1. HAVE SessionInit
<1>2. stack = <<>> /\ main = <<>> /\ queue = <<>> /\ inbox = <<>> /\ writing = <<>>
  BY <1>1 DEF SessionInit, Init
<1>3. /\ stack \in Seq(Tasks) /\ main \in Seq(Posted) /\ queue \in Seq(Requests)
      /\ inbox \in Seq(Requests) /\ writing \in Seq([req : Requests, gen : Nat])
  BY <1>2
<1>4. Neat(stack) BY <1>2 DEF Neat
<1>5. result \in [Requests -> Codes] BY <1>1, CodeTypes DEF SessionInit, Init
<1>6. ClientTypeOK BY <1>1, <1>3, <1>5 DEF SessionInit, Init, ClientTypeOK
<1>7. SessionTypeOK
  <2>1. startedIn \in [Requests -> Nat] BY <1>1 DEF SessionInit
  <2>2. lifetime = 1 /\ untrusted = 0 /\ activeLifetime = 0 /\ activeTrusted = TRUE
    BY <1>1 DEF SessionInit
  <2>3. /\ configured = FALSE /\ terminationRequested = FALSE /\ restartPending = FALSE
        /\ suppressed = FALSE /\ busy = FALSE /\ recovery = "none"
    BY <1>1 DEF SessionInit
  <2>4. /\ configured \in BOOLEAN /\ terminationRequested \in BOOLEAN
        /\ restartPending \in BOOLEAN /\ suppressed \in BOOLEAN /\ busy \in BOOLEAN
        /\ activeTrusted \in BOOLEAN
    BY <2>2, <2>3
  <2>5. lifetime \in Nat \ {0} /\ untrusted \in Nat /\ activeLifetime \in Nat BY <2>2
  <2>6. recovery \in {"none", "auto", "manual"} BY <2>3
  <2>. QED BY <2>1, <2>4, <2>5, <2>6 DEF SessionTypeOK
<1>. QED BY <1>4, <1>6, <1>7 DEF Base

--------------------------------------------------------------------------------
(* The request in flight and the tasks that go with it.                     *)
Flowing == {"stop", "terminate", "transmit", "started", "endDelivery"} \cup Replying

LEMMA FlowKept ==
  ASSUME FlowInv, UNCHANGED <<current, terminal, delivering>>,
         \A t \in On' : t \in On \/ t.fn \notin Flowing
  PROVE  FlowInv'
<1>1. terminal' => current' = NoRequest BY DEF FlowInv
<1>2. ASSUME NEW t \in On'
      PROVE  FlowOf(t)'
  <2>1. CASE t \in On
    <3>1. FlowOf(t) BY <2>1 DEF FlowInv
    <3>2. t.fn \in Replying => \A u \in On' : u.fn \notin {"transmit", "endDelivery"}
      BY <3>1 DEF FlowOf, Flowing
    <3>. QED BY <3>1, <3>2 DEF FlowOf
  <2>2. CASE t.fn \notin Flowing BY <2>2 DEF FlowOf, Flowing
  <2>. QED BY <1>2, <2>1, <2>2
<1>. QED BY <1>1, <1>2 DEF FlowInv

LEMMA FlowEnds ==
  ASSUME FlowInv, NEW base, base \subseteq On, \A u \in base : ~TopOnly(u),
         NEW code, NEW told, Ends(base, code, told),
         (\E t \in told : t.fn = "endDelivery") => current # NoRequest
  PROVE  FlowInv'
<1>1. terminal' = TRUE /\ current' = NoRequest BY DEF Ends
<1>2. PICK drop : Drops(drop) /\ On' = told \cup Given(code) \cup drop \cup base
  BY DEF Ends, Holds
<1>3. \A t \in drop \cup Given(code) : t.fn = "complete"
  BY <1>2 DEF Drops, Given, Complete, Task
<1>4. \A t \in told : t.fn \in Plainly BY DEF Ends
<1>5. \A t \in On' : t \in base \/ t.fn \in Plainly \cup {"complete"} BY <1>2, <1>3, <1>4
<1>6. ASSUME NEW t \in On'
      PROVE  FlowOf(t)'
  <2>1. CASE t \notin base
    <3>1. t.fn \in Plainly \cup {"complete"} BY <1>5, <2>1
    <3>. QED BY <3>1 DEF FlowOf, Plainly, Replying
  <2>2. CASE t \in base
    <3>1. FlowOf(t) /\ ~TopOnly(t) BY <2>2 DEF FlowInv
    <3>2. t.fn # "started" BY <3>1 DEF TopOnly
    <3>3. t.fn \in Replying => \A u \in On' : u.fn \notin {"transmit", "endDelivery"}
      <4>1. HAVE t.fn \in Replying
      <4>2. current = NoRequest /\ \A u \in On : u.fn \notin {"transmit", "endDelivery"}
        BY <3>1, <4>1 DEF FlowOf
      <4>3. \A u \in told : u.fn # "endDelivery" BY <4>2
      <4>. QED BY <1>2, <1>3, <1>4, <4>2, <4>3 DEF Plainly
    <3>. QED BY <1>1, <3>1, <3>2, <3>3 DEF FlowOf
  <2>. QED BY <2>1, <2>2
<1>. QED BY <1>1, <1>6 DEF FlowInv

(* What may stay below what a handler does.                                 *)
LEMMA Below ==
  ASSUME Base
  PROVE  /\ AppRuns => \A u \in On : ~TopOnly(u)
         /\ stack # <<>> => Under \subseteq On /\ stack[1] \in On /\ \A u \in Under : ~TopOnly(u)
         /\ On \subseteq Tasks
         /\ Idle => AppRuns /\ On = {}
<1>1. On \subseteq Tasks BY RangeOf DEF Base, ClientTypeOK, On
<1>. QED BY <1>1, AppOnTop, UnderTop, NothingOn DEF Fits

LEMMA FlowDispatched ==
  ASSUME Base, FlowInv, NEW r \in Requests, Dispatched(r)
  PROVE  FlowInv'
<1>1. /\ current' = r /\ r # NoRequest /\ ~terminal /\ terminal' = terminal /\ current = NoRequest
  BY NamesAssumption DEF Dispatched
<1>2. \A t \in On : t.fn \notin {"transmit", "started"} BY <1>1, NothingToSend
<1>3. PICK base : /\ base \subseteq On /\ On' = StartOf(r) \cup base /\ \A u \in base : ~TopOnly(u)
                  /\ \A t \in base : t.fn \notin Replying
  <2>1. CASE AppRuns /\ ~delivering /\ Holds(StartOf(r) \cup On)
    <3>1. \A t \in On : t.fn \notin Replying BY <1>1, <2>1 DEF FlowInv, FlowOf
    <3>. QED BY <2>1, <3>1, Below DEF Holds
  <2>2. CASE Top("endDelivery") /\ Holds(StartOf(r) \cup Under)
    <3>1. stack # <<>> /\ stack[1].fn = "endDelivery" BY <2>2 DEF Top
    <3>2. Under \subseteq On /\ stack[1] \in On /\ \A u \in Under : ~TopOnly(u) BY <3>1, Below
    <3>3. \A t \in On : t.fn \notin Replying BY <3>1, <3>2 DEF FlowInv, FlowOf
    <3>. QED BY <2>2, <3>2, <3>3 DEF Holds
  <2>. QED BY <2>1, <2>2 DEF Dispatched
<1>4. \A t \in StartOf(r) : t.fn \in {"started", "transmit"} /\ t.req = r BY DEF StartOf, Task
<1>5. ASSUME NEW t \in On'
      PROVE  FlowOf(t)'
  <2>1. CASE t \in StartOf(r)
    <3>1. t.fn \in {"started", "transmit"} /\ t.req = r BY <1>4, <2>1
    <3>. QED BY <1>1, <3>1 DEF FlowOf, Replying
  <2>2. CASE t \in base
    <3>1. /\ FlowOf(t) /\ ~TopOnly(t) /\ t.fn \notin Replying /\ t.fn \notin {"transmit", "started"}
      BY <1>2, <1>3, <2>2 DEF FlowInv
    <3>2. t.fn \in {"stop", "terminate"} => t.code # "cancelled" BY <3>1 DEF TopOnly
    <3>. QED BY <1>1, <3>1, <3>2 DEF FlowOf
  <2>. QED BY <1>3, <2>1, <2>2
<1>. QED BY <1>1, <1>5 DEF FlowInv

LEMMA FlowInterrupts ==
  ASSUME Base, FlowInv, UNCHANGED client, NEW fn \in {"stop", "terminate"}, Interrupts(fn)
  PROVE  FlowInv'
<1>1. On' = Interruption(fn) \cup On BY DEF Interrupts, Leaves, Holds
<1>2. UNCHANGED <<current, terminal, delivering>> BY DEF client
<1>3. \A t \in Interruption(fn) :
        \/ t.fn = "error"
        \/ t.fn = fn /\ t.code = "interrupted" /\ current # NoRequest
        \/ t.fn = fn /\ t.code = "cancelled" /\ current = NoRequest
  BY DEF Interruption, Callback, Task, FlowInv
<1>4. ASSUME NEW t \in On'
      PROVE  FlowOf(t)'
  <2>1. CASE t \in Interruption(fn) BY <1>2, <1>3, <2>1 DEF FlowOf, Replying
  <2>2. CASE t \in On
    <3>1. FlowOf(t) BY <2>2 DEF FlowInv
    <3>2. \A u \in Interruption(fn) : u.fn \notin {"transmit", "endDelivery"} BY <1>3
    <3>3. t.fn \in Replying => \A u \in On' : u.fn \notin {"transmit", "endDelivery"}
      BY <1>1, <3>1, <3>2 DEF FlowOf
    <3>. QED BY <1>2, <3>1, <3>3 DEF FlowOf
  <2>. QED BY <1>1, <2>1, <2>2
<1>. QED BY <1>2, <1>4 DEF FlowInv

LEMMA FlowSend ==
  ASSUME Base, FlowInv, NEW r \in Requests, SessionSend(r)
  PROVE  FlowInv'
<1>1. ASSUME NEW code \in NotSent, Declined(r, code)
      PROVE  FlowInv'
  <2>1. UNCHANGED <<current, terminal, delivering>> BY <1>1 DEF Declined, client
  <2>2. \A t \in On' : t \in On \/ t.fn \in {"complete", "error"}
    BY <1>1 DEF Declined, Holds, Complete, Callback, Task
  <2>. QED BY <2>1, <2>2, FlowKept DEF Flowing, Replying
<1>2. ASSUME NEW i \in DOMAIN queue, Replaced(r, i)
      PROVE  FlowInv'
  <2>1. UNCHANGED <<current, terminal, delivering>> BY <1>2 DEF Replaced
  <2>2. \A t \in On' : t \in On \/ t.fn = "complete" BY <1>2 DEF Replaced, Holds, Complete, Task
  <2>. QED BY <2>1, <2>2, FlowKept DEF Flowing, Replying
<1>3. CASE Joined(r) BY <1>3, FlowKept DEF Joined, On
<1>. QED BY <1>1, <1>2, <1>3, SendEffect, FlowDispatched

LEMMA FlowHandlers ==
  ASSUME Base, FlowInv, UNCHANGED session, Transmit \/ Finish \/ Deliver \/ EndDelivery
  PROVE  FlowInv'
<1>1. stack # <<>> BY DEF Transmit, Finish, Deliver, EndDelivery, Top
<1>2. Under \subseteq On /\ stack[1] \in On /\ \A u \in Under : ~TopOnly(u) BY <1>1, Below
<1>3. CASE Transmit
  <2>1. stack[1].req \in Requests /\ stack[1].req # NoRequest
    BY <1>3, TransmitEffect, NamesAssumption
  <2>2. CASE Popped({}) /\ UNCHANGED <<current, queue, delivering, terminal>>
    <3>1. On' = Under BY <2>2 DEF Popped, Holds
    <3>. QED BY <1>2, <2>2, <3>1, FlowKept
  <2>3. CASE SendEnds(stack[1].req, "sendFailed", Under)
    BY <1>2, <2>1, <2>3, FlowEnds DEF SendEnds
  <2>4. CASE SendPasses(stack[1].req, stack[1].req, Under)
    BY <1>2, <2>4, FlowKept DEF SendPasses, Holds
  <2>. QED BY <1>3, <2>2, <2>3, <2>4, TransmitEffect
<1>4. CASE Finish
  <2>1. PICK told : /\ Ends(Under, stack[1].code, told)
                    /\ \A t \in told : t.fn = "onTermination"
    BY <1>4, FinishEffect DEF Task
  <2>. QED BY <1>2, <2>1, FlowEnds
<1>5. CASE Deliver
  <2>1. /\ stack[1].fn = "deliver" /\ On' = Delivered(stack[1].req, stack[1].code) \cup Under
        /\ UNCHANGED <<current, terminal, delivering>>
    BY <1>5, DeliverEffect DEF Popped, Holds
  <2>2. \A t \in Delivered(stack[1].req, stack[1].code) :
          t.fn \in {"complete", "endDelivery", "stopProcess"}
    BY DEF Delivered, Cancelled, Complete, StopProcess, Task
  <2>3. \A t \in Under : t.fn \notin Replying
    BY <1>1, <1>2, <2>1, UnderTop DEF Fits, TopOnly, Replying
  <2>4. ASSUME NEW t \in On'
        PROVE  FlowOf(t)'
    <3>1. CASE t \in Under
      <4>1. FlowOf(t) /\ t.fn \notin Replying BY <1>2, <2>3, <3>1 DEF FlowInv
      <4>. QED BY <2>1, <4>1 DEF FlowOf
    <3>2. CASE t \in Delivered(stack[1].req, stack[1].code)
      BY <2>2, <3>2 DEF FlowOf, Replying
    <3>. QED BY <2>1, <3>1, <3>2
  <2>. QED BY <2>1, <2>4 DEF FlowInv
<1>6. CASE EndDelivery
  <2>1. stack[1].fn = "endDelivery" BY <1>6, EndDeliveryEffect
  <2>2. CASE FlushFails
    <3>1. PICK told : /\ Ends(Under, "none", told)
                      /\ \A t \in told : t.fn \in {"error", "stopProcess"}
      BY <2>2 DEF FlushFails, Callback, StopProcess, Task
    <3>. QED BY <1>2, <3>1, FlowEnds
  <2>3. CASE Popped({}) /\ UNCHANGED <<queue, current, terminal>>
    <3>1. On' = Under BY <2>3 DEF Popped, Holds
    <3>2. \A t \in On : t.fn \notin Replying BY <1>2, <2>1 DEF FlowInv, FlowOf
    <3>3. ASSUME NEW t \in On'
          PROVE  FlowOf(t)'
      <4>1. FlowOf(t) /\ t.fn \notin Replying BY <1>2, <3>1, <3>2 DEF FlowInv
      <4>. QED BY <2>3, <4>1 DEF FlowOf
    <3>. QED BY <2>3, <3>3 DEF FlowInv
  <2>. QED BY <1>6, <2>2, <2>3, EndDeliveryEffect, FlowDispatched
<1>. QED BY <1>3, <1>4, <1>5, <1>6

LEMMA FlowTasks ==
  ASSUME Base, FlowInv, StopWorker \/ CallRequest \/ Return \/ SessionCallbacks
  PROVE  FlowInv'
<1>1. stack # <<>> /\ UNCHANGED client BY TaskEffect
<1>2. UNCHANGED <<current, terminal, delivering>> BY <1>1 DEF client
<1>3. Under \subseteq On /\ stack[1] \in On BY <1>1, Below
<1>4. CASE OnReply
  <2>1. /\ stack[1].fn = "reply"
        /\ On' = {App, Task("replied", stack[1].req, stack[1].code)} \cup Under
    BY <1>4, OnReplyEffect DEF Popped, Holds
  <2>2. /\ current = NoRequest /\ (delivering \/ terminal)
        /\ \A u \in On : u.fn \notin {"transmit", "endDelivery"}
    BY <1>3, <2>1 DEF FlowInv, FlowOf, Replying
  <2>3. \A u \in On' : u.fn \notin {"transmit", "endDelivery"}
    BY <1>3, <2>1, <2>2 DEF App, Task
  <2>4. ASSUME NEW t \in On'
        PROVE  FlowOf(t)'
    <3>1. CASE t \in Under
      <4>1. FlowOf(t) BY <1>3, <3>1 DEF FlowInv
      <4>. QED BY <1>2, <2>3, <4>1 DEF FlowOf
    <3>2. CASE t \notin Under
      <4>1. t.fn \in {"app", "replied"} BY <2>1, <3>2 DEF App, Task
      <4>. QED BY <1>2, <2>2, <2>3, <4>1 DEF FlowOf
    <3>. QED BY <3>1, <3>2
  <2>. QED BY <1>2, <2>4 DEF FlowInv
<1>5. CASE ~OnReply
  <2>1. \A t \in On' : t \in On \/ t.fn \in {"app", "schedule"}
    <3>1. CASE HandleTermination
      BY <1>3, <3>1, TerminationEffect DEF Popped, Holds, App, Task
    <3>2. CASE ~HandleTermination
      <4>1. Then(<<>>) \/ Then(<<App>>)
        BY <1>5, <3>2 DEF StopWorker, CallRequest, Return, SessionCallbacks, RequestStarted,
                          Replied, OnMismatch, OnClientError, ScheduleRecovery, CallOwner
      <4>. QED BY <1>1, <1>3, <4>1, PopEffect DEF Popped, Holds, App, Task
    <3>. QED BY <3>1, <3>2
  <2>. QED BY <1>2, <2>1, FlowKept DEF Flowing, Replying
<1>. QED BY <1>4, <1>5

LEMMA FlowMain ==
  ASSUME Base, FlowInv, Terminated \/ Violation \/ Sent \/ Receive \/ Timeout
  PROVE  FlowInv'
<1>1. Idle BY DEF Terminated, Violation, Sent, Receive, Timeout
<1>2. On = {} /\ AppRuns BY <1>1, NothingOn
<1>3. UNCHANGED <<client, stack>> => FlowInv' BY FlowKept DEF client, On
<1>4. ASSUME NEW code \in Codes, Fail(code)
      PROVE  FlowInv'
  <2>1. PICK told, base : told = {Callback(code), StopProcess} /\ base = On OBVIOUS
  <2>2. Ends(base, code, told) BY <1>2, <1>4, <2>1, FailEnds
  <2>3. \A t \in told : t.fn # "endDelivery" BY <2>1 DEF Callback, StopProcess, Task
  <2>. QED BY <1>2, <2>1, <2>2, <2>3, FlowEnds
<1>5. {"timeout", "idleProtocolError", "protocolError"} \subseteq Codes BY CodeTypes DEF Unknown
<1>6. CASE Terminated
  <2>1. Call(Interrupting("terminate")) /\ UNCHANGED client BY <1>6 DEF Terminated
  <2>. QED BY <1>2, <2>1, InterruptEffect, FlowInterrupts
<1>7. CASE Violation BY <1>3, <1>4, <1>5, <1>7 DEF Violation
<1>8. CASE Timeout
  <2>1. CASE UNCHANGED <<current, queue, delivering, terminal, stack>> BY <2>1, FlowKept DEF On
  <2>. QED BY <1>4, <1>5, <1>8, <2>1 DEF Timeout
<1>9. CASE Sent
  <2>1. Head(main).fn = "sent" /\ SendFailed(Head(main).req, Head(main).code, timer, stack)
        /\ main # <<>>
    BY <1>9 DEF Sent
  <2>2. PICK r, code, rest : r = Head(main).req /\ code = Head(main).code /\ rest = stack
    OBVIOUS
  <2>3. r \in Requests /\ code \in {"encodeFailed", "sendFailed", "sendUnknown"}
    BY <2>1, <2>2, MainHead DEF Posted, OfRequest
  <2>4. Rest(rest) /\ Range(rest) = {} BY <1>2, <2>2 DEF Rest, On
  <2>5. r # NoRequest BY <2>3, NamesAssumption
  <2>6. CASE Unencoded(r, Range(rest))
    <3>1. current' = NoRequest BY <2>6 DEF Unencoded
    <3>2. On' = {Callback("encodeFailed"), Complete(r, "encodeFailed"),
                 Task("endDelivery", NoRequest, "flush")}
      BY <2>4, <2>6 DEF Unencoded, Leaves, Holds
    <3>3. \A t \in On' : t.fn \in {"error", "complete", "endDelivery"}
      BY <3>2 DEF Callback, Complete, Task
    <3>. QED BY <3>1, <3>3 DEF FlowInv, FlowOf, Replying
  <2>7. CASE SendEnds(r, code, Range(rest)) BY <2>4, <2>5, <2>7, FlowEnds DEF SendEnds
  <2>8. CASE SendPasses(r, timer, Range(rest)) BY <2>4, <2>8, FlowKept DEF SendPasses, Holds
  <2>. QED BY <2>1, <2>2, <2>3, <2>4, <2>6, <2>7, <2>8, SendFails
<1>10. CASE Receive
  <2>1. CASE Mismatches(Head(main).req)
    <3>1. PICK told : told = {Callback("mismatch")} OBVIOUS
    <3>2. Ends({}, "mismatch", told) BY <2>1, <3>1 DEF Mismatches
    <3>3. \A t \in told : t.fn # "endDelivery" BY <3>1 DEF Callback, Task
    <3>4. PICK base : base = {} OBVIOUS
    <3>5. base \subseteq On /\ (\A u \in base : ~TopOnly(u)) /\ Ends(base, "mismatch", told)
      BY <3>2, <3>4
    <3>. QED BY <3>3, <3>5, FlowEnds
  <2>2. CASE Answered(Head(main).req, Head(main).code)
    <3>1. current' = NoRequest /\ delivering' = TRUE BY <2>2 DEF Answered
    <3>2. \A t \in On' : t.fn \in {"reply", "deliver"} BY <2>2 DEF Answered, Holds, Task
    <3>. QED BY <3>1, <3>2 DEF FlowInv, FlowOf, Replying
  <2>. QED BY <1>3, <1>10, <2>1, <2>2, ReceiveEffect
<1>. QED BY <1>6, <1>7, <1>8, <1>9, <1>10

LEMMA FlowNext ==
  ASSUME Base, FlowInv, [SessionNext]_sessionVars
  PROVE  FlowInv'
<1>1. CASE Startup \/ Recover
  <2>1. On' = {} BY <1>1, StartEffect, NothingOn DEF On
  <2>2. terminal' = FALSE \/ (UNCHANGED <<terminal, current>>)
    BY <1>1, StartEffect DEF vars, client
  <2>. QED BY <2>1, <2>2 DEF FlowInv
<1>2. CASE Restart \/ SessionStop \/ BeginTermination \/ TargetLifetimeChanged \/ ScriptMissing
  <2>1. UNCHANGED stack => FlowInv' BY <1>2, ApplicationEffect, FlowKept DEF client, On
  <2>. QED BY <1>2, <2>1, ApplicationEffect, FlowInterrupts
<1>3. CASE World
  BY <1>3, FlowKept DEF World, Write, Answer, Garble, Exit, client, On
<1>4. CASE UNCHANGED sessionVars BY <1>4, Stutter, FlowKept DEF On
<1>. QED
  BY <1>1, <1>2, <1>3, <1>4, FlowSend, FlowHandlers, FlowTasks, FlowMain
     DEF SessionNext, SessionApplication, SessionHandlers, SessionMainQueue, SessionTimeout,
         SessionWorld, MainQueue

--------------------------------------------------------------------------------
(* Where each request is.                                                   *)
Keeps(r) ==
  /\ r \in asked => r \in asked'
  /\ Queued(r)' => Queued(r)
  /\ Sending(r)' => Sending(r)
  /\ Handed(r)' => Handed(r)
  /\ r \in reached' => r \in reached
  /\ Refused(r)' => Refused(r)

LEMMA KeptStage ==
  ASSUME NEW r, OneStage(r), Keeps(r)
  PROVE  OneStage(r)'
<1>. USE DEF OneStage, Keeps
<1>1. r \notin asked' => ~Queued(r)' /\ ~Sending(r)' /\ ~Handed(r)' /\ r \notin reached' /\ ~Refused(r)'
  OBVIOUS
<1>2. Queued(r)' => ~Sending(r)' /\ ~Handed(r)' /\ r \notin reached' /\ ~Refused(r)' OBVIOUS
<1>3. Sending(r)' => ~Handed(r)' /\ r \notin reached' /\ ~Refused(r)' OBVIOUS
<1>4. (Handed(r)' => r \notin reached' /\ ~Refused(r)') /\ (r \in reached' => ~Refused(r)') OBVIOUS
<1>. QED BY <1>1, <1>2, <1>3, <1>4

(* The parts of the client that hold requests.                              *)
KeepsWorld ==
  /\ asked \subseteq asked'
  /\ \A r : Handed(r)' => Handed(r)
  /\ reached' = reached
  /\ \A r \in Requests : result'[r] \in NotSent => result[r] \in NotSent
  /\ \A t \in Blocks' : t.fn = "sent" /\ t.code \in NotSent => t \in Blocks

LEMMA StageSame ==
  ASSUME StageInv, KeepsWorld, Distinct', Range(queue)' \subseteq Range(queue),
         \A t \in On' : \/ t \in On
                        \/ t.fn # "transmit" /\ (t.fn = "complete" => t.code \notin NotSent)
  PROVE  StageInv'
<1>1. ASSUME NEW r \in Requests
      PROVE  OneStage(r)'
  <2>1. Queued(r)' => Queued(r) BY DEF Queued
  <2>2. Sending(r)' => Sending(r) BY DEF Sending
  <2>3. Refused(r)' => Refused(r) BY <1>1 DEF Refused, KeepsWorld
  <2>4. Keeps(r) BY <2>1, <2>2, <2>3 DEF Keeps, KeepsWorld
  <2>5. OneStage(r) BY <1>1 DEF StageInv
  <2>. QED BY <2>4, <2>5, KeptStage
<1>. QED BY <1>1 DEF StageInv

LEMMA WorldKept ==
  ASSUME UNCHANGED <<writing, reached, result, asked>>, Blocks' \subseteq Blocks
  PROVE  KeepsWorld
BY DEF KeepsWorld, Handed

LEMMA StageEnds ==
  ASSUME Base, StageInv, NEW base, base \subseteq On, NEW code, NEW told, Ends(base, code, told),
         UNCHANGED <<writing, reached, result, asked>>, Blocks' \subseteq Blocks,
         NEW c, c = current,
         c # NoRequest /\ code \in NotSent => Refused(c) \/ (Sending(c) /\ ~Sending(c)')
  PROVE  StageInv'
<1>1. queue' = <<>> BY DEF Ends
<1>2. PICK drop : Drops(drop) /\ On' = told \cup Given(code) \cup drop \cup base
  BY DEF Ends, Holds
<1>3. \A t \in told : t.fn \in Plainly BY DEF Ends
<1>4. \A t \in Given(code) : t.fn = "complete" /\ t.req = current /\ t.code = code
                             /\ current # NoRequest
  BY DEF Given, Complete, Task
<1>5. Distinct'
  <2>1. \A i, j \in DOMAIN queue' : queue'[i] = queue'[j] => i = j BY <1>1
  <2>. QED BY <2>1 DEF StageInv, Distinct
<1>6. ASSUME NEW r \in Requests
      PROVE  OneStage(r)'
  <2>1. OneStage(r) BY <1>6 DEF StageInv
  <2>2. ~Queued(r)' BY <1>1, RangeTuples DEF Queued
  <2>3. Sending(r)' => Sending(r)
    <3>1. \A t \in On' : t.fn = "transmit" => t \in base
      BY <1>2, <1>3, <1>4 DEF Plainly, Drops
    <3>. QED BY <3>1 DEF Sending
  <2>4. Handed(r)' <=> Handed(r) BY DEF Handed
  <2>5. Refused(r)' => Refused(r) \/ Queued(r) \/ (r = current /\ code \in NotSent)
    <3>1. \A t \in On' : t.fn = "complete" => t \in base \/ t \in drop \/ t \in Given(code)
      BY <1>2, <1>3 DEF Plainly
    <3>2. \A t \in drop : t.req \in Range(queue) BY <1>2 DEF Drops
    <3>. QED BY <3>1, <3>2, <1>4 DEF Refused, Queued
  <2>6. CASE Queued(r) BY <2>1, <2>2, <2>3, <2>4, <2>6 DEF OneStage
  <2>7. CASE r = current /\ code \in NotSent
    <3>1. r # NoRequest BY NamesAssumption
    <3>2. r = c BY <2>7
    <3>3. Refused(r) \/ (Sending(r) /\ ~Sending(r)') BY <2>7, <3>1, <3>2
    <3>. QED BY <2>1, <2>2, <2>3, <2>4, <2>5, <3>3 DEF OneStage
  <2>8. CASE ~Queued(r) /\ ~(r = current /\ code \in NotSent)
    <3>1. Keeps(r) BY <2>2, <2>3, <2>4, <2>5, <2>8 DEF Keeps
    <3>. QED BY <2>1, <3>1, KeptStage
  <2>. QED BY <2>6, <2>7, <2>8
<1>. QED BY <1>5, <1>6 DEF StageInv

LEMMA StageDispatched ==
  ASSUME Base, FlowInv, StageInv, NEW q \in Requests, Dispatched(q)
  PROVE  StageInv'
<1>1. UNCHANGED <<writing, main, reached, result>> BY DEF Dispatched
<1>2. PICK base : base \subseteq On /\ On' = StartOf(q) \cup base
  <2>1. CASE Holds(StartOf(q) \cup On) BY <2>1 DEF Holds
  <2>2. CASE Top("endDelivery") /\ Holds(StartOf(q) \cup Under) BY <2>2, Below DEF Holds, Top
  <2>. QED BY <2>1, <2>2 DEF Dispatched
<1>3. \A t \in StartOf(q) : t.fn \in {"started", "transmit"} /\ t.req = q BY DEF StartOf, Task
<1>4. \/ q \notin asked /\ asked' = asked \cup {q} /\ UNCHANGED queue
      \/ /\ UNCHANGED asked /\ queue # <<>> /\ q = queue[1] /\ queue' = Tail(queue)
  <2>1. queue \in Seq(Requests) BY DEF Base, ClientTypeOK
  <2>2. queue # <<>> => Head(queue) = queue[1] BY <2>1
  <2>. QED BY <2>2 DEF Dispatched
<1>5. Range(queue)' \subseteq Range(queue) /\ Distinct' /\ ~Queued(q)'
  <2>1. CASE q \notin asked /\ UNCHANGED queue
    <3>1. ~Queued(q) BY <2>1 DEF StageInv, OneStage
    <3>. QED BY <1>1, <2>1, <3>1 DEF StageInv, Distinct, Queued
  <2>2. CASE queue # <<>> /\ q = queue[1] /\ queue' = Tail(queue)
    <3>1. queue \in Seq(Requests) BY DEF Base, ClientTypeOK
    <3>2. /\ Tail(queue) \in Seq(Requests) /\ Len(Tail(queue)) = Len(queue) - 1
          /\ \A i \in 1..(Len(queue) - 1) : Tail(queue)[i] = queue[i + 1]
          /\ Range(Tail(queue)) \subseteq Range(queue)
      BY <2>2, <3>1, RangeTail
    <3>3. \A i \in 1..(Len(queue) - 1) : i + 1 \in 1..Len(queue) /\ i + 1 # 1 BY <3>1
    <3>4. 1 \in 1..Len(queue) BY <2>2, <3>1
    <3>5. \A i, j \in 1..Len(queue) : queue[i] = queue[j] => i = j
      BY <3>1 DEF StageInv, Distinct
    <3>6. \A i \in 1..(Len(queue) - 1) : Tail(queue)[i] # q BY <2>2, <3>2, <3>3, <3>4, <3>5
    <3>7. ~Queued(q)'
      <4>1. PICK rest : rest = Tail(queue) OBVIOUS
      <4>4. rest \in Seq(Requests) /\ Len(rest) = Len(queue) - 1 BY <3>2, <4>1
      <4>2. \A x \in Range(rest) : \E i \in 1..Len(rest) : x = rest[i] BY <4>4, RangeOf
      <4>3. q \notin Range(rest) BY <3>6, <4>1, <4>2, <4>4
      <4>. QED BY <2>2, <4>1, <4>3 DEF Queued
    <3>8. \A i, j \in 1..(Len(queue) - 1) : Tail(queue)[i] = Tail(queue)[j] => i = j
      <4>1. SUFFICES ASSUME NEW i \in 1..(Len(queue) - 1), NEW j \in 1..(Len(queue) - 1),
                            Tail(queue)[i] = Tail(queue)[j]
                     PROVE  i = j
        OBVIOUS
      <4>2. i + 1 = j + 1 BY <3>2, <3>3, <3>5, <4>1
      <4>. QED BY <4>2
    <3>9. DOMAIN Tail(queue) = 1..(Len(queue) - 1) BY <3>2
    <3>10. \A i, j \in DOMAIN queue' : queue'[i] = queue'[j] => i = j BY <2>2, <3>8, <3>9
    <3>. QED BY <1>1, <2>2, <3>2, <3>7, <3>10 DEF StageInv, Distinct
  <2>. QED BY <1>4, <2>1, <2>2
<1>6. q \in asked' /\ ~Handed(q) /\ q \notin reached /\ ~Refused(q)
  <2>1. OneStage(q) BY DEF StageInv
  <2>2. CASE q \notin asked /\ asked' = asked \cup {q} BY <2>1, <2>2 DEF OneStage
  <2>3. CASE UNCHANGED asked /\ queue # <<>> /\ q = queue[1]
    <3>1. queue \in Seq(Requests) /\ 1 \in 1..Len(queue) BY <2>3 DEF Base, ClientTypeOK
    <3>2. Queued(q) BY <2>3, <3>1, RangeOf DEF Queued
    <3>. QED BY <2>1, <2>3, <3>2 DEF OneStage
  <2>. QED BY <1>4, <2>2, <2>3
<1>7. ASSUME NEW r \in Requests
      PROVE  OneStage(r)'
  <2>1. (Handed(r)' <=> Handed(r)) /\ reached' = reached BY <1>1 DEF Handed
  <2>2. Refused(r)' => Refused(r)
    <3>1. \A t \in On' : t.fn = "complete" => t \in On BY <1>2, <1>3
    <3>. QED BY <1>1, <3>1 DEF Refused, Blocks
  <2>3. CASE r = q
    BY <1>5, <1>6, <2>1, <2>2, <2>3 DEF OneStage
  <2>4. CASE r # q
    <3>1. Sending(r)' => Sending(r) BY <1>2, <1>3, <2>4 DEF Sending
    <3>2. Keeps(r) BY <1>4, <1>5, <2>1, <2>2, <3>1 DEF Keeps, Queued
    <3>. QED BY <1>7, <3>2, KeptStage DEF StageInv
  <2>. QED BY <2>3, <2>4
<1>. QED BY <1>5, <1>7 DEF StageInv

LEMMA StageSend ==
  ASSUME Base, FlowInv, StageInv, NEW q \in Requests, SessionSend(q)
  PROVE  StageInv'
<1>1. queue \in Seq(Requests) BY DEF Base, ClientTypeOK
<1>2. ASSUME q \notin asked, asked' = asked \cup {q},
             UNCHANGED <<writing, main, reached, result>>,
             NEW told, On' \subseteq told \cup On,
             \A t \in told : \/ t.fn \notin {"transmit", "complete"}
                             \/ t.fn = "complete" /\ (t.req = q \/ (Queued(t.req) /\ ~Queued(t.req)')),
             \A r \in Requests : Queued(r)' => Queued(r) \/ r = q,
             Queued(q)' => \A t \in told : t.fn = "complete" => t.req # q,
             Distinct'
      PROVE  StageInv'
  <2>1. ~Queued(q) /\ ~Sending(q) /\ ~Handed(q) /\ q \notin reached /\ ~Refused(q)
    BY <1>2 DEF StageInv, OneStage
  <2>2. ASSUME NEW r \in Requests
        PROVE  OneStage(r)'
    <3>1. /\ Sending(r)' => Sending(r)
          /\ Handed(r)' <=> Handed(r)
          /\ reached' = reached
      BY <1>2 DEF Sending, Handed
    <3>2. Refused(r)' => Refused(r) \/ \E t \in told : t.fn = "complete" /\ t.req = r
      BY <1>2 DEF Refused, Blocks
    <3>3. OneStage(r) BY <2>2 DEF StageInv
    <3>4. CASE r = q
      BY <1>2, <2>1, <3>1, <3>2, <3>4 DEF OneStage
    <3>5. CASE r # q /\ Queued(r) /\ ~Queued(r)'
      BY <1>2, <3>1, <3>3, <3>5 DEF OneStage
    <3>6. CASE r # q /\ ~(Queued(r) /\ ~Queued(r)')
      <4>1. Queued(r)' => Queued(r) BY <1>2, <2>2, <3>6
      <4>2. Refused(r)' => Refused(r) BY <1>2, <3>2, <3>6
      <4>3. Keeps(r) BY <1>2, <3>1, <4>1, <4>2 DEF Keeps
      <4>. QED BY <3>3, <4>3, KeptStage
    <3>. QED BY <3>4, <3>5, <3>6
  <2>. QED BY <1>2, <2>2 DEF StageInv
<1>3. ASSUME NEW code \in NotSent, Declined(q, code)
      PROVE  StageInv'
  <2>1. PICK told : told = {Callback(code), Complete(q, code)} OBVIOUS
  <2>2. /\ q \notin asked /\ asked' = asked \cup {q}
        /\ UNCHANGED <<writing, main, reached, result, queue>> /\ On' \subseteq told \cup On
    BY <1>3, <2>1 DEF Declined, Holds, client
  <2>3. \A t \in told : \/ t.fn \notin {"transmit", "complete"}
                        \/ t.fn = "complete" /\ t.req = q
    BY <2>1 DEF Callback, Complete, Task
  <2>4. ~Queued(q) /\ \A r \in Requests : Queued(r)' <=> Queued(r)
    BY <2>2 DEF StageInv, OneStage, Queued
  <2>5. Distinct' BY <2>2 DEF StageInv, Distinct
  <2>. QED BY <1>2, <2>2, <2>3, <2>4, <2>5
<1>4. CASE Joined(q)
  <2>1. PICK told : told = {} OBVIOUS
  <2>2. /\ q \notin asked /\ asked' = asked \cup {q} /\ queue' = Append(queue, q)
        /\ UNCHANGED <<writing, main, reached, result, stack>> /\ On' \subseteq told \cup On
    BY <1>4 DEF Joined, On
  <2>3. Range(queue') = Range(queue) \cup {q} BY <1>1, <2>2, RangeAppend
  <2>4. ~Queued(q) BY <2>2 DEF StageInv, OneStage
  <2>5. \A i, j \in DOMAIN queue' : queue'[i] = queue'[j] => i = j
    <3>1. \A i, j \in 1..Len(queue) : queue[i] = queue[j] => i = j
      BY <1>1 DEF StageInv, Distinct
    <3>2. \A i \in 1..Len(queue) : queue[i] # q BY <1>1, <2>4, RangeOf DEF Queued
    <3>3. /\ DOMAIN queue' = 1..(Len(queue) + 1) /\ queue'[Len(queue) + 1] = q
          /\ \A i \in 1..Len(queue) : queue'[i] = queue[i]
      BY <1>1, <2>2
    <3>4. SUFFICES ASSUME NEW i \in 1..(Len(queue) + 1), NEW j \in 1..(Len(queue) + 1),
                          queue'[i] = queue'[j]
                   PROVE  i = j
      BY <3>3
    <3>5. /\ i \in 1..Len(queue) \/ i = Len(queue) + 1
          /\ j \in 1..Len(queue) \/ j = Len(queue) + 1
      OBVIOUS
    <3>. QED BY <3>1, <3>2, <3>3, <3>4, <3>5
  <2>6. Distinct' BY <2>2, <2>5 DEF StageInv, Distinct
  <2>7. \A r \in Requests : Queued(r)' => Queued(r) \/ r = q BY <2>3 DEF Queued
  <2>. QED BY <1>2, <2>1, <2>2, <2>6, <2>7
<1>5. ASSUME NEW i \in DOMAIN queue, Replaced(q, i)
      PROVE  StageInv'
  <2>1. PICK old : old = queue[i] OBVIOUS
  <2>2. PICK told : told = {Complete(old, "cancelled")} OBVIOUS
  <2>3. /\ q \notin asked /\ asked' = asked \cup {q} /\ queue' = [queue EXCEPT ![i] = q]
        /\ UNCHANGED <<writing, main, reached, result>> /\ On' = told \cup On
    BY <1>5, <2>1, <2>2 DEF Replaced, Holds
  <2>4. ~Queued(q) BY <2>3 DEF StageInv, OneStage
  <2>5. /\ DOMAIN queue = 1..Len(queue) /\ DOMAIN queue' = 1..Len(queue)
        /\ queue'[i] = q /\ \A j \in 1..Len(queue) : j # i => queue'[j] = queue[j]
    BY <1>1, <1>5, <2>3
  <2>6. \A j, k \in 1..Len(queue) : queue[j] = queue[k] => j = k
    BY <2>5 DEF StageInv, Distinct
  <2>7. \A j \in 1..Len(queue) : queue[j] # q BY <2>4, <2>5 DEF Queued, Range
  <2>8. \A r : Queued(r)' => Queued(r) \/ r = q
    <3>1. \A r : Queued(r)' => \E j \in 1..Len(queue) : r = queue'[j] BY <2>5 DEF Queued, Range
    <3>. QED BY <2>5, <3>1 DEF Queued, Range
  <2>9. old # q /\ Queued(old) /\ ~Queued(old)'
    <3>1. \A j \in 1..Len(queue) : queue'[j] # old BY <1>5, <2>1, <2>5, <2>6, <2>7
    <3>2. ~Queued(old)' BY <2>5, <3>1 DEF Queued, Range
    <3>3. old # q /\ Queued(old) BY <1>5, <2>1, <2>5, <2>7 DEF Queued, Range
    <3>. QED BY <3>2, <3>3
  <2>10. \A j, k \in DOMAIN queue' : queue'[j] = queue'[k] => j = k
    BY <1>5, <2>5, <2>6, <2>7
  <2>11. Distinct' BY <2>3, <2>10 DEF StageInv, Distinct
  <2>12. \A t \in told : t.fn = "complete" /\ t.req = old BY <2>2 DEF Complete, Task
  <2>. QED BY <1>2, <2>3, <2>8, <2>9, <2>11, <2>12
<1>. QED BY <1>3, <1>4, <1>5, SendEffect, StageDispatched

LEMMA StageTransmit ==
  ASSUME Base, FlowInv, StageInv, Transmit
  PROVE  StageInv'
<1>1. PICK r : r = stack[1].req OBVIOUS
<1>2. /\ stack # <<>> /\ stack[1].fn = "transmit" /\ r \in Requests /\ r # NoRequest
      /\ UNCHANGED <<main, asked, reached, result>>
  BY <1>1, TransmitEffect, NamesAssumption DEF history
<1>3. Under \subseteq On /\ stack[1] \in On BY <1>2, Below
<1>4. \A u \in Under : u.fn # "transmit" BY <1>2, UnderTop DEF Fits
<1>5. Sending(r) BY <1>1, <1>2, <1>3 DEF Sending
<1>6. r \in asked /\ ~Handed(r) /\ r \notin reached /\ ~Refused(r) /\ ~Queued(r)
  BY <1>2, <1>5 DEF StageInv, OneStage
<1>7. CASE /\ Popped({}) /\ UNCHANGED queue
           /\ writing' = Append(writing, [req |-> r, gen |-> gen])
  <2>1. On' = Under BY <1>7 DEF Popped, Holds
  <2>2. PICK job : job = [req |-> r, gen |-> gen] OBVIOUS
  <2>3. writing \in Seq([req : Requests, gen : Nat]) /\ job \in [req : Requests, gen : Nat]
    BY <1>2, <2>2 DEF Base, ClientTypeOK
  <2>4. writing' = Append(writing, job) BY <1>7, <2>2
  <2>5. Range(writing') = Range(writing) \cup {job}
    <3>1. PICK S : S = [req : Requests, gen : Nat] OBVIOUS
    <3>2. writing \in Seq(S) /\ job \in S BY <2>3, <3>1
    <3>3. Range(Append(writing, job)) = Range(writing) \cup {job} BY <3>2, RangeAppend
    <3>. QED BY <2>4, <3>3
  <2>6. \A q : Handed(q)' <=> Handed(q) \/ q = r BY <2>2, <2>5 DEF Handed
  <2>7. \A i, j \in DOMAIN writing' : writing'[i].req = writing'[j].req => i = j
    <3>1. \A i, j \in 1..Len(writing) : writing[i].req = writing[j].req => i = j
      BY <2>3 DEF StageInv, Distinct
    <3>2. \A i \in 1..Len(writing) : writing[i].req # r
      <4>1. \A i \in 1..Len(writing) : writing[i] \in Range(writing) BY <2>3, RangeOf
      <4>. QED BY <1>6, <4>1 DEF Handed
    <3>3. /\ DOMAIN writing' = 1..(Len(writing) + 1) /\ writing'[Len(writing) + 1] = job
          /\ \A i \in 1..Len(writing) : writing'[i] = writing[i]
      BY <2>3, <2>4
    <3>4. SUFFICES ASSUME NEW i \in 1..(Len(writing) + 1), NEW j \in 1..(Len(writing) + 1),
                          writing'[i].req = writing'[j].req
                   PROVE  i = j
      BY <3>3
    <3>5. /\ i \in 1..Len(writing) \/ i = Len(writing) + 1
          /\ j \in 1..Len(writing) \/ j = Len(writing) + 1
      OBVIOUS
    <3>6. job.req = r BY <2>2
    <3>. QED BY <3>1, <3>2, <3>3, <3>4, <3>5, <3>6
  <2>8. Distinct' BY <1>7, <2>7 DEF StageInv, Distinct
  <2>9. ASSUME NEW q \in Requests
        PROVE  OneStage(q)'
    <3>1. ~Sending(q)' BY <1>4, <2>1 DEF Sending
    <3>2. Refused(q)' => Refused(q) BY <1>2, <1>3, <2>1 DEF Refused, Blocks
    <3>3. (Queued(q)' <=> Queued(q)) /\ reached' = reached /\ asked' = asked
      BY <1>2, <1>7 DEF Queued
    <3>4. CASE q = r BY <1>6, <3>1, <3>2, <3>3, <3>4 DEF OneStage
    <3>5. CASE q # r
      <4>1. Handed(q)' => Handed(q) BY <2>6, <3>5
      <4>2. Keeps(q) BY <3>1, <3>2, <3>3, <4>1 DEF Keeps
      <4>. QED BY <2>9, <4>2, KeptStage DEF StageInv
    <3>. QED BY <3>4, <3>5
  <2>. QED BY <2>8, <2>9 DEF StageInv
<1>8. CASE UNCHANGED writing /\ SendEnds(r, "sendFailed", Under)
  <2>1. PICK told : told = {Callback("sendFailed"), StopProcess, Task("endDelivery", NoRequest, "none")}
    OBVIOUS
  <2>2. current = r /\ Ends(Under, "sendFailed", told) BY <1>8, <2>1 DEF SendEnds
  <2>3. ~Sending(r)'
    <3>1. PICK drop : Drops(drop) /\ On' = told \cup Given("sendFailed") \cup drop \cup Under
      BY <2>2 DEF Ends, Holds
    <3>2. \A t \in told : t.fn \in Plainly BY <2>2 DEF Ends
    <3>3. \A t \in Given("sendFailed") \cup drop : t.fn = "complete"
      BY <3>1 DEF Given, Drops, Complete, Task
    <3>4. \A t \in On' : t.fn # "transmit" BY <1>4, <3>1, <3>2, <3>3 DEF Plainly
    <3>. QED BY <3>4 DEF Sending
  <2>4. Blocks' \subseteq Blocks BY <1>2 DEF Blocks
  <2>. QED BY <1>2, <1>3, <1>5, <1>8, <2>2, <2>3, <2>4, StageEnds
<1>9. CASE UNCHANGED writing /\ SendPasses(r, r, Under)
  <2>1. On' = Under /\ UNCHANGED queue BY <1>9 DEF SendPasses, Holds
  <2>2. Blocks' \subseteq Blocks BY <1>2 DEF Blocks
  <2>3. KeepsWorld BY <1>2, <1>9, <2>2, WorldKept
  <2>4. Distinct' BY <1>9, <2>1 DEF StageInv, Distinct
  <2>. QED BY <1>3, <2>1, <2>3, <2>4, StageSame
<1>10. \/ /\ Popped({}) /\ UNCHANGED queue
          /\ writing' = Append(writing, [req |-> r, gen |-> gen])
       \/ UNCHANGED writing /\ SendEnds(r, "sendFailed", Under)
       \/ UNCHANGED writing /\ SendPasses(r, r, Under)
  BY <1>1, TransmitEffect
<1>. QED BY <1>7, <1>8, <1>9, <1>10

LEMMA StageHandlers ==
  ASSUME Base, FlowInv, StageInv, UNCHANGED session, Finish \/ Deliver \/ EndDelivery
  PROVE  StageInv'
<1>1. stack # <<>> BY DEF Finish, Deliver, EndDelivery, Top
<1>2. Under \subseteq On /\ stack[1] \in On BY <1>1, Below
<1>3. UNCHANGED <<writing, main, reached, result, asked>> /\ Blocks' \subseteq Blocks
  BY DEF Finish, Deliver, EndDelivery, history, Blocks
<1>4. KeepsWorld BY <1>3, WorldKept
<1>5. CASE Finish
  <2>1. PICK code, c : code = stack[1].code /\ c = current OBVIOUS
  <2>2. \E told : Ends(Under, code, told) BY <1>5, <2>1, FinishEffect
  <2>3. code \in {"cancelled", "interrupted"} /\ stack[1].fn \in {"stop", "terminate"}
    BY <1>5, <2>1, FinishEffect
  <2>4. code = "cancelled" => current = NoRequest BY <1>2, <2>1, <2>3 DEF FlowInv, FlowOf
  <2>5. "interrupted" \notin NotSent BY DEF NotSent
  <2>. QED BY <1>2, <1>3, <2>1, <2>2, <2>3, <2>4, <2>5, StageEnds
<1>6. CASE Deliver
  <2>1. PICK q, code : q = stack[1].req /\ code = stack[1].code OBVIOUS
  <2>2. /\ code \in Replies /\ On' = Delivered(q, code) \cup Under
        /\ queue' = IF code \in Purging THEN <<>> ELSE queue
    BY <1>6, <2>1, DeliverEffect DEF Popped, Holds
  <2>3. code \notin NotSent BY <2>2 DEF Replies, NotSent
  <2>4. Cancelled = {Complete(x, "cancelled") : x \in Range(queue)} BY DEF Cancelled
  <2>5. \A t \in Delivered(q, code) :
          \/ t.fn \in {"endDelivery", "stopProcess"}
          \/ t.fn = "complete" /\ t.code = code
          \/ t.fn = "complete" /\ t.req \in Range(queue) /\ code \in Purging
    BY <2>4 DEF Delivered, Complete, StopProcess, Task
  <2>6. CASE code \in Purging
    <3>1. queue' = <<>> BY <2>2, <2>6
    <3>2. \A i, j \in DOMAIN queue' : queue'[i] = queue'[j] => i = j BY <3>1
    <3>3. Distinct' BY <1>3, <3>2 DEF StageInv, Distinct
    <3>4. ASSUME NEW r \in Requests
          PROVE  OneStage(r)'
      <4>1. ~Queued(r)' BY <3>1, RangeTuples DEF Queued
      <4>2. Sending(r)' => Sending(r) BY <1>2, <2>2, <2>5 DEF Sending
      <4>3. (Handed(r)' <=> Handed(r)) /\ reached' = reached /\ asked' = asked
        BY <1>3 DEF Handed
      <4>4. Refused(r)' => Refused(r) \/ Queued(r)
        BY <1>2, <1>3, <2>2, <2>3, <2>5 DEF Refused, Queued, Blocks
      <4>5. OneStage(r) BY <3>4 DEF StageInv
      <4>. QED BY <4>1, <4>2, <4>3, <4>4, <4>5 DEF OneStage
    <3>. QED BY <3>3, <3>4 DEF StageInv
  <2>7. CASE code \notin Purging
    <3>1. queue' = queue BY <2>2, <2>7
    <3>2. Distinct' BY <1>3, <3>1 DEF StageInv, Distinct
    <3>3. \A t \in On' : \/ t \in On
                         \/ t.fn # "transmit" /\ (t.fn = "complete" => t.code \notin NotSent)
      BY <1>2, <2>2, <2>3, <2>5, <2>7
    <3>. QED BY <1>4, <3>1, <3>2, <3>3, StageSame
  <2>. QED BY <2>6, <2>7
<1>7. CASE EndDelivery
  <2>1. CASE FlushFails
    <3>1. current = NoRequest /\ \E told : Ends(Under, "none", told) BY <2>1 DEF FlushFails
    <3>. QED BY <1>2, <1>3, <3>1, StageEnds
  <2>2. CASE Popped({}) /\ UNCHANGED queue
    <3>1. On' = Under BY <2>2 DEF Popped, Holds
    <3>2. Distinct' BY <1>3, <2>2 DEF StageInv, Distinct
    <3>. QED BY <1>2, <1>4, <2>2, <3>1, <3>2, StageSame
  <2>. QED BY <1>7, <2>1, <2>2, EndDeliveryEffect, StageDispatched
<1>. QED BY <1>5, <1>6, <1>7

LEMMA StageTasks ==
  ASSUME Base, FlowInv, StageInv, StopWorker \/ CallRequest \/ Return \/ SessionCallbacks
  PROVE  StageInv'
<1>1. stack # <<>> /\ UNCHANGED <<client, writing, main, asked, reached>> BY TaskEffect
<1>2. Under \subseteq On /\ stack[1] \in On BY <1>1, Below
<1>3. Distinct' /\ UNCHANGED queue BY <1>1 DEF StageInv, Distinct, client
<1>4. CASE CallRequest
  <2>1. /\ stack[1].fn = "complete" /\ Then(<<App>>)
        /\ result' = [result EXCEPT ![stack[1].req] =
                        IF @ = "none" THEN stack[1].code ELSE "twice"]
    BY <1>4 DEF CallRequest, Top
  <2>2. On' = {App} \cup Under BY <1>1, <2>1, PopEffect DEF Popped, Holds
  <2>3. ASSUME NEW r \in Requests
        PROVE  OneStage(r)'
    <3>1. (Queued(r)' <=> Queued(r)) /\ (Handed(r)' <=> Handed(r))
      BY <1>1, <1>3 DEF Queued, Handed
    <3>2. \A t \in On' : t \in On \/ t.fn = "app" BY <1>2, <2>2 DEF App, Task
    <3>3. Sending(r)' => Sending(r) BY <3>2 DEF Sending
    <3>4. result \in [Requests -> Codes] BY DEF Base, ClientTypeOK
    <3>5. result'[r] \in NotSent => Refused(r)
      <4>1. CASE r = stack[1].req
        <5>1. result'[r] \in {stack[1].code, "twice"} BY <2>1, <2>3, <3>4, <4>1
        <5>2. "twice" \notin NotSent BY DEF NotSent
        <5>. QED BY <1>2, <2>1, <4>1, <5>1, <5>2 DEF Refused
      <4>2. CASE r # stack[1].req
        <5>1. result'[r] = result[r] BY <2>1, <2>3, <3>4, <4>2
        <5>. QED BY <5>1 DEF Refused
      <4>. QED BY <4>1, <4>2
    <3>6. Refused(r)' => Refused(r) BY <1>1, <3>2, <3>5 DEF Refused, Blocks
    <3>7. Keeps(r) BY <1>1, <3>1, <3>3, <3>6 DEF Keeps
    <3>. QED BY <2>3, <3>7, KeptStage DEF StageInv
  <2>. QED BY <1>3, <2>3 DEF StageInv
<1>5. CASE ~CallRequest
  <2>1. UNCHANGED result
    BY <1>5 DEF StopWorker, Return, SessionCallbacks, RequestStarted, OnReply, Replied,
                OnMismatch, OnClientError, HandleTermination, ScheduleRecovery, CallOwner, history
  <2>2. Blocks' \subseteq Blocks BY <1>1 DEF Blocks
  <2>3. KeepsWorld BY <1>1, <2>1, <2>2, WorldKept
  <2>4. \A t \in On' : t \in On \/ t.fn \in {"app", "replied", "schedule"} BY <1>2, TaskEffect
  <2>. QED BY <1>3, <2>3, <2>4, StageSame
<1>. QED BY <1>4, <1>5

LEMMA StageMain ==
  ASSUME Base, FlowInv, StageInv, Terminated \/ Violation \/ Sent \/ Receive \/ Timeout
  PROVE  StageInv'
<1>1. Idle BY DEF Terminated, Violation, Sent, Receive, Timeout
<1>2. On = {} /\ AppRuns BY <1>1, NothingOn
<1>3. UNCHANGED <<writing, asked, reached, result>>
  BY DEF Terminated, Violation, Sent, Receive, Timeout, history
<1>4. Blocks' \subseteq Blocks
  <2>1. CASE Timeout BY <2>1 DEF Timeout, Blocks
  <2>2. CASE ~Timeout
    <3>1. main # <<>> /\ main' = Tail(main) BY <2>2 DEF Terminated, Violation, Sent, Receive
    <3>. QED BY <3>1, MainHead DEF Blocks
  <2>. QED BY <2>1, <2>2
<1>5. KeepsWorld BY <1>3, <1>4, WorldKept
<1>6. UNCHANGED queue => Distinct' BY <1>3 DEF StageInv, Distinct
<1>7. UNCHANGED <<queue, stack>> => StageInv' BY <1>5, <1>6, StageSame DEF On
<1>8. ASSUME NEW code \in {"timeout", "idleProtocolError", "protocolError"}, Fail(code)
      PROVE  StageInv'
  <2>1. code \in Codes /\ code \notin NotSent BY CodeTypes DEF Unknown, NotSent
  <2>2. PICK told, base, c : told = {Callback(code), StopProcess} /\ base = On /\ c = current
    OBVIOUS
  <2>3. Ends(base, code, told) BY <1>2, <1>8, <2>1, <2>2, FailEnds
  <2>. QED BY <1>3, <1>4, <2>1, <2>2, <2>3, StageEnds
<1>9. CASE Terminated
  <2>1. Call(Interrupting("terminate")) /\ UNCHANGED client BY <1>9 DEF Terminated
  <2>2. Interrupts("terminate") BY <1>2, <2>1, InterruptEffect
  <2>3. \A t \in On' : t \in On \/ t.fn \in {"error", "terminate"}
    BY <2>2 DEF Interrupts, Leaves, Holds, Interruption, Callback, Task
  <2>. QED BY <1>5, <1>6, <2>1, <2>3, StageSame DEF client
<1>10. CASE Violation BY <1>7, <1>8, <1>10 DEF Violation, client
<1>11. CASE Timeout BY <1>7, <1>8, <1>11 DEF Timeout
<1>12. CASE Sent
  <2>1. Head(main).fn = "sent" /\ SendFailed(Head(main).req, Head(main).code, timer, stack)
        /\ main # <<>>
    BY <1>12 DEF Sent
  <2>2. PICK block, r, code, rest :
          /\ block = Head(main) /\ r = Head(main).req /\ code = Head(main).code /\ rest = stack
    OBVIOUS
  <2>3. /\ r \in Requests /\ code \in {"encodeFailed", "sendFailed", "sendUnknown"}
        /\ block \in Blocks /\ block.fn = "sent" /\ block.req = r /\ block.code = code
    BY <2>1, <2>2, MainHead DEF Posted, OfRequest
  <2>4. Rest(rest) /\ Range(rest) = {} BY <1>2, <2>2 DEF Rest, On
  <2>5. code \in NotSent => Refused(r) BY <2>3 DEF Refused
  <2>6. CASE code = "encodeFailed" /\ Unencoded(r, Range(rest))
    <3>1. UNCHANGED queue BY <2>6 DEF Unencoded
    <3>2. On' = {Callback("encodeFailed"), Complete(r, "encodeFailed"),
                 Task("endDelivery", NoRequest, "flush")}
      BY <2>4, <2>6 DEF Unencoded, Leaves, Holds
    <3>3. \A t \in On' : t.fn \in {"error", "endDelivery"} \/ (t.fn = "complete" /\ t.req = r)
      BY <3>2 DEF Callback, Complete, Task
    <3>4. Refused(r) BY <2>5, <2>6 DEF NotSent
    <3>5. ASSUME NEW q \in Requests
          PROVE  OneStage(q)'
      <4>1. ~Sending(q)' BY <3>3 DEF Sending
      <4>2. Refused(q)' => Refused(q) BY <1>3, <1>4, <3>3, <3>4 DEF Refused
      <4>3. Keeps(q) BY <1>3, <3>1, <4>1, <4>2 DEF Keeps, Queued, Handed
      <4>. QED BY <3>5, <4>3, KeptStage DEF StageInv
    <3>. QED BY <1>6, <3>1, <3>5 DEF StageInv
  <2>7. CASE SendEnds(r, code, Range(rest))
    <3>1. PICK told, base, c : /\ base = Range(rest) /\ c = current
            /\ told = {Callback(code), StopProcess, Task("endDelivery", NoRequest, "none")}
      OBVIOUS
    <3>2. Ends(base, code, told) /\ c = r BY <2>7, <3>1 DEF SendEnds
    <3>3. base \subseteq On BY <2>4, <3>1
    <3>. QED BY <1>3, <1>4, <2>5, <3>1, <3>2, <3>3, StageEnds
  <2>8. CASE SendPasses(r, timer, Range(rest))
    <3>1. UNCHANGED queue /\ On' = {} BY <2>4, <2>8 DEF SendPasses, Holds
    <3>. QED BY <1>5, <1>6, <3>1, StageSame
  <2>. QED BY <2>1, <2>2, <2>3, <2>4, <2>6, <2>7, <2>8, SendFails
<1>13. CASE Receive
  <2>1. CASE Mismatches(Head(main).req)
    <3>1. PICK told, base, c : told = {Callback("mismatch")} /\ base = {} /\ c = current OBVIOUS
    <3>2. Ends(base, "mismatch", told) BY <2>1, <3>1 DEF Mismatches
    <3>3. base \subseteq On /\ "mismatch" \notin NotSent BY <3>1 DEF NotSent
    <3>. QED BY <1>3, <1>4, <3>1, <3>2, <3>3, StageEnds
  <2>2. CASE Answered(Head(main).req, Head(main).code)
    <3>1. UNCHANGED queue BY <2>2 DEF Answered
    <3>2. \A t \in On' : t.fn \in {"reply", "deliver"} BY <2>2 DEF Answered, Holds, Task
    <3>. QED BY <1>5, <1>6, <3>1, <3>2, StageSame
  <2>. QED BY <1>7, <1>13, <2>1, <2>2, ReceiveEffect DEF client
<1>. QED BY <1>9, <1>10, <1>11, <1>12, <1>13

LEMMA StageWrite ==
  ASSUME Base, StageInv, Write
  PROVE  StageInv'
<1>1. PICK job, r : job = Head(writing) /\ r = job.req OBVIOUS
<1>2. /\ writing # <<>> /\ writing' = Tail(writing) /\ UNCHANGED <<client, stack, asked, result>>
      /\ \/ /\ reached' = reached \cup {r} /\ UNCHANGED main
         \/ /\ reached' = reached \cup {r} /\ Post("sent", r, "sendUnknown")
         \/ /\ UNCHANGED reached
            /\ \E code \in {"encodeFailed", "sendFailed"} : Post("sent", r, code)
  BY <1>1 DEF Write
<1>3. writing \in Seq([req : Requests, gen : Nat]) BY DEF Base, ClientTypeOK
<1>4. PICK rest : rest = Tail(writing) OBVIOUS
<1>5. /\ job = writing[1] /\ job \in [req : Requests, gen : Nat]
      /\ rest \in Seq([req : Requests, gen : Nat]) /\ Len(rest) = Len(writing) - 1
      /\ \A i \in 1..(Len(writing) - 1) : rest[i] = writing[i + 1]
      /\ Range(writing) = {job} \cup Range(rest)
  BY <1>1, <1>2, <1>3, <1>4, RangeTail
<1>6. r \in Requests BY <1>1, <1>5
<1>7. \A i, j \in 1..Len(writing) : writing[i].req = writing[j].req => i = j
  BY <1>3 DEF StageInv, Distinct
<1>8. \A i \in 1..(Len(writing) - 1) : i + 1 \in 1..Len(writing) /\ i + 1 # 1 BY <1>3
<1>9. 1 \in 1..Len(writing) BY <1>2, <1>3
<1>10. Handed(r) /\ \A q : Handed(q)' <=> (\E j \in Range(rest) : j.req = q)
  BY <1>1, <1>2, <1>4, <1>5 DEF Handed
<1>11. ~Handed(r)'
  <2>1. \A i \in 1..(Len(writing) - 1) : rest[i].req # r
    <3>1. SUFFICES ASSUME NEW i \in 1..(Len(writing) - 1), rest[i].req = r PROVE FALSE OBVIOUS
    <3>2. writing[i + 1].req = writing[1].req BY <1>1, <1>5, <3>1
    <3>. QED BY <1>7, <1>8, <1>9, <3>2
  <2>2. \A j \in Range(rest) : \E i \in 1..Len(rest) : j = rest[i] BY <1>5, RangeOf
  <2>. QED BY <1>5, <1>10, <2>1, <2>2
<1>12. \A q : Handed(q)' => Handed(q) BY <1>5, <1>10 DEF Handed
<1>13. Distinct'
  <2>1. \A i, j \in 1..(Len(writing) - 1) : rest[i].req = rest[j].req => i = j
    <3>1. SUFFICES ASSUME NEW i \in 1..(Len(writing) - 1), NEW j \in 1..(Len(writing) - 1),
                          rest[i].req = rest[j].req
                   PROVE  i = j
      OBVIOUS
    <3>2. writing[i + 1].req = writing[j + 1].req BY <1>5, <3>1
    <3>3. i + 1 = j + 1 BY <1>7, <1>8, <3>2
    <3>. QED BY <3>3
  <2>2. DOMAIN rest = 1..(Len(writing) - 1) BY <1>5
  <2>3. \A i, j \in DOMAIN writing' : writing'[i].req = writing'[j].req => i = j
    BY <1>2, <1>4, <2>1, <2>2
  <2>. QED BY <1>2, <2>3 DEF StageInv, Distinct, client
<1>14. /\ \A t \in Blocks' : t \in Blocks \/ (t.fn = "sent" /\ t.req = r)
       /\ \A t \in Blocks' : t \in Blocks \/ t.code = "sendUnknown" \/ reached' = reached
  <2>1. CASE UNCHANGED main BY <2>1 DEF Blocks
  <2>2. ASSUME NEW code \in {"encodeFailed", "sendFailed", "sendUnknown"}, Post("sent", r, code)
        PROVE  Blocks' = Blocks \cup {Task("sent", r, code)}
    <3>1. code \in Codes BY CodeTypes DEF NotSent, Unknown
    <3>. QED BY <1>6, <2>2, <3>1, PostTypes DEF BlockKinds, OfRequest
  <2>3. \A code : Task("sent", r, code).fn = "sent" /\ Task("sent", r, code).req = r
                  /\ Task("sent", r, code).code = code
    BY DEF Task
  <2>. QED BY <1>2, <2>1, <2>2, <2>3
<1>15. /\ r \in asked /\ ~Queued(r) /\ ~Sending(r) /\ r \notin reached /\ ~Refused(r)
  BY <1>6, <1>10 DEF StageInv, OneStage
<1>16. ASSUME NEW q \in Requests
       PROVE  OneStage(q)'
  <2>1. /\ (Queued(q)' <=> Queued(q)) /\ (Sending(q)' <=> Sending(q)) /\ asked' = asked
        /\ result' = result /\ On' = On
    BY <1>2 DEF Queued, Sending, On, client
  <2>2. CASE q # r
    <3>1. Refused(q)' => Refused(q) BY <1>14, <2>1, <2>2 DEF Refused
    <3>2. q \in reached' => q \in reached BY <1>2, <2>2
    <3>3. Keeps(q) BY <1>12, <2>1, <3>1, <3>2 DEF Keeps
    <3>. QED BY <1>16, <3>3, KeptStage DEF StageInv
  <2>3. CASE q = r
    <3>1. Refused(q)' => reached' = reached
      <4>1. SUFFICES ASSUME Refused(q)', reached' # reached PROVE FALSE OBVIOUS
      <4>2. \A t \in Blocks' : t \in Blocks \/ t.code = "sendUnknown" BY <1>14, <4>1
      <4>3. Refused(q) BY <2>1, <4>1, <4>2 DEF Refused, NotSent
      <4>. QED BY <1>15, <2>3, <4>3
    <3>2. reached' = reached => q \notin reached' BY <1>15, <2>3
    <3>. QED BY <1>11, <1>15, <2>1, <2>3, <3>1, <3>2 DEF OneStage
  <2>. QED BY <2>2, <2>3
<1>. QED BY <1>13, <1>16 DEF StageInv

LEMMA StageNext ==
  ASSUME Base, FlowInv, StageInv, [SessionNext]_sessionVars
  PROVE  StageInv'
<1>1. ASSUME UNCHANGED <<writing, asked, reached, result>>, Blocks' \subseteq Blocks,
             queue' \in {<<>>, queue},
             \A t \in On' : t \in On \/ t.fn \notin {"transmit", "complete"}
      PROVE  StageInv'
  <2>1. KeepsWorld BY <1>1, WorldKept
  <2>2. Range(queue)' \subseteq Range(queue) BY <1>1, RangeTuples
  <2>3. \A i, j \in DOMAIN queue' : queue'[i] = queue'[j] => i = j
    BY <1>1 DEF StageInv, Distinct
  <2>4. Distinct' BY <1>1, <2>3 DEF StageInv, Distinct
  <2>. QED BY <1>1, <2>1, <2>2, <2>4, StageSame
<1>2. CASE Startup \/ Recover
  <2>1. /\ UNCHANGED <<writing, main, asked, reached, result, stack>> /\ queue' \in {<<>>, queue}
    BY <1>2, StartEffect DEF history, vars, client
  <2>. QED BY <1>1, <2>1 DEF On, Blocks
<1>3. CASE Restart \/ SessionStop \/ BeginTermination \/ TargetLifetimeChanged \/ ScriptMissing
  <2>1. UNCHANGED <<writing, main, asked, reached, result, queue>>
    BY <1>3, ApplicationEffect DEF history, client
  <2>2. \A t \in On' : t \in On \/ t.fn \in {"error", "stop"}
    <3>1. CASE Interrupts("stop")
      BY <3>1 DEF Interrupts, Leaves, Holds, Interruption, Callback, Task
    <3>2. CASE UNCHANGED stack BY <3>2 DEF On
    <3>. QED BY <1>3, <3>1, <3>2, ApplicationEffect
  <2>. QED BY <1>1, <2>1, <2>2 DEF Blocks
<1>4. CASE Answer \/ Garble \/ Exit
  <2>1. UNCHANGED <<writing, asked, reached, result, queue, stack>>
    BY <1>4 DEF Answer, Garble, Exit, history, client
  <2>2. \A t \in Blocks' : t.fn = "sent" /\ t.code \in NotSent => t \in Blocks
    <3>1. PICK ev, q, code : Post(ev, q, code) /\ ev # "sent"
      BY <1>4 DEF Answer, Garble, Exit
    <3>2. main \in Seq(Posted) BY DEF Base, ClientTypeOK
    <3>3. PICK t : t = Task(ev, q, code) OBVIOUS
    <3>4. main' = Append(main, t) BY <3>1, <3>3 DEF Post
    <3>5. Range(Append(main, t)) \subseteq Range(main) \cup {t} BY <3>2 DEF Range
    <3>6. t.fn # "sent" BY <3>1, <3>3 DEF Task
    <3>. QED BY <3>4, <3>5, <3>6 DEF Blocks
  <2>3. KeepsWorld BY <2>1, <2>2 DEF KeepsWorld, Handed
  <2>4. Distinct' BY <2>1 DEF StageInv, Distinct
  <2>. QED BY <2>1, <2>3, <2>4, StageSame DEF On
<1>5. CASE UNCHANGED sessionVars BY <1>1, <1>5, Stutter DEF On, Blocks
<1>. QED
  BY <1>2, <1>3, <1>4, <1>5, StageWrite, StageSend, StageTransmit, StageHandlers, StageTasks,
     StageMain
     DEF SessionNext, SessionApplication, SessionHandlers, SessionMainQueue, SessionTimeout,
         SessionWorld, MainQueue, World

LEMMA FlowInit == SessionInit => FlowInv
<1>1. SessionInit => stack = <<>> /\ terminal = FALSE BY DEF SessionInit, Init
<1>. QED BY <1>1, NothingOn DEF FlowInv, Idle

LEMMA StageInit == SessionInit => StageInv
<1>1. HAVE SessionInit
<1>2. /\ stack = <<>> /\ main = <<>> /\ queue = <<>> /\ writing = <<>>
      /\ asked = {} /\ reached = {} /\ result = [r \in Requests |-> "none"]
  BY <1>1 DEF SessionInit, Init
<1>3. On = {} /\ Blocks = {} /\ Range(queue) = {} /\ Range(writing) = {}
  BY <1>2, RangeTuples DEF On, Blocks
<1>4. \A r \in Requests : result[r] \notin NotSent BY <1>2 DEF NotSent
<1>5. ASSUME NEW r \in Requests
      PROVE  OneStage(r)
  BY <1>2, <1>3, <1>4 DEF OneStage, Queued, Sending, Handed, Refused
<1>6. Distinct BY <1>2 DEF Distinct
<1>. QED BY <1>5, <1>6 DEF StageInv

(* What the caller is told is true: a request that was reported as not sent *)
(* has not reached a worker, and never will (BackendClient.swift:269, 485). *)
THEOREM NotSentTrueAlways == SessionSpec => []NotSentTrue
<1>1. SessionInit => Base /\ FlowInv /\ StageInv BY BaseInit, FlowInit, StageInit
<1>2. Base /\ FlowInv /\ StageInv /\ [SessionNext]_sessionVars => (Base /\ FlowInv /\ StageInv)'
  BY BaseNext, FlowNext, StageNext
<1>3. Base /\ FlowInv /\ StageInv => NotSentTrue
  BY DEF StageInv, OneStage, Refused, NotSentTrue
<1>. QED BY <1>1, <1>2, <1>3, PTL DEF SessionSpec

--------------------------------------------------------------------------------
(* The gate.                                                                *)
(* Nothing in doubt keeps r from the game process of now.                   *)
Clear(r) == r \in Trusted => \A q \in Requests : ~(Ended(q) /\ Here(q))

SameTrust ==
  /\ UNCHANGED <<lifetime, activeLifetime, activeTrusted, startedIn>>
  /\ untrusted' \in {untrusted, lifetime}

(* What an event owes the gate, of the requests and of the tasks.           *)
OwedOf(r) ==
  /\ Queued(r)' => Queued(r) \/ (startedIn[r] = 0 /\ Clear(r))
  /\ Sending(r)' /\ worker' = "running" => (Sending(r) /\ worker = "running") \/ Clear(r)
  /\ Starting(r)' => startedIn[r] = 0
  /\ current' = r /\ ~Starting(r)' => Active(r)
  /\ Ended(r)' => \/ Ended(r)
                  \/ startedIn[r] # 0 /\ (Here(r) => (Aware' \/ Telling') /\ Purged')

Heard(t, tasks) ==
  \E u \in tasks : u.fn \in {"reply", "replied"} /\ u.req = t.req /\ u.code = t.code

OwedOn(t) ==
  /\ t.fn \in {"reply", "replied"} => Active(t.req)
  /\ t.fn = "deliver" =>
       t \in On \/ (startedIn[t.req] # 0 /\ Heard(t, On'))
  /\ t.fn \in {"stop", "terminate"} /\ t.code = "interrupted" /\ current' # NoRequest
       /\ Here(current') => (t \in On /\ current' = current) \/ Aware' \/ Telling'
  /\ t.fn = "terminate" => worker' = "none"
  /\ t.fn = "started" => Sending(t.req)' /\ \A u \in On' : u.fn \notin {"stop", "terminate"}

KeepsTrust ==
  /\ SameTrust
  /\ asked \subseteq asked'
  /\ \A r \in Requests : OwedOf(r)
  /\ \A t \in On' : OwedOn(t)
  /\ Telling => Aware' \/ Telling'
  /\ \A u \in On : u.fn \in {"reply", "replied"} /\ u.code \in Unknown /\ Here(u.req) =>
                     Aware' \/ Heard(u, On')
  /\ configured' \/ Unconfigured'

LEMMA TrustKept ==
  ASSUME Base, TrustInv, KeepsTrust
  PROVE  TrustInv'
<1>1. /\ UNCHANGED <<lifetime, activeLifetime, activeTrusted, startedIn>>
      /\ untrusted' \in {untrusted, lifetime}
  BY DEF KeepsTrust, SameTrust
<1>2. Aware => Aware' BY <1>1 DEF Aware
<1>3. \A r : (Here(r)' <=> Here(r)) /\ (Active(r)' <=> Active(r)) BY <1>1 DEF Here, Active
<1>4. Aware \/ Telling => Aware' \/ Telling' BY <1>2 DEF KeepsTrust
<1>5. ASSUME NEW r \in Requests
      PROVE  TrustOf(r)'
  <2>1. TrustOf(r) /\ OwedOf(r) BY DEF TrustInv, KeepsTrust
  <2>2. startedIn'[r] <= lifetime' BY <1>1, <2>1 DEF TrustOf
  <2>3. r \notin asked' \/ Queued(r)' \/ Starting(r)' => startedIn'[r] = 0
    BY <1>1, <2>1 DEF TrustOf, OwedOf, KeepsTrust
  <2>4. current' = r /\ ~Starting(r)' => Active(r)' BY <1>3, <2>1 DEF OwedOf
  <2>5. Ended(r)' => startedIn'[r] # 0 BY <1>1, <2>1 DEF TrustOf, OwedOf
  <2>6. Ended(r) /\ Here(r) => Purged'
    <3>1. SUFFICES ASSUME Ended(r), Here(r), NEW q \in Trusted
                   PROVE  ~Queued(q)' /\ (Sending(q)' => worker' # "running")
      BY DEF Purged
    <3>2. q \in Requests /\ OwedOf(q) BY TrustedAssumption DEF KeepsTrust
    <3>3. ~Clear(q) BY <1>5, <3>1 DEF Clear
    <3>4. Purged BY <2>1, <3>1 DEF TrustOf
    <3>. QED BY <3>2, <3>3, <3>4 DEF OwedOf, Purged
  <2>7. Ended(r)' /\ Here(r)' => (Aware' \/ Telling') /\ Purged'
    BY <1>3, <1>4, <2>1, <2>6 DEF TrustOf, OwedOf
  <2>. QED BY <2>2, <2>3, <2>4, <2>5, <2>7 DEF TrustOf
<1>6. ASSUME NEW t \in On'
      PROVE  TrustOn(t)'
  <2>1. OwedOn(t) BY DEF KeepsTrust
  <2>2. t.fn \in {"reply", "replied"} => Active(t.req)' BY <1>3, <2>1 DEF OwedOn
  <2>3. t.fn = "deliver" => startedIn'[t.req] # 0
    BY <1>1, <2>1 DEF OwedOn, TrustInv, TrustOn
  <2>4. t.fn = "deliver" /\ t.code \in Unknown /\ Here(t.req)' => Aware' \/ Heard(t, On')
    <3>1. SUFFICES ASSUME t.fn = "deliver", t.code \in Unknown, Here(t.req), t \in On
                   PROVE  Aware' \/ Heard(t, On')
      BY <1>3, <2>1 DEF OwedOn
    <3>2. Aware \/ Heard(t, On) BY <3>1 DEF TrustInv, TrustOn, Heard
    <3>3. Heard(t, On) => Aware' \/ Heard(t, On') BY <3>1 DEF Heard, KeepsTrust
    <3>. QED BY <1>2, <3>2, <3>3
  <2>5. t.fn \in {"stop", "terminate"} /\ t.code = "interrupted" /\ current' # NoRequest
          /\ Here(current)' => Aware' \/ Telling'
    <3>1. SUFFICES ASSUME t.fn \in {"stop", "terminate"}, t.code = "interrupted",
                          current' # NoRequest, Here(current)'
                   PROVE  Aware' \/ Telling'
      OBVIOUS
    <3>2. Here(current') BY <1>1, <3>1 DEF Here
    <3>3. t \in On /\ current' = current => Aware \/ Telling
      BY <3>1, <3>2 DEF TrustInv, TrustOn
    <3>. QED BY <1>4, <2>1, <3>1, <3>2, <3>3 DEF OwedOn
  <2>6. t.fn = "terminate" => worker' = "none" BY <2>1 DEF OwedOn
  <2>7. t.fn = "started" => Sending(t.req)' /\ \A u \in On' : u.fn \notin {"stop", "terminate"}
    BY <2>1 DEF OwedOn
  <2>. QED BY <2>2, <2>3, <2>4, <2>5, <2>6, <2>7 DEF TrustOn, Heard
<1>. QED BY <1>5, <1>6 DEF TrustInv, KeepsTrust

LEMMA NoneStarting ==
  ASSUME Base, stack # <<>> => stack[1].fn # "started"
  PROVE  \A t \in On : t.fn # "started"
<1>1. CASE stack = <<>> BY <1>1, NothingOn DEF Idle
<1>2. CASE stack # <<>>
  <2>1. On = {stack[1]} \cup Under BY <1>2, UnderTop
  <2>2. \A u \in Under : ~TopOnly(u) BY <1>2, UnderTop DEF Fits
  <2>. QED BY <1>2, <2>1, <2>2 DEF TopOnly
<1>. QED BY <1>1, <1>2

(* Nothing is configured before the first start, and nothing changes that.  *)
LEMMA StaysUnconfigured ==
  ASSUME TrustInv, UNCHANGED configured, recovery' \in {recovery, "none"},
         ~configured => worker' = "none" /\ current' = NoRequest,
         ~configured => \A t \in Blocks' : t \in Blocks \/ t.fn # "terminated",
         ~configured => \A t \in On' :
           \/ t \in On
           \/ t.fn \notin {"terminate", "onTermination", "schedule", "error"}
           \/ t.fn = "error" /\ t.code \notin Unknown
  PROVE  configured' \/ Unconfigured'
<1>1. SUFFICES ASSUME ~configured PROVE Unconfigured' OBVIOUS
<1>2. Unconfigured BY <1>1 DEF TrustInv
<1>. QED BY <1>1, <1>2 DEF Unconfigured

(* An event that starts nothing.                                            *)
Settled(r) == startedIn[r] # 0 /\ (Here(r) => (Aware' \/ Telling') /\ Purged')

LEMMA TrustRoutine ==
  ASSUME Base, TrustInv, SameTrust, asked \subseteq asked', current' \in {current, NoRequest},
         \A r \in Requests : Queued(r)' => Queued(r),
         worker' = "running" => worker = "running", worker = "none" => worker' = "none",
         \A t \in On : t.fn # "started",
         \A t \in On' :
           \/ t \in On
           \/ t.fn \notin {"started", "transmit", "reply", "replied", "deliver", "stop", "terminate"}
           \/ t.fn = "replied" /\ Active(t.req),
         Telling => Aware' \/ Telling',
         \A r \in Requests : Ended(r)' => Ended(r) \/ Settled(r),
         \A u \in On : u.fn \in {"reply", "replied"} /\ u.code \in Unknown /\ Here(u.req) =>
                         Aware' \/ Heard(u, On'),
         configured' \/ Unconfigured'
  PROVE  TrustInv'
<1>1. ASSUME NEW r \in Requests
      PROVE  OwedOf(r)
  <2>1. TrustOf(r) BY DEF TrustInv
  <2>2. ~Starting(r)' BY DEF Starting
  <2>3. ~Starting(r) BY DEF Starting
  <2>4. current' = r => Active(r) BY <2>1, <2>3, NamesAssumption DEF TrustOf
  <2>5. Sending(r)' => Sending(r) BY DEF Sending
  <2>. QED BY <2>2, <2>4, <2>5 DEF OwedOf, Settled
<1>2. ASSUME NEW t \in On'
      PROVE  OwedOn(t)
  <2>1. t \in On => TrustOn(t) BY DEF TrustInv
  <2>2. t.fn # "started" OBVIOUS
  <2>. QED BY <2>1, <2>2 DEF OwedOn, TrustOn
<1>. QED BY <1>1, <1>2, TrustKept DEF KeepsTrust

LEMMA EventKinds ==
  /\ App.fn = "app" /\ StopProcess.fn = "stopProcess"
  /\ \A r, code : /\ Complete(r, code).fn = "complete" /\ Complete(r, code).req = r
                  /\ Complete(r, code).code = code
  /\ \A code : Callback(code).fn = "error" /\ Callback(code).code = code
  /\ \A fn, r, code : /\ Task(fn, r, code).fn = fn /\ Task(fn, r, code).req = r
                      /\ Task(fn, r, code).code = code
BY DEF App, StopProcess, Complete, Callback, Task

LEMMA KnownCodes ==
  /\ NotSent \cap Unknown = {} /\ "none" \notin Unknown /\ "twice" \notin Unknown
  /\ Replies \cap Unknown \subseteq Purging
  /\ "cancelled" \notin Unknown /\ "idleProtocolError" \notin Unknown
BY DEF NotSent, Unknown, Replies, Purging, Fatal

(* An event that tells no request that its outcome is unknown.              *)
LEMMA TrustPlain ==
  ASSUME Base, TrustInv, SameTrust, asked \subseteq asked', current' \in {current, NoRequest},
         UNCHANGED <<queue, configured>>,
         worker' = "running" => worker = "running", worker = "none" => worker' = "none",
         ~configured => recovery' \in {recovery, "none"},
         \A t \in Blocks' : t \in Blocks \/ t.fn # "terminated" \/ configured,
         \A t \in On : t.fn # "started",
         \A t \in On' : \/ t \in On \/ t.fn \in {"app", "endDelivery", "stopProcess"}
                        \/ t.fn \in {"complete", "error"} /\ t.code \notin Unknown
                        \/ t.fn = "schedule" /\ configured,
         Telling => Aware' \/ Telling',
         \A r \in Requests : result'[r] \in Unknown => Ended(r),
         \A u \in On : u.fn \in {"reply", "replied"} => u \in On'
  PROVE  TrustInv'
<1>1. \A r \in Requests : Queued(r)' => Queued(r) BY DEF Queued
<1>2. \A r \in Requests : Ended(r)' => Ended(r) \/ Settled(r) BY DEF Ended
<1>3. \A u \in On : u.fn \in {"reply", "replied"} /\ u.code \in Unknown /\ Here(u.req) =>
                      Aware' \/ Heard(u, On')
  BY DEF Heard
<1>4. ~configured => worker = "none" /\ current = NoRequest BY DEF TrustInv, Unconfigured
<1>5. configured' \/ Unconfigured'
  <2>1. CASE configured BY <2>1
  <2>2. CASE ~configured BY <1>4, <2>2, StaysUnconfigured
  <2>. QED BY <2>1, <2>2
<1>. QED BY <1>1, <1>2, <1>3, <1>5, TrustRoutine

LEMMA TrustEnds ==
  ASSUME Base, TrustInv, SameTrust, UNCHANGED <<asked, result, configured, recovery>>,
         worker' = "running" => worker = "running", worker = "none" => worker' = "none",
         Blocks' \subseteq Blocks, \A t \in On : t.fn # "started", ~Telling,
         NEW base, base \subseteq On, NEW code, NEW told, Ends(base, code, told),
         \A t \in told : t.fn = "error" /\ t.code \in Unknown => current # NoRequest,
         \A t \in told : t.fn = "onTermination" => configured,
         \A u \in On : u.fn \in {"reply", "replied"} => u \in base,
         code \in Unknown /\ current # NoRequest /\ Here(current) =>
           (Aware' \/ Telling') /\ \A t \in base : t.fn = "transmit" => worker' # "running"
  PROVE  TrustInv'
<1>1. PICK c : c = current OBVIOUS
<1>2. current' = NoRequest /\ queue' = <<>> /\ \A t \in told : t.fn \in Plainly BY DEF Ends
<1>3. PICK drop : Drops(drop) /\ On' = told \cup Given(code) \cup drop \cup base
  BY DEF Ends, Holds
<1>4. \A t \in drop : t.fn = "complete" /\ t.code \notin Unknown BY <1>3, KnownCodes DEF Drops
<1>5. \A t \in Given(code) : t.fn = "complete" /\ t.req = c /\ t.code = code /\ c # NoRequest
  BY <1>1, EventKinds DEF Given
<1>6. Range(queue') = {} BY <1>2, RangeTuples
<1>7. \A r \in Requests : Queued(r)' => Queued(r) BY <1>6 DEF Queued
<1>8. \A t \in On' :
        \/ t \in On
        \/ t.fn \notin {"started", "transmit", "reply", "replied", "deliver", "stop", "terminate"}
  BY <1>2, <1>3, <1>4, <1>5 DEF Plainly
<1>9. ASSUME NEW r \in Requests, Ended(r)', ~Ended(r)
      PROVE  Settled(r)
  <2>1. \E t \in On' : t.fn = "complete" /\ t.req = r /\ t.code \in Unknown BY <1>9 DEF Ended
  <2>2. c = r /\ code \in Unknown /\ c # NoRequest
    BY <1>2, <1>3, <1>4, <1>5, <1>9, <2>1 DEF Ended, Plainly
  <2>3. ~Starting(r) BY DEF Starting
  <2>4. startedIn[r] # 0 BY <1>1, <2>2, <2>3 DEF TrustInv, TrustOf, Active
  <2>5. ASSUME Here(r)
        PROVE  (Aware' \/ Telling') /\ Purged'
    <3>1. Here(current) /\ current # NoRequest BY <1>1, <2>2, <2>5
    <3>2. (Aware' \/ Telling') /\ \A t \in base : t.fn = "transmit" => worker' # "running"
      BY <2>2, <3>1
    <3>3. \A t \in On' : t.fn = "transmit" => t \in base BY <1>2, <1>3, <1>4, <1>5 DEF Plainly
    <3>4. \A q : ~Queued(q)' /\ (Sending(q)' => worker' # "running")
      BY <1>6, <3>2, <3>3 DEF Queued, Sending
    <3>. QED BY <3>2, <3>4 DEF Purged
  <2>. QED BY <2>4, <2>5 DEF Settled
<1>10. \A u \in On : u.fn \in {"reply", "replied"} => u \in On' BY <1>3
<1>11. \A u \in On : u.fn \in {"reply", "replied"} /\ u.code \in Unknown /\ Here(u.req) =>
                      Aware' \/ Heard(u, On')
  BY <1>10 DEF Heard
<1>12. configured' \/ Unconfigured'
  <2>1. CASE configured BY <2>1
  <2>2. CASE ~configured
    <3>1. worker = "none" /\ current = NoRequest BY <2>2 DEF TrustInv, Unconfigured
    <3>2. \A t \in On' :
            \/ t \in On
            \/ t.fn \notin {"terminate", "onTermination", "schedule", "error"}
            \/ t.fn = "error" /\ t.code \notin Unknown
      BY <1>2, <1>3, <1>4, <1>5, <2>2, <3>1 DEF Plainly
    <3>. QED BY <1>2, <2>2, <3>1, <3>2, StaysUnconfigured
  <2>. QED BY <2>1, <2>2
<1>. QED BY <1>2, <1>7, <1>8, <1>9, <1>11, <1>12, TrustRoutine

(* The client fails with a callback that tells the session.                 *)
LEMMA TrustFails ==
  ASSUME Base, TrustInv, UNCHANGED <<session, asked, result>>, On = {},
         worker' = "running" => worker = "running", worker = "none" => worker' = "none",
         Blocks' \subseteq Blocks,
         NEW code, NEW told, Ends({}, code, told),
         \A t \in told : t.fn # "onTermination" /\ (t.fn = "error" => t.code = code),
         code \in Unknown => current # NoRequest /\ stack' # <<>> /\ stack'[1] = Callback(code)
  PROVE  TrustInv'
<1>1. SameTrust /\ UNCHANGED <<configured, recovery>>
  BY DEF SameTrust, session, trust, active, lifecycle
<1>2. ~Telling
  <2>1. stack \in Seq(Tasks) BY DEF Base, ClientTypeOK
  <2>2. stack # <<>> => stack[1] \in On BY Below
  <2>. QED BY <2>2 DEF Telling
<1>3. ASSUME code \in Unknown, current # NoRequest, Here(current)
      PROVE  Aware' \/ Telling'
  <2>1. PICK c : c = current OBVIOUS
  <2>2. c \in Requests /\ ~Starting(c) BY <1>3, <2>1 DEF Base, ClientTypeOK, Starting
  <2>3. Active(c) /\ Here(c) BY <1>3, <2>1, <2>2 DEF TrustInv, TrustOf
  <2>4. activeTrusted /\ activeLifetime = lifetime BY <2>3 DEF Active, Here
  <2>5. Callback(code).fn = "error" /\ Callback(code).code = code BY EventKinds
  <2>. QED BY <1>1, <1>3, <2>4, <2>5 DEF Telling, SameTrust
<1>4. PICK base : base = {} OBVIOUS
<1>5. Ends(base, code, told) BY <1>4
<1>. QED BY <1>1, <1>2, <1>3, <1>4, <1>5, TrustEnds

(* A call of send, and the dispatch of a request.                           *)
LEMMA UngatedClear ==
  ASSUME Base, TrustInv, NEW q \in Requests, ~Telling, ~Gated(q) \/ Queued(q)
  PROVE  Clear(q)
<1>1. SUFFICES ASSUME q \in Trusted, NEW p \in Requests, Ended(p), Here(p) PROVE FALSE
  BY DEF Clear
<1>2. Aware /\ Purged BY <1>1 DEF TrustInv, TrustOf
<1>. QED BY <1>1, <1>2 DEF Purged, Gated, Aware

LEMMA NotTelling ==
  ASSUME Base, AppRuns \/ (stack # <<>> /\ stack[1].fn # "error")
  PROVE  ~Telling
BY EventKinds DEF AppRuns, Telling

LEMMA TrustDispatched ==
  ASSUME Base, FlowInv, TrustInv, NEW q \in Requests, Dispatched(q), ~Gated(q) \/ Queued(q)
  PROVE  TrustInv'
<1>1. /\ UNCHANGED <<process, main, terminal, reached, result, session>>
      /\ IsRunning /\ ~terminal /\ current = NoRequest /\ current' = q /\ asked \subseteq asked'
  BY DEF Dispatched
<1>2. PICK base : /\ base \subseteq On /\ On' = StartOf(q) \cup base
                  /\ \A u \in On : u \in base \/ u.fn = "endDelivery"
                  /\ \A u \in On : ~TopOnly(u) \/ u.fn = "endDelivery"
                  /\ ~Telling
  <2>1. CASE AppRuns /\ Holds(StartOf(q) \cup On) BY <2>1, Below, NotTelling DEF Holds
  <2>2. CASE Top("endDelivery") /\ Holds(StartOf(q) \cup Under)
    <3>1. stack # <<>> /\ stack[1].fn = "endDelivery" BY <2>2 DEF Top
    <3>2. /\ Under \subseteq On /\ On = {stack[1]} \cup Under /\ \A u \in Under : ~TopOnly(u)
      BY <3>1, Below, UnderTop
    <3>3. ~Telling BY <3>1, NotTelling
    <3>. QED BY <2>2, <3>1, <3>2, <3>3 DEF Holds
  <2>. QED BY <2>1, <2>2 DEF Dispatched
<1>3. /\ \A t \in StartOf(q) : t.fn \in {"started", "transmit"} /\ t.req = q
      /\ Task("started", q, "none") \in StartOf(q) /\ Task("transmit", q, "none") \in StartOf(q)
  BY EventKinds DEF StartOf
<1>4. \A u \in On : u.fn \notin {"started", "stop", "terminate"}
  <2>1. \A u \in On : u \in Tasks /\ FlowOf(u) BY Below DEF FlowInv
  <2>. QED BY <1>1, <1>2, <2>1 DEF FlowOf, Tasks, TopOnly
<1>5. q \notin asked \/ Queued(q)
  <2>1. queue # <<>> => Head(queue) \in Range(queue) BY RangeTail DEF Base, ClientTypeOK
  <2>. QED BY <2>1 DEF Dispatched, Queued
<1>6. \A r : Queued(r)' => Queued(r)
  <2>1. queue # <<>> => Range(Tail(queue)) \subseteq Range(queue)
    BY RangeTail DEF Base, ClientTypeOK
  <2>2. UNCHANGED queue \/ (queue # <<>> /\ queue' = Tail(queue)) BY DEF Dispatched
  <2>. QED BY <2>1, <2>2 DEF Queued
<1>7. Clear(q) BY <1>2, UngatedClear
<1>8. startedIn[q] = 0 BY <1>5 DEF TrustInv, TrustOf
<1>9. ASSUME NEW r \in Requests
      PROVE  OwedOf(r)
  <2>1. Sending(r)' => Sending(r) \/ r = q BY <1>2, <1>3 DEF Sending
  <2>2. Starting(r)' => r = q BY <1>2, <1>3, <1>4 DEF Starting
  <2>3. Starting(q)' BY <1>2, <1>3, EventKinds DEF Starting
  <2>4. Ended(r)' => Ended(r) BY <1>1, <1>2, <1>3 DEF Ended
  <2>5. worker' = worker BY <1>1 DEF process
  <2>. QED BY <1>1, <1>6, <1>7, <1>8, <2>1, <2>2, <2>3, <2>4, <2>5 DEF OwedOf
<1>10. ASSUME NEW t \in On'
       PROVE  OwedOn(t)
  <2>1. t \in StartOf(q) \/ t \in On BY <1>2
  <2>2. \A u \in On' : u.fn \notin {"stop", "terminate"} BY <1>2, <1>3, <1>4
  <2>3. Sending(q)' BY <1>2, <1>3, EventKinds DEF Sending
  <2>4. CASE t \in StartOf(q) BY <1>3, <2>2, <2>3, <2>4 DEF OwedOn
  <2>5. CASE t \in On BY <1>4, <2>2, <2>5 DEF OwedOn, TrustInv, TrustOn
  <2>. QED BY <2>1, <2>4, <2>5
<1>11. \A u \in On : u.fn \in {"reply", "replied"} /\ u.code \in Unknown /\ Here(u.req) =>
                       Aware' \/ Heard(u, On')
  BY <1>2 DEF Heard
<1>12. configured'
  <2>1. configured BY <1>1 DEF TrustInv, Unconfigured, IsRunning
  <2>. QED BY <1>1, <2>1 DEF session, lifecycle
<1>13. SameTrust BY <1>1 DEF SameTrust, session, trust, active
<1>. QED BY <1>1, <1>2, <1>9, <1>10, <1>11, <1>12, <1>13, TrustKept DEF KeepsTrust

LEMMA TrustQueued ==
  ASSUME Base, TrustInv, NEW q \in Requests, ~Gated(q), q \notin asked, asked' = asked \cup {q},
         AppRuns, UNCHANGED <<process, main, current, result, session>>,
         \A r \in Requests : Queued(r)' => Queued(r) \/ r = q,
         On \subseteq On',
         \A t \in On' : t \in On \/ (t.fn = "complete" /\ t.code \in NotSent)
  PROVE  TrustInv'
<1>1. ~Telling BY NotTelling
<1>2. Clear(q) BY <1>1, UngatedClear
<1>3. startedIn[q] = 0 BY DEF TrustInv, TrustOf
<1>4. \A u \in On : u.fn # "started" BY Below DEF TopOnly
<1>5. ASSUME NEW r \in Requests
      PROVE  OwedOf(r)
  <2>1. (Sending(r)' => Sending(r)) /\ ~Starting(r)' /\ ~Starting(r)
    BY <1>4 DEF Sending, Starting
  <2>2. Ended(r)' => Ended(r) BY KnownCodes DEF Ended
  <2>3. worker' = worker BY DEF process
  <2>4. current = r => Active(r) BY <2>1 DEF TrustInv, TrustOf
  <2>. QED BY <1>2, <1>3, <2>1, <2>2, <2>3, <2>4 DEF OwedOf
<1>6. ASSUME NEW t \in On'
      PROVE  OwedOn(t)
  <2>1. CASE t \in On BY <1>4, <2>1 DEF OwedOn, TrustInv, TrustOn, process
  <2>2. CASE t \notin On BY <2>2 DEF OwedOn
  <2>. QED BY <2>1, <2>2
<1>7. \A u \in On : u.fn \in {"reply", "replied"} /\ u.code \in Unknown /\ Here(u.req) =>
                      Aware' \/ Heard(u, On')
  BY DEF Heard
<1>8. SameTrust /\ UNCHANGED <<configured, recovery>>
  BY DEF SameTrust, session, trust, active, lifecycle
<1>9. configured' \/ Unconfigured'
  <2>1. CASE configured BY <1>8, <2>1
  <2>2. CASE ~configured
    <3>1. worker = "none" /\ current = NoRequest BY <2>2 DEF TrustInv, Unconfigured
    <3>. QED BY <1>8, <3>1, StaysUnconfigured DEF process, Blocks
  <2>. QED BY <2>1, <2>2
<1>. QED BY <1>1, <1>5, <1>6, <1>7, <1>8, <1>9, TrustKept DEF KeepsTrust

LEMMA TrustSend ==
  ASSUME Base, FlowInv, TrustInv, NEW q \in Requests, SessionSend(q)
  PROVE  TrustInv'
<1>1. queue \in Seq(Requests) BY DEF Base, ClientTypeOK
<1>2. ASSUME NEW code \in NotSent, Declined(q, code)
      PROVE  TrustInv'
  <2>1. /\ asked \subseteq asked' /\ UNCHANGED <<process, main, client, result, session>> /\ AppRuns
        /\ On' \subseteq {Callback(code), Complete(q, code)} \cup On /\ On \subseteq On'
    BY <1>2 DEF Declined, Holds
  <2>2. SameTrust /\ UNCHANGED <<configured, recovery>>
    BY <2>1 DEF SameTrust, session, trust, active, lifecycle
  <2>3. ~Telling /\ \A u \in On : u.fn # "started" BY <2>1, NotTelling, Below DEF TopOnly
  <2>4. \A t \in On' : t \in On \/ (t.fn \in {"complete", "error"} /\ t.code \notin Unknown)
    BY <2>1, EventKinds, KnownCodes
  <2>5. \A r \in Requests : result'[r] \in Unknown => Ended(r) BY <2>1 DEF Ended
  <2>6. UNCHANGED <<current, queue, worker>> /\ Blocks' = Blocks
    BY <2>1 DEF client, process, Blocks
  <2>. QED BY <2>1, <2>2, <2>3, <2>4, <2>5, <2>6, TrustPlain
<1>3. ASSUME ~Gated(q), NEW i \in DOMAIN queue, Replaced(q, i)
      PROVE  TrustInv'
  <2>1. PICK old : old = queue[i] OBVIOUS
  <2>2. /\ q \notin asked /\ asked' = asked \cup {q} /\ queue' = [queue EXCEPT ![i] = q] /\ AppRuns
        /\ UNCHANGED <<process, main, current, result, session>>
        /\ On' = {Complete(old, "cancelled")} \cup On
    BY <1>3, <2>1 DEF Replaced, Holds
  <2>3. \A r \in Requests : Queued(r)' => Queued(r) \/ r = q
    <3>1. DOMAIN queue' = DOMAIN queue /\ \A j \in DOMAIN queue : queue'[j] \in {q, queue[j]}
      BY <2>2
    <3>. QED BY <3>1 DEF Queued, Range
  <2>4. "cancelled" \in NotSent BY DEF NotSent
  <2>. QED BY <1>3, <2>2, <2>3, <2>4, EventKinds, TrustQueued
<1>4. CASE ~Gated(q) /\ Joined(q)
  <2>1. /\ q \notin asked /\ asked' = asked \cup {q} /\ queue' = Append(queue, q) /\ AppRuns
        /\ UNCHANGED <<process, main, current, result, session, stack>>
    BY <1>4 DEF Joined
  <2>2. Range(queue') = Range(queue) \cup {q} BY <1>1, <2>1, RangeAppend
  <2>3. \A r \in Requests : Queued(r)' => Queued(r) \/ r = q BY <2>2 DEF Queued
  <2>. QED BY <1>4, <2>1, <2>3, TrustQueued DEF On
<1>. QED BY <1>2, <1>3, <1>4, SendEffect, TrustDispatched

(* Events that leave the stack.                                             *)
LEMMA TrustStill ==
  ASSUME Base, TrustInv, SameTrust, UNCHANGED <<stack, asked, result>>,
         current' \in {current, NoRequest}, \A r \in Requests : Queued(r)' => Queued(r),
         \/ Idle
         \/ (worker' = "running" => worker = "running") /\ (worker = "none" => worker' = "none"),
         \/ configured'
         \/ /\ UNCHANGED configured
            /\ ~configured => recovery' \in {recovery, "none"} /\ worker' = "none"
            /\ \A t \in Blocks' : t \in Blocks \/ t.fn # "terminated" \/ configured
  PROVE  TrustInv'
<1>1. On' = On BY DEF On
<1>2. Idle => On = {} BY Below
<1>3. ASSUME NEW r \in Requests
      PROVE  OwedOf(r)
  <2>1. /\ (Sending(r)' <=> Sending(r)) /\ (Starting(r)' <=> Starting(r))
        /\ (Ended(r)' <=> Ended(r))
    BY <1>1 DEF Sending, Starting, Ended
  <2>2. TrustOf(r) BY DEF TrustInv
  <2>3. current' = r => current = r BY NamesAssumption
  <2>4. Idle => ~Sending(r) BY <1>2 DEF Sending
  <2>. QED BY <2>1, <2>2, <2>3, <2>4 DEF OwedOf, TrustOf
<1>4. ASSUME NEW t \in On'
      PROVE  OwedOn(t)
  <2>1. t \in On /\ TrustOn(t) /\ ~Idle BY <1>1, <1>2 DEF TrustInv
  <2>2. Sending(t.req)' <=> Sending(t.req) BY <1>1 DEF Sending
  <2>. QED BY <1>1, <2>1, <2>2 DEF OwedOn, TrustOn
<1>5. Telling => Aware' \/ Telling' BY DEF Telling, SameTrust
<1>6. \A u \in On : u.fn \in {"reply", "replied"} /\ u.code \in Unknown /\ Here(u.req) =>
                      Aware' \/ Heard(u, On')
  BY <1>1 DEF Heard
<1>7. configured' \/ Unconfigured'
  <2>1. CASE configured' BY <2>1
  <2>2. CASE ~configured'
    <3>1. /\ UNCHANGED configured /\ ~configured
          /\ \A t \in Blocks' : t \in Blocks \/ t.fn # "terminated"
          /\ recovery' \in {recovery, "none"} /\ worker' = "none"
      BY <2>2
    <3>2. current' = NoRequest BY <3>1 DEF TrustInv, Unconfigured
    <3>. QED BY <1>1, <3>1, <3>2, StaysUnconfigured
  <2>. QED BY <2>1, <2>2
<1>. QED BY <1>3, <1>4, <1>5, <1>6, <1>7, TrustKept DEF KeepsTrust

LEMMA TrustWorld ==
  ASSUME Base, TrustInv, Write \/ Answer \/ Garble \/ Exit, UNCHANGED session
  PROVE  TrustInv'
<1>1. /\ UNCHANGED <<stack, asked, result, current, queue>>
      /\ worker' = worker \/ (worker # "none" /\ worker' = "exited")
      /\ worker = "none" => ~(Answer \/ Garble \/ Exit)
  BY DEF Write, Answer, Garble, Exit, history, client, IsRunning, process
<1>2. SameTrust /\ UNCHANGED <<configured, recovery>>
  BY DEF SameTrust, session, trust, active, lifecycle
<1>3. \A t \in Blocks' : t \in Blocks \/ t.fn # "terminated" \/ configured
  <2>1. CASE ~configured /\ UNCHANGED main BY <2>1 DEF Blocks
  <2>2. CASE ~configured /\ main' # main
    <3>1. Write BY <1>1, <2>2 DEF TrustInv, Unconfigured
    <3>2. PICK q, code : Post("sent", q, code) BY <2>2, <3>1 DEF Write
    <3>3. main \in Seq(Posted) BY DEF Base, ClientTypeOK
    <3>4. PICK t : t = Task("sent", q, code) OBVIOUS
    <3>5. main' = Append(main, t) BY <3>2, <3>4 DEF Post
    <3>6. Range(Append(main, t)) \subseteq Range(main) \cup {t} BY <3>3 DEF Range
    <3>. QED BY <3>4, <3>5, <3>6, EventKinds DEF Blocks
  <2>. QED BY <2>1, <2>2
<1>4. ~configured => worker = "none" BY DEF TrustInv, Unconfigured
<1>. QED BY <1>1, <1>2, <1>3, <1>4, TrustStill DEF Queued

LEMMA TrustStart ==
  ASSUME Base, TrustInv, Startup \/ Recover
  PROVE  TrustInv'
<1>1. /\ Idle /\ UNCHANGED <<stack, asked, result, trust>> /\ queue' \in {<<>>, queue}
      /\ current' \in {current, NoRequest} /\ (Startup \/ recovery # "none")
  BY StartEffect DEF history, vars, client
<1>2. configured'
  <2>1. CASE Startup BY <2>1 DEF Startup
  <2>2. CASE Recover /\ recovery # "none"
    <3>1. configured BY <2>2 DEF TrustInv, Unconfigured
    <3>. QED BY <2>2, <3>1 DEF Recover
  <2>. QED BY <1>1, <2>1, <2>2
<1>3. \A r \in Requests : Queued(r)' => Queued(r) BY <1>1, RangeTuples DEF Queued
<1>4. SameTrust BY <1>1 DEF SameTrust, trust, active
<1>. QED BY <1>1, <1>2, <1>3, <1>4, TrustStill

LEMMA TrustInterrupts ==
  ASSUME Base, TrustInv, SameTrust, AppRuns, NEW fn \in {"stop", "terminate"}, Interrupts(fn),
         UNCHANGED <<asked, result, current, queue, configured>>,
         ~configured => recovery' \in {recovery, "none"} /\ fn # "terminate",
         worker' = "running" => worker = "running", worker = "none" => worker' = "none",
         fn = "terminate" => worker' = "none",
         Blocks' \subseteq Blocks
  PROVE  TrustInv'
<1>1. /\ On' = Interruption(fn) \cup On /\ stack' # <<>>
      /\ stack'[1] = IF current # NoRequest /\ ~terminal THEN Callback("interrupted")
                     ELSE Task(fn, current, "cancelled")
  BY DEF Interrupts, Leaves, Holds
<1>2. /\ \A t \in Interruption(fn) :
           \/ t.fn = fn /\ t.code = "cancelled"
           \/ /\ current # NoRequest /\ ~terminal
              /\ \/ t.fn = fn
                 \/ t.fn = "error" /\ t.code = "interrupted"
  BY EventKinds DEF Interruption
<1>3. ~Telling /\ \A u \in On : u.fn # "started" BY NotTelling, Below DEF TopOnly
<1>4. ASSUME current # NoRequest, ~terminal, Here(current)
      PROVE  Telling'
  <2>1. PICK c : c = current OBVIOUS
  <2>2. c \in Requests /\ ~Starting(c) BY <1>3, <1>4, <2>1 DEF Base, ClientTypeOK, Starting
  <2>3. Active(c) /\ Here(c) BY <1>4, <2>1, <2>2 DEF TrustInv, TrustOf
  <2>4. activeTrusted /\ activeLifetime = lifetime BY <2>3 DEF Active, Here
  <2>5. "interrupted" \in Unknown BY DEF Unknown
  <2>. QED BY <1>1, <1>4, <2>4, <2>5, EventKinds DEF Telling, SameTrust
<1>5. ASSUME NEW r \in Requests
      PROVE  OwedOf(r)
  <2>1. (Sending(r)' => Sending(r)) /\ ~Starting(r)' /\ ~Starting(r) /\ (Ended(r)' => Ended(r))
    BY <1>1, <1>2, <1>3 DEF Sending, Starting, Ended
  <2>2. current = r => Active(r) BY <2>1 DEF TrustInv, TrustOf
  <2>. QED BY <2>1, <2>2 DEF OwedOf, Queued
<1>6. ASSUME NEW t \in On'
      PROVE  OwedOn(t)
  <2>1. CASE t \in On BY <1>3, <2>1 DEF OwedOn, TrustInv, TrustOn
  <2>2. CASE t \in Interruption(fn)
    BY <1>2, <1>4, <2>2 DEF OwedOn
  <2>. QED BY <1>1, <2>1, <2>2
<1>7. \A u \in On : u.fn \in {"reply", "replied"} /\ u.code \in Unknown /\ Here(u.req) =>
                      Aware' \/ Heard(u, On')
  BY <1>1 DEF Heard
<1>8. configured' \/ Unconfigured'
  <2>1. CASE configured BY <2>1
  <2>2. CASE ~configured
    <3>1. worker = "none" /\ current = NoRequest BY <2>2 DEF TrustInv, Unconfigured
    <3>. QED BY <1>1, <1>2, <2>2, <3>1, StaysUnconfigured
  <2>. QED BY <2>1, <2>2
<1>. QED BY <1>3, <1>5, <1>6, <1>7, <1>8, TrustKept DEF KeepsTrust

LEMMA TrustApplication ==
  ASSUME Base, TrustInv, Restart \/ SessionStop \/ BeginTermination \/ TargetLifetimeChanged \/ ScriptMissing
  PROVE  TrustInv'
<1>1. /\ UNCHANGED <<worker, main, current, queue, asked, result, configured, active>>
      /\ (AppRuns /\ Interrupts("stop")) \/ UNCHANGED stack
  BY ApplicationEffect DEF process, client, history
<1>2. CASE ~TargetLifetimeChanged
  <2>1. SameTrust
    BY <1>1, <1>2 DEF SameTrust, active, Restart, SessionStop, BeginTermination, ScriptMissing, trust
  <2>2. recovery' \in {recovery, "none"} \/ configured
    BY <1>2 DEF Restart, SessionStop, BeginTermination, ScriptMissing, lifecycle
  <2>3. ~configured => worker = "none" BY DEF TrustInv, Unconfigured
  <2>4. CASE AppRuns /\ Interrupts("stop")
    BY <1>1, <2>1, <2>2, <2>4, TrustInterrupts DEF Blocks
  <2>5. CASE UNCHANGED stack
    BY <1>1, <2>1, <2>2, <2>3, <2>5, TrustStill DEF Blocks, Queued
  <2>. QED BY <1>1, <2>4, <2>5
<1>3. CASE TargetLifetimeChanged
  <2>1. /\ Idle /\ lifetime' = lifetime + 1 /\ UNCHANGED <<stack, recovery, terminal>>
    BY <1>3 DEF TargetLifetimeChanged, vars, lifecycle, client
  <2>2. On = {} /\ On' = {} BY <2>1, Below DEF On
  <2>3. ASSUME NEW r \in Requests
        PROVE  TrustOf(r)'
    <3>1. TrustOf(r) /\ startedIn[r] \in Nat /\ lifetime \in Nat
      BY DEF TrustInv, Base, SessionTypeOK
    <3>2. UNCHANGED <<startedIn, activeLifetime, activeTrusted>> BY <1>1 DEF active
    <3>3. startedIn'[r] <= lifetime' /\ ~Here(r)' BY <2>1, <3>1, <3>2 DEF TrustOf, Here
    <3>4. /\ (Starting(r)' <=> Starting(r)) /\ (Ended(r)' <=> Ended(r))
          /\ (Queued(r)' <=> Queued(r)) /\ (Active(r)' <=> Active(r))
      BY <1>1, <2>2, <3>2 DEF Starting, Ended, Queued, Active
    <3>. QED BY <1>1, <3>1, <3>2, <3>3, <3>4 DEF TrustOf
  <2>4. configured' \/ Unconfigured'
    BY <1>1, <2>1, <2>2 DEF TrustInv, Unconfigured, Blocks
  <2>. QED BY <2>2, <2>3, <2>4 DEF TrustInv
<1>. QED BY <1>2, <1>3

(* The handlers of the client.                                              *)
LEMMA SameSessionTrust ==
  ASSUME UNCHANGED session
  PROVE  SameTrust /\ UNCHANGED <<configured, recovery>>
BY DEF SameTrust, session, trust, active, lifecycle

LEMMA TrustTransmit ==
  ASSUME Base, TrustInv, Transmit, UNCHANGED session
  PROVE  TrustInv'
<1>1. /\ stack # <<>> /\ stack[1].fn = "transmit"
      /\ UNCHANGED <<worker, main, asked, reached, result>>
  BY TransmitEffect DEF process, history
<1>2. PICK base : base = Under OBVIOUS
<1>3. base \subseteq On /\ On = {stack[1]} \cup base BY <1>1, <1>2, UnderTop, Below
<1>4. ~Telling /\ \A u \in On : u.fn # "started" BY <1>1, NotTelling, NoneStarting
<1>5. \A u \in On : u.fn \in {"reply", "replied"} => u \in base BY <1>1, <1>3
<1>6. SameTrust /\ UNCHANGED <<configured, recovery>> BY SameSessionTrust
<1>7. CASE On' = Under /\ UNCHANGED <<current, queue>>
  <2>1. \A r \in Requests : result'[r] \in Unknown => Ended(r) BY <1>1 DEF Ended
  <2>2. Blocks' = Blocks BY <1>1 DEF Blocks
  <2>. QED BY <1>1, <1>2, <1>3, <1>4, <1>5, <1>6, <1>7, <2>1, <2>2, TrustPlain
<1>8. CASE SendEnds(stack[1].req, "sendFailed", Under)
  <2>1. PICK told : told = {Callback("sendFailed"), StopProcess,
                            Task("endDelivery", NoRequest, "none")}
    OBVIOUS
  <2>2. Ends(base, "sendFailed", told) BY <1>2, <1>8, <2>1 DEF SendEnds
  <2>3. "sendFailed" \notin Unknown BY DEF Unknown
  <2>4. \A t \in told : t.fn # "onTermination" /\ ~(t.fn = "error" /\ t.code \in Unknown)
    BY <2>1, <2>3, EventKinds
  <2>5. Blocks' = Blocks BY <1>1 DEF Blocks
  <2>. QED BY <1>1, <1>3, <1>4, <1>5, <1>6, <2>2, <2>3, <2>4, <2>5, TrustEnds
<1>. QED BY <1>1, <1>7, <1>8, TransmitEffect DEF Popped, Holds, SendPasses

LEMMA TrustFinish ==
  ASSUME Base, TrustInv, Finish, UNCHANGED session
  PROVE  TrustInv'
<1>1. PICK code : code = stack[1].code OBVIOUS
<1>2. PICK told : told = IF stack[1].fn = "terminate"
                         THEN {Task("onTermination", NoRequest, "none")} ELSE {}
  OBVIOUS
<1>3. PICK base : base = Under OBVIOUS
<1>4. /\ stack # <<>> /\ stack[1].fn \in {"stop", "terminate"} /\ code \in {"cancelled", "interrupted"}
      /\ worker' = IF stack[1].fn = "stop" /\ IsRunning THEN "stopping" ELSE worker
      /\ UNCHANGED <<main, asked, reached, result>>
  BY <1>1, FinishEffect DEF history
<1>5. Ends(base, code, told) BY <1>1, <1>2, <1>3, FinishEffect
<1>6. base \subseteq On /\ On = {stack[1]} \cup base BY <1>3, <1>4, UnderTop, Below
<1>7. ~Telling /\ \A u \in On : u.fn # "started" BY <1>4, NotTelling, NoneStarting
<1>8. \A u \in On : u.fn \in {"reply", "replied"} => u \in base BY <1>4, <1>6
<1>9. SameTrust /\ UNCHANGED <<configured, recovery>> BY SameSessionTrust
<1>10. \A t \in told : t.fn = "onTermination" /\ stack[1].fn = "terminate"
  BY <1>2, EventKinds
<1>11. stack[1] \in On BY <1>6
<1>12. stack[1].fn = "terminate" => configured /\ worker = "none"
  BY <1>11 DEF TrustInv, TrustOn, Unconfigured
<1>13. ASSUME code \in Unknown, current # NoRequest, Here(current)
       PROVE  Aware' /\ worker' # "running"
  <2>1. code = "interrupted" BY <1>4, <1>13, KnownCodes
  <2>2. Aware BY <1>1, <1>4, <1>7, <1>11, <1>13, <2>1 DEF TrustInv, TrustOn
  <2>3. Aware' BY <1>9, <2>2 DEF SameTrust, Aware
  <2>. QED BY <1>4, <1>12, <2>3 DEF IsRunning
<1>14. Blocks' = Blocks BY <1>4 DEF Blocks
<1>15. (worker' = "running" => worker = "running") /\ (worker = "none" => worker' = "none")
  BY <1>4 DEF IsRunning
<1>. QED BY <1>4, <1>5, <1>6, <1>7, <1>8, <1>9, <1>10, <1>12, <1>13, <1>14, <1>15, TrustEnds

LEMMA TrustDeliver ==
  ASSUME Base, FlowInv, TrustInv, Deliver, UNCHANGED session
  PROVE  TrustInv'
<1>1. PICK d : d = stack[1] OBVIOUS
<1>2. /\ stack # <<>> /\ d.fn = "deliver" /\ d.req \in Requests /\ d.code \in Replies
      /\ queue' = IF d.code \in Purging THEN <<>> ELSE queue
      /\ UNCHANGED <<worker, main, current, asked, reached, result>>
      /\ On' = Delivered(d.req, d.code) \cup Under
  BY <1>1, DeliverEffect DEF process, history, Popped, Holds
<1>3. /\ Under \subseteq On /\ On = {d} \cup Under /\ d \in On
      /\ \A u \in Under : u.fn \notin {"reply", "replied", "deliver", "started"}
  <2>1. /\ Under \subseteq On /\ On = {stack[1]} \cup Under
        /\ \A u \in Under : Fits(stack[1], u)
    BY <1>2, UnderTop, Below
  <2>. QED BY <1>1, <1>2, <2>1 DEF Fits, TopOnly
<1>4. ~Telling BY <1>1, <1>2, NotTelling
<1>5. \A t \in Delivered(d.req, d.code) :
        \/ t.fn \in {"endDelivery", "stopProcess"}
        \/ t.fn = "complete" /\ t.req = d.req /\ t.code = d.code
        \/ t.fn = "complete" /\ t.code \notin Unknown
  BY EventKinds, KnownCodes DEF Delivered, Cancelled
<1>6. SameTrust /\ UNCHANGED <<configured, recovery>> BY SameSessionTrust
<1>7. Range(<<>>) = {} BY RangeTuples
<1>8. \A r \in Requests : Queued(r)' => Queued(r) BY <1>2, <1>7 DEF Queued
<1>9. ASSUME NEW r \in Requests, Ended(r)', ~Ended(r)
      PROVE  Settled(r)
  <2>1. \E t \in On' : t.fn = "complete" /\ t.req = r /\ t.code \in Unknown
    BY <1>2, <1>9 DEF Ended
  <2>2. r = d.req /\ d.code \in Unknown BY <1>2, <1>3, <1>5, <1>9, <2>1 DEF Ended
  <2>3. TrustOn(d) /\ FlowOf(d) BY <1>3 DEF TrustInv, FlowInv
  <2>4. startedIn[r] # 0 BY <1>2, <2>2, <2>3 DEF TrustOn
  <2>5. ASSUME Here(r)
        PROVE  Aware' /\ Purged'
    <3>1. Aware BY <1>2, <1>3, <2>2, <2>3, <2>5 DEF TrustOn
    <3>2. Aware' BY <1>6, <3>1 DEF Aware, SameTrust
    <3>3. queue' = <<>> BY <1>2, <2>2, KnownCodes
    <3>4. \A t \in On' : t.fn # "transmit" BY <1>2, <1>3, <1>5, <2>3 DEF FlowOf, Replying
    <3>5. Purged' BY <1>7, <3>3, <3>4 DEF Purged, Queued, Sending
    <3>. QED BY <3>2, <3>5
  <2>. QED BY <2>4, <2>5 DEF Settled
<1>10. \A u \in On : u.fn \notin {"started", "reply", "replied"} BY <1>2, <1>3
<1>11. \A t \in On' :
         \/ t \in On
         \/ t.fn \notin {"started", "transmit", "reply", "replied", "deliver", "stop", "terminate"}
  BY <1>2, <1>3, <1>5
<1>12. configured' \/ Unconfigured'
  <2>1. CASE configured BY <1>6, <2>1
  <2>2. CASE ~configured
    <3>1. worker = "none" /\ current = NoRequest BY <2>2 DEF TrustInv, Unconfigured
    <3>2. Blocks' = Blocks BY <1>2 DEF Blocks
    <3>3. \A t \in On' : t \in On \/ t.fn \notin {"terminate", "onTermination", "schedule", "error"}
      BY <1>2, <1>3, <1>5
    <3>. QED BY <1>2, <1>6, <3>1, <3>2, <3>3, StaysUnconfigured
  <2>. QED BY <2>1, <2>2
<1>. QED BY <1>2, <1>4, <1>6, <1>8, <1>9, <1>10, <1>11, <1>12, TrustRoutine

LEMMA TrustEndDelivery ==
  ASSUME Base, FlowInv, TrustInv, EndDelivery, UNCHANGED session
  PROVE  TrustInv'
<1>1. /\ stack # <<>> /\ stack[1].fn = "endDelivery"
      /\ UNCHANGED <<worker, main, asked, reached, result>>
  BY EndDeliveryEffect DEF process, history
<1>2. PICK base : base = Under OBVIOUS
<1>3. base \subseteq On /\ On = {stack[1]} \cup base BY <1>1, <1>2, UnderTop, Below
<1>4. ~Telling /\ \A u \in On : u.fn # "started" BY <1>1, NotTelling, NoneStarting
<1>5. \A u \in On : u.fn \in {"reply", "replied"} => u \in base BY <1>1, <1>3
<1>6. SameTrust /\ UNCHANGED <<configured, recovery>> BY SameSessionTrust
<1>7. Blocks' = Blocks BY <1>1 DEF Blocks
<1>8. CASE FlushFails
  <2>1. PICK told : told = {Callback("unavailable"), StopProcess} OBVIOUS
  <2>2. Ends(base, "none", told) BY <1>2, <1>8, <2>1 DEF FlushFails
  <2>3. "unavailable" \notin Unknown BY DEF Unknown
  <2>4. \A t \in told : t.fn # "onTermination" /\ ~(t.fn = "error" /\ t.code \in Unknown)
    BY <2>1, <2>3, EventKinds
  <2>. QED BY <1>1, <1>3, <1>4, <1>5, <1>6, <1>7, <2>2, <2>4, KnownCodes, TrustEnds
<1>9. CASE Popped({}) /\ UNCHANGED <<queue, current, terminal>>
  <2>1. \A r \in Requests : result'[r] \in Unknown => Ended(r) BY <1>1 DEF Ended
  <2>2. On' = base BY <1>2, <1>9 DEF Popped, Holds
  <2>. QED BY <1>1, <1>3, <1>4, <1>5, <1>6, <1>7, <1>9, <2>1, <2>2, TrustPlain
<1>10. ASSUME NEW r \in Requests, Dispatched(r)
       PROVE  TrustInv'
  <2>1. stack[1] # App BY <1>1, EventKinds
  <2>2. queue # <<>> /\ r = Head(queue) BY <1>1, <1>10, <2>1 DEF Dispatched, AppRuns
  <2>3. Queued(r) BY <2>2, RangeTail DEF Queued, Base, ClientTypeOK
  <2>. QED BY <1>10, <2>3, TrustDispatched
<1>. QED BY <1>8, <1>9, <1>10, EndDeliveryEffect

LEMMA TrustTasks ==
  ASSUME Base, TrustInv,
         \/ (StopWorker \/ CallRequest \/ Return) /\ UNCHANGED session
         \/ OnMismatch \/ OnClientError \/ HandleTermination \/ ScheduleRecovery
  PROVE  TrustInv'
<1>1. /\ stack # <<>> /\ stack[1].fn \notin {"started", "reply", "replied"}
      /\ UNCHANGED <<client, main, asked>>
      /\ worker' = worker \/ (worker # "none" /\ worker' = "stopping")
  BY DEF StopWorker, CallRequest, Return, OnMismatch, OnClientError, HandleTermination, ScheduleRecovery, CallOwner,
         Top, process, history, IsRunning
<1>2. Under \subseteq On /\ On = {stack[1]} \cup Under /\ stack[1] \in On
  BY <1>1, UnderTop, Below
<1>3. /\ Under \subseteq On' /\ \A t \in On' : t \in Under \/ t.fn \in {"app", "replied", "schedule"}
      /\ HandleTermination \/ \A t \in On' : t \in Under \/ t.fn = "app"
  <2>1. CASE HandleTermination BY <2>1, TaskEffect DEF SessionCallbacks
  <2>2. CASE ~HandleTermination
    <3>1. Then(<<>>) \/ Then(<<App>>)
      BY <2>2 DEF StopWorker, CallRequest, Return, OnMismatch, OnClientError, ScheduleRecovery,
                  CallOwner
    <3>. QED BY <1>1, <3>1, PopEffect, EventKinds DEF Popped, Holds
  <2>. QED BY <2>1, <2>2
<1>4. \A u \in On : u.fn # "started" BY <1>1, NoneStarting
<1>5. \A u \in On : u.fn \in {"reply", "replied"} => u \in On' BY <1>1, <1>2, <1>3
<1>6. \A t \in On' : t \in On \/ t.fn = "app" \/ (t.fn = "schedule" /\ configured)
  <2>1. CASE HandleTermination
    <3>1. \A t \in On' : t \in On \/ t.fn \in {"app", "schedule"}
      BY <1>2, <2>1, TerminationEffect, EventKinds DEF Popped, Holds
    <3>2. configured BY <1>2, <2>1, TerminationEffect DEF TrustInv, Unconfigured
    <3>. QED BY <3>1, <3>2
  <2>2. CASE ~HandleTermination BY <1>2, <1>3, <2>2
  <2>. QED BY <2>1, <2>2
<1>7. ASSUME NEW r \in Requests, result'[r] \in Unknown
      PROVE  Ended(r)
  <2>1. CASE CallRequest
    <3>1. /\ stack[1].fn = "complete"
          /\ result' = [result EXCEPT ![stack[1].req] =
                          IF @ = "none" THEN stack[1].code ELSE "twice"]
      BY <2>1 DEF CallRequest, Top
    <3>2. result \in [Requests -> Codes] BY DEF Base, ClientTypeOK
    <3>3. r = stack[1].req => result'[r] \in {stack[1].code, "twice"} BY <1>7, <3>1, <3>2
    <3>4. r # stack[1].req => result'[r] = result[r] BY <1>7, <3>1, <3>2
    <3>. QED BY <1>2, <1>7, <3>1, <3>3, <3>4, KnownCodes DEF Ended
  <2>2. CASE ~CallRequest
    <3>1. result' = result
      BY <2>2 DEF StopWorker, Return, OnMismatch, OnClientError, HandleTermination, ScheduleRecovery, CallOwner,
                  history
    <3>. QED BY <1>7, <3>1 DEF Ended
  <2>. QED BY <2>1, <2>2
<1>8. UNCHANGED configured /\ lifetime' = lifetime /\ untrusted' \in {untrusted, lifetime}
  BY DEF session, lifecycle, trust, OnMismatch, OnClientError, HandleTermination, ScheduleRecovery, Preserve
<1>9. SameTrust
  BY <1>8 DEF SameTrust, session, trust, active, OnMismatch, OnClientError, HandleTermination,
                   ScheduleRecovery
<1>10. ~configured => recovery' \in {recovery, "none"}
  <2>1. CASE ScheduleRecovery
    <3>1. stack[1].fn = "schedule" BY <2>1 DEF ScheduleRecovery, Top
    <3>. QED BY <1>2, <3>1 DEF TrustInv, Unconfigured
  <2>2. CASE ~ScheduleRecovery
    BY <2>2 DEF session, lifecycle, OnMismatch, OnClientError, HandleTermination
  <2>. QED BY <2>1, <2>2
<1>11. Telling => Aware'
  <2>1. SUFFICES ASSUME Telling PROVE Aware' OBVIOUS
  <2>2. stack[1].fn = "error" /\ stack[1].code \in Unknown /\ activeTrusted /\ activeLifetime = lifetime
    BY <2>1 DEF Telling
  <2>3. configured BY <1>2, <2>2 DEF TrustInv, Unconfigured
  <2>4. OnMismatch \/ OnClientError
    BY <2>2, EventKinds DEF StopWorker, CallRequest, Return, HandleTermination, ScheduleRecovery, Top
  <2>5. untrusted' = lifetime
    <3>1. CASE OnMismatch BY <2>2, <3>1 DEF OnMismatch, Preserve
    <3>2. CASE OnClientError
      <4>1. Preserve(stack[1].code) BY <2>3, <3>2 DEF OnClientError
      <4>. QED BY <2>2, <4>1 DEF Preserve
    <3>. QED BY <2>4, <3>1, <3>2
  <2>. QED BY <1>8, <2>5 DEF Aware
<1>12. Blocks' = Blocks BY <1>1 DEF Blocks
<1>. QED BY <1>1, <1>4, <1>5, <1>6, <1>7, <1>8, <1>9, <1>10, <1>11, <1>12, TrustPlain DEF client

LEMMA TrustReplies ==
  ASSUME Base, TrustInv, OnReply \/ Replied
  PROVE  TrustInv'
<1>1. PICK d : d = stack[1] OBVIOUS
<1>2. /\ stack # <<>> /\ d.fn \in {"reply", "replied"}
      /\ UNCHANGED <<process, client, main, asked, result, configured, recovery>>
  BY <1>1 DEF OnReply, Replied, Top, history, lifecycle
<1>3. /\ Under \subseteq On /\ On = {d} \cup Under /\ d \in On /\ \A u \in Under : ~TopOnly(u)
  BY <1>1, <1>2, UnderTop, Below
<1>4. ~Telling /\ \A u \in On : u.fn # "started" BY <1>1, <1>2, NotTelling, NoneStarting
<1>5. Active(d.req) BY <1>2, <1>3 DEF TrustInv, TrustOn
<1>6. SameTrust
  BY DEF OnReply, Replied, SameTrust, trust, active, Preserve
<1>7. /\ \A t \in On' : t \in On \/ t.fn = "app" \/ (t.fn = "replied" /\ t.req = d.req)
      /\ Under \subseteq On'
  <2>1. CASE OnReply
    <3>1. On' = {App, Task("replied", d.req, d.code)} \cup Under
      BY <1>1, <2>1, OnReplyEffect DEF Popped, Holds
    <3>. QED BY <1>3, <3>1, EventKinds
  <2>2. CASE Replied
    <3>1. On' = {App} \cup Under BY <1>2, <2>2, PopEffect DEF Replied, Popped, Holds
    <3>. QED BY <1>3, <3>1, EventKinds
  <2>. QED BY <2>1, <2>2
<1>8. ASSUME NEW u \in On, u.fn \in {"reply", "replied"}, u.code \in Unknown, Here(u.req)
      PROVE  Aware' \/ Heard(u, On')
  <2>1. CASE u \in Under BY <1>7, <1>8, <2>1 DEF Heard
  <2>2. CASE u = d /\ OnReply
    <3>1. Task("replied", d.req, d.code) \in On'
      BY <1>1, <2>2, OnReplyEffect DEF Popped, Holds
    <3>. QED BY <2>2, <3>1, EventKinds DEF Heard
  <2>3. CASE u = d /\ Replied
    <3>1. activeTrusted /\ activeLifetime = lifetime BY <1>5, <1>8, <2>3 DEF Active, Here
    <3>2. untrusted' = lifetime BY <1>1, <1>8, <2>3, <3>1 DEF Replied, Preserve
    <3>. QED BY <1>6, <3>2 DEF Aware, SameTrust
  <2>. QED BY <1>2, <1>3, <2>1, <2>2, <2>3
<1>9. \A r \in Requests : Queued(r)' => Queued(r) BY <1>2 DEF Queued, client
<1>10. \A r \in Requests : Ended(r)' => Ended(r) BY <1>2, <1>7 DEF Ended
<1>11. \A t \in On' :
         \/ t \in On
         \/ t.fn \notin {"started", "transmit", "reply", "replied", "deliver", "stop", "terminate"}
         \/ t.fn = "replied" /\ Active(t.req)
  BY <1>5, <1>7
<1>12. configured' \/ Unconfigured'
  <2>1. CASE configured BY <1>2, <2>1
  <2>2. CASE ~configured
    <3>1. worker = "none" /\ current = NoRequest BY <2>2 DEF TrustInv, Unconfigured
    <3>2. \A t \in On' : t \in On \/ t.fn \notin {"terminate", "onTermination", "schedule", "error"}
      BY <1>7
    <3>. QED BY <1>2, <3>1, <3>2, StaysUnconfigured DEF process, client, Blocks
  <2>. QED BY <2>1, <2>2
<1>. QED
  BY <1>2, <1>4, <1>6, <1>8, <1>9, <1>10, <1>11, <1>12, TrustRoutine DEF process, client

LEMMA TrustStarted ==
  ASSUME Base, FlowInv, StageInv, TrustInv, RequestStarted
  PROVE  TrustInv'
<1>1. PICK d, r : d = stack[1] /\ r = d.req OBVIOUS
<1>2. /\ stack # <<>> /\ d.fn = "started"
      /\ activeLifetime' = lifetime /\ activeTrusted' = (r \in Trusted)
      /\ startedIn' = [startedIn EXCEPT ![r] = lifetime]
      /\ UNCHANGED <<process, client, main, asked, result, configured, recovery, lifetime, untrusted>>
  BY <1>1 DEF RequestStarted, Top, CallOwner, history, lifecycle
<1>3. /\ d \in Tasks /\ Under \subseteq On /\ On = {d} \cup Under /\ d \in On
      /\ \A u \in Under : ~TopOnly(u)
  BY <1>1, <1>2, UnderTop, Below
<1>4. r \in Requests BY <1>1, <1>2, <1>3 DEF Tasks, OfRequest
<1>5. On' = {App} \cup Under
  BY <1>2, PopEffect DEF RequestStarted, CallOwner, Popped, Holds
<1>6. \A t \in On' : t.fn = "app" \/ (t \in On /\ t.fn # "started")
  BY <1>3, <1>5, EventKinds DEF TopOnly
<1>7. ~Telling BY <1>1, <1>2, NotTelling
<1>8. TrustOn(d) /\ FlowOf(d) BY <1>3 DEF TrustInv, FlowInv
<1>9. current = r /\ r # NoRequest /\ Sending(r) /\ \A u \in On : u.fn \notin {"stop", "terminate"}
  BY <1>1, <1>2, <1>4, <1>8, NamesAssumption DEF TrustOn, FlowOf
<1>10. \A u \in On : u.fn \notin Replying BY <1>9 DEF FlowInv, FlowOf
<1>11. r \in asked /\ ~Queued(r) BY <1>4, <1>9 DEF StageInv, OneStage
<1>12. startedIn \in [Requests -> Nat] /\ lifetime \in Nat \ {0} BY DEF Base, SessionTypeOK
<1>13. startedIn'[r] = lifetime /\ \A q \in Requests : q # r => startedIn'[q] = startedIn[q]
  BY <1>2, <1>4, <1>12
<1>14. ASSUME NEW q \in Requests
       PROVE  TrustOf(q)'
  <2>1. TrustOf(q) BY DEF TrustInv
  <2>2. ~Starting(q)' BY <1>6 DEF Starting
  <2>3. (Ended(q)' => Ended(q)) /\ (Queued(q)' <=> Queued(q)) /\ current' = current
    BY <1>2, <1>6 DEF Ended, Queued, client
  <2>4. Starting(r) BY <1>1, <1>2, <1>3 DEF Starting
  <2>5. CASE q = r
    <3>1. ~Ended(r) BY <2>1, <2>4, <2>5 DEF TrustOf
    <3>2. Active(r)' BY <1>2, <1>12, <1>13 DEF Active
    <3>. QED BY <1>2, <1>11, <1>12, <1>13, <2>2, <2>3, <2>5, <3>1, <3>2 DEF TrustOf
  <2>6. CASE q # r
    <3>1. startedIn'[q] = startedIn[q] BY <1>13, <2>6
    <3>2. Ended(q)' /\ Here(q)' => Aware' /\ Purged'
      <4>1. SUFFICES ASSUME Ended(q)', Here(q)' PROVE Aware' /\ Purged' OBVIOUS
      <4>2. Here(q) BY <1>2, <3>1, <4>1 DEF Here
      <4>3. Aware /\ Purged BY <1>7, <2>1, <2>3, <4>1, <4>2 DEF TrustOf
      <4>4. \A p : (Queued(p)' <=> Queued(p)) /\ (Sending(p)' => Sending(p))
        BY <1>2, <1>6 DEF Queued, Sending, client
      <4>. QED BY <1>2, <4>3, <4>4 DEF Aware, Purged, process
    <3>3. current' # q BY <1>9, <2>3, <2>6
    <3>. QED BY <1>2, <2>1, <2>2, <2>3, <3>1, <3>2, <3>3 DEF TrustOf
  <2>. QED BY <2>5, <2>6
<1>15. ASSUME NEW t \in On'
       PROVE  TrustOn(t)'
  <2>1. t.fn \notin {"started", "stop", "terminate", "reply", "replied", "deliver"}
    BY <1>6, <1>9, <1>10 DEF Replying
  <2>. QED BY <2>1 DEF TrustOn
<1>16. configured' BY <1>2, <1>9 DEF TrustInv, Unconfigured
<1>. QED BY <1>14, <1>15, <1>16 DEF TrustInv

LEMMA TrustAnswered ==
  ASSUME Base, TrustInv, Idle, NEW r \in Requests, NEW code, Answered(r, code),
         UNCHANGED <<asked, result, session>>, Blocks' \subseteq Blocks
  PROVE  TrustInv'
<1>1. On = {} BY Below
<1>2. PICK a, d : a = Task("reply", r, code) /\ d = Task("deliver", r, code) OBVIOUS
<1>3. /\ current = r /\ current' = NoRequest /\ UNCHANGED <<worker, queue>> /\ On' = {a, d}
  BY <1>2 DEF Answered, Holds
<1>4. /\ a.fn = "reply" /\ a.req = r /\ a.code = code
      /\ d.fn = "deliver" /\ d.req = r /\ d.code = code
  BY <1>2, EventKinds
<1>5. Active(r) /\ startedIn[r] # 0
  <2>1. ~Starting(r) BY <1>1 DEF Starting
  <2>. QED BY <1>3, <2>1 DEF TrustInv, TrustOf, Active
<1>6. ASSUME NEW q \in Requests
      PROVE  OwedOf(q)
  <2>1. ~Sending(q)' /\ ~Starting(q)' /\ (Ended(q)' => Ended(q)) BY <1>3, <1>4 DEF Sending, Starting, Ended
  <2>2. current' # q BY <1>3, NamesAssumption
  <2>. QED BY <1>3, <2>1, <2>2 DEF OwedOf, Queued
<1>7. ASSUME NEW t \in On'
      PROVE  OwedOn(t)
  <2>1. Heard(d, On') BY <1>3, <1>4 DEF Heard
  <2>2. CASE t = a BY <1>4, <1>5, <2>2 DEF OwedOn
  <2>3. CASE t = d BY <1>4, <1>5, <2>1, <2>3 DEF OwedOn
  <2>. QED BY <1>3, <2>2, <2>3
<1>8. ~Telling BY <1>1, NotTelling, Below
<1>9. SameTrust /\ UNCHANGED configured BY SameSessionTrust
<1>10. configured'
  <2>1. configured BY <1>3, NamesAssumption DEF TrustInv, Unconfigured
  <2>. QED BY <1>9, <2>1
<1>. QED BY <1>1, <1>6, <1>7, <1>8, <1>9, <1>10, TrustKept DEF KeepsTrust

LEMMA TrustMain ==
  ASSUME Base, TrustInv, Terminated \/ Violation \/ Sent \/ Receive \/ Timeout, UNCHANGED session
  PROVE  TrustInv'
<1>1. Idle BY DEF Terminated, Violation, Sent, Receive, Timeout
<1>2. On = {} /\ AppRuns /\ ~Telling BY <1>1, Below, NotTelling
<1>3. UNCHANGED <<asked, result>>
  BY DEF Terminated, Violation, Sent, Receive, Timeout, history
<1>4. Blocks' \subseteq Blocks
  <2>1. CASE Timeout BY <2>1 DEF Timeout, Blocks
  <2>2. CASE ~Timeout
    <3>1. main # <<>> /\ main' = Tail(main) BY <2>2 DEF Terminated, Violation, Sent, Receive
    <3>. QED BY <3>1, MainHead DEF Blocks
  <2>. QED BY <2>1, <2>2
<1>5. SameTrust /\ UNCHANGED <<configured, recovery>> BY SameSessionTrust
<1>6. ~configured => worker = "none" /\ current = NoRequest BY DEF TrustInv, Unconfigured
<1>7. UNCHANGED <<worker, current, queue, stack>> => TrustInv'
  BY <1>3, <1>4, <1>5, <1>6, TrustStill DEF Queued
<1>8. ASSUME NEW code \in {"timeout", "idleProtocolError", "protocolError"}, Fail(code),
             code # "idleProtocolError" => current # NoRequest, UNCHANGED worker
      PROVE  TrustInv'
  <2>1. code \in Codes BY CodeTypes DEF Unknown
  <2>2. PICK told : told = {Callback(code), StopProcess} OBVIOUS
  <2>3. Ends(On, code, told) /\ stack' # <<>> /\ stack'[1] = Callback(code)
    BY <1>2, <1>8, <2>1, <2>2, FailEnds
  <2>4. Ends({}, code, told) BY <1>2, <2>3 DEF Ends
  <2>5. \A t \in told : t.fn # "onTermination" /\ (t.fn = "error" => t.code = code)
    BY <2>2, EventKinds
  <2>6. code \in Unknown => current # NoRequest BY <1>8, KnownCodes
  <2>. QED BY <1>2, <1>3, <1>4, <1>8, <2>3, <2>4, <2>5, <2>6, TrustFails
<1>9. CASE Terminated
  <2>1. /\ main # <<>> /\ Head(main).fn = "terminated" /\ worker' = "none"
        /\ Call(Interrupting("terminate")) /\ UNCHANGED client
    BY <1>9 DEF Terminated
  <2>2. Interrupts("terminate") BY <1>2, <2>1, InterruptEffect
  <2>3. configured BY <2>1, MainHead DEF TrustInv, Unconfigured
  <2>. QED BY <1>2, <1>3, <1>4, <1>5, <2>1, <2>2, <2>3, TrustInterrupts DEF client
<1>10. CASE Violation
  <2>1. CASE UNCHANGED <<client, stack>> /\ UNCHANGED process
    BY <1>7, <2>1 DEF client, process
  <2>2. CASE /\ Fail(IF current = NoRequest THEN "idleProtocolError" ELSE "protocolError")
             /\ UNCHANGED process
    BY <1>8, <2>2 DEF process
  <2>. QED BY <1>10, <2>1, <2>2 DEF Violation
<1>11. CASE Timeout
  <2>1. CASE UNCHANGED <<current, queue, stack, process>> BY <1>7, <2>1 DEF process
  <2>2. CASE Fail("timeout") /\ current = timer /\ timer # NoRequest /\ UNCHANGED process
    BY <1>8, <2>2 DEF process
  <2>. QED BY <1>11, <2>1, <2>2 DEF Timeout
<1>12. CASE Sent
  <2>1. /\ Head(main).fn = "sent" /\ main # <<>> /\ UNCHANGED worker
        /\ SendFailed(Head(main).req, Head(main).code, timer, stack)
    BY <1>12 DEF Sent, process
  <2>2. PICK r, code, rest : r = Head(main).req /\ code = Head(main).code /\ rest = stack
    OBVIOUS
  <2>3. r \in Requests /\ code \in {"encodeFailed", "sendFailed", "sendUnknown"}
    BY <2>1, <2>2, MainHead DEF Posted, OfRequest
  <2>4. Rest(rest) /\ Range(rest) = {} BY <1>2, <2>2 DEF Rest, On
  <2>5. CASE Unencoded(r, Range(rest))
    <3>1. current' = NoRequest /\ UNCHANGED queue BY <2>5 DEF Unencoded
    <3>2. On' = {Callback("encodeFailed"), Complete(r, "encodeFailed"),
                 Task("endDelivery", NoRequest, "flush")}
      BY <2>4, <2>5 DEF Unencoded, Leaves, Holds
    <3>3. "encodeFailed" \notin Unknown BY DEF Unknown
    <3>4. \A t \in On' : \/ t.fn = "endDelivery"
                         \/ t.fn \in {"complete", "error"} /\ t.code \notin Unknown
      BY <3>2, <3>3, EventKinds
    <3>5. \A q \in Requests : result'[q] \in Unknown => Ended(q) BY <1>3 DEF Ended
    <3>. QED BY <1>2, <1>3, <1>4, <1>5, <2>1, <3>1, <3>4, <3>5, TrustPlain
  <2>6. CASE SendEnds(r, code, Range(rest))
    <3>1. PICK told : told = {Callback(code), StopProcess, Task("endDelivery", NoRequest, "none")}
      OBVIOUS
    <3>2. Ends(Range(rest), code, told) /\ current = r /\ stack' # <<>> /\ stack'[1] = Callback(code)
      BY <2>6, <3>1 DEF SendEnds
    <3>3. Ends({}, code, told) BY <2>4, <3>2
    <3>4. \A t \in told : t.fn # "onTermination" /\ (t.fn = "error" => t.code = code)
      BY <3>1, EventKinds
    <3>5. current # NoRequest BY <2>3, <3>2, NamesAssumption
    <3>. QED BY <1>2, <1>3, <1>4, <2>1, <3>2, <3>3, <3>4, <3>5, TrustFails
  <2>7. CASE SendPasses(r, timer, Range(rest)) /\ stack' = rest
    <3>1. UNCHANGED <<current, queue, stack>> BY <2>2, <2>7 DEF SendPasses
    <3>. QED BY <1>7, <2>1, <3>1
  <2>. QED BY <2>1, <2>2, <2>3, <2>4, <2>5, <2>6, <2>7, SendFails
<1>13. CASE Receive
  <2>1. /\ Head(main).req \in Requests
        /\ \/ UNCHANGED <<worker, client, stack>>
           \/ Mismatches(Head(main).req)
           \/ Answered(Head(main).req, Head(main).code)
    BY <1>13, ReceiveEffect
  <2>2. PICK r, code : r = Head(main).req /\ code = Head(main).code OBVIOUS
  <2>3. CASE Mismatches(r)
    <3>1. PICK told : told = {Callback("mismatch")} OBVIOUS
    <3>2. /\ Ends({}, "mismatch", told) /\ current = r /\ stack' # <<>>
          /\ stack'[1] = Callback("mismatch")
          /\ worker' = IF IsRunning THEN "stopping" ELSE worker
      BY <2>3, <3>1 DEF Mismatches
    <3>3. \A t \in told : t.fn # "onTermination" /\ (t.fn = "error" => t.code = "mismatch")
      BY <3>1, EventKinds
    <3>4. current # NoRequest BY <2>1, <2>2, <3>2, NamesAssumption
    <3>5. (worker' = "running" => worker = "running") /\ (worker = "none" => worker' = "none")
      BY <3>2 DEF IsRunning
    <3>6. PICK m : m = "mismatch" OBVIOUS
    <3>. QED BY <1>2, <1>3, <1>4, <3>2, <3>3, <3>4, <3>5, <3>6, TrustFails
  <2>4. CASE Answered(r, code) BY <1>1, <1>3, <1>4, <2>1, <2>2, <2>4, TrustAnswered
  <2>. QED BY <1>7, <2>1, <2>2, <2>3, <2>4 DEF client
<1>. QED BY <1>9, <1>10, <1>11, <1>12, <1>13

LEMMA TrustNext ==
  ASSUME Base, FlowInv, StageInv, TrustInv, [SessionNext]_sessionVars
  PROVE  TrustInv'
<1>1. CASE UNCHANGED sessionVars
  <2>1. /\ UNCHANGED <<stack, asked, result, current, queue, worker, main>> /\ UNCHANGED session
    BY <1>1 DEF sessionVars, vars, client, history, process
  <2>2. SameTrust /\ UNCHANGED <<configured, recovery>> BY <2>1, SameSessionTrust
  <2>3. ~configured => worker = "none" BY DEF TrustInv, Unconfigured
  <2>. QED BY <2>1, <2>2, <2>3, TrustStill DEF Queued, Blocks
<1>. QED
  BY <1>1, TrustWorld, TrustStart, TrustApplication, TrustSend, TrustTransmit, TrustFinish,
     TrustDeliver, TrustEndDelivery, TrustTasks, TrustReplies, TrustStarted, TrustMain
     DEF SessionNext, SessionApplication, SessionHandlers, SessionCallbacks, SessionMainQueue,
         SessionTimeout, SessionWorld, MainQueue, World

LEMMA TrustInit == SessionInit => TrustInv
<1>1. HAVE SessionInit
<1>2. /\ stack = <<>> /\ main = <<>> /\ worker = "none" /\ recovery = "none" /\ current = NoRequest
      /\ result = [r \in Requests |-> "none"] /\ startedIn = [r \in Requests |-> 0] /\ lifetime = 1
  BY <1>1 DEF SessionInit, Init
<1>3. On = {} /\ Blocks = {} BY <1>2, RangeTuples DEF On, Blocks
<1>4. ASSUME NEW r \in Requests
      PROVE  TrustOf(r)
  <2>1. startedIn[r] = 0 /\ current # r /\ ~Ended(r)
    BY <1>2, <1>3, KnownCodes, NamesAssumption DEF Ended
  <2>. QED BY <1>2, <2>1 DEF TrustOf
<1>. QED BY <1>2, <1>3, <1>4 DEF TrustInv, Unconfigured

(* Nothing that needs a trusted target is given to a running worker while   *)
(* the outcome of another request that could act on the same game process   *)
(* is unknown (TrainerBackendSession.swift:185, 447).                       *)
THEOREM TrustGateAlways == SessionSpec => TrustGate
<1>1. SessionInit => Base /\ FlowInv /\ StageInv /\ TrustInv
  BY BaseInit, FlowInit, StageInit, TrustInit
<1>2. Base /\ FlowInv /\ StageInv /\ TrustInv /\ [SessionNext]_sessionVars
        => (Base /\ FlowInv /\ StageInv /\ TrustInv)'
  BY BaseNext, FlowNext, StageNext, TrustNext
<1>3. ASSUME Base, FlowInv, StageInv, TrustInv, [SessionNext]_sessionVars
      PROVE  [\A r \in Trusted :
                worker = "running" /\ writing' = Append(writing, [req |-> r, gen |-> gen]) =>
                  \A q \in Requests : ~Doubtful(q)]_sessionVars
  <2>1. SUFFICES ASSUME NEW r \in Trusted, worker = "running",
                        writing' = Append(writing, [req |-> r, gen |-> gen]),
                        NEW q \in Requests, Doubtful(q)
                 PROVE  FALSE
    OBVIOUS
  <2>2. PICK job : job = [req |-> r, gen |-> gen] OBVIOUS
  <2>3. writing \in Seq([req : Requests, gen : Nat]) /\ gen \in Nat BY <1>3 DEF Base, ClientTypeOK
  <2>4. r \in Requests BY TrustedAssumption
  <2>5. Len(writing') = Len(writing) + 1 /\ writing'[Len(writing) + 1] = job
    <3>1. job \in [req : Requests, gen : Nat] BY <2>2, <2>3, <2>4
    <3>2. writing' = Append(writing, job) BY <2>1, <2>2
    <3>. QED BY <2>3, <3>1, <3>2
  <2>6. writing' # writing BY <2>3, <2>5
  <2>7. writing # <<>> => Len(Tail(writing)) = Len(writing) - 1 BY <2>3
  <2>8. ~Write BY <2>3, <2>5, <2>7 DEF Write
  <2>9. Transmit
    <3>1. UNCHANGED writing \/ Transmit
      <4>1. CASE Startup \/ Recover BY <1>3, <4>1, StartEffect
      <4>2. CASE Restart \/ SessionStop \/ BeginTermination \/ TargetLifetimeChanged \/ ScriptMissing
        BY <1>3, <4>2, ApplicationEffect
      <4>3. CASE \E p \in Requests : SessionSend(p) BY <4>3 DEF SessionSend, Send
      <4>4. CASE Answer \/ Garble \/ Exit BY <4>4 DEF Answer, Garble, Exit
      <4>5. CASE Terminated \/ Violation \/ Sent \/ Receive \/ Timeout
        BY <4>5 DEF Terminated, Violation, Sent, Receive, Timeout
      <4>6. CASE Finish \/ Deliver \/ EndDelivery \/ StopWorker \/ CallRequest \/ Return
        BY <4>6 DEF Finish, Deliver, EndDelivery, StopWorker, CallRequest, Return
      <4>7. CASE SessionCallbacks
        BY <1>3, <4>7, TaskEffect
      <4>8. CASE UNCHANGED sessionVars BY <4>8 DEF sessionVars, vars
      <4>. QED
        BY <1>3, <2>8, <4>1, <4>2, <4>3, <4>4, <4>5, <4>6, <4>7, <4>8
           DEF SessionNext, SessionApplication, SessionHandlers, SessionMainQueue, SessionTimeout,
               SessionWorld, MainQueue, World
    <3>. QED BY <2>6, <3>1
  <2>10. PICK s : s = stack[1].req OBVIOUS
  <2>11. /\ s \in Requests /\ stack # <<>> /\ stack[1].fn = "transmit"
         /\ writing' = Append(writing, [req |-> s, gen |-> gen])
    BY <1>3, <2>6, <2>9, <2>10, TransmitEffect
  <2>12. s = r
    <3>1. PICK other : other = [req |-> s, gen |-> gen] OBVIOUS
    <3>2. other \in [req : Requests, gen : Nat] BY <2>3, <2>11, <3>1
    <3>3. writing' = Append(writing, other) BY <2>11, <3>1
    <3>4. writing'[Len(writing) + 1] = other BY <2>3, <3>2, <3>3
    <3>5. job = other BY <2>5, <3>4
    <3>. QED BY <2>2, <3>1, <3>5
  <2>13. stack[1] \in On BY <1>3, <2>11, Below
  <2>14. Sending(r) BY <2>10, <2>11, <2>12, <2>13 DEF Sending
  <2>15. Ended(q) /\ Here(q) BY <2>1 DEF Doubtful, Ended, Here
  <2>16. Purged BY <1>3, <2>15 DEF TrustInv, TrustOf
  <2>. QED BY <2>1, <2>14, <2>16 DEF Purged
<1>. QED BY <1>1, <1>2, <1>3, PTL DEF SessionSpec, TrustGate

--------------------------------------------------------------------------------
(* What a step does to the worker and to what waits on the main queue.      *)
Stopped == worker' = worker \/ (IsRunning /\ worker' = "stopping")

Moves ==
  \/ UNCHANGED main /\ (Stopped \/ (Idle /\ worker = "none" /\ worker' = "running"))
  \/ main # <<>> /\ main' = Tail(main) /\ Head(main).fn # "terminated" /\ Stopped
  \/ Terminated
  \/ \E t \in Posted : t.fn # "terminated" /\ main' = Append(main, t) /\ UNCHANGED worker
  \/ Exit

LEMMA WorldMoves ==
  ASSUME Base, World
  PROVE  Moves
<1>1. ASSUME NEW ev \in BlockKinds \ {"terminated"}, NEW r \in Requests \cup {NoRequest},
             NEW code \in Codes, ev \in OfRequest => r \in Requests,
             ev = "sent" => code \in {"encodeFailed", "sendFailed", "sendUnknown"},
             Post(ev, r, code), UNCHANGED worker
      PROVE  Moves
  <2>1. PICK t : t = Task(ev, r, code) OBVIOUS
  <2>2. t \in Posted /\ t.fn # "terminated" BY <1>1, <2>1 DEF Task, Posted
  <2>. QED BY <1>1, <2>1, <2>2 DEF Post, Moves
<1>2. CASE Write
  <2>1. writing # <<>> BY <1>2 DEF Write
  <2>2. PICK job : job = Head(writing) OBVIOUS
  <2>3. job.req \in Requests
    <3>1. writing \in Seq([req : Requests, gen : Nat]) BY DEF Base, ClientTypeOK
    <3>2. job \in [req : Requests, gen : Nat] BY <2>1, <2>2, <3>1, RangeTail
    <3>. QED BY <3>2
  <2>4. /\ UNCHANGED worker
        /\ \/ UNCHANGED main
           \/ \E code \in {"encodeFailed", "sendFailed", "sendUnknown"} : Post("sent", job.req, code)
    BY <1>2, <2>2 DEF Write
  <2>5. {"encodeFailed", "sendFailed", "sendUnknown"} \subseteq Codes
    BY CodeTypes DEF NotSent, Unknown
  <2>6. CASE UNCHANGED <<main, worker>> BY <2>6 DEF Moves, Stopped
  <2>. QED BY <1>1, <2>3, <2>4, <2>5, <2>6 DEF BlockKinds, OfRequest
<1>3. CASE Answer
  <2>1. inbox # <<>> /\ UNCHANGED worker BY <1>3 DEF Answer
  <2>2. Head(inbox) \in Requests BY <2>1 DEF Base, ClientTypeOK
  <2>3. PICK code \in Answers \cup {"mismatch"} : Post("message", Head(inbox), code)
    BY <1>3 DEF Answer
  <2>4. code \in Codes BY <2>3, AnswersAssumption, CodeTypes DEF Replies, Unknown
  <2>. QED BY <1>1, <2>1, <2>2, <2>3, <2>4 DEF BlockKinds
<1>4. CASE Garble
  <2>1. Post("violation", NoRequest, "none") /\ UNCHANGED worker BY <1>4 DEF Garble, process
  <2>. QED BY <1>1, <2>1, CodeTypes DEF BlockKinds, OfRequest
<1>. QED BY <1>2, <1>3, <1>4 DEF World, Moves

LEMMA StepMoves ==
  ASSUME Base, FlowInv, [SessionNext]_sessionVars
  PROVE  Moves
<1>1. UNCHANGED <<main, worker>> => Moves BY DEF Moves, Stopped
<1>2. CASE Startup \/ Recover
  BY <1>1, <1>2, StartEffect DEF vars, process, IsStarted, Moves
<1>3. CASE Restart \/ SessionStop \/ BeginTermination \/ TargetLifetimeChanged \/ ScriptMissing
  BY <1>1, <1>3, ApplicationEffect DEF process
<1>4. CASE \E r \in Requests : SessionSend(r)
  BY <1>1, <1>4 DEF SessionSend, Send, process
<1>5. CASE Transmit \/ Deliver \/ EndDelivery \/ CallRequest \/ Return \/ SessionCallbacks \/ Timeout
  BY <1>1, <1>5
     DEF Transmit, Deliver, EndDelivery, CallRequest, Return, SessionCallbacks, RequestStarted,
         OnReply, Replied, OnMismatch, OnClientError, HandleTermination, ScheduleRecovery, CallOwner,
         Timeout, process
<1>6. CASE Finish \/ StopWorker
  BY <1>6 DEF Finish, StopWorker, Moves, Stopped
<1>7. CASE Violation \/ Sent \/ Receive
  BY <1>7 DEF Violation, Sent, Receive, Moves, Stopped, process
<1>8. CASE UNCHANGED sessionVars BY <1>1, <1>8, Stutter
<1>. QED
  BY <1>2, <1>3, <1>4, <1>5, <1>6, <1>7, <1>8, WorldMoves
     DEF SessionNext, SessionApplication, SessionHandlers, SessionMainQueue, SessionTimeout,
         SessionWorld, MainQueue, Moves

LEMMA ExitNext ==
  ASSUME Base, ExitInv, Moves
  PROVE  ExitInv'
<1>1. main \in Seq(Posted) BY DEF Base, ClientTypeOK
<1>2. DOMAIN main = 1..Len(main) /\ Len(main) \in Nat BY <1>1
<1>3. (\E t \in Blocks : t.fn = "terminated") <=> \E i \in 1..Len(main) : main[i].fn = "terminated"
  BY <1>2 DEF Blocks, Range
<1>4. CASE UNCHANGED main /\ (Stopped \/ (Idle /\ worker = "none" /\ worker' = "running"))
  <2>1. worker' = "exited" <=> worker = "exited" BY <1>4 DEF Stopped, IsRunning
  <2>. QED BY <1>4, <2>1 DEF ExitInv, Blocks
<1>5. ASSUME main # <<>>, main' = Tail(main)
      PROVE  /\ Head(main) = main[1] /\ DOMAIN main' = 1..(Len(main) - 1)
             /\ \A i \in 1..(Len(main) - 1) : main'[i] = main[i + 1] /\ i + 1 \in 1..Len(main)
             /\ Len(main) \in Nat \ {0}
  BY <1>1, <1>5, RangeTail
<1>6. CASE main # <<>> /\ main' = Tail(main) /\ Head(main).fn # "terminated" /\ Stopped
  <2>1. worker' = "exited" <=> worker = "exited" BY <1>6 DEF Stopped, IsRunning
  <2>2. (\E t \in Blocks' : t.fn = "terminated") <=>
          \E i \in 1..(Len(main) - 1) : main'[i].fn = "terminated"
    BY <1>5, <1>6 DEF Blocks, Range
  <2>3. (\E i \in 1..(Len(main) - 1) : main'[i].fn = "terminated") <=>
          \E i \in 1..Len(main) : main[i].fn = "terminated"
    <3>1. ASSUME NEW i \in 1..Len(main), main[i].fn = "terminated"
          PROVE  \E j \in 1..(Len(main) - 1) : main'[j].fn = "terminated"
      <4>1. i # 1 BY <1>5, <1>6, <3>1
      <4>2. i - 1 \in 1..(Len(main) - 1) /\ i - 1 + 1 = i BY <1>2, <4>1
      <4>. QED BY <1>5, <1>6, <3>1, <4>2
    <3>. QED BY <1>5, <1>6, <3>1
  <2>4. \A i, j \in DOMAIN main' :
          main'[i].fn = "terminated" /\ main'[j].fn = "terminated" => i = j
    <3>1. SUFFICES ASSUME NEW i \in 1..(Len(main) - 1), NEW j \in 1..(Len(main) - 1),
                          main'[i].fn = "terminated", main'[j].fn = "terminated"
                   PROVE  i = j
      BY <1>5, <1>6
    <3>2. i + 1 = j + 1 BY <1>2, <1>5, <1>6, <3>1 DEF ExitInv
    <3>. QED BY <3>1, <3>2
  <2>. QED BY <1>3, <2>1, <2>2, <2>3, <2>4 DEF ExitInv
<1>7. CASE Terminated
  <2>1. main # <<>> /\ main' = Tail(main) /\ Head(main).fn = "terminated" /\ worker' = "none"
    BY <1>7 DEF Terminated
  <2>2. \A i \in 1..(Len(main) - 1) : main'[i].fn # "terminated"
    <3>1. SUFFICES ASSUME NEW i \in 1..(Len(main) - 1), main'[i].fn = "terminated"
                   PROVE  FALSE
      OBVIOUS
    <3>2. main[i + 1].fn = "terminated" /\ main[1].fn = "terminated" /\ i + 1 \in 1..Len(main)
          /\ 1 \in 1..Len(main)
      BY <1>2, <1>5, <2>1, <3>1
    <3>3. i + 1 = 1 BY <1>2, <3>2 DEF ExitInv
    <3>. QED BY <3>1, <3>3
  <2>3. \A t \in Blocks' : t.fn # "terminated" BY <1>5, <2>1, <2>2 DEF Blocks, Range
  <2>4. \A i, j \in DOMAIN main' :
          main'[i].fn = "terminated" /\ main'[j].fn = "terminated" => i = j
    BY <1>5, <2>1, <2>2
  <2>. QED BY <2>1, <2>3, <2>4 DEF ExitInv
<1>8. ASSUME NEW t \in Posted, main' = Append(main, t)
      PROVE  /\ DOMAIN main' = 1..(Len(main) + 1) /\ main'[Len(main) + 1] = t
             /\ \A i \in 1..Len(main) : main'[i] = main[i]
             /\ Blocks' = Blocks \cup {t}
  BY <1>1, <1>8, RangeAppend DEF Blocks
<1>9. ASSUME NEW t \in Posted, t.fn # "terminated", main' = Append(main, t), UNCHANGED worker
      PROVE  ExitInv'
  <2>1. (\E u \in Blocks' : u.fn = "terminated") <=> \E u \in Blocks : u.fn = "terminated"
    BY <1>8, <1>9
  <2>2. \A i, j \in DOMAIN main' :
          main'[i].fn = "terminated" /\ main'[j].fn = "terminated" => i = j
    <3>1. \A i \in DOMAIN main' : main'[i].fn = "terminated" =>
            i \in DOMAIN main /\ main[i].fn = "terminated"
      BY <1>2, <1>8, <1>9
    <3>. QED BY <3>1 DEF ExitInv
  <2>. QED BY <1>9, <2>1, <2>2 DEF ExitInv
<1>10. CASE Exit
  <2>1. PICK t : t = Task("terminated", NoRequest, "none") OBVIOUS
  <2>2. /\ IsRunning /\ worker' = "exited" /\ main' = Append(main, t)
    BY <1>10, <2>1 DEF Exit, Post
  <2>3. t.fn = "terminated" /\ t \in Posted BY <2>1, CodeTypes DEF Task, Posted, BlockKinds, OfRequest
  <2>4. \A i \in 1..Len(main) : main[i].fn # "terminated" BY <1>3, <2>2 DEF ExitInv, IsRunning
  <2>5. \A i \in DOMAIN main' : main'[i].fn = "terminated" => i = Len(main) + 1
    BY <1>2, <1>8, <2>2, <2>3, <2>4
  <2>. QED BY <1>8, <2>2, <2>3, <2>5 DEF ExitInv
<1>. QED BY <1>4, <1>6, <1>7, <1>9, <1>10 DEF Moves

(* A step adds to the stack, or takes the task on top.                      *)
Takes == stack # <<>> /\ On = {stack[1]} \cup Under /\ Under \subseteq On'

LEMMA EndsRemain ==
  ASSUME NEW base, NEW code, NEW told, Ends(base, code, told)
  PROVE  base \subseteq On'
BY DEF Ends, Holds

LEMMA Remains ==
  ASSUME Base, FlowInv, [SessionNext]_sessionVars
  PROVE  On \subseteq On' \/ (SessionHandlers /\ Takes)
<1>1. UNCHANGED stack => On \subseteq On' BY DEF On
<1>2. ASSUME NEW r \in Requests, SessionSend(r)
      PROVE  On \subseteq On'
  <2>1. AppRuns BY <1>2 DEF SessionSend, Send
  <2>2. ~Top("endDelivery") BY <2>1, EventKinds DEF AppRuns, Top
  <2>3. \/ \E code \in NotSent : Declined(r, code)
        \/ \E i \in DOMAIN queue : Replaced(r, i)
        \/ Joined(r)
        \/ Dispatched(r)
    BY <1>2, SendEffect
  <2>. QED BY <1>1, <2>2, <2>3 DEF Declined, Replaced, Joined, Dispatched, Holds
<1>3. CASE Startup \/ Recover BY <1>1, <1>3, StartEffect
<1>4. CASE Restart \/ SessionStop \/ BeginTermination \/ TargetLifetimeChanged \/ ScriptMissing
  BY <1>1, <1>4, ApplicationEffect DEF Interrupts, Leaves, Holds
<1>5. CASE Terminated \/ Violation \/ Sent \/ Receive \/ Timeout
  BY <1>5, Below DEF Terminated, Violation, Sent, Receive, Timeout
<1>6. CASE World BY <1>1, <1>6 DEF World, Write, Answer, Garble, Exit
<1>7. CASE UNCHANGED sessionVars BY <1>1, <1>7, Stutter
<1>8. CASE SessionHandlers
  <2>1. stack # <<>> => On = {stack[1]} \cup Under BY UnderTop
  <2>2. (stack # <<>> /\ Under \subseteq On') => Takes BY <2>1 DEF Takes
  <2>3. CASE Transmit
    <3>1. CASE Popped({}) BY <1>8, <2>2, <3>1 DEF Popped, Holds
    <3>2. CASE SendEnds(stack[1].req, "sendFailed", Under)
      BY <1>8, <2>2, <2>3, <3>2, TransmitEffect, EndsRemain DEF SendEnds
    <3>3. CASE SendPasses(stack[1].req, stack[1].req, Under)
      BY <1>8, <2>2, <2>3, <3>3, TransmitEffect DEF SendPasses, Holds
    <3>. QED BY <2>3, <3>1, <3>2, <3>3, TransmitEffect
  <2>4. CASE Finish BY <1>8, <2>2, <2>4, FinishEffect, EndsRemain
  <2>5. CASE Deliver BY <1>8, <2>2, <2>5, DeliverEffect DEF Popped, Holds
  <2>6. CASE EndDelivery /\ UNCHANGED session
    <3>1. ASSUME NEW r \in Requests, Dispatched(r)
          PROVE  On \subseteq On' \/ (stack # <<>> /\ Under \subseteq On')
      BY <3>1 DEF Dispatched, Holds, Top
    <3>2. CASE FlushFails BY <1>8, <2>2, <2>6, <3>2, EndDeliveryEffect, EndsRemain DEF FlushFails
    <3>3. CASE Popped({}) BY <1>8, <2>2, <3>3 DEF Popped, Holds
    <3>. QED BY <1>8, <2>2, <2>6, <3>1, <3>2, <3>3, EndDeliveryEffect
  <2>7. CASE StopWorker \/ CallRequest \/ Return \/ SessionCallbacks BY <1>8, <2>2, <2>7, TaskEffect
  <2>. QED BY <1>8, <2>3, <2>4, <2>5, <2>6, <2>7 DEF SessionHandlers
<1>. QED
  BY <1>2, <1>3, <1>4, <1>5, <1>6, <1>7, <1>8
     DEF SessionNext, SessionApplication, SessionMainQueue, SessionTimeout, SessionWorld, MainQueue

(* Which handler takes which task.                                          *)
LEMMA TakenBy ==
  ASSUME SessionHandlers, stack # <<>>
  PROVE  /\ stack[1].fn = "stopProcess" => StopWorker
         /\ stack[1].fn \in {"stop", "terminate"} => Finish
         /\ stack[1].fn = "deliver" => Deliver
         /\ stack[1].fn = "onTermination" => HandleTermination
         /\ stack[1].fn = "schedule" => ScheduleRecovery
         /\ stack[1].fn = "reply" => OnReply
         /\ stack[1].fn = "error" => OnMismatch \/ OnClientError
         /\ stack[1].fn = "complete" => CallRequest
         /\ stack[1].fn = "endDelivery" => EndDelivery
         /\ stack[1].fn = "transmit" => Transmit
BY DEF SessionHandlers, SessionCallbacks, Top, StopWorker, Finish, Deliver, HandleTermination, ScheduleRecovery,
       OnReply, OnMismatch, OnClientError, CallRequest, EndDelivery, Transmit, RequestStarted,
       Replied, Return

(* Once the worker is on its way out it stays so, until the session hears of*)
(* its end.                                                                 *)
LEMMA LeavingKept ==
  ASSUME Base, FlowInv, Leaving, [SessionNext]_sessionVars, ~HandleTermination
  PROVE  Leaving'
<1>1. Moves BY StepMoves
<1>2. On \subseteq On' \/ (SessionHandlers /\ Takes) BY Remains
<1>3. CASE Terminated
  <2>1. worker' = "none" /\ AppRuns /\ Call(Interrupting("terminate"))
    BY <1>3, NothingOn DEF Terminated
  <2>2. On' = Interruption("terminate") \cup On BY <2>1, InterruptEffect DEF Interrupts, Leaves, Holds
  <2>3. \E t \in Interruption("terminate") : t.fn = "terminate"
    BY EventKinds DEF Interruption
  <2>. QED BY <2>1, <2>2, <2>3 DEF Leaving, Closing
<1>4. CASE Exit BY <1>4 DEF Exit, Leaving
<1>5. CASE ~Terminated /\ ~Exit
  <2>1. worker' = worker \/ worker' = "stopping" \/ (Idle /\ worker = "none")
    BY <1>1, <1>5 DEF Moves, Stopped
  <2>2. CASE worker' = "stopping" BY <2>2 DEF Leaving
  <2>3. CASE Idle /\ worker = "none" BY <2>3, Below DEF Leaving
  <2>4. CASE worker' = worker /\ worker \in {"stopping", "exited"} BY <2>4 DEF Leaving
  <2>5. CASE worker' = worker /\ worker = "running"
    <3>1. PICK t \in On : Ending(t) BY <2>5 DEF Leaving
    <3>2. CASE t \in On' BY <2>5, <3>1, <3>2 DEF Leaving
    <3>3. CASE t \notin On'
      <4>1. SessionHandlers /\ stack # <<>> /\ t = stack[1] BY <1>2, <3>1, <3>3 DEF Takes
      <4>2. stack[1].fn # "stopProcess"
        <5>1. StopWorker => worker' = "stopping" BY <2>5 DEF StopWorker, IsRunning
        <5>. QED BY <2>5, <4>1, <5>1, TakenBy
      <4>3. stack[1].fn # "stop"
        <5>1. stack[1].fn = "stop" /\ Finish => worker' = "stopping"
          BY <2>5, FinishEffect DEF IsRunning
        <5>. QED BY <2>5, <4>1, <5>1, TakenBy
      <4>4. stack[1].fn = "deliver" /\ stack[1].code \in Fatal BY <3>1, <4>1, <4>2, <4>3 DEF Ending
      <4>5. StopProcess \in On'
        BY <4>1, <4>4, TakenBy, DeliverEffect DEF Popped, Holds, Delivered
      <4>. QED BY <2>5, <4>5, EventKinds DEF Leaving, Ending
    <3>. QED BY <3>2, <3>3
  <2>6. CASE worker' = worker /\ worker = "none"
    <3>1. PICK t \in On : Closing(t) BY <2>6 DEF Leaving
    <3>2. CASE t \in On' BY <2>6, <3>1, <3>2 DEF Leaving
    <3>3. CASE t \notin On'
      <4>1. SessionHandlers /\ stack # <<>> /\ t = stack[1] BY <1>2, <3>1, <3>3 DEF Takes
      <4>2. stack[1].fn = "terminate" BY <3>1, <4>1, TakenBy DEF Closing
      <4>3. PICK u : u = Task("onTermination", NoRequest, "none") OBVIOUS
      <4>4. u \in On'
        BY <4>1, <4>2, <4>3, TakenBy, FinishEffect DEF Ends, Holds
      <4>. QED BY <2>6, <4>3, <4>4, EventKinds DEF Leaving, Closing
    <3>. QED BY <3>2, <3>3
  <2>. QED BY <2>1, <2>2, <2>3, <2>4, <2>5, <2>6 DEF Base, ClientTypeOK
<1>. QED BY <1>3, <1>4, <1>5

--------------------------------------------------------------------------------
(* The queue and the request in flight.                                     *)
Turns == {"deliver", "endDelivery", "transmit", "terminate"}

LEMMA TurnKept ==
  ASSUME TurnInv, UNCHANGED <<current, timer, delivering, terminal>>,
         queue' # <<>> => queue # <<>>,
         worker' = "none" => worker = "none" \/ \E t \in On' : t.fn = "terminate",
         \A t \in On : t.fn \in Turns => t \in On',
         \A t \in On' : t \in On \/ t.fn # "endDelivery"
  PROVE  TurnInv'
<1>1. \A t \in On : Turning(t) => t \in On' BY DEF Turning, Turns
<1>2. \A r : Sending(r) => Sending(r)' BY DEF Sending, Turns
<1>3. PICK c : c = current OBVIOUS
<1>4. queue' # <<>> => current' # NoRequest \/ \E t \in On' : Turning(t) BY <1>1 DEF TurnInv
<1>5. delivering' => \E t \in On' : t.fn \in {"deliver", "endDelivery"} BY DEF TurnInv, Turns
<1>6. c # NoRequest => timer' = c \/ Sending(c)' BY <1>2, <1>3 DEF TurnInv
<1>7. worker' = "none" /\ current' # NoRequest => \E t \in On' : t.fn = "terminate"
  BY DEF TurnInv, Turns
<1>8. \A t \in On' : t.fn = "endDelivery" => t.code = "flush" \/ terminal' BY DEF TurnInv
<1>. QED BY <1>3, <1>4, <1>5, <1>6, <1>7, <1>8 DEF TurnInv, Turning, Sending

(* Nothing is in flight and nothing waits any more.                         *)
LEMMA TurnEnds ==
  ASSUME current' = NoRequest, queue' = <<>>, terminal' = TRUE,
         delivering' => \E t \in On' : t.fn = "endDelivery"
  PROVE  TurnInv'
BY DEF TurnInv

LEMMA TurnDispatched ==
  ASSUME Base, TurnInv, NEW r \in Requests, Dispatched(r)
  PROVE  TurnInv'
<1>1. /\ current' = r /\ r # NoRequest /\ ~delivering' /\ IsRunning /\ UNCHANGED <<worker, terminal>>
  BY NamesAssumption DEF Dispatched, process
<1>2. PICK base : base \subseteq On /\ On' = StartOf(r) \cup base
  <2>1. CASE Holds(StartOf(r) \cup On) BY <2>1 DEF Holds
  <2>2. CASE Top("endDelivery") /\ Holds(StartOf(r) \cup Under) BY <2>2, Below DEF Holds, Top
  <2>. QED BY <2>1, <2>2 DEF Dispatched
<1>3. \A t \in StartOf(r) : t.fn \in {"started", "transmit"} BY EventKinds DEF StartOf
<1>4. Sending(r)' BY <1>2, EventKinds DEF StartOf, Sending
<1>5. \A t \in On' : t.fn = "endDelivery" => t.code = "flush" \/ terminal'
  BY <1>1, <1>2, <1>3 DEF TurnInv
<1>. QED BY <1>1, <1>4, <1>5 DEF TurnInv, IsRunning, Sending

LEMMA TurnSend ==
  ASSUME Base, FlowInv, TurnInv, NEW r \in Requests, SessionSend(r)
  PROVE  TurnInv'
<1>1. ASSUME NEW code \in NotSent, Declined(r, code)
      PROVE  TurnInv'
  <2>1. /\ UNCHANGED <<current, timer, delivering, terminal, queue, worker>>
        /\ On \subseteq On' /\ \A t \in On' : t \in On \/ t.fn \in {"complete", "error"}
    BY <1>1, EventKinds DEF Declined, Holds, client, process
  <2>. QED BY <2>1, TurnKept
<1>2. ASSUME NEW i \in DOMAIN queue, Replaced(r, i)
      PROVE  TurnInv'
  <2>1. queue # <<>> BY <1>2
  <2>2. /\ UNCHANGED <<current, timer, delivering, terminal, worker>>
        /\ On \subseteq On' /\ \A t \in On' : t \in On \/ t.fn = "complete"
    BY <1>2, EventKinds DEF Replaced, Holds, process
  <2>. QED BY <2>1, <2>2, TurnKept
<1>3. CASE Joined(r)
  <2>1. /\ UNCHANGED <<current, timer, delivering, terminal, worker>> /\ On' = On
        /\ Busy /\ ~terminal
    BY <1>3 DEF Joined, process, On
  <2>2. current # NoRequest \/ \E t \in On : Turning(t)
    BY <2>1 DEF Busy, TurnInv, Turning
  <2>. QED BY <2>1, <2>2 DEF TurnInv, Sending
<1>. QED BY <1>1, <1>2, <1>3, SendEffect, TurnDispatched

LEMMA TurnStart ==
  ASSUME Base, TurnInv, Startup \/ Recover
  PROVE  TurnInv'
<1>1. On = {} /\ On' = {} BY StartEffect, Below DEF On
<1>2. \/ current' = NoRequest /\ queue' = <<>> /\ delivering' = FALSE
      \/ UNCHANGED <<worker, current, queue, timer>> /\ delivering' = FALSE
      \/ UNCHANGED <<worker, current, queue, timer, delivering>>
  BY StartEffect DEF process, vars, client
<1>. QED BY <1>1, <1>2 DEF TurnInv, Sending

LEMMA TurnHandlers ==
  ASSUME Base, FlowInv, TurnInv, UNCHANGED session, Transmit \/ Finish \/ Deliver \/ EndDelivery
  PROVE  TurnInv'
<1>1. stack # <<>> BY DEF Transmit, Finish, Deliver, EndDelivery, Top
<1>2. Under \subseteq On /\ On = {stack[1]} \cup Under /\ FlowOf(stack[1])
  BY <1>1, UnderTop, Below DEF FlowInv
<1>3. CASE Transmit
  <2>1. PICK r : r = stack[1].req OBVIOUS
  <2>2. stack[1].fn = "transmit" /\ r \in Requests /\ r # NoRequest /\ UNCHANGED worker
    BY <1>3, <2>1, TransmitEffect, NamesAssumption DEF process
  <2>3. current = r \/ current = NoRequest BY <1>2, <2>1, <2>2 DEF FlowOf, FlowInv
  <2>4. ASSUME Holds(Under), timer' = r, UNCHANGED <<current, queue, delivering, terminal>>
        PROVE  TurnInv'
    <3>1. On' = Under BY <2>4 DEF Holds
    <3>2. \A t \in On : t.fn # "transmit" => t \in On' BY <1>2, <2>2, <3>1
    <3>3. \A t \in On : Turning(t) => t \in On' BY <3>2 DEF Turning
    <3>. QED BY <1>2, <2>2, <2>3, <2>4, <3>1, <3>2, <3>3 DEF TurnInv, Sending
  <2>5. CASE Popped({}) /\ timer' = r /\ UNCHANGED <<current, queue, delivering, terminal>>
    BY <2>4, <2>5 DEF Popped
  <2>6. CASE SendEnds(r, "sendFailed", Under)
    <3>1. PICK told : told = {Callback("sendFailed"), StopProcess,
                              Task("endDelivery", NoRequest, "none")}
      OBVIOUS
    <3>2. Ends(Under, "sendFailed", told) BY <2>6, <3>1 DEF SendEnds
    <3>3. \E t \in On' : t.fn = "endDelivery" BY <3>1, <3>2, EventKinds DEF Ends, Holds
    <3>. QED BY <3>2, <3>3, TurnEnds DEF Ends
  <2>7. CASE SendPasses(r, r, Under) BY <2>4, <2>7 DEF SendPasses
  <2>. QED BY <1>3, <2>1, <2>5, <2>6, <2>7, TransmitEffect
<1>4. CASE Finish BY <1>4, FinishEffect, TurnEnds DEF Ends
<1>5. CASE Deliver
  <2>1. /\ stack[1].fn = "deliver" /\ On' = Delivered(stack[1].req, stack[1].code) \cup Under
        /\ UNCHANGED current
    BY <1>5, DeliverEffect DEF Popped, Holds
  <2>2. current = NoRequest BY <1>2, <2>1 DEF FlowOf, Replying
  <2>3. PICK f : f = Task("endDelivery", NoRequest, "flush") OBVIOUS
  <2>4. f \in On' /\ f.fn = "endDelivery" /\ f.code = "flush" BY <2>1, <2>3, EventKinds DEF Delivered
  <2>5. \A t \in On' : t.fn = "endDelivery" => t.code = "flush" \/ t \in Under
    BY <2>1, EventKinds DEF Delivered, Cancelled
  <2>6. terminal' = terminal BY <1>5, DeliverEffect
  <2>. QED BY <1>2, <2>1, <2>2, <2>4, <2>5, <2>6 DEF TurnInv, Turning
<1>6. CASE EndDelivery
  <2>1. stack[1].fn = "endDelivery" /\ delivering' = FALSE /\ UNCHANGED <<worker, timer>>
    BY <1>6, EndDeliveryEffect DEF process
  <2>2. CASE FlushFails BY <2>1, <2>2, TurnEnds DEF FlushFails, Ends
  <2>3. CASE /\ stack[1].code = "flush" => current # NoRequest \/ queue = <<>>
             /\ Popped({}) /\ UNCHANGED <<queue, current, terminal>>
    <3>1. On' = Under BY <2>3 DEF Popped, Holds
    <3>2. \A t \in On : t.fn # "endDelivery" => t \in On' BY <1>2, <2>1, <3>1
    <3>3. queue # <<>> => current # NoRequest \/ \E t \in On' : Turning(t)
      <4>1. SUFFICES ASSUME queue # <<>>, current = NoRequest PROVE \E t \in On' : Turning(t)
        OBVIOUS
      <4>2. ~Turning(stack[1]) BY <2>1, <2>3, <4>1 DEF Turning
      <4>. QED BY <1>2, <3>1, <4>1, <4>2 DEF TurnInv
    <3>4. current # NoRequest => timer = current \/ \E t \in On' : t.fn = "transmit" /\ t.req = current
      BY <3>2 DEF TurnInv, Sending
    <3>. QED BY <1>2, <2>1, <2>3, <3>1, <3>2, <3>3, <3>4 DEF TurnInv, Sending
  <2>. QED BY <1>6, <2>2, <2>3, EndDeliveryEffect, TurnDispatched
<1>. QED BY <1>3, <1>4, <1>5, <1>6

(* Handlers that leave the client alone.                                    *)
LEMMA TurnTasks ==
  ASSUME Base, TurnInv, StopWorker \/ CallRequest \/ Return \/ SessionCallbacks
  PROVE  TurnInv'
<1>1. /\ stack # <<>> /\ UNCHANGED client /\ stack[1].fn \notin Turns
      /\ worker' = worker \/ (worker # "none" /\ worker' = "stopping")
  BY DEF StopWorker, CallRequest, Return, SessionCallbacks, RequestStarted, OnReply, Replied,
         OnMismatch, OnClientError, HandleTermination, ScheduleRecovery, CallOwner, Top, Turns, process, IsRunning
<1>2. On = {stack[1]} \cup Under BY <1>1, UnderTop
<1>3. Under \subseteq On' /\ \A t \in On' : t \in Under \/ t.fn \in {"app", "replied", "schedule"}
  BY TaskEffect
<1>. QED BY <1>1, <1>2, <1>3, TurnKept DEF client

LEMMA TurnMain ==
  ASSUME Base, TurnInv, FlowInv, Terminated \/ Violation \/ Sent \/ Receive \/ Timeout
  PROVE  TurnInv'
<1>1. Idle BY DEF Terminated, Violation, Sent, Receive, Timeout
<1>2. On = {} /\ AppRuns BY <1>1, NothingOn
<1>3. UNCHANGED <<client, stack, worker>> => TurnInv' BY TurnKept DEF client, On
<1>4. ASSUME NEW code \in Codes, Fail(code)
      PROVE  TurnInv'
  BY <1>2, <1>4, FailEnds, TurnEnds DEF Ends
<1>5. {"timeout", "idleProtocolError", "protocolError"} \subseteq Codes BY CodeTypes DEF Unknown
<1>6. ~delivering /\ (current # NoRequest => timer = current) BY <1>2 DEF TurnInv, Sending
<1>7. CASE Terminated
  <2>1. Call(Interrupting("terminate")) /\ UNCHANGED client BY <1>7 DEF Terminated
  <2>2. On' = Interruption("terminate") \cup On
    BY <1>2, <2>1, InterruptEffect DEF Interrupts, Leaves, Holds
  <2>3. /\ \E t \in Interruption("terminate") : t.fn = "terminate"
        /\ \A t \in Interruption("terminate") : t.fn # "endDelivery"
    BY EventKinds DEF Interruption
  <2>. QED BY <1>2, <2>1, <2>2, <2>3, TurnKept DEF client
<1>8. CASE Violation BY <1>3, <1>4, <1>5, <1>8 DEF Violation, process
<1>9. CASE Timeout
  <2>1. CASE /\ terminal \/ current # timer
             /\ timer' = NoRequest /\ UNCHANGED <<current, queue, delivering, terminal, stack>>
    <3>1. current = NoRequest BY <1>6, <2>1 DEF FlowInv
    <3>2. UNCHANGED worker /\ On' = On BY <1>9, <2>1 DEF Timeout, process, On
    <3>. QED BY <1>2, <2>1, <3>1, <3>2 DEF TurnInv
  <2>. QED BY <1>4, <1>5, <1>9, <2>1 DEF Timeout
<1>10. CASE Sent
  <2>1. /\ Head(main).fn = "sent" /\ main # <<>> /\ UNCHANGED worker
        /\ SendFailed(Head(main).req, Head(main).code, timer, stack)
    BY <1>10 DEF Sent, process
  <2>2. PICK r, code, rest : r = Head(main).req /\ code = Head(main).code /\ rest = stack
    OBVIOUS
  <2>3. r \in Requests /\ code \in {"encodeFailed", "sendFailed", "sendUnknown"}
    BY <2>1, <2>2, MainHead DEF Posted, OfRequest
  <2>4. Rest(rest) /\ Range(rest) = {} BY <1>2, <2>2 DEF Rest, On
  <2>5. CASE Unencoded(r, Range(rest))
    <3>1. current' = NoRequest BY <2>5 DEF Unencoded
    <3>2. PICK f : f = Task("endDelivery", NoRequest, "flush") OBVIOUS
    <3>3. f.fn = "endDelivery" /\ f.code = "flush" BY <3>2, EventKinds
    <3>4. On' = {Callback("encodeFailed"), Complete(r, "encodeFailed"), f}
      BY <2>4, <2>5, <3>2 DEF Unencoded, Leaves, Holds
    <3>5. \A t \in On' : t.fn = "endDelivery" => t.code = "flush" BY <3>3, <3>4, EventKinds
    <3>6. f \in On' BY <3>4
    <3>. QED BY <3>1, <3>3, <3>5, <3>6 DEF TurnInv, Turning
  <2>6. CASE SendEnds(r, code, Range(rest))
    <3>1. PICK told : told = {Callback(code), StopProcess, Task("endDelivery", NoRequest, "none")}
      OBVIOUS
    <3>2. Ends(Range(rest), code, told) BY <2>6, <3>1 DEF SendEnds
    <3>3. \E t \in On' : t.fn = "endDelivery" BY <3>1, <3>2, EventKinds DEF Ends, Holds
    <3>. QED BY <3>2, <3>3, TurnEnds DEF Ends
  <2>7. CASE SendPasses(r, timer, Range(rest)) /\ stack' = rest
    <3>1. UNCHANGED <<client, stack>> BY <2>2, <2>7 DEF SendPasses, client
    <3>. QED BY <1>3, <2>1, <3>1
  <2>. QED BY <2>1, <2>2, <2>3, <2>4, <2>5, <2>6, <2>7, SendFails
<1>11. CASE Receive
  <2>1. CASE UNCHANGED <<worker, client, stack>> BY <1>3, <2>1
  <2>2. CASE Mismatches(Head(main).req)
    BY <1>6, <2>2, TurnEnds DEF Mismatches, Ends
  <2>3. CASE Answered(Head(main).req, Head(main).code)
    <3>1. PICK a, d : /\ a = Task("reply", Head(main).req, Head(main).code)
                      /\ d = Task("deliver", Head(main).req, Head(main).code)
      OBVIOUS
    <3>2. current' = NoRequest /\ On' = {a, d} BY <2>3, <3>1 DEF Answered, Holds
    <3>3. a.fn = "reply" /\ d.fn = "deliver" BY <3>1, EventKinds
    <3>. QED BY <3>2, <3>3 DEF TurnInv, Turning
  <2>. QED BY <1>11, <2>1, <2>2, <2>3, ReceiveEffect
<1>. QED BY <1>7, <1>8, <1>9, <1>10, <1>11

LEMMA TurnNext ==
  ASSUME Base, FlowInv, TurnInv, [SessionNext]_sessionVars
  PROVE  TurnInv'
<1>1. CASE Restart \/ SessionStop \/ BeginTermination \/ TargetLifetimeChanged \/ ScriptMissing
  <2>1. UNCHANGED <<client, worker>> BY <1>1, ApplicationEffect DEF process
  <2>2. On \subseteq On' /\ \A t \in On' : t \in On \/ t.fn # "endDelivery"
    <3>1. CASE Interrupts("stop")
      BY <3>1, EventKinds DEF Interrupts, Leaves, Holds, Interruption
    <3>2. CASE UNCHANGED stack BY <3>2 DEF On
    <3>. QED BY <1>1, <3>1, <3>2, ApplicationEffect
  <2>. QED BY <2>1, <2>2, TurnKept DEF client
<1>2. CASE World
  <2>1. /\ UNCHANGED <<client, stack>>
        /\ worker' = "none" => worker = "none"
    BY <1>2 DEF World, Write, Answer, Garble, Exit, process
  <2>. QED BY <2>1, TurnKept DEF client, On
<1>3. CASE UNCHANGED sessionVars
  BY <1>3, Stutter, TurnKept DEF On
<1>. QED
  BY <1>1, <1>2, <1>3, TurnSend, TurnStart, TurnHandlers, TurnTasks, TurnMain
     DEF SessionNext, SessionApplication, SessionHandlers, SessionMainQueue, SessionTimeout,
         SessionWorld, MainQueue

--------------------------------------------------------------------------------
(* What becomes of each request.                                            *)
LEMMA AccountKept ==
  ASSUME AccountInv, UNCHANGED <<asked, result, current>>, Range(queue) \subseteq Range(queue'),
         \A t \in On : t.fn \in {"complete", "deliver"} => t \in On',
         \A t \in On' : t \in On \/ t.fn # "complete"
  PROVE  AccountInv'
<1>1. ASSUME NEW r \in asked
      PROVE  Accounted(r)'
  <2>1. Accounted(r) BY <1>1 DEF AccountInv
  <2>. QED BY <2>1 DEF Accounted, Queued
<1>2. \A t \in On' : t.fn = "complete" => t.code # "none" BY DEF AccountInv
<1>. QED BY <1>1, <1>2 DEF AccountInv

LEMMA AccountEnds ==
  ASSUME Base, AccountInv, UNCHANGED <<asked, result>>,
         NEW base, base \subseteq On, \A t \in On : t.fn \in {"complete", "deliver"} => t \in base,
         NEW code, NEW told, Ends(base, code, told), code # "none" \/ current = NoRequest
  PROVE  AccountInv'
<1>1. PICK drop : Drops(drop) /\ On' = told \cup Given(code) \cup drop \cup base
  BY DEF Ends, Holds
<1>2. \A t \in told : t.fn # "complete" BY DEF Ends, Plainly
<1>3. \A t \in Given(code) : t.code = code /\ current # NoRequest BY EventKinds DEF Given
<1>4. \A t \in drop : t.fn = "complete" /\ t.code # "none" BY <1>1 DEF Drops, NotSent
<1>5. PICK c : c = current OBVIOUS
<1>6. c # NoRequest => \E t \in Given(code) : t.fn = "complete" /\ t.req = c
  BY <1>5, EventKinds DEF Given
<1>7. ASSUME NEW r \in asked
      PROVE  Accounted(r)'
  <2>1. Accounted(r) /\ r # NoRequest BY <1>7, NamesAssumption DEF AccountInv, Base, ClientTypeOK
  <2>2. CASE result[r] # "none" BY <2>2 DEF Accounted
  <2>3. CASE Queued(r)
    <3>1. \E t \in drop : t.fn = "complete" /\ t.req = r BY <1>1, <2>3 DEF Drops, Queued
    <3>. QED BY <1>1, <3>1 DEF Accounted
  <2>4. CASE current = r BY <1>1, <1>5, <1>6, <2>1, <2>4 DEF Accounted
  <2>5. CASE \E t \in On : t.fn \in {"complete", "deliver"} /\ t.req = r
    BY <1>1, <2>5 DEF Accounted
  <2>. QED BY <2>1, <2>2, <2>3, <2>4, <2>5 DEF Accounted
<1>8. \A t \in On' : t.fn = "complete" => t.code # "none"
  BY <1>1, <1>2, <1>3, <1>4 DEF AccountInv
<1>. QED BY <1>7, <1>8 DEF AccountInv

LEMMA AccountDispatched ==
  ASSUME Base, AccountInv, NEW r \in Requests, Dispatched(r)
  PROVE  AccountInv'
<1>1. current' = r /\ current = NoRequest /\ UNCHANGED result BY DEF Dispatched
<1>2. PICK base : /\ base \subseteq On /\ On' = StartOf(r) \cup base
                  /\ \A t \in On : t \in base \/ t.fn = "endDelivery"
  <2>1. CASE Holds(StartOf(r) \cup On) BY <2>1 DEF Holds
  <2>2. CASE Top("endDelivery") /\ Holds(StartOf(r) \cup Under)
    BY <2>2, Below, UnderTop DEF Holds, Top
  <2>. QED BY <2>1, <2>2 DEF Dispatched
<1>3. \A t \in StartOf(r) : t.fn # "complete" BY EventKinds DEF StartOf
<1>4. \A q : Queued(q) => Queued(q)' \/ q = r
  <2>1. CASE UNCHANGED queue BY <2>1 DEF Queued
  <2>2. CASE queue # <<>> /\ r = Head(queue) /\ queue' = Tail(queue)
    <3>1. queue \in Seq(Requests) BY DEF Base, ClientTypeOK
    <3>2. Head(queue) = queue[1] /\ Range(queue) = {queue[1]} \cup Range(Tail(queue))
      BY <2>2, <3>1, RangeTail
    <3>. QED BY <2>2, <3>2 DEF Queued
  <2>. QED BY <2>1, <2>2 DEF Dispatched
<1>5. \A q \in asked' : q \in asked \/ q = r BY DEF Dispatched
<1>6. ASSUME NEW q \in asked'
      PROVE  Accounted(q)'
  <2>1. CASE q = r BY <1>1, <2>1 DEF Accounted
  <2>2. CASE q # r
    <3>1. Accounted(q) /\ q # NoRequest
      BY <1>5, <1>6, <2>2, NamesAssumption DEF AccountInv, Base, ClientTypeOK
    <3>. QED BY <1>1, <1>2, <1>4, <2>2, <3>1 DEF Accounted
  <2>. QED BY <2>1, <2>2
<1>7. \A t \in On' : t.fn = "complete" => t.code # "none" BY <1>2, <1>3 DEF AccountInv
<1>. QED BY <1>6, <1>7 DEF AccountInv

LEMMA AccountSend ==
  ASSUME Base, FlowInv, AccountInv, NEW r \in Requests, SessionSend(r)
  PROVE  AccountInv'
<1>1. ASSUME asked' = asked \cup {r}, UNCHANGED <<result, current>>, NEW told, On' = told \cup On,
             \A t \in told : t.fn = "complete" => t.code # "none",
             \A q : Queued(q) => Queued(q)' \/ \E t \in told : t.fn = "complete" /\ t.req = q,
             Queued(r)' \/ \E t \in told : t.fn = "complete" /\ t.req = r
      PROVE  AccountInv'
  <2>1. ASSUME NEW q \in asked'
        PROVE  Accounted(q)'
    <3>1. CASE q = r BY <1>1, <3>1 DEF Accounted
    <3>2. CASE q # r
      <4>1. Accounted(q) BY <1>1, <2>1, <3>2 DEF AccountInv
      <4>. QED BY <1>1, <4>1 DEF Accounted
    <3>. QED BY <3>1, <3>2
  <2>2. \A t \in On' : t.fn = "complete" => t.code # "none" BY <1>1 DEF AccountInv
  <2>. QED BY <2>1, <2>2 DEF AccountInv
<1>2. queue \in Seq(Requests) BY DEF Base, ClientTypeOK
<1>3. ASSUME NEW code \in NotSent, Declined(r, code)
      PROVE  AccountInv'
  <2>1. PICK told : /\ told \in {{Complete(r, code)}, {Callback(code), Complete(r, code)}}
                    /\ On' = told \cup On
    BY <1>3 DEF Declined, Holds
  <2>2. code # "none" BY <1>3 DEF NotSent
  <2>3. asked' = asked \cup {r} /\ UNCHANGED <<result, current, queue>> BY <1>3 DEF Declined, client
  <2>4. /\ \A t \in told : t.fn = "complete" => t.code # "none"
        /\ \E t \in told : t.fn = "complete" /\ t.req = r
    BY <2>1, <2>2, EventKinds
  <2>. QED BY <1>1, <2>1, <2>3, <2>4 DEF Queued
<1>4. ASSUME NEW i \in DOMAIN queue, Replaced(r, i)
      PROVE  AccountInv'
  <2>1. PICK old : old = queue[i] OBVIOUS
  <2>2. PICK told : told = {Complete(old, "cancelled")} OBVIOUS
  <2>3. /\ asked' = asked \cup {r} /\ UNCHANGED <<result, current>>
        /\ queue' = [queue EXCEPT ![i] = r] /\ On' = told \cup On
    BY <1>4, <2>1, <2>2 DEF Replaced, Holds
  <2>4. /\ DOMAIN queue' = DOMAIN queue /\ queue'[i] = r
        /\ \A j \in DOMAIN queue : j # i => queue'[j] = queue[j]
    BY <1>2, <1>4, <2>3
  <2>5. Queued(r)' BY <1>4, <2>4 DEF Queued, Range
  <2>6. \A q : Queued(q) => Queued(q)' \/ q = old BY <2>1, <2>4 DEF Queued, Range
  <2>7. /\ \A t \in told : t.fn = "complete" /\ t.code # "none"
        /\ \E t \in told : t.req = old
    BY <2>2, EventKinds
  <2>. QED BY <1>1, <2>3, <2>5, <2>6, <2>7
<1>5. CASE Joined(r)
  <2>1. /\ asked' = asked \cup {r} /\ UNCHANGED <<result, current>> /\ queue' = Append(queue, r)
        /\ On' = {} \cup On
    BY <1>5 DEF Joined, On
  <2>2. Range(queue') = Range(queue) \cup {r} BY <1>2, <2>1, RangeAppend
  <2>3. Queued(r)' /\ \A q : Queued(q) => Queued(q)' BY <2>2 DEF Queued
  <2>4. PICK told : told = {} OBVIOUS
  <2>. QED BY <1>1, <2>1, <2>3, <2>4
<1>. QED BY <1>3, <1>4, <1>5, SendEffect, AccountDispatched

LEMMA AccountStart ==
  ASSUME Base, TurnInv, AccountInv, Startup \/ Recover
  PROVE  AccountInv'
<1>1. On = {} /\ On' = {} /\ UNCHANGED <<asked, result>> BY StartEffect, Below DEF On, history
<1>2. CASE UNCHANGED <<current, queue>> BY <1>1, <1>2, AccountKept
<1>3. CASE ~IsStarted
  <2>1. current = NoRequest /\ queue = <<>> BY <1>1, <1>3 DEF TurnInv, IsStarted
  <2>2. Range(queue) = {} BY <2>1, RangeTuples
  <2>3. \A r \in asked : r # NoRequest BY NamesAssumption DEF Base, ClientTypeOK
  <2>4. \A r \in asked : result[r] # "none" BY <1>1, <2>1, <2>2, <2>3 DEF AccountInv, Accounted, Queued
  <2>. QED BY <1>1, <2>4 DEF AccountInv, Accounted
<1>. QED BY <1>2, <1>3, StartEffect DEF vars, client

LEMMA AccountHandlers ==
  ASSUME Base, FlowInv, AccountInv, UNCHANGED session,
         Transmit \/ Finish \/ Deliver \/ EndDelivery
  PROVE  AccountInv'
<1>1. stack # <<>> /\ UNCHANGED <<asked, result>>
  BY DEF Transmit, Finish, Deliver, EndDelivery, Top, history
<1>2. Under \subseteq On /\ On = {stack[1]} \cup Under BY <1>1, UnderTop, Below
<1>3. CASE Transmit
  <2>1. PICK r : r = stack[1].req OBVIOUS
  <2>2. stack[1].fn = "transmit" BY <1>3, TransmitEffect
  <2>3. \A t \in On : t.fn \in {"complete", "deliver"} => t \in Under BY <1>2, <2>2
  <2>4. CASE Holds(Under) /\ UNCHANGED <<current, queue>>
    BY <1>1, <1>2, <2>3, <2>4, AccountKept DEF Holds
  <2>5. CASE SendEnds(r, "sendFailed", Under)
    BY <1>1, <1>2, <2>3, <2>5, AccountEnds DEF SendEnds
  <2>. QED BY <1>3, <2>1, <2>4, <2>5, TransmitEffect DEF Popped, SendPasses
<1>4. CASE Finish
  <2>1. PICK told, code : Ends(Under, code, told) /\ code # "none"
    BY <1>4, FinishEffect
  <2>2. \A t \in On : t.fn \in {"complete", "deliver"} => t \in Under
    BY <1>2, <1>4, FinishEffect
  <2>. QED BY <1>1, <1>2, <2>1, <2>2, AccountEnds
<1>5. CASE Deliver
  <2>1. PICK r, code : r = stack[1].req /\ code = stack[1].code OBVIOUS
  <2>2. /\ stack[1].fn = "deliver" /\ On' = Delivered(r, code) \cup Under /\ UNCHANGED current
        /\ code \in Replies /\ queue' = IF code \in Purging THEN <<>> ELSE queue
    BY <1>5, <2>1, DeliverEffect DEF Popped, Holds
  <2>3. code # "none" BY <2>2 DEF Replies
  <2>4. PICK done : done = Complete(r, code) OBVIOUS
  <2>5. done \in On' /\ done.fn = "complete" /\ done.req = r BY <2>2, <2>4, EventKinds DEF Delivered
  <2>6. \A t \in On' : t.fn = "complete" => t.code # "none"
    BY <1>2, <2>2, <2>3, EventKinds DEF Delivered, Cancelled, AccountInv
  <2>7. \A q : Queued(q) => Queued(q)' \/ \E t \in On' : t.fn = "complete" /\ t.req = q
    <3>1. CASE code \in Purging BY <2>2, <3>1, EventKinds DEF Queued, Delivered, Cancelled
    <3>2. CASE code \notin Purging BY <2>2, <3>2 DEF Queued
    <3>. QED BY <3>1, <3>2
  <2>8. ASSUME NEW q \in asked'
        PROVE  Accounted(q)'
    <3>1. Accounted(q) BY <1>1, <2>8 DEF AccountInv
    <3>. QED BY <1>1, <1>2, <2>1, <2>2, <2>5, <2>7, <3>1 DEF Accounted
  <2>. QED BY <2>6, <2>8 DEF AccountInv
<1>6. CASE EndDelivery
  <2>1. stack[1].fn = "endDelivery" BY <1>6, EndDeliveryEffect
  <2>2. \A t \in On : t.fn \in {"complete", "deliver"} => t \in Under BY <1>2, <2>1
  <2>3. CASE FlushFails
    <3>1. PICK told, code : Ends(Under, code, told) /\ current = NoRequest
      BY <2>3 DEF FlushFails
    <3>. QED BY <1>1, <1>2, <2>2, <3>1, AccountEnds
  <2>4. CASE Popped({}) /\ UNCHANGED <<queue, current>>
    BY <1>1, <1>2, <2>2, <2>4, AccountKept DEF Popped, Holds
  <2>. QED BY <1>6, <2>3, <2>4, EndDeliveryEffect, AccountDispatched
<1>. QED BY <1>3, <1>4, <1>5, <1>6

LEMMA AccountTasks ==
  ASSUME Base, AccountInv, StopWorker \/ CallRequest \/ Return \/ SessionCallbacks
  PROVE  AccountInv'
<1>1. /\ stack # <<>> /\ UNCHANGED <<client, asked>> /\ stack[1].fn # "deliver"
      /\ CallRequest \/ (stack[1].fn # "complete" /\ UNCHANGED result)
  BY DEF StopWorker, CallRequest, Return, SessionCallbacks, RequestStarted, OnReply, Replied,
         OnMismatch, OnClientError, HandleTermination, ScheduleRecovery, CallOwner, Top, history
<1>2. On = {stack[1]} \cup Under BY <1>1, UnderTop
<1>3. Under \subseteq On' /\ \A t \in On' : t \in Under \/ t.fn \in {"app", "replied", "schedule"}
  BY TaskEffect
<1>4. CASE CallRequest
  <2>1. PICK t : t = stack[1] OBVIOUS
  <2>2. /\ t \in On /\ t.fn = "complete"
        /\ result' = [result EXCEPT ![t.req] = IF @ = "none" THEN t.code ELSE "twice"]
    BY <1>2, <1>4, <2>1 DEF CallRequest, Top
  <2>3. result \in [Requests -> Codes] BY DEF Base, ClientTypeOK
  <2>4. t.code # "none" BY <2>2 DEF AccountInv
  <2>5. \A r \in Requests : result[r] # "none" \/ r = t.req => result'[r] # "none"
    BY <2>2, <2>3, <2>4
  <2>6. ASSUME NEW r \in asked'
        PROVE  Accounted(r)'
    <3>1. r \in Requests /\ Accounted(r) BY <1>1, <2>6 DEF AccountInv, Base, ClientTypeOK
    <3>. QED BY <1>1, <1>2, <1>3, <2>1, <2>5, <3>1 DEF Accounted, Queued, client
  <2>7. \A u \in On' : u.fn = "complete" => u.code # "none" BY <1>2, <1>3 DEF AccountInv
  <2>. QED BY <2>6, <2>7 DEF AccountInv
<1>5. CASE stack[1].fn # "complete" /\ UNCHANGED result
  BY <1>1, <1>2, <1>3, <1>5, AccountKept DEF client
<1>. QED BY <1>1, <1>4, <1>5

LEMMA AccountMain ==
  ASSUME Base, AccountInv, Terminated \/ Violation \/ Sent \/ Receive \/ Timeout
  PROVE  AccountInv'
<1>1. Idle /\ UNCHANGED <<asked, result>>
  BY DEF Terminated, Violation, Sent, Receive, Timeout, history
<1>2. On = {} /\ AppRuns BY <1>1, NothingOn
<1>3. UNCHANGED <<current, queue, stack>> => AccountInv' BY <1>1, AccountKept DEF On
<1>4. ASSUME NEW base, base = {}, NEW code, NEW told, Ends(base, code, told),
             code # "none" \/ current = NoRequest
      PROVE  AccountInv'
  BY <1>1, <1>2, <1>4, AccountEnds
<1>5. ASSUME NEW code \in {"timeout", "idleProtocolError", "protocolError"}, Fail(code)
      PROVE  AccountInv'
  <2>1. code \in Codes /\ code # "none" BY CodeTypes DEF Unknown
  <2>2. PICK told : told = {Callback(code), StopProcess} OBVIOUS
  <2>3. PICK base : base = On OBVIOUS
  <2>4. Ends(base, code, told) BY <1>2, <1>5, <2>1, <2>2, <2>3, FailEnds
  <2>. QED BY <1>2, <1>4, <2>1, <2>3, <2>4
<1>6. CASE Terminated
  <2>1. Call(Interrupting("terminate")) /\ UNCHANGED client BY <1>6 DEF Terminated
  <2>2. On' = Interruption("terminate") \cup On
    BY <1>2, <2>1, InterruptEffect DEF Interrupts, Leaves, Holds
  <2>3. \A t \in Interruption("terminate") : t.fn # "complete" BY EventKinds DEF Interruption
  <2>. QED BY <1>1, <2>1, <2>2, <2>3, AccountKept DEF client
<1>7. CASE Violation BY <1>3, <1>5, <1>7 DEF Violation, client
<1>8. CASE Timeout BY <1>3, <1>5, <1>8 DEF Timeout
<1>9. CASE Sent
  <2>1. /\ Head(main).fn = "sent" /\ main # <<>>
        /\ SendFailed(Head(main).req, Head(main).code, timer, stack)
    BY <1>9 DEF Sent
  <2>2. PICK r, code, rest : r = Head(main).req /\ code = Head(main).code /\ rest = stack
    OBVIOUS
  <2>3. r \in Requests /\ code \in {"encodeFailed", "sendFailed", "sendUnknown"}
    BY <2>1, <2>2, MainHead DEF Posted, OfRequest
  <2>4. Rest(rest) /\ Range(rest) = {} BY <1>2, <2>2 DEF Rest, On
  <2>5. CASE Unencoded(r, Range(rest))
    <3>1. current = r /\ current' = NoRequest /\ UNCHANGED queue BY <2>5 DEF Unencoded
    <3>2. PICK c : c = Complete(r, "encodeFailed") OBVIOUS
    <3>3. On' = {Callback("encodeFailed"), c, Task("endDelivery", NoRequest, "flush")}
      BY <2>4, <2>5, <3>2 DEF Unencoded, Leaves, Holds
    <3>4. \A t \in On' : t.fn = "complete" => t.code # "none" BY <3>2, <3>3, EventKinds
    <3>5. c \in On' /\ c.fn = "complete" /\ c.req = r BY <3>2, <3>3, EventKinds
    <3>6. ASSUME NEW q \in asked'
          PROVE  Accounted(q)'
      <4>1. Accounted(q) BY <1>1, <3>6 DEF AccountInv
      <4>. QED BY <1>1, <1>2, <3>1, <3>5, <4>1 DEF Accounted, Queued
    <3>. QED BY <3>4, <3>6 DEF AccountInv
  <2>6. CASE SendEnds(r, code, Range(rest)) BY <1>4, <2>3, <2>4, <2>6 DEF SendEnds
  <2>7. CASE SendPasses(r, timer, Range(rest)) /\ stack' = rest
    BY <1>3, <2>2, <2>7 DEF SendPasses
  <2>. QED BY <2>1, <2>2, <2>3, <2>4, <2>5, <2>6, <2>7, SendFails
<1>10. CASE Receive
  <2>1. CASE UNCHANGED <<client, stack>> BY <1>3, <2>1 DEF client
  <2>2. CASE Mismatches(Head(main).req)
    <3>1. PICK told, code, base : /\ told = {Callback("mismatch")} /\ code = "mismatch"
                                  /\ base = {}
      OBVIOUS
    <3>2. Ends(base, code, told) BY <2>2, <3>1 DEF Mismatches
    <3>. QED BY <1>4, <3>1, <3>2
  <2>3. CASE Answered(Head(main).req, Head(main).code)
    <3>1. PICK r, a, d : /\ r = Head(main).req /\ a = Task("reply", r, Head(main).code)
                         /\ d = Task("deliver", r, Head(main).code)
      OBVIOUS
    <3>2. current = r /\ UNCHANGED queue /\ On' = {a, d} BY <2>3, <3>1 DEF Answered, Holds
    <3>3. a.fn = "reply" /\ d.fn = "deliver" /\ d.req = r BY <3>1, EventKinds
    <3>4. ASSUME NEW q \in asked'
          PROVE  Accounted(q)'
      <4>1. Accounted(q) BY <1>1, <3>4 DEF AccountInv
      <4>. QED BY <1>1, <1>2, <3>2, <3>3, <4>1 DEF Accounted, Queued
    <3>. QED BY <3>2, <3>3, <3>4 DEF AccountInv
  <2>. QED BY <1>10, <2>1, <2>2, <2>3, ReceiveEffect
<1>. QED BY <1>6, <1>7, <1>8, <1>9, <1>10

LEMMA AccountNext ==
  ASSUME Base, FlowInv, TurnInv, AccountInv, [SessionNext]_sessionVars
  PROVE  AccountInv'
<1>1. CASE Restart \/ SessionStop \/ BeginTermination \/ TargetLifetimeChanged \/ ScriptMissing
  <2>1. UNCHANGED <<client, asked, result>> BY <1>1, ApplicationEffect DEF history
  <2>2. On \subseteq On' /\ \A t \in On' : t \in On \/ t.fn # "complete"
    <3>1. CASE Interrupts("stop")
      BY <3>1, EventKinds DEF Interrupts, Leaves, Holds, Interruption
    <3>2. CASE UNCHANGED stack BY <3>2 DEF On
    <3>. QED BY <1>1, <3>1, <3>2, ApplicationEffect
  <2>. QED BY <2>1, <2>2, AccountKept DEF client
<1>2. CASE World
  <2>1. UNCHANGED <<current, queue, stack, asked, result>>
    BY <1>2 DEF World, Write, Answer, Garble, Exit, client, history
  <2>. QED BY <2>1, AccountKept DEF On
<1>3. CASE UNCHANGED sessionVars
  BY <1>3, Stutter, AccountKept DEF On
<1>. QED
  BY <1>1, <1>2, <1>3, AccountSend, AccountStart, AccountHandlers, AccountTasks, AccountMain
     DEF SessionNext, SessionApplication, SessionHandlers, SessionMainQueue, SessionTimeout,
         SessionWorld, MainQueue

--------------------------------------------------------------------------------
(* The worker on its way out.                                               *)
Gone == worker = "none" \/ Leaving

LEMMA GoneKept ==
  ASSUME Base, FlowInv, Gone, [SessionNext]_sessionVars, ~(Startup \/ Recover)
  PROVE  Gone'
<1>1. CASE HandleTermination
  <2>1. UNCHANGED worker BY <1>1 DEF HandleTermination, process
  <2>2. CASE worker = "none" BY <2>1, <2>2 DEF Gone
  <2>3. CASE worker \in {"stopping", "exited"} BY <2>1, <2>3 DEF Gone, Leaving
  <2>4. CASE worker = "running"
    <3>1. PICK t \in On : Ending(t) BY <2>4 DEF Gone, Leaving
    <3>2. stack # <<>> /\ stack[1].fn = "onTermination" BY <1>1, TerminationEffect
    <3>3. On = {stack[1]} \cup Under /\ Under \subseteq On'
      BY <1>1, <3>2, UnderTop, TaskEffect DEF SessionCallbacks
    <3>4. t # stack[1] BY <3>1, <3>2 DEF Ending
    <3>. QED BY <2>1, <2>4, <3>1, <3>3, <3>4 DEF Gone, Leaving
  <2>. QED BY <2>2, <2>3, <2>4 DEF Base, ClientTypeOK
<1>2. CASE Leaving /\ ~HandleTermination BY <1>2, LeavingKept DEF Gone
<1>3. CASE worker = "none" /\ ~HandleTermination
  <2>1. Moves BY StepMoves
  <2>2. UNCHANGED worker \/ Terminated \/ Exit \/ worker' = "running"
    BY <1>3, <2>1 DEF Moves, Stopped, IsRunning
  <2>3. CASE worker' = "running"
    <3>1. CASE \E r \in Requests : SessionSend(r) BY <1>3, <2>3, <3>1 DEF SessionSend, Send, process
    <3>2. CASE Restart \/ SessionStop \/ BeginTermination \/ TargetLifetimeChanged \/ ScriptMissing
      BY <1>3, <2>3, <3>2, ApplicationEffect DEF process
    <3>3. CASE SessionHandlers
      BY <1>3, <2>3, <3>3
         DEF SessionHandlers, SessionCallbacks, Transmit, Deliver, EndDelivery, CallRequest, Return,
             RequestStarted, OnReply, Replied, OnMismatch, OnClientError, HandleTermination,
             ScheduleRecovery, CallOwner, Finish, StopWorker, process
    <3>4. CASE MainQueue \/ Timeout \/ World
      BY <1>3, <2>3, <3>4
         DEF MainQueue, Terminated, Violation, Sent, Receive, Timeout, World, Write, Answer, Garble,
             Exit, process
    <3>5. CASE UNCHANGED sessionVars BY <1>3, <2>3, <3>5, Stutter
    <3>. QED
      BY <3>1, <3>2, <3>3, <3>4, <3>5
         DEF SessionNext, SessionApplication, SessionMainQueue, SessionTimeout, SessionWorld
  <2>. QED BY <1>3, <2>2, <2>3 DEF Terminated, Exit, Gone, Leaving
<1>. QED BY <1>1, <1>2, <1>3 DEF Gone

LEMMA GoneBy ==
  ASSUME Base'
  PROVE  /\ worker' # "running" => Gone'
         /\ (\E t \in On' : Ending(t)) => Gone' /\ (worker' # "none" => Leaving')
BY DEF Base, ClientTypeOK, Gone, Leaving, Ending

(* Only a call of the application announces its end.                        *)
LEMMA TerminationKept ==
  ASSUME [SessionNext]_sessionVars
  PROVE  Idle \/ UNCHANGED terminationRequested
<1>1. CASE SessionCallbacks
  BY <1>1 DEF SessionCallbacks, RequestStarted, OnReply, Replied, OnMismatch, OnClientError,
              HandleTermination, ScheduleRecovery, lifecycle
<1>2. CASE Startup \/ ScriptMissing \/ Restart \/ SessionStop \/ BeginTermination
             \/ TargetLifetimeChanged \/ Recover
  BY <1>2 DEF Startup, ScriptMissing, Restart, SessionStop, BeginTermination, TargetLifetimeChanged,
              Recover, lifecycle
<1>3. UNCHANGED session => UNCHANGED terminationRequested BY DEF session, lifecycle
<1>4. CASE UNCHANGED sessionVars BY <1>4, Stutter
<1>. QED
  BY <1>1, <1>2, <1>3, <1>4
     DEF SessionNext, SessionApplication, SessionHandlers, SessionMainQueue, SessionTimeout,
         SessionWorld, SessionSend

(* What an event has to show.                                               *)
LEMMA LeavingStep ==
  ASSUME Base, FlowInv, LeavingInv, [SessionNext]_sessionVars, ~(Startup \/ Recover),
         \A t \in On' : t.fn = "onTermination" => t \in On \/ worker' = "none",
         \A t \in On' : t.fn = "schedule" => t \in On \/ (worker' = "none" /\ (Planned(t) => Allowed')),
         terminal' => terminal \/ Gone',
         \A t \in On' : Lost(t) => t \in On \/ Gone',
         restartPending' => restartPending \/ Leaving'
  PROVE  LeavingInv'
<1>1. Gone => Gone' BY GoneKept
<1>2. ASSUME NEW t \in On', t.fn \in {"onTermination", "schedule"} PROVE worker' = "none"
  <2>1. CASE worker' = "none" BY <2>1
  <2>2. CASE t \in On
    <3>1. worker = "none" BY <1>2, <2>2 DEF LeavingInv
    <3>2. ~Idle BY <2>2, Below
    <3>3. Moves BY StepMoves
    <3>. QED BY <3>1, <3>2, <3>3 DEF Moves, Stopped, IsRunning, Terminated, Exit
  <2>. QED BY <1>2, <2>1, <2>2
<1>6. ASSUME NEW t \in On', t.fn = "schedule", Planned(t) PROVE Allowed'
  <2>1. CASE Allowed' BY <2>1
  <2>2. CASE t \in On
    <3>1. Allowed /\ ~Idle BY <1>6, <2>2, Below DEF LeavingInv
    <3>. QED BY <3>1, TerminationKept DEF Allowed
  <2>. QED BY <1>6, <2>1, <2>2
<1>3. terminal' => Gone' BY <1>1 DEF LeavingInv, Gone
<1>4. restartPending' => Leaving'
  <2>1. HAVE restartPending'
  <2>2. ~HandleTermination BY <2>1 DEF HandleTermination
  <2>. QED BY <2>1, <2>2, LeavingKept DEF LeavingInv
<1>5. \A t \in On' : Lost(t) => Gone' BY <1>1 DEF LeavingInv, Gone
<1>. QED BY <1>2, <1>3, <1>4, <1>5, <1>6 DEF LeavingInv, Gone, Lost, Planned

(* Nothing is added to the stack but what tells the session of no loss.     *)
LEMMA LeavingSame ==
  ASSUME Base, FlowInv, LeavingInv, [SessionNext]_sessionVars, ~(Startup \/ Recover),
         terminal' = terminal, restartPending' => restartPending,
         \A t \in On' : t \in On \/ t.fn \notin {"onTermination", "schedule", "error"}
  PROVE  LeavingInv'
BY LeavingStep DEF Lost

LEMMA LeavingEnds ==
  ASSUME Base, FlowInv, LeavingInv, [SessionNext]_sessionVars, ~(Startup \/ Recover),
         Gone', NEW base, base \subseteq On, NEW code, NEW told, Ends(base, code, told),
         \A t \in told : /\ t.fn = "onTermination" => worker' = "none"
                         /\ t.fn # "schedule",
         restartPending' => restartPending
  PROVE  LeavingInv'
<1>1. \A t \in On' : t \in told \/ t.fn = "complete" \/ t \in base
  BY EventKinds DEF Ends, Holds, Drops, Given
<1>. QED BY <1>1, LeavingStep

LEMMA LeavingSend ==
  ASSUME Base, FlowInv, LeavingInv, [SessionNext]_sessionVars, ~(Startup \/ Recover),
         NEW r \in Requests, SessionSend(r)
  PROVE  LeavingInv'
<1>1. ASSUME NEW code \in NotSent, Declined(r, code)
      PROVE  LeavingInv'
  <2>1. UNCHANGED <<terminal, restartPending>> BY <1>1 DEF Declined, client, session, lifecycle
  <2>2. CASE Holds({Complete(r, code)} \cup On)
    BY <2>1, <2>2, EventKinds, LeavingSame DEF Holds
  <2>3. CASE /\ code = "queueFull" \/ ~IsRunning \/ terminal
             /\ Holds({Callback(code), Complete(r, code)} \cup On)
    <3>1. \A t \in On' : t \in On \/ t = Callback(code) \/ t = Complete(r, code)
      BY <2>3 DEF Holds
    <3>2. CASE code = "queueFull"
      <4>1. ~Lost(Callback(code)) /\ ~Lost(Complete(r, code))
        BY <3>2, EventKinds DEF Lost, Recoverable
      <4>. QED BY <2>1, <3>1, <4>1, EventKinds, LeavingStep
    <3>3. CASE ~IsRunning \/ terminal
      <4>1. Gone BY <3>3 DEF LeavingInv, Gone, Leaving, IsRunning, Base, ClientTypeOK
      <4>2. Gone' BY <4>1, GoneKept
      <4>. QED BY <2>1, <3>1, <4>2, EventKinds, LeavingStep
    <3>. QED BY <2>3, <3>2, <3>3
  <2>. QED BY <1>1, <2>2, <2>3 DEF Declined
<1>2. ASSUME NEW i \in DOMAIN queue, Replaced(r, i)
      PROVE  LeavingInv'
  BY <1>2, EventKinds, LeavingSame DEF Replaced, Holds, session, lifecycle
<1>3. CASE Joined(r)
  BY <1>3, LeavingSame DEF Joined, session, lifecycle, On
<1>4. CASE Dispatched(r)
  <2>1. \A t \in On' : t \in On \/ t \in StartOf(r) BY <1>4, Below DEF Dispatched, Holds, Top
  <2>. QED BY <1>4, <2>1, EventKinds, LeavingSame DEF Dispatched, StartOf, session, lifecycle
<1>. QED BY <1>1, <1>2, <1>3, <1>4, SendEffect

LEMMA LeavingApplication ==
  ASSUME Base, Base', FlowInv, LeavingInv, [SessionNext]_sessionVars, ~(Startup \/ Recover),
         Restart \/ SessionStop \/ BeginTermination \/ TargetLifetimeChanged \/ ScriptMissing
  PROVE  LeavingInv'
<1>1. UNCHANGED <<worker, terminal>> BY ApplicationEffect DEF process, client
<1>2. CASE AppRuns /\ Interrupts("stop")
  <2>1. On' = Interruption("stop") \cup On BY <1>2 DEF Interrupts, Leaves, Holds
  <2>2. /\ \A t \in Interruption("stop") : t.fn \in {"error", "stop"}
        /\ \E t \in Interruption("stop") : t.fn = "stop"
    BY EventKinds DEF Interruption
  <2>3. Gone' /\ (worker' # "none" => Leaving') BY <2>1, <2>2, GoneBy DEF Ending
  <2>4. restartPending' => restartPending \/ worker # "none"
    BY DEF Restart, SessionStop, BeginTermination, TargetLifetimeChanged, ScriptMissing, lifecycle, IsStarted
  <2>. QED BY <1>1, <2>1, <2>2, <2>3, <2>4, LeavingStep
<1>3. CASE UNCHANGED stack
  <2>1. CASE Restart /\ Stop
    <3>1. Interrupts("stop") /\ AppRuns BY <2>1, StopEffect
    <3>. QED BY <1>2, <3>1
  <2>2. CASE ~(Restart /\ Stop)
    <3>1. restartPending' => restartPending
      BY <2>2 DEF Restart, SessionStop, BeginTermination, TargetLifetimeChanged, ScriptMissing, lifecycle
    <3>. QED BY <1>1, <1>3, <3>1, LeavingSame DEF On
  <2>. QED BY <2>1, <2>2
<1>. QED BY <1>2, <1>3, ApplicationEffect

LEMMA LeavingHandlers ==
  ASSUME Base, Base', FlowInv, TrustInv, LeavingInv, [SessionNext]_sessionVars,
         ~(Startup \/ Recover), UNCHANGED session, Transmit \/ Finish \/ Deliver \/ EndDelivery
  PROVE  LeavingInv'
<1>1. stack # <<>> BY DEF Transmit, Finish, Deliver, EndDelivery, Top
<1>2. Under \subseteq On /\ stack[1] \in On BY <1>1, Below
<1>3. UNCHANGED restartPending BY DEF session, lifecycle
<1>4. ASSUME NEW code, NEW told, Ends(Under, code, told), StopProcess \in told,
             \A t \in told : t.fn \notin {"onTermination", "schedule"}
      PROVE  LeavingInv'
  <2>1. StopProcess \in On' BY <1>4 DEF Ends, Holds
  <2>2. Gone' BY <2>1, EventKinds, GoneBy DEF Ending
  <2>3. PICK base : base = Under OBVIOUS
  <2>. QED BY <1>2, <1>3, <1>4, <2>2, <2>3, LeavingEnds
<1>5. Holds(Under) /\ UNCHANGED terminal => LeavingInv'
  BY <1>2, <1>3, LeavingSame DEF Holds
<1>6. CASE Transmit
  <2>1. CASE SendEnds(stack[1].req, "sendFailed", Under)
    <3>1. PICK told : told = {Callback("sendFailed"), StopProcess,
                              Task("endDelivery", NoRequest, "none")}
      OBVIOUS
    <3>. QED BY <1>4, <2>1, <3>1, EventKinds DEF SendEnds
  <2>2. CASE UNCHANGED terminal /\ Holds(Under) BY <1>5, <2>2
  <2>. QED BY <1>6, <2>1, <2>2, TransmitEffect DEF Popped, SendPasses
<1>7. CASE Finish
  <2>1. PICK code, told : /\ Ends(Under, code, told)
                          /\ told = IF stack[1].fn = "terminate"
                                    THEN {Task("onTermination", NoRequest, "none")} ELSE {}
    BY <1>7, FinishEffect
  <2>2. stack[1].fn = "terminate" => worker' = "none"
    BY <1>2, <1>7, FinishEffect DEF TrustInv, TrustOn
  <2>3. worker' # "running" BY <1>7, <2>2, FinishEffect DEF IsRunning
  <2>4. Gone' BY <2>3, GoneBy
  <2>5. PICK base : base = Under OBVIOUS
  <2>6. \A t \in told : (t.fn = "onTermination" => worker' = "none") /\ t.fn # "schedule"
    BY <2>1, <2>2, EventKinds
  <2>. QED BY <1>2, <1>3, <2>1, <2>4, <2>5, <2>6, LeavingEnds
<1>8. CASE Deliver
  <2>1. UNCHANGED terminal /\ On' = Delivered(stack[1].req, stack[1].code) \cup Under
    BY <1>8, DeliverEffect DEF Popped, Holds
  <2>2. \A t \in Delivered(stack[1].req, stack[1].code) : t.fn \notin {"onTermination", "schedule", "error"}
    BY EventKinds DEF Delivered, Cancelled
  <2>. QED BY <1>2, <1>3, <2>1, <2>2, LeavingSame
<1>9. CASE EndDelivery
  <2>1. ASSUME NEW r \in Requests, Dispatched(r)
        PROVE  LeavingInv'
    <3>1. \A t \in On' : t \in On \/ t \in StartOf(r)
      BY <1>2, <2>1 DEF Dispatched, Holds
    <3>. QED BY <1>3, <2>1, <3>1, EventKinds, LeavingSame DEF Dispatched, StartOf
  <2>2. CASE FlushFails
    <3>1. PICK told : told = {Callback("unavailable"), StopProcess} OBVIOUS
    <3>. QED BY <1>4, <2>2, <3>1, EventKinds DEF FlushFails
  <2>. QED BY <1>5, <1>9, <2>1, <2>2, EndDeliveryEffect DEF Popped
<1>. QED BY <1>6, <1>7, <1>8, <1>9

LEMMA LeavingTasks ==
  ASSUME Base, FlowInv, LeavingInv, [SessionNext]_sessionVars, ~(Startup \/ Recover),
         ((StopWorker \/ CallRequest \/ Return) /\ UNCHANGED session) \/ SessionCallbacks
  PROVE  LeavingInv'
<1>1. UNCHANGED terminal /\ (restartPending' => restartPending) /\ Under \subseteq On
  <2>1. stack # <<>> /\ UNCHANGED client BY TaskEffect
  <2>2. restartPending' => restartPending
    <3>1. CASE SessionCallbacks
      BY <3>1
         DEF SessionCallbacks, RequestStarted, OnReply, Replied, OnMismatch, OnClientError,
             HandleTermination, ScheduleRecovery, lifecycle
    <3>2. CASE UNCHANGED session BY <3>2 DEF session, lifecycle
    <3>. QED BY <3>1, <3>2
  <2>. QED BY <2>1, <2>2, Below DEF client
<1>2. CASE HandleTermination
  <2>1. worker' = worker /\ UNCHANGED terminationRequested
    BY <1>2 DEF HandleTermination, process
  <2>2. worker = "none" BY <1>2, TerminationEffect, Below DEF LeavingInv
  <2>3. \A t \in On' : t \in On \/ t.fn = "app" \/ (t.fn = "schedule" /\ (Planned(t) => Allowed'))
    BY <1>1, <1>2, <2>1, TerminationEffect, EventKinds DEF Popped, Holds, Planned, Allowed
  <2>. QED BY <1>1, <2>1, <2>2, <2>3, LeavingStep DEF Lost
<1>3. CASE ~HandleTermination
  <2>1. OnReply \/ Then(<<>>) \/ Then(<<App>>)
    BY <1>3 DEF StopWorker, CallRequest, Return, SessionCallbacks, RequestStarted, Replied,
                OnMismatch, OnClientError, ScheduleRecovery, CallOwner
  <2>2. \A t \in On' : t \in On \/ t.fn \in {"app", "replied"}
    BY <1>1, <2>1, TaskEffect, OnReplyEffect, PopEffect, EventKinds DEF Popped, Holds
  <2>. QED BY <1>1, <2>2, LeavingSame
<1>. QED BY <1>2, <1>3

LEMMA LeavingMain ==
  ASSUME Base, Base', FlowInv, LeavingInv, [SessionNext]_sessionVars, ~(Startup \/ Recover),
         UNCHANGED session, Terminated \/ Violation \/ Sent \/ Receive \/ Timeout
  PROVE  LeavingInv'
<1>1. Idle BY DEF Terminated, Violation, Sent, Receive, Timeout
<1>2. On = {} /\ AppRuns BY <1>1, NothingOn
<1>3. UNCHANGED restartPending BY DEF session, lifecycle
<1>4. UNCHANGED <<stack, terminal>> => LeavingInv' BY <1>3, LeavingSame DEF On
<1>5. ASSUME NEW base, base = {}, NEW code, NEW told, Ends(base, code, told), Gone',
             \A t \in told : t.fn \notin {"onTermination", "schedule"}
      PROVE  LeavingInv'
  BY <1>3, <1>5, LeavingEnds
<1>6. ASSUME NEW told, StopProcess \in told, NEW base, NEW code, Ends(base, code, told)
      PROVE  Gone'
  <2>1. StopProcess \in On' BY <1>6 DEF Ends, Holds
  <2>. QED BY <2>1, EventKinds, GoneBy DEF Ending
<1>7. ASSUME NEW code \in {"timeout", "idleProtocolError", "protocolError"}, Fail(code)
      PROVE  LeavingInv'
  <2>1. code \in Codes BY CodeTypes DEF Unknown
  <2>2. PICK told : told = {Callback(code), StopProcess} OBVIOUS
  <2>3. PICK base : base = On OBVIOUS
  <2>4. Ends(base, code, told) BY <1>2, <1>7, <2>1, <2>2, <2>3, FailEnds
  <2>5. \A t \in told : t.fn \notin {"onTermination", "schedule"} BY <2>2, EventKinds
  <2>6. Gone' BY <1>6, <2>2, <2>4
  <2>. QED BY <1>2, <1>5, <2>3, <2>4, <2>5, <2>6
<1>8. CASE Terminated
  <2>1. Call(Interrupting("terminate")) /\ UNCHANGED terminal /\ worker' = "none"
    BY <1>8 DEF Terminated, client
  <2>2. On' = Interruption("terminate") \cup On
    BY <1>2, <2>1, InterruptEffect DEF Interrupts, Leaves, Holds
  <2>3. \A t \in On' : t.fn # "schedule" BY <1>2, <2>2, EventKinds DEF Interruption
  <2>. QED BY <1>3, <2>1, <2>3, LeavingStep DEF Gone
<1>9. CASE Violation BY <1>4, <1>7, <1>9 DEF Violation, client
<1>10. CASE Timeout BY <1>4, <1>7, <1>10 DEF Timeout
<1>11. CASE Sent
  <2>1. /\ Head(main).fn = "sent" /\ main # <<>>
        /\ SendFailed(Head(main).req, Head(main).code, timer, stack)
    BY <1>11 DEF Sent
  <2>2. PICK r, code, rest : r = Head(main).req /\ code = Head(main).code /\ rest = stack
    OBVIOUS
  <2>3. r \in Requests /\ code \in {"encodeFailed", "sendFailed", "sendUnknown"}
    BY <2>1, <2>2, MainHead DEF Posted, OfRequest
  <2>4. Rest(rest) /\ Range(rest) = {} BY <1>2, <2>2 DEF Rest, On
  <2>5. CASE Unencoded(r, Range(rest))
    <3>1. UNCHANGED terminal
          /\ On' = {Callback("encodeFailed"), Complete(r, "encodeFailed"),
                    Task("endDelivery", NoRequest, "flush")}
      BY <2>4, <2>5 DEF Unencoded, Leaves, Holds
    <3>2. \A t \in On' : t.fn \notin {"onTermination", "schedule"} /\ ~Lost(t)
      BY <3>1, EventKinds DEF Lost, Recoverable
    <3>. QED BY <1>3, <3>1, <3>2, LeavingStep
  <2>6. CASE SendEnds(r, code, Range(rest))
    <3>1. PICK base, told : /\ base = {}
                            /\ told = {Callback(code), StopProcess, Task("endDelivery", NoRequest, "none")}
      OBVIOUS
    <3>2. Ends(base, code, told) BY <2>4, <2>6, <3>1 DEF SendEnds
    <3>. QED BY <1>5, <1>6, <3>1, <3>2, EventKinds
  <2>7. CASE SendPasses(r, timer, Range(rest)) /\ stack' = rest
    BY <1>4, <2>2, <2>7 DEF SendPasses
  <2>. QED BY <2>1, <2>2, <2>3, <2>4, <2>5, <2>6, <2>7, SendFails
<1>12. CASE Receive
  <2>1. CASE UNCHANGED <<client, stack>> BY <1>4, <2>1 DEF client
  <2>2. CASE Mismatches(Head(main).req)
    <3>1. PICK told, code, base : /\ told = {Callback("mismatch")} /\ code = "mismatch"
                                  /\ base = {}
      OBVIOUS
    <3>2. Ends(base, code, told) /\ worker' # "running" BY <2>2, <3>1 DEF Mismatches, IsRunning
    <3>3. Gone' BY <3>2, GoneBy
    <3>. QED BY <1>5, <3>1, <3>2, <3>3, EventKinds
  <2>3. CASE Answered(Head(main).req, Head(main).code)
    <3>1. PICK r, code, a, d : /\ r = Head(main).req /\ code = Head(main).code
                               /\ a = Task("reply", r, code) /\ d = Task("deliver", r, code)
      OBVIOUS
    <3>2. terminal' = (terminal \/ code \in Fatal) /\ On' = {a, d}
      BY <2>3, <3>1 DEF Answered, Holds
    <3>3. a.fn = "reply" /\ d.fn = "deliver" /\ d.code = code BY <3>1, EventKinds
    <3>4. code \in Fatal => Gone' BY <3>2, <3>3, GoneBy DEF Ending
    <3>. QED BY <1>3, <3>2, <3>3, <3>4, LeavingStep DEF Lost
  <2>. QED BY <1>12, <2>1, <2>2, <2>3, ReceiveEffect
<1>. QED BY <1>8, <1>9, <1>10, <1>11, <1>12

LEMMA LeavingStart ==
  ASSUME Base, Base', LeavingInv, Startup \/ Recover
  PROVE  LeavingInv'
<1>1. On = {} /\ On' = {} /\ Idle /\ UNCHANGED restartPending BY StartEffect, Below DEF On
<1>2. CASE ~IsStarted
  <2>1. worker = "none" /\ ~Leaving BY <1>1, <1>2 DEF IsStarted, Leaving
  <2>2. ~restartPending BY <2>1 DEF LeavingInv
  <2>3. terminal' => worker' = "none" BY <1>2, <2>1, StartEffect DEF vars, client, process
  <2>. QED BY <1>1, <2>2, <2>3 DEF LeavingInv
<1>3. CASE UNCHANGED vars
  BY <1>1, <1>3 DEF LeavingInv, Leaving, vars, process, client
<1>. QED BY <1>2, <1>3, StartEffect

LEMMA LeavingNext ==
  ASSUME Base, Base', FlowInv, TrustInv, LeavingInv, [SessionNext]_sessionVars
  PROVE  LeavingInv'
<1>1. CASE Startup \/ Recover BY <1>1, LeavingStart
<1>2. CASE ~(Startup \/ Recover) /\ World /\ UNCHANGED session
  <2>1. UNCHANGED <<terminal, stack, restartPending>>
    BY <1>2 DEF World, Write, Answer, Garble, Exit, client, session, lifecycle
  <2>. QED BY <1>2, <2>1, LeavingSame DEF On
<1>3. CASE ~(Startup \/ Recover) /\ UNCHANGED sessionVars
  BY <1>3, Stutter, LeavingSame DEF On
<1>. QED
  BY <1>1, <1>2, <1>3, LeavingSend, LeavingApplication, LeavingHandlers, LeavingTasks, LeavingMain
     DEF SessionNext, SessionApplication, SessionHandlers, SessionMainQueue, SessionTimeout,
         SessionWorld, MainQueue

--------------------------------------------------------------------------------
(* The interface.                                                           *)
LEMMA RecoveryNext ==
  ASSUME Base, LeavingInv, BusyInv, [SessionNext]_sessionVars
  PROVE  terminationRequested' => recovery' = "none"
<1>1. CASE SessionApplication \/ Recover
  <2>1. CASE Startup \/ Recover
    BY <2>1 DEF BusyInv, Startup, Recover, Allowed
  <2>2. CASE Restart \/ SessionStop \/ BeginTermination \/ TargetLifetimeChanged \/ ScriptMissing
    BY <2>2 DEF BusyInv, Restart, SessionStop, BeginTermination, TargetLifetimeChanged, ScriptMissing, Allowed,
                lifecycle
  <2>3. CASE \E r \in Requests : SessionSend(r)
    BY <2>3 DEF BusyInv, SessionSend, session, lifecycle
  <2>. QED BY <1>1, <2>1, <2>2, <2>3 DEF SessionApplication
<1>5. CASE ScheduleRecovery
  <2>1. stack # <<>> /\ stack[1].fn = "schedule" BY <1>5 DEF ScheduleRecovery, Top
  <2>2. Planned(stack[1]) => Allowed BY <2>1, Below DEF LeavingInv
  <2>. QED BY <1>5, <2>1, <2>2 DEF ScheduleRecovery, Planned, Allowed, BusyInv
<1>2. CASE SessionCallbacks /\ ~ScheduleRecovery
  BY <1>2 DEF BusyInv, SessionCallbacks, RequestStarted, OnReply, Replied, OnMismatch, OnClientError,
              HandleTermination, Allowed, lifecycle
<1>3. CASE UNCHANGED session BY <1>3 DEF BusyInv, session, lifecycle
<1>4. CASE UNCHANGED sessionVars BY <1>4, Stutter DEF BusyInv
<1>. QED
  BY <1>1, <1>2, <1>3, <1>4, <1>5
     DEF SessionNext, SessionHandlers, SessionMainQueue, SessionTimeout, SessionWorld

LEMMA ConfiguredNext ==
  ASSUME Base, FlowInv, TrustInv, BusyInv, [SessionNext]_sessionVars
  PROVE  busy' => configured'
<1>1. CASE Startup \/ Recover
  BY <1>1 DEF BusyInv, Startup, Recover, Started
<1>2. CASE Restart BY <1>2 DEF Restart
<1>3. CASE BeginTermination
  BY <1>3 DEF BeginTermination, InFlight, TrustInv, Unconfigured
<1>4. CASE SessionStop \/ TargetLifetimeChanged \/ ScriptMissing
  BY <1>4 DEF SessionStop, TargetLifetimeChanged, ScriptMissing, BusyInv, status, lifecycle
<1>5. CASE UNCHANGED session BY <1>5 DEF BusyInv, session, lifecycle, status
<1>6. CASE SessionCallbacks
  <2>1. CASE RequestStarted
    <3>1. stack # <<>> /\ stack[1].fn = "started" BY <2>1 DEF RequestStarted, Top
    <3>2. stack[1] \in On /\ stack[1] \in Tasks BY <3>1, Below
    <3>3. current # NoRequest
      BY <3>1, <3>2, NamesAssumption DEF FlowInv, FlowOf, Tasks, OfRequest
    <3>4. configured BY <3>3 DEF TrustInv, Unconfigured
    <3>. QED BY <2>1, <3>4 DEF RequestStarted, lifecycle
  <2>2. CASE HandleTermination
    <3>1. stack # <<>> /\ stack[1].fn = "onTermination" BY <2>2 DEF HandleTermination, Top
    <3>2. configured BY <3>1, Below DEF TrustInv, Unconfigured
    <3>. QED BY <2>2, <3>2 DEF HandleTermination
  <2>3. CASE OnReply \/ OnMismatch \/ Replied \/ OnClientError \/ ScheduleRecovery
    BY <2>3 DEF OnReply, OnMismatch, Replied, OnClientError, ScheduleRecovery, BusyInv, lifecycle,
                status
  <2>. QED BY <1>6, <2>1, <2>2, <2>3 DEF SessionCallbacks
<1>7. CASE UNCHANGED sessionVars BY <1>7, Stutter DEF BusyInv
<1>8. CASE \E r \in Requests : SessionSend(r) BY <1>5, <1>8 DEF SessionSend
<1>. QED
  BY <1>1, <1>2, <1>3, <1>4, <1>5, <1>6, <1>7, <1>8
     DEF SessionNext, SessionApplication, SessionHandlers, SessionMainQueue, SessionTimeout,
         SessionWorld

Hears == OnReply \/ OnMismatch \/ OnClientError \/ HandleTermination \/ ScheduleRecovery

(* What the interface waits for stays, or something else takes its place.   *)
LEMMA ShownKept ==
  ASSUME Base, FlowInv, [SessionNext]_sessionVars, ~(Startup \/ Recover), ~Hears,
         UNCHANGED recovery, current # NoRequest => current' # NoRequest \/ Shown', Shown
  PROVE  Shown'
<1>1. CASE current # NoRequest BY <1>1 DEF Shown
<1>2. CASE Leaving BY <1>2, LeavingKept DEF Hears, Shown
<1>3. CASE recovery # "none" /\ worker = "none" BY <1>3, GoneKept DEF Gone, Shown
<1>4. ASSUME NEW t \in On, t.fn \in {"reply", "error"} \/ Planned(t) PROVE Shown'
  <2>1. t \in On'
    <3>1. CASE On \subseteq On' BY <3>1
    <3>2. CASE SessionHandlers /\ Takes BY <1>4, <3>2, TakenBy DEF Takes, Hears, Planned
    <3>. QED BY <3>1, <3>2, Remains
  <2>. QED BY <1>4, <2>1 DEF Shown, Planned
<1>. QED BY <1>1, <1>2, <1>3, <1>4 DEF Shown

LEMMA ShownBy ==
  /\ Leaving' => Shown'
  /\ current' # NoRequest => Shown'
  /\ recovery' # "none" /\ worker' = "none" => Shown'
  /\ \A t \in On' : t.fn \in {"reply", "error"} \/ Planned(t) => Shown'
BY DEF Shown, Planned

LEMMA ShownStart ==
  ASSUME Base, BusyInv, Startup \/ Recover, busy'
  PROVE  Shown'
<1>1. CASE ~IsStarted /\ UNCHANGED <<process, busy, recovery>> /\ recovery # "none"
  BY <1>1, ShownBy DEF IsStarted, process
<1>2. CASE recovery # "none" /\ (~Allowed \/ IsStarted) /\ UNCHANGED <<vars, busy>>
  <2>1. worker # "none" BY <1>2 DEF BusyInv, Allowed, IsStarted
  <2>2. current # NoRequest \/ Leaving \/ \E t \in On : t.fn \in {"reply", "error"} \/ Planned(t)
    BY <1>2, <2>1 DEF BusyInv, Shown
  <2>3. UNCHANGED <<current, worker, stack>> BY <1>2 DEF vars, process, client
  <2>. QED BY <2>2, <2>3 DEF Shown, Leaving, On, Planned
<1>. QED BY <1>1, <1>2, StartEffect

LEMMA ShownSend ==
  ASSUME Base, FlowInv, BusyInv, [SessionNext]_sessionVars, ~(Startup \/ Recover), ~Hears,
         NEW r \in Requests, SessionSend(r), busy'
  PROVE  Shown'
<1>1. UNCHANGED <<busy, recovery>> BY DEF SessionSend, session, lifecycle, status
<1>2. current # NoRequest => current' # NoRequest
  BY SendEffect, NamesAssumption DEF Declined, Replaced, Joined, Dispatched, client
<1>. QED BY <1>1, <1>2, ShownKept DEF BusyInv

LEMMA ShownApplication ==
  ASSUME Base, Base', FlowInv, BusyInv, [SessionNext]_sessionVars, ~(Startup \/ Recover), ~Hears,
         Restart \/ SessionStop \/ BeginTermination \/ TargetLifetimeChanged \/ ScriptMissing, busy'
  PROVE  Shown'
<1>1. UNCHANGED <<worker, current>> BY ApplicationEffect DEF process, client
<1>2. CASE Restart
  <2>1. CASE IsStarted /\ Stop
    <3>1. On' = Interruption("stop") \cup On BY <2>1, StopEffect DEF Interrupts, Leaves, Holds
    <3>2. \E t \in Interruption("stop") : t.fn = "stop" BY EventKinds DEF Interruption
    <3>3. \E t \in On' : Ending(t) BY <3>1, <3>2 DEF Ending
    <3>4. worker' # "none" BY <1>1, <2>1 DEF IsStarted
    <3>. QED BY <3>3, <3>4, GoneBy, ShownBy
  <2>2. CASE ~IsStarted /\ recovery' = "manual" BY <1>1, <2>2, ShownBy DEF IsStarted
  <2>. QED BY <1>2, <2>1, <2>2 DEF Restart
<1>3. CASE SessionStop
  <2>1. UNCHANGED <<recovery, busy>> BY <1>3 DEF SessionStop, Allowed, BusyInv, status
  <2>. QED BY <1>1, <2>1, ShownKept DEF BusyInv
<1>4. CASE BeginTermination BY <1>1, <1>4, ShownBy DEF BeginTermination, InFlight
<1>5. CASE TargetLifetimeChanged
  <2>1. UNCHANGED <<recovery, busy>> BY <1>5 DEF TargetLifetimeChanged, lifecycle, status
  <2>. QED BY <1>1, <2>1, ShownKept DEF BusyInv
<1>6. CASE ScriptMissing BY <1>6 DEF ScriptMissing
<1>. QED BY <1>2, <1>3, <1>4, <1>5, <1>6

(* A stop or the end of the worker takes the request in flight.             *)
LEMMA ShownFinish ==
  ASSUME Base, Base', TrustInv, TurnInv, Finish, current # NoRequest
  PROVE  Leaving'
<1>1. stack # <<>> /\ stack[1].fn \in {"stop", "terminate"} BY FinishEffect
<1>2. On = {stack[1]} \cup Under /\ Under \subseteq On' /\ stack[1] \in On
  BY <1>1, UnderTop, Below, FinishEffect, EndsRemain
<1>3. CASE worker # "none"
  <2>1. stack[1].fn = "stop" BY <1>1, <1>2, <1>3 DEF TrustInv, TrustOn
  <2>2. worker' \in {"stopping", "exited"}
    BY <1>3, <2>1, FinishEffect DEF IsRunning, Base, ClientTypeOK
  <2>. QED BY <2>2 DEF Leaving
<1>4. CASE worker = "none"
  <2>1. worker' = "none" BY <1>4, FinishEffect DEF IsRunning
  <2>2. PICK t \in On : t.fn = "terminate" BY <1>4 DEF TurnInv
  <2>3. CASE t \in On' BY <2>1, <2>2, <2>3 DEF Leaving, Closing
  <2>4. CASE t \notin On'
    <3>1. stack[1].fn = "terminate" BY <1>2, <2>2, <2>4
    <3>2. PICK u : u = Task("onTermination", NoRequest, "none") OBVIOUS
    <3>3. u \in On' BY <3>1, <3>2, FinishEffect DEF Ends, Holds
    <3>. QED BY <2>1, <3>2, <3>3, EventKinds DEF Leaving, Closing
  <2>. QED BY <2>3, <2>4
<1>. QED BY <1>3, <1>4

LEMMA ShownHandlers ==
  ASSUME Base, Base', FlowInv, TrustInv, TurnInv, BusyInv, [SessionNext]_sessionVars,
         ~(Startup \/ Recover), ~Hears, UNCHANGED session, busy',
         \/ Transmit \/ Finish \/ Deliver \/ EndDelivery \/ StopWorker \/ CallRequest \/ Return
  PROVE  Shown'
<1>1. UNCHANGED <<busy, recovery>> BY DEF session, lifecycle, status
<1>2. CASE Transmit
  <2>1. CASE SendEnds(stack[1].req, "sendFailed", Under)
    <3>1. PICK told : told = {Callback("sendFailed"), StopProcess,
                              Task("endDelivery", NoRequest, "none")}
      OBVIOUS
    <3>2. Callback("sendFailed") \in On' BY <2>1, <3>1 DEF SendEnds, Ends, Holds
    <3>. QED BY <3>2, EventKinds, ShownBy
  <2>2. CASE UNCHANGED current BY <1>1, <2>2, ShownKept DEF BusyInv
  <2>. QED BY <1>2, <2>1, <2>2, TransmitEffect DEF SendPasses
<1>3. CASE Finish BY <1>1, <1>3, ShownFinish, ShownBy, ShownKept DEF BusyInv
<1>4. CASE Deliver \/ StopWorker \/ CallRequest \/ Return
  <2>1. UNCHANGED current BY <1>4 DEF Deliver, StopWorker, CallRequest, Return, client
  <2>. QED BY <1>1, <2>1, ShownKept DEF BusyInv
<1>5. CASE EndDelivery
  <2>1. current # NoRequest => current' # NoRequest
    BY <1>5, EndDeliveryEffect, NamesAssumption DEF Dispatched, FlushFails
  <2>. QED BY <1>1, <2>1, ShownKept DEF BusyInv
<1>. QED BY <1>2, <1>3, <1>4, <1>5

LEMMA ShownCallbacks ==
  ASSUME Base, Base', FlowInv, LeavingInv, BusyInv, [SessionNext]_sessionVars,
         ~(Startup \/ Recover), SessionCallbacks, busy'
  PROVE  Shown'
<1>1. stack # <<>> /\ UNCHANGED <<worker, current>>
  BY DEF SessionCallbacks, RequestStarted, OnReply, Replied, OnMismatch, OnClientError,
         HandleTermination, ScheduleRecovery, CallOwner, Top, process, client
<1>2. stack[1] \in On /\ stack[1] \in Tasks BY <1>1, Below
<1>3. CASE RequestStarted
  <2>1. stack[1].fn = "started" BY <1>3 DEF RequestStarted, Top
  <2>2. current # NoRequest
    BY <1>2, <2>1, NamesAssumption DEF FlowInv, FlowOf, Tasks, OfRequest
  <2>. QED BY <1>1, <2>2, ShownBy
<1>4. CASE OnReply \/ OnMismatch BY <1>4 DEF OnReply, OnMismatch
<1>5. CASE Replied /\ ~Hears
  <2>1. UNCHANGED <<busy, recovery>> BY <1>5 DEF Replied, lifecycle, status
  <2>. QED BY <1>1, <1>5, <2>1, ShownKept DEF BusyInv
<1>7. Replied => ~Hears
  BY DEF Replied, Hears, OnReply, OnMismatch, OnClientError, HandleTermination,
         ScheduleRecovery, Top
<1>8. CASE OnClientError
  <2>1. stack[1].fn = "error" /\ stack[1].code # "mismatch" /\ UNCHANGED lifecycle
    BY <1>8 DEF OnClientError, Top
  <2>2. ~HandleTermination BY <2>1 DEF HandleTermination, Top
  <2>3. PICK code : code = stack[1].code OBVIOUS
  <2>4. configured
    <3>1. ~configured => busy' = busy BY <1>8 DEF OnClientError
    <3>. QED BY <3>1 DEF BusyInv
  <2>5. busy' = IF code \in Recoverable THEN InFlight ELSE RecoveryOwned
    BY <1>8, <2>3, <2>4 DEF OnClientError
  <2>6. CASE code \in Recoverable BY <1>1, <2>5, <2>6, ShownBy DEF InFlight
  <2>7. CASE code \notin Recoverable
    <3>1. Lost(stack[1]) BY <2>1, <2>3, <2>7 DEF Lost
    <3>2. Gone BY <1>2, <3>1 DEF LeavingInv, Gone
    <3>3. Leaving => Shown' BY <2>2, LeavingKept, ShownBy
    <3>4. worker # "none" \/ recovery # "none" \/ restartPending
      BY <2>5, <2>7 DEF RecoveryOwned, IsStarted
    <3>5. restartPending => Leaving BY DEF LeavingInv
    <3>6. recovery # "none" /\ worker = "none" => Shown' BY <1>1, <2>1, ShownBy DEF lifecycle
    <3>. QED BY <3>2, <3>3, <3>4, <3>5, <3>6 DEF Gone
  <2>. QED BY <2>6, <2>7
<1>9. CASE HandleTermination
  <2>1. stack[1].fn = "onTermination" BY <1>9 DEF HandleTermination, Top
  <2>2. PICK kind \in Kinds : Popped({App, Task("schedule", NoRequest, kind)}) /\ kind # "none"
    BY <1>9, TerminationEffect
  <2>3. PICK u : u = Task("schedule", NoRequest, kind) OBVIOUS
  <2>4. u \in On' /\ Planned(u) BY <2>2, <2>3, EventKinds DEF Popped, Holds, Planned
  <2>. QED BY <2>4 DEF Shown
<1>10. CASE ScheduleRecovery
  <2>1. stack[1].fn = "schedule" /\ UNCHANGED busy BY <1>10 DEF ScheduleRecovery, Top, status
  <2>2. worker = "none" BY <1>2, <2>1 DEF LeavingInv
  <2>3. recovery' = IF stack[1].code = "none" THEN recovery ELSE stack[1].code
    BY <1>10 DEF ScheduleRecovery
  <2>4. CASE recovery' # "none" BY <1>1, <2>2, <2>4, ShownBy
  <2>5. CASE recovery' = "none"
    <3>1. stack[1].code = "none" /\ recovery = "none" BY <2>3, <2>5
    <3>2. Shown BY <2>1 DEF BusyInv
    <3>3. Leaving => Shown' BY <2>1, LeavingKept, ShownBy DEF HandleTermination, Top
    <3>4. ASSUME NEW t \in On, t.fn \in {"reply", "error"} \/ Planned(t) PROVE Shown'
      <4>1. t # stack[1] BY <2>1, <3>1, <3>4 DEF Planned
      <4>2. t \in On' BY <1>1, <3>4, <4>1, UnderTop, TaskEffect
      <4>. QED BY <3>4, <4>2, ShownBy
    <3>. QED BY <1>1, <3>1, <3>2, <3>3, <3>4, ShownBy DEF Shown
  <2>. QED BY <2>4, <2>5
<1>. QED BY <1>3, <1>4, <1>5, <1>7, <1>8, <1>9, <1>10 DEF SessionCallbacks

LEMMA ShownMain ==
  ASSUME Base, Base', FlowInv, BusyInv, [SessionNext]_sessionVars, ~(Startup \/ Recover), ~Hears,
         UNCHANGED session, busy', Terminated \/ Violation \/ Sent \/ Receive \/ Timeout
  PROVE  Shown'
<1>1. Idle BY DEF Terminated, Violation, Sent, Receive, Timeout
<1>2. On = {} /\ AppRuns BY <1>1, NothingOn
<1>3. UNCHANGED <<busy, recovery>> BY DEF session, lifecycle, status
<1>4. UNCHANGED current => Shown' BY <1>3, ShownKept DEF BusyInv
<1>5. ASSUME NEW t \in On', t.fn \in {"reply", "error"} PROVE Shown' BY <1>5, ShownBy
<1>6. ASSUME NEW code \in {"timeout", "idleProtocolError", "protocolError"}, Fail(code)
      PROVE  Shown'
  <2>1. code \in Codes BY CodeTypes DEF Unknown
  <2>2. PICK told : told = {Callback(code), StopProcess} OBVIOUS
  <2>3. PICK base : base = On OBVIOUS
  <2>4. Ends(base, code, told) BY <1>2, <1>6, <2>1, <2>2, <2>3, FailEnds
  <2>5. Callback(code) \in On' BY <2>2, <2>4 DEF Ends, Holds
  <2>. QED BY <1>5, <2>5, EventKinds
<1>7. CASE Terminated BY <1>4, <1>7 DEF Terminated, client
<1>8. CASE Violation BY <1>4, <1>6, <1>8 DEF Violation, client
<1>9. CASE Timeout BY <1>4, <1>6, <1>9 DEF Timeout
<1>10. CASE Sent
  <2>1. /\ Head(main).fn = "sent" /\ main # <<>>
        /\ SendFailed(Head(main).req, Head(main).code, timer, stack)
    BY <1>10 DEF Sent
  <2>2. PICK r, code, rest : r = Head(main).req /\ code = Head(main).code /\ rest = stack
    OBVIOUS
  <2>3. r \in Requests /\ code \in {"encodeFailed", "sendFailed", "sendUnknown"}
    BY <2>1, <2>2, MainHead DEF Posted, OfRequest
  <2>4. Rest(rest) /\ Range(rest) = {} BY <1>2, <2>2 DEF Rest, On
  <2>5. CASE Unencoded(r, Range(rest))
    <3>1. Callback("encodeFailed") \in On' BY <2>5 DEF Unencoded, Leaves, Holds
    <3>. QED BY <1>5, <3>1, EventKinds
  <2>6. CASE SendEnds(r, code, Range(rest))
    <3>1. Callback(code) \in On' BY <2>6 DEF SendEnds, Ends, Holds
    <3>. QED BY <1>5, <3>1, EventKinds
  <2>7. CASE SendPasses(r, timer, Range(rest)) BY <1>4, <2>7 DEF SendPasses
  <2>. QED BY <2>1, <2>2, <2>3, <2>4, <2>5, <2>6, <2>7, SendFails
<1>11. CASE Receive
  <2>1. CASE UNCHANGED client BY <1>4, <2>1 DEF client
  <2>2. CASE Mismatches(Head(main).req)
    <3>1. Callback("mismatch") \in On' BY <2>2 DEF Mismatches, Ends, Holds
    <3>. QED BY <1>5, <3>1, EventKinds
  <2>3. CASE Answered(Head(main).req, Head(main).code)
    <3>1. Task("reply", Head(main).req, Head(main).code) \in On' BY <2>3 DEF Answered, Holds
    <3>. QED BY <1>5, <3>1, EventKinds
  <2>. QED BY <1>11, <2>1, <2>2, <2>3, ReceiveEffect
<1>. QED BY <1>7, <1>8, <1>9, <1>10, <1>11

LEMMA BusyNext ==
  ASSUME Base, Base', FlowInv, TrustInv, TurnInv, LeavingInv, BusyInv, [SessionNext]_sessionVars
  PROVE  BusyInv'
<1>1. ASSUME busy' PROVE Shown'
  <2>1. CASE Startup \/ Recover BY <1>1, <2>1, ShownStart
  <2>2. CASE SessionCallbacks /\ ~(Startup \/ Recover) BY <1>1, <2>2, ShownCallbacks
  <2>3. CASE ~(Startup \/ Recover) /\ ~SessionCallbacks
    <3>1. ~Hears BY <2>3 DEF Hears, SessionCallbacks
    <3>2. CASE World /\ UNCHANGED session
      <4>1. UNCHANGED <<current, busy, recovery>>
        BY <3>2 DEF World, Write, Answer, Garble, Exit, client, session, lifecycle, status
      <4>. QED BY <1>1, <2>3, <3>1, <4>1, ShownKept DEF BusyInv
    <3>3. CASE UNCHANGED sessionVars
      BY <1>1, <2>3, <3>1, <3>3, Stutter, ShownKept DEF BusyInv
    <3>4. CASE SessionApplication
      BY <1>1, <2>3, <3>1, <3>4, ShownSend, ShownApplication DEF SessionApplication
    <3>5. CASE SessionHandlers
      BY <1>1, <2>3, <3>1, <3>5, ShownHandlers DEF SessionHandlers
    <3>6. CASE SessionMainQueue \/ SessionTimeout
      BY <1>1, <2>3, <3>1, <3>6, ShownMain DEF SessionMainQueue, SessionTimeout, MainQueue
    <3>. QED BY <2>3, <3>2, <3>3, <3>4, <3>5, <3>6 DEF SessionNext, SessionWorld
  <2>. QED BY <2>1, <2>2, <2>3
<1>. QED BY <1>1, RecoveryNext, ConfiguredNext DEF BusyInv

--------------------------------------------------------------------------------
WaitInv == ExitInv /\ LeavingInv /\ TurnInv /\ AccountInv /\ BusyInv

LEMMA WaitInit == SessionInit => WaitInv
<1>1. HAVE SessionInit
<1>2. /\ stack = <<>> /\ main = <<>> /\ queue = <<>> /\ worker = "none" /\ current = NoRequest
      /\ delivering = FALSE /\ terminal = FALSE /\ asked = {}
      /\ restartPending = FALSE /\ recovery = "none" /\ busy = FALSE
  BY <1>1 DEF SessionInit, Init
<1>3. On = {} /\ Blocks = {} BY <1>2, RangeTuples DEF On, Blocks
<1>4. ExitInv BY <1>2, <1>3 DEF ExitInv
<1>5. LeavingInv BY <1>2, <1>3 DEF LeavingInv
<1>6. TurnInv BY <1>2, <1>3 DEF TurnInv
<1>7. AccountInv BY <1>2, <1>3 DEF AccountInv
<1>8. BusyInv BY <1>2 DEF BusyInv
<1>. QED BY <1>4, <1>5, <1>6, <1>7, <1>8 DEF WaitInv

LEMMA WaitNext ==
  ASSUME Base, Base', FlowInv, TrustInv, WaitInv, [SessionNext]_sessionVars
  PROVE  WaitInv'
<1>1. ExitInv' BY StepMoves, ExitNext DEF WaitInv
<1>. QED BY <1>1, LeavingNext, TurnNext, AccountNext, BusyNext DEF WaitInv

(* With nothing on the stack and nothing scheduled, nothing waits.          *)
LEMMA WaitStuck ==
  ASSUME Base, WaitInv
  PROVE  NeverStuck
<1>1. SUFFICES ASSUME Waiting, ~Scheduled PROVE FALSE BY DEF NeverStuck
<1>2. /\ stack = <<>> /\ main = <<>> /\ timer = NoRequest /\ recovery = "none"
      /\ worker # "stopping" /\ On = {} /\ Blocks = {}
  BY <1>1, Below, RangeTuples DEF Scheduled, Idle, Blocks
<1>3. current = NoRequest BY <1>2 DEF WaitInv, TurnInv, Sending
<1>4. queue = <<>> BY <1>2, <1>3 DEF WaitInv, TurnInv
<1>5. Range(queue) = {} BY <1>4, RangeTuples
<1>6. worker # "exited" BY <1>2 DEF WaitInv, ExitInv
<1>7. ~Leaving BY <1>2, <1>6 DEF Leaving
<1>8. ~busy BY <1>2, <1>3, <1>7 DEF WaitInv, BusyInv, Shown
<1>9. ASSUME NEW r \in asked, result[r] = "none" PROVE FALSE
  <2>1. Accounted(r) BY <1>9 DEF WaitInv, AccountInv
  <2>2. r # NoRequest BY NamesAssumption DEF Base, ClientTypeOK
  <2>. QED BY <1>2, <1>3, <1>5, <1>9, <2>1, <2>2 DEF Accounted, Queued
<1>. QED BY <1>1, <1>8, <1>9 DEF Waiting

(* Nobody waits for nothing: while a request is not completed, or the       *)
(* interface is busy, the code has an event before it that it has scheduled,*)
(* whatever the worker does (TrainerBackendSession.swift:347, BackendClient *)
(* .swift:394).                                                             *)
THEOREM NeverStuckAlways == SessionSpec => []NeverStuck
<1>1. SessionInit => Base /\ FlowInv /\ StageInv /\ TrustInv /\ WaitInv
  BY BaseInit, FlowInit, StageInit, TrustInit, WaitInit
<1>2. Base /\ FlowInv /\ StageInv /\ TrustInv /\ WaitInv /\ [SessionNext]_sessionVars
        => (Base /\ FlowInv /\ StageInv /\ TrustInv /\ WaitInv)'
  BY BaseNext, FlowNext, StageNext, TrustNext, WaitNext
<1>3. Base /\ WaitInv => NeverStuck BY WaitStuck
<1>. QED BY <1>1, <1>2, <1>3, PTL DEF SessionSpec
================================================================================
