------------------------ MODULE TrainerGameContextProofs ------------------------
(* Theorems about TrainerGameContext for both games, every number of games   *)
(* that start and exit, and every module whose game has an application       *)
(* record.                                                                   *)
EXTENDS TrainerGameContext, SequenceTheorems, TLAPS

Codes == {"none", "ok", "failed", "unknown"}
Fns   == {"none", "answered", "reply", "start", "changed", "launch", "activate",
          "terminate", "exit", "recover"}
Events == [fn : Fns, pid : Nat, code : Codes]

Policies ==
  [running : BOOLEAN, connect : BOOLEAN, restart : BOOLEAN, suppressed : BOOLEAN,
   background : BOOLEAN, exitRefresh : BOOLEAN, generation : Nat, awaiting : BOOLEAN]

Hosts ==
  [module : {"hades", "hades2"}, gen : Nat, pid : Nat, lastPid : Nat, policy : Policies,
   wasAvailable : BOOLEAN, wasConnected : BOOLEAN, active : BOOLEAN,
   connected : BOOLEAN, target : Nat, deferred : BOOLEAN, ready : BOOLEAN, changed : BOOLEAN,
   backend : {"up", "down", "recovering"}, attempts : Nat, manual : BOOLEAN, ops : Seq(Kinds),
   fresh : BOOLEAN, untrusted : BOOLEAN, uncertain : BOOLEAN,
   launched : Nat, tried : BOOLEAN, detached : BOOLEAN, overtaken : BOOLEAN]

\* The requests that wait, and the first of them, are left in their place.
Extends(s, t) == Len(s) <= Len(t) /\ \A i \in 1 .. Len(s) : t[i] = s[i]

\* What a call of the module leaves alone, and what of the session it can change.
Called(h, k) ==
  /\ k \in Hosts
  /\ k.module = h.module /\ k.gen = h.gen /\ k.pid = h.pid /\ k.lastPid = h.lastPid
  /\ k.policy = h.policy /\ k.active = h.active
  /\ k.wasAvailable = h.wasAvailable /\ k.wasConnected = h.wasConnected
  /\ k.target = h.target /\ k.untrusted = h.untrusted /\ k.uncertain = h.uncertain
  /\ k.launched = h.launched /\ k.tried = h.tried /\ k.detached = h.detached
  /\ k.overtaken = h.overtaken
  /\ h.changed => k.changed
  /\ k.connected => h.connected
  /\ h.module = "hades2" => k.connected = h.connected
  /\ h.backend = "up" => k.backend = "up"
  /\ Extends(h.ops, k.ops)

LEMMA ExtendsTransitive ==
  ASSUME NEW s \in Seq(Kinds), NEW t \in Seq(Kinds), NEW u \in Seq(Kinds),
         Extends(s, t), Extends(t, u)
  PROVE  Extends(s, u)
BY DEF Extends

LEMMA CalledReflexive == ASSUME NEW h \in Hosts PROVE Called(h, h)
BY DEF Called, Hosts, Extends

LEMMA CalledTransitive ==
  ASSUME NEW h \in Hosts, NEW k, NEW l, Called(h, k), Called(k, l)
  PROVE  Called(h, l)
<1>1. k \in Hosts /\ l \in Hosts BY DEF Called
<1>2. h.ops \in Seq(Kinds) /\ k.ops \in Seq(Kinds) /\ l.ops \in Seq(Kinds) BY <1>1 DEF Hosts
<1>3. Extends(h.ops, k.ops) /\ Extends(k.ops, l.ops) BY DEF Called
<1>4. Extends(h.ops, l.ops) BY <1>2, <1>3, ExtendsTransitive
<1>. QED BY <1>1, <1>4 DEF Called

\* What send takes: a trusted request only while the target is trusted.
Accepted(h, kind) == Available(h) /\ ~(kind \in Trusted /\ h.untrusted)

LEMMA HostOps ==
  ASSUME NEW h \in Hosts, NEW ops \in Seq(Kinds), NEW fresh \in BOOLEAN
  PROVE  [h EXCEPT !.ops = ops, !.fresh = fresh] \in Hosts
BY DEF Hosts

LEMMA HostSeen ==
  ASSUME NEW h \in Hosts, NEW overtaken \in BOOLEAN, NEW tried \in BOOLEAN
  PROVE  [h EXCEPT !.overtaken = overtaken, !.tried = tried] \in Hosts
BY DEF Hosts

LEMMA HostToggled ==
  ASSUME NEW h \in Hosts, NEW p \in Policies, NEW detached \in BOOLEAN, NEW tried \in BOOLEAN
  PROVE  [h EXCEPT !.policy = p, !.detached = detached, !.tried = tried] \in Hosts
BY DEF Hosts

LEMMA PublishedIs ==
  ASSUME NEW h \in Hosts
  PROVE  /\ Called(h, Published(h)) /\ Published(h).changed
         /\ Published(h).ops = h.ops /\ Published(h).backend = h.backend
         /\ Published(h).deferred = h.deferred /\ Published(h).ready = h.ready
         /\ Published(h).fresh = h.fresh /\ Published(h).attempts = h.attempts
         /\ Published(h).manual = h.manual
<1>. DEFINE on == h.connected /\ ~(h.module = "hades" /\ h.uncertain)
            k == [h EXCEPT !.changed = TRUE, !.connected = on]
<1>2. on \in BOOLEAN BY DEF Hosts
<1>3. Published(h) = k BY DEF Published
<1>1. Published(h) \in Hosts
  <2>. HIDE DEF on
  <2>1. k \in Hosts BY <1>2 DEF Hosts
  <2>. HIDE DEF k
  <2>. QED BY <1>3, <2>1
<1>. QED BY <1>1 DEF Published, Hosts, Called, Extends

LEMMA SendIs ==
  ASSUME NEW h \in Hosts, NEW kind \in Kinds
  PROVE  /\ Called(h, Send(h, kind))
         /\ Send(h, kind).ops = IF Accepted(h, kind) THEN Append(h.ops, kind) ELSE h.ops
         /\ Accepted(h, kind) => Send(h, kind).changed
         /\ ~Accepted(h, kind) => Send(h, kind) = h
         /\ Send(h, kind).backend = h.backend
         /\ Send(h, kind).deferred = h.deferred /\ Send(h, kind).ready = h.ready
         /\ Send(h, kind).attempts = h.attempts /\ Send(h, kind).manual = h.manual
<1>1. CASE ~Accepted(h, kind)
  <2>1. Send(h, kind) = h BY <1>1 DEF Send, Accepted
  <2>. QED BY <1>1, <2>1, CalledReflexive
<1>2. CASE Accepted(h, kind)
  <2>. DEFINE k == [h EXCEPT !.ops = Append(@, kind), !.fresh = @ \/ h.ops = <<>>]
  <2>1. Send(h, kind) = Published(k) BY <1>2 DEF Send, Accepted
  <2>6. Append(h.ops, kind) \in Seq(Kinds) BY DEF Hosts
  <2>7. k \in Hosts BY <2>6 DEF Hosts
  <2>2. k \in Hosts /\ k.ops = Append(h.ops, kind) BY <2>7 DEF Hosts
  <2>3. Extends(h.ops, Append(h.ops, kind)) BY DEF Hosts, Extends
  <2>4. Called(h, k) BY <2>2, <2>3 DEF Called, Hosts
  <2>5. /\ k.backend = h.backend /\ k.deferred = h.deferred /\ k.ready = h.ready
        /\ k.attempts = h.attempts /\ k.manual = h.manual BY DEF Hosts
  <2>. HIDE DEF k
  <2>. QED BY <1>2, <2>1, <2>2, <2>4, <2>5, PublishedIs, CalledTransitive
<1>. QED BY <1>1, <1>2

\* A connected host has a worker and a target.
SessionInv(h) ==
  /\ h.backend # "up" => h.ops = <<>> /\ ~h.connected
  /\ h.connected => h.target # 0

Connects(s) == \E i \in 1 .. Len(s) : s[i] = "connect"

\* An edit is sent to a connected game, and a connection only while there is none and
\* no other one waits.
ShapeInv(h) ==
  h.module = "hades2" =>
    /\ h.ops # <<>> /\ h.ops[1] = "edit" => h.connected
    /\ \A i \in 2 .. Len(h.ops) : h.ops[i] # "edit"
    /\ \A i \in 1 .. Len(h.ops) : h.ops[i] = "connect" =>
         /\ ~h.deferred
         /\ i # 1 => ~h.connected
         /\ \A j \in 1 .. i - 1 : h.ops[j] # "connect"

\* What every call of the module and every decision keeps.
Sound(h) == h \in Hosts /\ SessionInv(h) /\ ShapeInv(h)

\* What keeps the shape of the queue when kind is sent.
CanSend(h, kind) ==
  h.module = "hades2" =>
    /\ kind = "edit" => h.ops = <<>> /\ h.connected
    /\ kind = "connect" => ~h.deferred /\ ~Connects(h.ops) /\ (h.ops = <<>> \/ ~h.connected)

LEMMA SendSound ==
  ASSUME NEW h, NEW kind \in Kinds, Sound(h), CanSend(h, kind)
  PROVE  Sound(Send(h, kind))
<1>. DEFINE k == Send(h, kind)
<1>1. h \in Hosts BY DEF Sound
<1>2. Called(h, k) BY <1>1, SendIs
<1>. SUFFICES ASSUME Accepted(h, kind) PROVE Sound(k) BY <1>1, SendIs
<1>3. k.ops = Append(h.ops, kind) /\ k.deferred = h.deferred /\ k.backend = h.backend BY <1>1, SendIs
<1>. HIDE DEF k
<1>4. k \in Hosts /\ k.module = h.module /\ k.target = h.target /\ (k.connected => h.connected)
      /\ (h.module = "hades2" => k.connected = h.connected) BY <1>2 DEF Called
<1>5. h.ops \in Seq(Kinds) BY <1>1 DEF Hosts
<1>6. SessionInv(k) BY <1>3, <1>4 DEF Sound, SessionInv, Accepted, Available
<1>7. ShapeInv(k)
  <2>. SUFFICES ASSUME h.module = "hades2" PROVE ShapeInv(k) BY <1>4 DEF ShapeInv
  <2>. DEFINE n == Len(h.ops)
  <2>1. n \in Nat /\ Len(k.ops) = n + 1 /\ k.ops[n + 1] = kind BY <1>3, <1>5
  <2>2. \A i \in 1 .. n : k.ops[i] = h.ops[i] BY <1>3, <1>5
  <2>3. h.ops = <<>> <=> n = 0 BY <1>5
  <2>4. ASSUME k.ops # <<>>, k.ops[1] = "edit" PROVE k.connected
    <3>1. CASE n = 0 BY <3>1, <2>1, <2>3, <2>4, <1>4 DEF CanSend
    <3>2. CASE n # 0
      <4>1. h.ops[1] = "edit" BY <3>2, <2>1, <2>2, <2>4
      <4>. QED BY <4>1, <3>2, <2>3, <1>4 DEF Sound, ShapeInv
    <3>. QED BY <3>1, <3>2
  <2>5. ASSUME NEW i \in 2 .. Len(k.ops) PROVE k.ops[i] # "edit"
    <3>1. CASE i = n + 1 BY <3>1, <2>1, <2>3, <2>5 DEF CanSend
    <3>2. CASE i # n + 1
      <4>1. i \in 2 .. n BY <3>2, <2>1, <2>5
      <4>. QED BY <4>1, <2>2 DEF Sound, ShapeInv
    <3>. QED BY <3>1, <3>2
  <2>6. ASSUME NEW i \in 1 .. Len(k.ops), k.ops[i] = "connect"
        PROVE  ~k.deferred /\ (i # 1 => ~k.connected) /\ \A j \in 1 .. i - 1 : k.ops[j] # "connect"
    <3>1. CASE i = n + 1
      <4>1. kind = "connect" BY <3>1, <2>1, <2>6
      <4>2. ~h.deferred /\ (h.ops = <<>> \/ ~h.connected) BY <4>1 DEF CanSend
      <4>3. \A j \in 1 .. n : h.ops[j] # "connect" BY <4>1 DEF CanSend, Connects
      <4>. QED BY <3>1, <4>2, <4>3, <2>1, <2>2, <2>3, <1>3, <1>4
    <3>2. CASE i # n + 1
      <4>1. i \in 1 .. n /\ h.ops[i] = "connect" BY <3>2, <2>1, <2>2, <2>6
      <4>2. ~h.deferred /\ (i # 1 => ~h.connected) /\ \A j \in 1 .. i - 1 : h.ops[j] # "connect"
        BY <4>1 DEF Sound, ShapeInv
      <4>. QED BY <4>1, <4>2, <2>1, <2>2, <1>3, <1>4
    <3>. QED BY <3>1, <3>2
  <2>. QED BY <2>4, <2>5, <2>6 DEF ShapeInv
<1>. QED BY <1>4, <1>6, <1>7 DEF Sound

LEMMA ShapeKept ==
  ASSUME NEW h, NEW k, ShapeInv(h), k.module = h.module, k.ops = h.ops,
         h.module = "hades2" => k.connected = h.connected, k.deferred => h.deferred
  PROVE  ShapeInv(k)
<1>. SUFFICES ASSUME h.module = "hades2" PROVE ShapeInv(k) BY DEF ShapeInv
<1>1. k.ops # <<>> /\ k.ops[1] = "edit" => k.connected BY DEF ShapeInv
<1>2. \A i \in 2 .. Len(k.ops) : k.ops[i] # "edit" BY DEF ShapeInv
<1>3. ASSUME NEW i \in 1 .. Len(k.ops), k.ops[i] = "connect"
      PROVE  ~k.deferred /\ (i # 1 => ~k.connected) /\ \A j \in 1 .. i - 1 : k.ops[j] # "connect"
  BY <1>3 DEF ShapeInv
<1>. QED BY <1>1, <1>2, <1>3 DEF ShapeInv

LEMMA PublishedSound == ASSUME NEW h, Sound(h) PROVE Sound(Published(h))
<1>. DEFINE k == Published(h)
<1>1. h \in Hosts BY DEF Sound
<1>2. Called(h, k) /\ k.ops = h.ops /\ k.deferred = h.deferred /\ k.backend = h.backend
  BY <1>1, PublishedIs
<1>. HIDE DEF k
<1>3. k \in Hosts /\ k.module = h.module /\ k.target = h.target /\ (k.connected => h.connected)
      /\ (h.module = "hades2" => k.connected = h.connected) BY <1>2 DEF Called
<1>4. ShapeInv(k) BY <1>2, <1>3, ShapeKept DEF Sound
<1>5. Sound(k) BY <1>2, <1>3, <1>4 DEF Sound, SessionInv
<1>. QED BY <1>5 DEF k

--------------------------------------------------------------------------------
(* The calls of the module *)

LEMMA UpIs ==
  ASSUME NEW h, Sound(h), h.backend # "up"
  PROVE  /\ Called(h, Up(h)) /\ Sound(Up(h)) /\ Up(h).changed
         /\ Up(h).backend = "up" /\ Up(h).ops = <<>>
         /\ Up(h).deferred = h.deferred /\ Up(h).ready = h.ready
<1>. DEFINE k == [h EXCEPT !.backend = "up", !.manual = FALSE, !.ops = <<>>]
<1>1. h \in Hosts /\ h.ops = <<>> BY DEF Sound, SessionInv
<1>2. k \in Hosts /\ k.ops = <<>> /\ k.backend = "up" /\ k.connected = h.connected
      /\ k.target = h.target /\ k.deferred = h.deferred /\ k.ready = h.ready
      /\ k.module = h.module BY <1>1 DEF Hosts
<1>3. Called(h, k) BY <1>1, <1>2 DEF Called, Hosts, Extends
<1>4. Up(h) = Published(k) BY DEF Up
<1>. HIDE DEF k
<1>5. Sound(k) BY <1>2 DEF Sound, SessionInv, ShapeInv
<1>. QED BY <1>1, <1>2, <1>3, <1>4, <1>5, PublishedIs, PublishedSound, CalledTransitive

LEMMA StartBackendIs ==
  ASSUME NEW h, Sound(h), h.backend # "up"
  PROVE  /\ Called(h, StartBackend(h)) /\ Sound(StartBackend(h)) /\ StartBackend(h).changed
         /\ StartBackend(h).backend = "up" /\ StartBackend(h).ops # <<>>
         /\ h.module = "hades2" => ~Connects(StartBackend(h).ops)
         /\ StartBackend(h).deferred = h.deferred /\ StartBackend(h).ready = h.ready
<1>. DEFINE a == [h EXCEPT !.attempts = 0]
            u == Up(a)
            o == Send(u, "status")
<1>1. h \in Hosts BY DEF Sound
<1>2. /\ a \in Hosts /\ a.backend = h.backend /\ a.ops = h.ops /\ a.module = h.module
      /\ a.connected = h.connected /\ a.target = h.target /\ a.deferred = h.deferred
      /\ a.ready = h.ready BY <1>1 DEF Hosts
<1>3. Called(h, a) BY <1>1, <1>2 DEF Called, Hosts, Extends
<1>4. StartBackend(h) = IF h.module = "hades" THEN Send(o, "other") ELSE Send(u, "scan")
  BY DEF StartBackend
<1>. HIDE DEF a
<1>5. Sound(a) BY <1>2 DEF Sound, SessionInv, ShapeInv
<1>6. /\ Called(a, u) /\ Sound(u) /\ u.changed /\ u.backend = "up" /\ u.ops = <<>>
      /\ u.deferred = h.deferred /\ u.ready = h.ready BY <1>2, <1>5, UpIs
<1>. HIDE DEF u
<1>7. u \in Hosts /\ Called(h, u) BY <1>1, <1>3, <1>6, CalledTransitive DEF Sound
<1>8. "status" \in Kinds /\ "scan" \in Kinds /\ "other" \in Kinds BY DEF Kinds, Trusted, Silent
<1>9. CASE h.module = "hades"
  <2>1. CanSend(u, "status") BY DEF CanSend
  <2>2. Called(u, o) /\ Sound(o) /\ o.changed /\ o.backend = "up"
        /\ o.deferred = h.deferred /\ o.ready = h.ready
    BY <1>6, <1>7, <1>8, <2>1, SendIs, SendSound DEF Called
  <2>. HIDE DEF o
  <2>3. o \in Hosts /\ Called(h, o) BY <1>1, <1>7, <2>2, CalledTransitive DEF Sound
  <2>4. CanSend(o, "other") BY DEF CanSend
  <2>5. Accepted(o, "other") BY <2>2 DEF Accepted, Available, Trusted
  <2>6. Send(o, "other").ops = Append(o.ops, "other") BY <1>8, <2>3, <2>5, SendIs
  <2>7. Send(o, "other").ops # <<>> BY <2>3, <2>6 DEF Hosts
  <2>8. Called(h, Send(o, "other")) BY <1>1, <1>8, <2>3, SendIs, CalledTransitive
  <2>. QED BY <1>4, <1>8, <1>9, <2>2, <2>3, <2>4, <2>5, <2>7, <2>8, SendIs, SendSound
<1>10. CASE h.module # "hades"
  <2>1. CanSend(u, "scan") BY DEF CanSend
  <2>2. Accepted(u, "scan") BY <1>6 DEF Accepted, Available, Trusted
  <2>6. Send(u, "scan").ops = Append(u.ops, "scan") BY <1>7, <1>8, <2>2, SendIs
  <2>3. Send(u, "scan").ops = <<"scan">> BY <1>6, <2>6
  <2>4. Send(u, "scan").ops # <<>> /\ ~Connects(Send(u, "scan").ops) BY <2>3 DEF Connects
  <2>5. Called(h, Send(u, "scan")) BY <1>1, <1>7, <1>8, SendIs, CalledTransitive
  <2>. QED BY <1>4, <1>6, <1>7, <1>8, <1>10, <2>1, <2>2, <2>4, <2>5, SendIs, SendSound
<1>. QED BY <1>9, <1>10

LEMMA RefreshIs ==
  ASSUME NEW h, Sound(h)
  PROVE  /\ Called(h, RefreshFromHost(h)) /\ Sound(RefreshFromHost(h))
         /\ Available(h) /\ ~h.untrusted =>
              /\ \E kind \in {"status", "scan"} : RefreshFromHost(h).ops = Append(h.ops, kind)
              /\ RefreshFromHost(h).changed
         /\ RefreshFromHost(h).ops = h.ops \/ \E kind \in {"status", "scan"} : RefreshFromHost(h).ops = Append(h.ops, kind)
         /\ RefreshFromHost(h).backend = h.backend
         /\ RefreshFromHost(h) = h \/ RefreshFromHost(h).changed
<1>. DEFINE kind == IF h.module = "hades" \/ h.connected THEN "status" ELSE "scan"
<1>1. h \in Hosts BY DEF Sound
<1>2. kind \in Kinds /\ kind \in {"status", "scan"} /\ RefreshFromHost(h) = Send(h, kind)
  BY DEF RefreshFromHost, Kinds, Trusted, Silent
<1>. HIDE DEF kind
<1>3. CanSend(h, kind) BY <1>2 DEF CanSend
<1>4. Available(h) /\ ~h.untrusted => Accepted(h, kind) BY DEF Accepted
<1>. QED BY <1>1, <1>2, <1>3, <1>4, SendIs, SendSound

LEMMA RestartIs ==
  ASSUME NEW h, Sound(h), h.backend # "up"
  PROVE  /\ Called(h, RestartBackendFromHost(h)) /\ Sound(RestartBackendFromHost(h))
         /\ RestartBackendFromHost(h).changed
         /\ RestartBackendFromHost(h).backend = "recovering"
         /\ RestartBackendFromHost(h).ops = <<>>
<1>. DEFINE k == [h EXCEPT !.backend = "recovering", !.manual = TRUE]
<1>1. h \in Hosts /\ h.ops = <<>> BY DEF Sound, SessionInv
<1>2. k \in Hosts /\ k.ops = <<>> /\ k.backend = "recovering" /\ k.connected = h.connected
      /\ k.target = h.target /\ k.deferred = h.deferred
      /\ k.module = h.module BY <1>1 DEF Hosts
<1>3. Called(h, k) BY <1>1, <1>2 DEF Called, Hosts, Extends
<1>4. RestartBackendFromHost(h) = Published(k) BY DEF RestartBackendFromHost
<1>. HIDE DEF k
<1>5. Sound(k) BY <1>2 DEF Sound, SessionInv, ShapeInv
<1>. QED BY <1>1, <1>2, <1>3, <1>4, <1>5, PublishedIs, PublishedSound, CalledTransitive

LEMMA ConsumeDeferredIs ==
  ASSUME NEW h, NEW busy \in BOOLEAN, Sound(h)
  PROVE  /\ Called(h, ConsumeDeferred(h, busy)) /\ Sound(ConsumeDeferred(h, busy))
         /\ ConsumeDeferred(h, busy) = h \/ ConsumeDeferred(h, busy).changed
         /\ ConsumeDeferred(h, busy) = h
              \/ (h.ready /\ ~h.connected /\ ConsumeDeferred(h, busy).ops = Append(h.ops, "connect"))
         /\ ConsumeDeferred(h, busy).backend = h.backend
<1>. DEFINE k == [h EXCEPT !.deferred = FALSE, !.ready = FALSE]
<1>1. h \in Hosts BY DEF Sound
<1>2. CASE h.deferred /\ h.ready /\ ~h.untrusted /\ Available(h) /\ ~busy /\ ~h.connected
  <2>1. k \in Hosts /\ k.ops = h.ops /\ k.backend = h.backend /\ k.connected = h.connected
        /\ k.target = h.target /\ ~k.deferred /\ k.module = h.module
        /\ k.untrusted = h.untrusted BY <1>1 DEF Hosts
  <2>2. Called(h, k) BY <1>1, <2>1 DEF Called, Hosts, Extends
  <2>3. ConsumeDeferred(h, busy) = Send(k, "connect") BY <1>2 DEF ConsumeDeferred
  <2>. HIDE DEF k
  <2>4. Sound(k) BY <2>1 DEF Sound, SessionInv, ShapeInv
  <2>5. CanSend(k, "connect") BY <1>2, <2>1 DEF CanSend, Sound, ShapeInv, Connects
  <2>6. Accepted(k, "connect") BY <1>2, <2>1 DEF Accepted, Available
  <2>7. "connect" \in Kinds BY DEF Kinds, Trusted
  <2>. DEFINE sent == Send(k, "connect")
  <2>8. /\ Called(k, sent) /\ sent.ops = Append(k.ops, "connect") /\ sent.changed
        /\ sent.backend = k.backend
    BY <2>1, <2>6, <2>7, SendIs
  <2>9. Sound(sent) BY <2>4, <2>5, <2>7, SendSound
  <2>. HIDE DEF sent
  <2>10. Called(h, sent) BY <1>1, <2>2, <2>8, CalledTransitive
  <2>11. ConsumeDeferred(h, busy) = sent BY <2>3 DEF sent
  <2>. QED BY <1>2, <2>1, <2>8, <2>9, <2>10, <2>11
<1>3. CASE ~(h.deferred /\ h.ready /\ ~h.untrusted /\ Available(h) /\ ~busy /\ ~h.connected)
  <2>. DEFINE r == ConsumeDeferred(h, busy)
  <2>1. r = h BY <1>3 DEF ConsumeDeferred
  <2>2. Called(h, h) BY <1>1, CalledReflexive
  <2>. QED BY <1>1, <2>1, <2>2
<1>. QED BY <1>2, <1>3

LEMMA ConnectAutomaticallyIs ==
  ASSUME NEW h, NEW launched \in BOOLEAN, Sound(h), ~h.connected,
         h.module = "hades2" => h.ops = <<>>
  PROVE  /\ Called(h, ConnectAutomatically(h, launched)) /\ Sound(ConnectAutomatically(h, launched))
         /\ ConnectAutomatically(h, launched).backend = h.backend
         /\ h.module = "hades2" /\ launched /\ ~h.ready =>
              ConnectAutomatically(h, launched).ops = h.ops
<1>. DEFINE r == ConnectAutomatically(h, launched)
            k == [h EXCEPT !.deferred = TRUE, !.changed = TRUE]
<1>1. h \in Hosts /\ "connect" \in Kinds BY DEF Sound, Kinds, Trusted
<1>2. CASE h.module = "hades2" /\ (h.deferred \/ launched)
  <2>1. r = ConsumeDeferred(k, Busy(h)) BY <1>2 DEF ConnectAutomatically
  <2>2. /\ k \in Hosts /\ k.ops = h.ops /\ k.backend = h.backend /\ k.connected = h.connected
        /\ k.target = h.target /\ k.module = h.module /\ k.ready = h.ready BY <1>1 DEF Hosts
  <2>3. Called(h, k) BY <1>1, <2>2 DEF Called, Hosts, Extends
  <2>4. Busy(h) \in BOOLEAN BY DEF Busy
  <2>. HIDE DEF k
  <2>5. k.ops = <<>> BY <1>2, <2>2
  <2>6. ShapeInv(k) BY <2>5 DEF ShapeInv
  <2>7. Sound(k) BY <2>2, <2>6 DEF Sound, SessionInv
  <2>. DEFINE c == ConsumeDeferred(k, Busy(h))
  <2>8. /\ Called(k, c) /\ Sound(c) /\ c.backend = k.backend
        /\ c = k \/ (k.ready /\ ~k.connected /\ c.ops = Append(k.ops, "connect"))
    BY <2>4, <2>7, ConsumeDeferredIs
  <2>. HIDE DEF c
  <2>9. Called(h, c) BY <1>1, <2>2, <2>3, <2>8, CalledTransitive
  <2>10. Called(h, c) /\ Sound(c) /\ c.backend = h.backend /\ (~h.ready => c.ops = h.ops)
    BY <2>2, <2>8, <2>9
  <2>. QED BY <2>1, <2>10 DEF c
<1>3. CASE ~(h.module = "hades2" /\ (h.deferred \/ launched))
  <2>1. r = Send(h, "connect") BY <1>3 DEF ConnectAutomatically
  <2>2. CanSend(h, "connect") BY <1>3 DEF CanSend, Connects
  <2>. QED BY <1>1, <1>3, <2>1, <2>2, SendIs, SendSound
<1>. QED BY <1>2, <1>3

LEMMA ToggleFromHostIs ==
  ASSUME NEW h, Sound(h), h.module = "hades2" => ~Connects(h.ops)
  PROVE  /\ Called(h, ToggleFromHost(h)) /\ Sound(ToggleFromHost(h))
         /\ ToggleFromHost(h).backend = h.backend
         /\ \/ ToggleFromHost(h).changed
            \/ ToggleFromHost(h).ops = h.ops /\ ToggleFromHost(h).connected = h.connected
<1>. DEFINE k == [h EXCEPT !.deferred = FALSE, !.ready = FALSE]
            kind == IF h.connected THEN "disconnect" ELSE "connect"
<1>1. h \in Hosts BY DEF Sound
<1>2. /\ k \in Hosts /\ k.ops = h.ops /\ k.backend = h.backend /\ k.connected = h.connected
      /\ k.target = h.target /\ k.module = h.module /\ ~k.deferred BY <1>1 DEF Hosts
<1>3. Called(h, k) BY <1>1, <1>2 DEF Called, Hosts, Extends
<1>4. ToggleFromHost(h) = Send(k, kind) BY DEF ToggleFromHost
<1>. HIDE DEF k
<1>5. ShapeInv(k) BY <1>2, ShapeKept DEF Sound
<1>6. Sound(k) BY <1>2, <1>5 DEF Sound, SessionInv
<1>7. kind \in Kinds BY DEF Kinds, Trusted
<1>8. CanSend(k, kind) BY <1>2 DEF CanSend
<1>. HIDE DEF kind
<1>9. /\ Called(k, Send(k, kind)) /\ Sound(Send(k, kind)) /\ Send(k, kind).backend = h.backend
      /\ \/ Send(k, kind).changed
         \/ Send(k, kind).ops = h.ops /\ Send(k, kind).connected = h.connected
  BY <1>2, <1>6, <1>7, <1>8, SendIs, SendSound
<1>10. Called(h, Send(k, kind)) BY <1>1, <1>2, <1>3, <1>9, CalledTransitive
<1>. QED BY <1>4, <1>9, <1>10

LEMMA ModuleLifetimeChangedIs ==
  ASSUME NEW h, Sound(h)
  PROVE  /\ Called(h, ModuleLifetimeChanged(h)) /\ Sound(ModuleLifetimeChanged(h))
         /\ h.module = "hades" => /\ ~ModuleLifetimeChanged(h).connected
                                  /\ ModuleLifetimeChanged(h).backend = h.backend
         /\ h.module = "hades2" =>
              /\ ~ModuleLifetimeChanged(h).ready
              /\ ~Connects(h.ops) => ~Connects(ModuleLifetimeChanged(h).ops)
         /\ h.backend = "up" => ModuleLifetimeChanged(h).ops = h.ops
<1>. DEFINE r == ModuleLifetimeChanged(h)
            k == [h EXCEPT !.connected = FALSE, !.changed = TRUE]
            c == [h EXCEPT !.deferred = FALSE, !.ready = FALSE]
<1>1. h \in Hosts BY DEF Sound
<1>2. CASE h.module = "hades"
  <2>1. r = k BY <1>2 DEF ModuleLifetimeChanged
  <2>2. /\ k \in Hosts /\ k.ops = h.ops /\ k.backend = h.backend /\ ~k.connected
        /\ k.module = h.module BY <1>1 DEF Hosts
  <2>3. Called(h, k) BY <1>1, <1>2, <2>2 DEF Called, Hosts, Extends
  <2>. HIDE DEF k
  <2>4. Sound(k) BY <1>2, <2>2 DEF Sound, SessionInv, ShapeInv
  <2>. QED BY <1>2, <2>1, <2>2, <2>3, <2>4
<1>3. CASE h.module # "hades"
  <2>1. r = IF h.backend = "up" THEN c ELSE StartBackend(c)
    BY <1>3 DEF ModuleLifetimeChanged, Available
  <2>2. /\ c \in Hosts /\ c.ops = h.ops /\ c.backend = h.backend /\ c.connected = h.connected
        /\ c.target = h.target /\ c.module = h.module /\ ~c.ready /\ ~c.deferred BY <1>1 DEF Hosts
  <2>3. Called(h, c) BY <1>1, <1>3, <2>2 DEF Called, Hosts, Extends
  <2>. HIDE DEF c
  <2>4. ShapeInv(c) BY <2>2, ShapeKept DEF Sound
  <2>5. Sound(c) BY <2>2, <2>4 DEF Sound, SessionInv
  <2>6. CASE h.backend = "up" BY <1>3, <2>1, <2>2, <2>3, <2>5, <2>6
  <2>7. CASE h.backend # "up"
    <3>. DEFINE t == StartBackend(c)
    <3>1. /\ Called(c, t) /\ Sound(t) /\ t.ready = c.ready
          /\ c.module = "hades2" => ~Connects(t.ops) BY <2>2, <2>5, <2>7, StartBackendIs
    <3>. HIDE DEF t
    <3>2. Called(h, t) BY <1>1, <2>2, <2>3, <3>1, CalledTransitive
    <3>3. r = t BY <2>1, <2>7 DEF t
    <3>. QED BY <1>3, <2>2, <2>7, <3>1, <3>2, <3>3
  <2>. QED BY <2>6, <2>7
<1>. QED BY <1>2, <1>3

LEMMA ApplyStagedIs ==
  ASSUME NEW h, Sound(h)
  PROVE  /\ Called(h, ApplyStaged(h)) /\ Sound(ApplyStaged(h))
         /\ ApplyStaged(h).backend = h.backend /\ ApplyStaged(h).ready = h.ready
         /\ ApplyStaged(h).ops = h.ops \/ ApplyStaged(h).ops = Append(h.ops, "other")
         /\ h.backend = "up" => ApplyStaged(h).ops = Append(h.ops, "other")
<1>1. h \in Hosts /\ "other" \in Kinds BY DEF Sound, Kinds, Silent
<1>2. CanSend(h, "other") BY DEF CanSend
<1>3. Accepted(h, "other") <=> h.backend = "up" BY DEF Accepted, Available, Trusted
<1>. QED BY <1>1, <1>2, <1>3, SendIs, SendSound DEF ApplyStaged

--------------------------------------------------------------------------------
(* The decisions of the context *)

\* The policy is about the process that the host observes.
PolicyInv(h) ==
  /\ h.policy.running <=> h.pid # 0
  /\ h.policy.generation = h.gen
  /\ h.policy.background => h.policy.connect

\* Hades forgets its connection with the process.
TargetInv(h) == h.module = "hades" /\ h.connected => h.target = h.pid

\* What a handler does to the session and to what the module shows: it sends requests
\* and may start the worker, and it attaches to nothing by itself.
Acts(h, k) ==
  /\ k \in Hosts /\ k.module = h.module /\ k.target = h.target
  /\ h.changed => k.changed
  /\ k.connected => h.connected
  /\ h.module = "hades2" => k.connected = h.connected
  /\ h.backend = "up" => k.backend = "up"
  /\ Extends(h.ops, k.ops)

\* Hades starts its worker from the main queue, never by a decision of the context.
Asleep(h, k) == k.module = h.module /\ (h.module = "hades" /\ h.backend # "up" => k.backend # "up")

\* What a decision leaves alone, and the opportunity that it uses up.
Settles(h, k) ==
  /\ k.gen = h.gen /\ k.pid = h.pid /\ k.lastPid = h.lastPid /\ k.active = h.active
  /\ k.wasAvailable = h.wasAvailable /\ k.wasConnected = h.wasConnected
  /\ k.untrusted = h.untrusted /\ k.uncertain = h.uncertain
  /\ k.launched = h.launched /\ k.detached = h.detached /\ k.overtaken = h.overtaken
  /\ h.tried => k.tried
  /\ k.policy.running = h.policy.running /\ k.policy.generation = h.policy.generation
  /\ k.policy.suppressed = h.policy.suppressed /\ k.policy.awaiting = h.policy.awaiting
  /\ k.tried \/ (k.policy.connect = h.policy.connect /\ k.policy.background = h.policy.background)
  /\ k.policy.background => k.policy.connect
  /\ Asleep(h, k)

\* A decision that can be taken has been taken.
Decides(h) ==
  ~h.untrusted =>
    /\ ~ConsumesExitRefresh(h.policy, Available(h), Busy(h))
    /\ h.policy.background =>
         ~ConsumesConnect(h.policy, Available(h), Busy(h), h.connected, Enabled(h))

\* No connection can be sent but the one that waits for a launched game to load.
Holds(h) ==
  h.module = "hades2" /\ ~h.ready /\ (h.policy.background \/ ~Settled(h.policy)) /\ ~Connects(h.ops)

LEMMA CalledActs == ASSUME NEW h, NEW k, Called(h, k) PROVE Acts(h, k)
BY DEF Called, Acts

LEMMA ActsTransitive ==
  ASSUME NEW h \in Hosts, NEW k, NEW l, Acts(h, k), Acts(k, l)
  PROVE  Acts(h, l)
<1>1. k \in Hosts /\ l \in Hosts BY DEF Acts
<1>2. h.ops \in Seq(Kinds) /\ k.ops \in Seq(Kinds) /\ l.ops \in Seq(Kinds) BY <1>1 DEF Hosts
<1>3. Extends(h.ops, k.ops) /\ Extends(k.ops, l.ops) BY DEF Acts
<1>4. Extends(h.ops, l.ops) BY <1>2, <1>3, ExtendsTransitive
<1>. QED BY <1>1, <1>4 DEF Acts

LEMMA SettlesTransitive ==
  ASSUME NEW h, NEW k, NEW l, Settles(h, k), Settles(k, l)
  PROVE  Settles(h, l)
BY DEF Settles, Asleep

\* Nothing but an edit lets the user act while a request is in flight.
LEMMA EnabledIdle ==
  ASSUME NEW h, Sound(h), Enabled(h), ~h.connected
  PROVE  h.ops = <<>>
<1>1. h \in Hosts BY DEF Sound
<1>2. CASE ~Busy(h) BY <1>2 DEF Busy
<1>3. CASE Busy(h)
  <2>1. h.module = "hades2" /\ h.ops = <<"edit">> BY <1>1, <1>3 DEF Enabled, Hosts
  <2>2. h.ops # <<>> /\ h.ops[1] = "edit" BY <2>1
  <2>. QED BY <2>1, <2>2 DEF Sound, ShapeInv
<1>. QED BY <1>2, <1>3

LEMMA AutomaticConnectionIs ==
  ASSUME NEW h, Sound(h), h.policy.background => h.policy.connect
  PROVE  LET k == AutomaticConnection(h)
         IN  /\ Acts(h, k) /\ Sound(k) /\ Settles(h, k)
             /\ k.policy.exitRefresh = h.policy.exitRefresh
             /\ ~ConsumesExitRefresh(h.policy, Available(h), Busy(h)) => Decides(k)
             /\ Holds(h) => ~Connects(k.ops)
<1>. DEFINE r == AutomaticConnection(h)
            p == [h.policy EXCEPT !.restart = @ /\ ~Available(h)]
            pr == [p EXCEPT !.restart = FALSE]
            pc == AfterConnect(p)
            a == [h EXCEPT !.policy = pr]
            b == [Decided(h) EXCEPT !.policy = pc]
            c == [h EXCEPT !.policy = p]
<1>1. h \in Hosts /\ h.policy \in Policies BY DEF Sound, Hosts
<1>2. Available(h) \in BOOLEAN /\ Busy(h) \in BOOLEAN BY DEF Available, Busy
<1>3. /\ p \in Policies /\ p.running = h.policy.running /\ p.connect = h.policy.connect
      /\ p.suppressed = h.policy.suppressed /\ p.background = h.policy.background
      /\ p.exitRefresh = h.policy.exitRefresh /\ p.generation = h.policy.generation
      /\ p.awaiting = h.policy.awaiting BY <1>1, <1>2 DEF Policies
<1>4. /\ pr \in Policies /\ pr.running = h.policy.running /\ pr.connect = h.policy.connect
      /\ pr.suppressed = h.policy.suppressed /\ pr.background = h.policy.background
      /\ pr.exitRefresh = h.policy.exitRefresh /\ pr.generation = h.policy.generation
      /\ pr.awaiting = h.policy.awaiting
  <2>1. pr \in Policies BY <1>3 DEF Policies
  <2>2. /\ pr.running = p.running /\ pr.connect = p.connect
        /\ pr.suppressed = p.suppressed /\ pr.background = p.background
        /\ pr.exitRefresh = p.exitRefresh /\ pr.generation = p.generation
        /\ pr.awaiting = p.awaiting BY <1>3 DEF Policies
  <2>. HIDE DEF p, pr
  <2>. QED BY <1>3, <2>1, <2>2
<1>5. /\ pc \in Policies /\ pc.running = h.policy.running /\ ~pc.connect
      /\ pc.suppressed = h.policy.suppressed /\ ~pc.background
      /\ pc.exitRefresh = h.policy.exitRefresh /\ pc.generation = h.policy.generation
      /\ pc.awaiting = h.policy.awaiting
  <2>1. pc \in Policies BY <1>3 DEF Policies, AfterConnect
  <2>2. /\ pc.running = p.running /\ ~pc.connect
        /\ pc.suppressed = p.suppressed /\ ~pc.background
        /\ pc.exitRefresh = p.exitRefresh /\ pc.generation = p.generation
        /\ pc.awaiting = p.awaiting BY <1>3 DEF Policies, AfterConnect
  <2>. HIDE DEF p, pc
  <2>. QED BY <1>3, <2>1, <2>2
<1>6. r = IF ConsumesRestart(p, Available(h), Busy(h), Enabled(h)) THEN RestartBackendFromHost(a)
          ELSE IF ConsumesConnect(p, Available(h), Busy(h), h.connected, Enabled(h))
          THEN ConnectAutomatically(b, p.background) ELSE c
  BY DEF AutomaticConnection
<1>. HIDE DEF p, pr, pc
<1>7. CASE ConsumesRestart(p, Available(h), Busy(h), Enabled(h))
  <2>1. r = RestartBackendFromHost(a) BY <1>6, <1>7
  <2>2. /\ a \in Hosts /\ a.policy = pr /\ a.ops = h.ops /\ a.backend = h.backend
        /\ a.connected = h.connected /\ a.target = h.target /\ a.module = h.module
        /\ a.deferred = h.deferred BY <1>1, <1>4 DEF Hosts
  <2>3. Settles(h, a) BY <1>1, <1>4, <2>2 DEF Settles, Asleep, Hosts
  <2>4. Acts(h, a) BY <1>1, <2>2 DEF Acts, Extends, Hosts
  <2>. HIDE DEF a
  <2>5. ShapeInv(a) BY <2>2, ShapeKept DEF Sound
  <2>6. Sound(a) BY <2>2, <2>5 DEF Sound, SessionInv
  <2>7. a.backend # "up" BY <1>7, <2>2 DEF ConsumesRestart, Available
  <2>8. Called(a, r) /\ Sound(r) /\ r.backend = "recovering" /\ r.ops = <<>>
    BY <2>1, <2>6, <2>7, RestartIs
  <2>9. Acts(h, r) BY <1>1, <2>4, <2>8, CalledActs, ActsTransitive
  <2>10. r.policy = pr BY <2>2, <2>8 DEF Called
  <2>11. Settles(h, r) BY <2>3, <2>8, <2>10, <2>2 DEF Settles, Asleep, Called
  <2>12. ~Available(r) BY <2>8 DEF Available
  <2>13. Decides(r) BY <2>12 DEF Decides, ConsumesExitRefresh, ConsumesConnect
  <2>14. ~Connects(r.ops) BY <2>8 DEF Connects
  <2>. QED BY <1>4, <2>8, <2>9, <2>10, <2>11, <2>13, <2>14
<1>8. CASE /\ ~ConsumesRestart(p, Available(h), Busy(h), Enabled(h))
           /\ ConsumesConnect(p, Available(h), Busy(h), h.connected, Enabled(h))
  <2>1. r = ConnectAutomatically(b, p.background) BY <1>6, <1>8
  <2>2. /\ b \in Hosts /\ b.policy = pc /\ b.ops = h.ops /\ b.backend = h.backend
        /\ b.connected = h.connected /\ b.target = h.target /\ b.module = h.module
        /\ b.deferred = h.deferred /\ b.ready = h.ready /\ b.tried BY <1>1, <1>5 DEF Hosts, Decided
  <2>3. Settles(h, b) BY <1>1, <1>5, <2>2 DEF Settles, Asleep, Hosts, Decided
  <2>4. Acts(h, b) BY <1>1, <2>2 DEF Acts, Extends, Hosts, Decided
  <2>. HIDE DEF b
  <2>5. ShapeInv(b) BY <2>2, ShapeKept DEF Sound
  <2>6. Sound(b) BY <2>2, <2>5 DEF Sound, SessionInv
  <2>7. ~h.connected /\ Enabled(h) /\ ~Busy(h) /\ Settled(p) BY <1>8 DEF ConsumesConnect
  <2>8. h.ops = <<>> BY <2>7, EnabledIdle
  <2>9. p.background \in BOOLEAN BY <1>3 DEF Policies
  <2>10. /\ Called(b, r) /\ Sound(r) /\ r.backend = b.backend
         /\ h.module = "hades2" /\ p.background /\ ~h.ready => r.ops = h.ops
    BY <2>1, <2>2, <2>6, <2>7, <2>8, <2>9, ConnectAutomaticallyIs
  <2>11. Acts(h, r) BY <1>1, <2>4, <2>10, CalledActs, ActsTransitive
  <2>12. r.policy = pc BY <2>2, <2>10 DEF Called
  <2>13. Settles(h, r) BY <2>3, <2>10, <2>12, <2>2 DEF Settles, Asleep, Called
  <2>14. ASSUME ~ConsumesExitRefresh(h.policy, Available(h), Busy(h)) PROVE Decides(r)
    <3>1. Available(h) BY <1>8 DEF ConsumesConnect
    <3>2. ~pc.exitRefresh BY <1>5, <2>7, <2>14, <3>1 DEF ConsumesExitRefresh
    <3>. QED BY <1>5, <2>12, <3>2 DEF Decides, ConsumesExitRefresh
  <2>15. ASSUME Holds(h) PROVE ~Connects(r.ops)
    <3>1. p.background BY <1>3, <2>7, <2>15 DEF Holds, Settled
    <3>. QED BY <2>10, <2>15, <3>1 DEF Holds
  <2>. QED BY <1>5, <2>10, <2>11, <2>12, <2>13, <2>14, <2>15
<1>9. CASE /\ ~ConsumesRestart(p, Available(h), Busy(h), Enabled(h))
           /\ ~ConsumesConnect(p, Available(h), Busy(h), h.connected, Enabled(h))
  <2>1. r = c BY <1>6, <1>9
  <2>2. /\ c \in Hosts /\ c.policy = p /\ c.ops = h.ops /\ c.backend = h.backend
        /\ c.connected = h.connected /\ c.target = h.target /\ c.module = h.module
        /\ c.deferred = h.deferred /\ c.untrusted = h.untrusted BY <1>1, <1>3 DEF Hosts
  <2>3. Settles(h, c) BY <1>1, <1>3, <2>2 DEF Settles, Asleep, Hosts
  <2>4. Acts(h, c) BY <1>1, <2>2 DEF Acts, Extends, Hosts
  <2>. HIDE DEF c
  <2>5. ShapeInv(c) BY <2>2, ShapeKept DEF Sound
  <2>6. Sound(c) BY <2>2, <2>5 DEF Sound, SessionInv
  <2>7. Available(c) = Available(h) /\ Busy(c) = Busy(h) BY <2>2 DEF Available, Busy
  <2>8. Enabled(c) = Enabled(h) BY <2>2, <2>7 DEF Enabled
  <2>9. ASSUME ~ConsumesExitRefresh(h.policy, Available(h), Busy(h)) PROVE Decides(c)
    <3>1. ~ConsumesExitRefresh(c.policy, Available(c), Busy(c))
      BY <1>3, <2>2, <2>7, <2>9 DEF ConsumesExitRefresh
    <3>2. ~ConsumesConnect(c.policy, Available(c), Busy(c), c.connected, Enabled(c))
      BY <1>9, <2>2, <2>7, <2>8
    <3>. QED BY <3>1, <3>2 DEF Decides
  <2>10. Holds(h) => ~Connects(c.ops) BY <2>2 DEF Holds
  <2>. QED BY <1>3, <2>1, <2>2, <2>3, <2>4, <2>6, <2>9, <2>10
<1>. QED BY <1>7, <1>8, <1>9

\* A refresh that is due is kept, or asked for at once: nothing was in flight then, and
\* a host that is not connected has nothing to ask.
Asks(s) == s # <<>> /\ s[1] \notin Silent

Remembers(h, k) ==
  h.module = "hades2" /\ (h.policy.exitRefresh \/ (h.pid # 0 /\ k.pid # h.pid)) =>
    k.policy.exitRefresh \/ (h.ops = <<>> /\ (h.connected => Asks(k.ops)))

LEMMA RemembersTransitive ==
  ASSUME NEW h \in Hosts, NEW k, NEW l, Acts(h, k), Acts(k, l), Remembers(h, k), Remembers(k, l)
  PROVE  Remembers(h, l)
<1>. SUFFICES ASSUME h.module = "hades2", h.policy.exitRefresh \/ (h.pid # 0 /\ l.pid # h.pid)
     PROVE  l.policy.exitRefresh \/ (h.ops = <<>> /\ (h.connected => Asks(l.ops)))
  BY DEF Remembers
<1>1. k \in Hosts /\ l \in Hosts /\ k.module = "hades2" /\ k.connected = h.connected BY DEF Acts
<1>2. h.ops \in Seq(Kinds) /\ k.ops \in Seq(Kinds) /\ l.ops \in Seq(Kinds) BY <1>1 DEF Hosts
<1>3. Asks(k.ops) => Asks(l.ops) BY <1>2 DEF Acts, Extends, Asks
<1>4. k.ops = <<>> => h.ops = <<>> BY <1>2 DEF Acts, Extends
<1>5. CASE k.policy.exitRefresh \/ (k.pid # 0 /\ l.pid # k.pid)
  BY <1>1, <1>3, <1>4, <1>5 DEF Remembers
<1>6. CASE ~(k.policy.exitRefresh \/ (k.pid # 0 /\ l.pid # k.pid))
  <2>1. h.policy.exitRefresh \/ (h.pid # 0 /\ k.pid # h.pid) BY <1>6
  <2>2. h.ops = <<>> /\ (h.connected => Asks(k.ops)) BY <1>6, <2>1 DEF Remembers
  <2>. QED BY <1>3, <2>2
<1>. QED BY <1>5, <1>6

LEMMA ReconcileIs ==
  ASSUME NEW h, Sound(h), h.policy.background => h.policy.connect
  PROVE  LET k == Reconcile(h)
         IN  /\ Acts(h, k) /\ Sound(k) /\ Settles(h, k) /\ Decides(k) /\ Remembers(h, k)
             /\ Holds(h) => ~Connects(k.ops)
<1>. DEFINE r == Reconcile(h)
            due == ConsumesExitRefresh(h.policy, Available(h), Busy(h))
            kept == [h EXCEPT !.policy.exitRefresh = @ /\ ~due]
<1>1. h \in Hosts /\ h.policy \in Policies BY DEF Sound, Hosts
<1>2. due \in BOOLEAN BY <1>1 DEF ConsumesExitRefresh, Available, Busy, Policies
<1>3. r = IF h.untrusted THEN h
          ELSE IF due /\ h.connected THEN RefreshFromHost(kept)
          ELSE IF h.policy.background \/ h.active THEN AutomaticConnection(kept)
          ELSE kept BY DEF Reconcile
<1>4. due <=> h.policy.exitRefresh /\ h.backend = "up" /\ ~Busy(h)
  BY DEF ConsumesExitRefresh, Available
<1>. HIDE DEF due
<1>5. /\ kept \in Hosts /\ kept.ops = h.ops /\ kept.backend = h.backend
      /\ kept.connected = h.connected /\ kept.target = h.target /\ kept.module = h.module
      /\ kept.deferred = h.deferred /\ kept.ready = h.ready /\ kept.untrusted = h.untrusted
      /\ kept.pid = h.pid
  <2>. DEFINE left == [h.policy EXCEPT !.exitRefresh = @ /\ ~due]
  <2>1. left \in Policies BY <1>1, <1>2 DEF Policies
  <2>2. kept = [h EXCEPT !.policy = left] BY <1>1 DEF Hosts
  <2>. HIDE DEF left, kept
  <2>3. kept \in Hosts BY <1>1, <2>1, <2>2 DEF Hosts
  <2>4. /\ kept.ops = h.ops /\ kept.backend = h.backend
        /\ kept.connected = h.connected /\ kept.target = h.target /\ kept.module = h.module
        /\ kept.deferred = h.deferred /\ kept.ready = h.ready /\ kept.untrusted = h.untrusted
        /\ kept.pid = h.pid BY <1>1, <2>2 DEF Hosts
  <2>. QED BY <2>3, <2>4
<1>6. /\ kept.policy.running = h.policy.running /\ kept.policy.connect = h.policy.connect
      /\ kept.policy.background = h.policy.background
      /\ kept.policy.awaiting = h.policy.awaiting
      /\ kept.policy.exitRefresh <=> h.policy.exitRefresh /\ ~due
  BY <1>1, <1>2 DEF Hosts, Policies
<1>7. Settles(h, kept) BY <1>1, <1>6 DEF Settles, Asleep, Hosts, Policies
<1>8. Acts(h, kept) BY <1>1, <1>5 DEF Acts, Extends, Hosts
<1>. HIDE DEF kept
<1>9. ShapeInv(kept) BY <1>5, ShapeKept DEF Sound
<1>10. Sound(kept) BY <1>5, <1>9 DEF Sound, SessionInv
<1>11. Available(kept) = Available(h) /\ Busy(kept) = Busy(h) BY <1>5 DEF Available, Busy
<1>12. ~ConsumesExitRefresh(kept.policy, Available(kept), Busy(kept))
  BY <1>4, <1>5, <1>6, <1>11 DEF ConsumesExitRefresh, Available
<1>13. due => h.ops = <<>> BY <1>4 DEF Busy
<1>14. Holds(h) => Holds(kept) BY <1>5, <1>6 DEF Holds, Settled
<1>15. CASE h.untrusted
  <2>1. r = h BY <1>3, <1>15
  <2>2. Acts(h, h) BY <1>1 DEF Acts, Extends, Hosts
  <2>3. Settles(h, h) BY DEF Settles, Asleep
  <2>4. Decides(h) BY <1>15 DEF Decides
  <2>5. Remembers(h, h) BY DEF Remembers
  <2>6. Holds(h) => ~Connects(h.ops) BY DEF Holds
  <2>. QED BY <2>1, <2>2, <2>3, <2>4, <2>5, <2>6
<1>16. CASE ~h.untrusted /\ due /\ h.connected
  <2>1. r = RefreshFromHost(kept) BY <1>3, <1>16
  <2>2. h.ops = <<>> /\ Available(kept) BY <1>4, <1>13, <1>16, <1>11 DEF Available
  <2>3. Called(kept, r) /\ Sound(r) /\ r.backend = kept.backend BY <1>10, <2>1, RefreshIs
  <2>4. PICK kind \in {"status", "scan"} : r.ops = Append(<<>>, kind)
    BY <1>5, <1>10, <1>16, <2>1, <2>2, RefreshIs
  <2>5. r.ops = <<kind>> BY <2>4
  <2>6. Asks(r.ops) /\ ~Connects(r.ops) /\ r.ops # <<>> BY <2>5 DEF Asks, Silent, Connects
  <2>7. Acts(h, r) BY <1>1, <1>8, <2>3, CalledActs, ActsTransitive
  <2>8. Settles(h, r) BY <1>5, <1>7, <1>6, <2>3 DEF Settles, Asleep, Called
  <2>9. Decides(r) BY <2>6 DEF Decides, ConsumesExitRefresh, ConsumesConnect, Busy
  <2>10. Remembers(h, r) BY <2>2, <2>6 DEF Remembers
  <2>. QED BY <2>3, <2>6, <2>7, <2>8, <2>9, <2>10
<1>17. CASE ~h.untrusted /\ ~(due /\ h.connected)
  <2>1. Remembers(h, kept)
    BY <1>5, <1>6, <1>13, <1>17 DEF Remembers
  <2>2. CASE h.policy.background \/ h.active
    <3>1. r = AutomaticConnection(kept) BY <1>3, <1>17, <2>2
    <3>2. /\ Acts(kept, r) /\ Sound(r) /\ Settles(kept, r)
          /\ r.policy.exitRefresh = kept.policy.exitRefresh
          /\ Decides(r) /\ (Holds(kept) => ~Connects(r.ops))
      BY <1>6, <1>10, <1>12, <3>1, AutomaticConnectionIs
    <3>3. Acts(h, r) /\ Settles(h, r)
      BY <1>1, <1>7, <1>8, <3>2, ActsTransitive, SettlesTransitive
    <3>4. Remembers(kept, r) BY <3>2 DEF Remembers, Settles
    <3>5. Remembers(h, r) BY <1>1, <1>8, <2>1, <3>2, <3>4, RemembersTransitive
    <3>. QED BY <1>14, <3>2, <3>3, <3>5
  <2>3. CASE ~(h.policy.background \/ h.active)
    <3>1. r = kept BY <1>3, <1>17, <2>3
    <3>2. Decides(kept) BY <1>6, <1>12, <2>3 DEF Decides
    <3>3. Holds(h) => ~Connects(kept.ops) BY <1>5 DEF Holds
    <3>. QED BY <1>7, <1>8, <1>10, <2>1, <3>1, <3>2, <3>3
  <2>. QED BY <2>2, <2>3
<1>. QED BY <1>15, <1>16, <1>17

LEMMA LifetimeChangedIs ==
  ASSUME NEW h, Sound(h)
  PROVE  LET k == LifetimeChanged(h)
         IN  /\ Acts(h, k) /\ Sound(k) /\ k.ops = h.ops /\ k.backend = h.backend
             /\ k.policy = h.policy /\ k.active = h.active /\ k.tried = h.tried
             /\ k.wasAvailable = h.wasAvailable /\ k.wasConnected = h.wasConnected
             /\ k.launched = h.launched /\ k.overtaken = h.overtaken
<1>. DEFINE known == [h EXCEPT !.untrusted = FALSE, !.uncertain = FALSE, !.fresh = FALSE]
<1>1. h \in Hosts BY DEF Sound
<1>2. /\ known \in Hosts /\ known.ops = h.ops /\ known.backend = h.backend
      /\ known.connected = h.connected /\ known.target = h.target /\ known.module = h.module
      /\ known.deferred = h.deferred /\ known.policy = h.policy /\ known.active = h.active
      /\ known.tried = h.tried /\ known.wasAvailable = h.wasAvailable
      /\ known.wasConnected = h.wasConnected /\ known.launched = h.launched
      /\ known.overtaken = h.overtaken BY <1>1 DEF Hosts
<1>3. Acts(h, known) BY <1>1, <1>2 DEF Acts, Extends, Hosts
<1>4. LifetimeChanged(h) = IF h.uncertain THEN Published(known) ELSE known
  BY DEF LifetimeChanged
<1>. HIDE DEF known
<1>5. ShapeInv(known) BY <1>2, ShapeKept DEF Sound
<1>6. Sound(known) BY <1>2, <1>5 DEF Sound, SessionInv
<1>. DEFINE k == Published(known)
<1>7. Called(known, k) /\ Sound(k) /\ k.ops = h.ops /\ k.backend = h.backend
  BY <1>2, <1>6, PublishedIs, PublishedSound
<1>8. Acts(h, k) BY <1>1, <1>3, <1>7, CalledActs, ActsTransitive
<1>9. /\ k.policy = h.policy /\ k.active = h.active /\ k.tried = h.tried
      /\ k.wasAvailable = h.wasAvailable /\ k.wasConnected = h.wasConnected
      /\ k.launched = h.launched /\ k.overtaken = h.overtaken BY <1>2, <1>7 DEF Called
<1>10. CASE h.uncertain BY <1>4, <1>7, <1>8, <1>9, <1>10
<1>11. CASE ~h.uncertain BY <1>2, <1>3, <1>4, <1>6, <1>11
<1>. QED BY <1>10, <1>11

LEMMA ChangedPolicy ==
  ASSUME NEW p \in Policies, NEW running \in BOOLEAN
  PROVE  LET q == TargetStateChanged(p, running, FALSE)
         IN  q \in Policies /\ q.running = running
<1>1. CASE p.running = running BY <1>1 DEF TargetStateChanged
<1>2. CASE p.running # running /\ running BY <1>2 DEF TargetStateChanged, Policies
<1>3. CASE p.running # running /\ ~running
  <2>1. running = FALSE BY <1>3
  <2>. QED BY <1>3, <2>1 DEF TargetStateChanged, Policies
<1>. QED BY <1>1, <1>2, <1>3

LEMMA ObserveIs ==
  ASSUME NEW p \in Policies, NEW running \in BOOLEAN, NEW replaced \in BOOLEAN, NEW gen \in Nat,
         p.background => p.connect, replaced => running /\ p.running /\ p.generation = gen,
         gen = p.generation => ~(p.running <=> running) \/ replaced, gen # p.generation => running
  PROVE  LET q == ObserveTarget(Replaced(p, replaced), running, gen, FALSE)
         IN  /\ q \in Policies /\ (q.running <=> running)
             /\ q.background => q.connect
             /\ p.exitRefresh \/ p.running \/ gen # p.generation => q.exitRefresh
             /\ gen # p.generation => q.connect /\ q.background /\ ~q.awaiting /\ ~q.suppressed
             /\ q.background \/ ~Settled(q)
<1>. DEFINE r == Replaced(p, replaced)
            seen == TargetStateChanged(r, running, FALSE)
            held == [seen EXCEPT !.awaiting = @ \/ (running /\ ~r.running /\ ~FALSE),
                                 !.generation = gen]
<1>1. /\ r \in Policies /\ r.generation = p.generation /\ (p.exitRefresh => r.exitRefresh)
      /\ r.running <=> p.running /\ ~replaced
      /\ replaced => r.exitRefresh
      /\ r.background => r.connect
  BY DEF Replaced, TargetStateChanged, Policies
<1>2. ObserveTarget(Replaced(p, replaced), running, gen, FALSE)
        = IF r.generation # gen /\ running THEN TargetLaunched(held) ELSE held
  BY DEF ObserveTarget
<1>. HIDE DEF r
<1>3. /\ seen \in Policies /\ seen.running = running
      /\ r.exitRefresh \/ (r.running /\ ~running) => seen.exitRefresh
      /\ seen.background => seen.connect
      /\ ~running => ~seen.background
  <2>1. r \in Policies BY <1>1
  <2>2. seen \in Policies /\ seen.running = running BY <2>1, ChangedPolicy
  <2>3. ~running => r.running BY <1>1
  <2>4. CASE r.running = running
    <3>1. seen = r BY <2>4 DEF TargetStateChanged
    <3>. QED BY <1>1, <2>2, <2>3, <2>4, <3>1
  <2>5. CASE r.running # running /\ running
    <3>1. seen.exitRefresh = r.exitRefresh /\ seen.background = r.background
          /\ seen.connect = r.connect
      BY <2>1, <2>5 DEF TargetStateChanged, Policies
    <3>. QED BY <1>1, <2>2, <2>5, <3>1
  <2>6. CASE r.running # running /\ ~running
    <3>1. seen.exitRefresh /\ ~seen.background
      BY <2>1, <2>6 DEF TargetStateChanged, Policies
    <3>. QED BY <2>2, <2>6, <3>1
  <2>. QED BY <2>4, <2>5, <2>6
<1>. HIDE DEF seen
<1>4. /\ held \in Policies /\ held.running = running /\ held.generation = gen
      /\ held.exitRefresh = seen.exitRefresh /\ held.background = seen.background
      /\ held.connect = seen.connect
      /\ running /\ ~r.running => held.awaiting
  BY <1>1, <1>3 DEF Policies
<1>. HIDE DEF held
<1>5. CASE gen # p.generation
  <2>1. ObserveTarget(Replaced(p, replaced), running, gen, FALSE) = TargetLaunched(held)
    BY <1>1, <1>2, <1>5
  <2>2. /\ TargetLaunched(held) \in Policies /\ TargetLaunched(held).running
        /\ TargetLaunched(held).generation = gen /\ TargetLaunched(held).exitRefresh
        /\ TargetLaunched(held).connect /\ TargetLaunched(held).background
        /\ ~TargetLaunched(held).awaiting /\ ~TargetLaunched(held).suppressed
    BY <1>4 DEF TargetLaunched, Policies
  <2>3. TargetLaunched(held).running = running BY <1>5, <2>2 DEF Policies
  <2>. QED BY <1>5, <2>1, <2>2, <2>3
<1>6. CASE gen = p.generation
  <2>1. ObserveTarget(Replaced(p, replaced), running, gen, FALSE) = held BY <1>1, <1>2, <1>6
  <2>2. p.exitRefresh \/ p.running => held.exitRefresh BY <1>1, <1>3, <1>4, <1>6 DEF Policies
  <2>3. ~Settled(held) BY <1>1, <1>4, <1>6 DEF Settled, Policies
  <2>. QED BY <1>3, <1>4, <1>6, <2>1, <2>2, <2>3
<1>. QED BY <1>5, <1>6

LEMMA ReplacedPolicy ==
  ASSUME NEW p \in Policies, NEW replaced \in BOOLEAN PROVE Replaced(p, replaced) \in Policies
BY DEF Replaced, TargetStateChanged, Policies

LEMMA ObserveGeneration ==
  ASSUME NEW r \in Policies, NEW running \in BOOLEAN, NEW gen \in Nat
  PROVE  ObserveTarget(r, running, gen, FALSE).generation = gen
<1>. DEFINE seen == TargetStateChanged(r, running, FALSE)
            held == [seen EXCEPT !.awaiting = @ \/ (running /\ ~r.running /\ ~FALSE),
                                 !.generation = gen]
<1>2. ObserveTarget(r, running, gen, FALSE)
        = IF r.generation # gen /\ running THEN TargetLaunched(held) ELSE held
  BY DEF ObserveTarget
<1>3. seen \in Policies BY ChangedPolicy
<1>. HIDE DEF seen
<1>4. held \in Policies /\ held.generation = gen BY <1>3 DEF Policies
<1>. HIDE DEF held
<1>5. TargetLaunched(held).generation = gen BY <1>4 DEF TargetLaunched, Policies
<1>. QED BY <1>2, <1>4, <1>5

\* The opportunity of a launched game: it waits, or it is used up.
Open(h) ==
  \/ h.tried \/ h.detached \/ h.overtaken
  \/ /\ h.policy.connect /\ h.policy.background
     /\ ~h.policy.awaiting /\ ~h.policy.suppressed

\* A host at the end of a handler.
Steady(h) == Sound(h) /\ PolicyInv(h) /\ TargetInv(h)

\* A handler under the same observation.
Keeps(h, k) ==
  /\ k.gen = h.gen /\ k.pid = h.pid /\ k.launched = h.launched
  /\ k.wasConnected = h.wasConnected
  /\ h.tried => k.tried
  /\ Open(h) => Open(k)

LEMMA KeepsTransitive ==
  ASSUME NEW h, NEW k, NEW l, Keeps(h, k), Keeps(k, l)
  PROVE  Keeps(h, l)
BY DEF Keeps

LEMMA SettlesKeeps == ASSUME NEW h, NEW k, Settles(h, k) PROVE Keeps(h, k)
BY DEF Settles, Keeps, Open

LEMMA CalledKeeps == ASSUME NEW h, NEW k, Called(h, k) PROVE Keeps(h, k)
BY DEF Called, Keeps, Open

LEMMA SettlesSteady ==
  ASSUME NEW h, NEW k, Steady(h), Sound(k), Acts(h, k), Settles(h, k)
  PROVE  Steady(k)
BY DEF Steady, PolicyInv, TargetInv, Acts, Settles

LEMMA CalledSteady ==
  ASSUME NEW h, NEW k, Steady(h), Sound(k), Called(h, k)
  PROVE  Steady(k)
BY DEF Steady, PolicyInv, TargetInv, Called

LEMMA TargetChangedIs ==
  ASSUME NEW h, NEW gen \in Nat, NEW pid \in Nat, Steady(h),
         gen # h.gen => pid # 0, gen = h.gen => pid # h.pid
  PROVE  LET k == TargetChanged(h, gen, pid)
         IN  /\ Acts(h, k) /\ Steady(k) /\ Decides(k) /\ Remembers(h, k)
             /\ k.gen = gen /\ k.pid = pid /\ k.wasConnected = h.wasConnected
             /\ Asleep(h, k)
             /\ k.launched = IF gen # h.gen THEN pid ELSE h.launched
             /\ gen # h.gen => Open(k) /\ (h.connected /\ h.target = pid => k.tried)
             /\ h.module = "hades2" /\ gen # h.gen =>
                  k.policy.exitRefresh \/ (h.ops = <<>> /\ (h.connected => Asks(k.ops)))
             /\ h.module = "hades2" /\ ~Connects(h.ops) => ~Connects(k.ops)
<1>. DEFINE launched == gen # h.gen
            replaced == ~launched /\ h.pid # 0 /\ pid # 0 /\ pid # h.pid
            another == launched \/ (h.lastPid # 0 /\ pid # 0 /\ h.lastPid # pid)
            lived == IF another THEN LifetimeChanged(h) ELSE h
            last  == IF pid = 0 THEN lived.lastPid ELSE pid
            tried == IF launched THEN h.connected /\ h.target = pid ELSE lived.tried
            seen  == [lived EXCEPT
                  !.gen = gen, !.pid = pid, !.lastPid = IF pid = 0 THEN @ ELSE pid,
                  !.detached = FALSE,
                  !.launched = IF launched THEN pid ELSE @,
                  !.overtaken = @ /\ ~launched,
                  !.tried = IF launched THEN h.connected /\ h.target = pid ELSE @]
            m == ModuleLifetimeChanged(seen)
            policy == ObserveTarget(Replaced(m.policy, replaced), pid # 0, gen, FALSE)
            told == [m EXCEPT !.policy = ObserveTarget(Replaced(@, replaced), pid # 0, gen, FALSE)]
            t == IF pid = 0 /\ Available(told) THEN ApplyStaged(told) ELSE told
            k == Reconcile(t)
<1>0. TargetChanged(h, gen, pid) = k BY DEF TargetChanged
<1>1. h \in Hosts /\ Sound(h) BY DEF Steady, Sound
<1>2. /\ Acts(h, lived) /\ Sound(lived) /\ lived.ops = h.ops /\ lived.backend = h.backend
      /\ lived.policy = h.policy /\ lived.tried = h.tried
      /\ lived.wasConnected = h.wasConnected /\ lived.launched = h.launched
  <2>1. CASE another BY <1>1, <2>1, LifetimeChangedIs
  <2>2. CASE ~another
    <3>1. lived = h BY <2>2
    <3>2. Acts(h, h) BY <1>1 DEF Acts, Extends, Hosts
    <3>. QED BY <1>1, <3>1, <3>2
  <2>. QED BY <2>1, <2>2
<1>. HIDE DEF lived
<1>3. lived \in Hosts BY <1>2 DEF Sound
<1>4. /\ seen \in Hosts /\ seen.ops = h.ops /\ seen.backend = h.backend
      /\ seen.connected = lived.connected /\ seen.target = lived.target
      /\ seen.module = lived.module /\ seen.deferred = lived.deferred
      /\ seen.policy = h.policy /\ seen.wasConnected = h.wasConnected
      /\ seen.gen = gen /\ seen.pid = pid
      /\ seen.launched = IF launched THEN pid ELSE h.launched
      /\ launched => (seen.tried <=> h.connected /\ h.target = pid)
  <2>. DEFINE late == IF launched THEN pid ELSE lived.launched
              over == lived.overtaken /\ ~launched
  <2>1. last \in Nat /\ late \in Nat /\ over \in BOOLEAN /\ tried \in BOOLEAN
    BY <1>1, <1>3 DEF Hosts
  <2>2. seen = [lived EXCEPT !.gen = gen, !.pid = pid, !.lastPid = last, !.detached = FALSE,
                             !.launched = late, !.overtaken = over, !.tried = tried] OBVIOUS
  <2>3. /\ late = IF launched THEN pid ELSE h.launched
        /\ launched => (tried <=> h.connected /\ h.target = pid) BY <1>2
  <2>. HIDE DEF last, late, over, tried, seen
  <2>. DEFINE moved == [lived EXCEPT !.gen = gen, !.pid = pid, !.lastPid = last]
  <2>m. moved \in Hosts BY <1>3, <2>1 DEF Hosts
  <2>. DEFINE left == [moved EXCEPT !.detached = FALSE, !.launched = late]
  <2>n. seen = [left EXCEPT !.overtaken = over, !.tried = tried] BY <2>2
  <2>. HIDE DEF moved
  <2>o. left \in Hosts BY <2>1, <2>m DEF Hosts
  <2>. HIDE DEF left
  <2>4. seen \in Hosts BY <2>1, <2>n, <2>o, HostSeen
  <2>5. /\ seen.ops = lived.ops /\ seen.backend = lived.backend
        /\ seen.connected = lived.connected /\ seen.target = lived.target
        /\ seen.module = lived.module /\ seen.deferred = lived.deferred
        /\ seen.policy = lived.policy /\ seen.wasConnected = lived.wasConnected
        /\ seen.gen = gen /\ seen.pid = pid /\ seen.launched = late /\ seen.tried = tried
    BY <1>3, <2>1, <2>2 DEF Hosts
  <2>. QED BY <1>2, <2>3, <2>4, <2>5
<1>5. Acts(lived, seen)
  <2>1. seen.changed = lived.changed BY <1>3 DEF Hosts
  <2>. HIDE DEF seen
  <2>2. Extends(lived.ops, seen.ops)
    <3>1. lived.ops \in Seq(Kinds) /\ seen.ops = lived.ops BY <1>2, <1>3, <1>4 DEF Hosts
    <3>. QED BY <3>1 DEF Extends
  <2>. QED BY <1>2, <1>4, <2>1, <2>2 DEF Acts
<1>. HIDE DEF seen
<1>6. ShapeInv(seen) BY <1>2, <1>4, ShapeKept DEF Sound
<1>7. Sound(seen) BY <1>2, <1>4, <1>6 DEF Sound, SessionInv
<1>8. /\ Called(seen, m) /\ Sound(m)
      /\ seen.module = "hades" => ~m.connected /\ m.backend = seen.backend
      /\ seen.module = "hades2" => ~m.ready /\ (~Connects(seen.ops) => ~Connects(m.ops))
  BY <1>7, ModuleLifetimeChangedIs
<1>. HIDE DEF m
<1>9. Acts(h, m) BY <1>1, <1>2, <1>5, <1>8, CalledActs, ActsTransitive DEF Sound
<1>10. m \in Hosts /\ m.policy = h.policy /\ m.policy \in Policies /\ m.module = h.module
       /\ m.gen = gen /\ m.pid = pid /\ m.wasConnected = h.wasConnected
       /\ m.launched = (IF launched THEN pid ELSE h.launched)
       /\ (launched => (m.tried <=> h.connected /\ h.target = pid))
  BY <1>4, <1>8, <1>9 DEF Called, Hosts, Acts
<1>11. /\ h.policy.running <=> h.pid # 0
       /\ h.policy.generation = h.gen
       /\ h.policy.background => h.policy.connect
       /\ h.policy.running \in BOOLEAN
  BY <1>10 DEF Steady, PolicyInv, Policies
<1>12. /\ policy \in Policies /\ (policy.running <=> pid # 0) /\ policy.generation = gen
       /\ policy.background => policy.connect
       /\ h.policy.exitRefresh \/ h.policy.running \/ gen # h.gen => policy.exitRefresh
       /\ gen # h.gen => /\ policy.connect /\ policy.background
                         /\ ~policy.awaiting /\ ~policy.suppressed
       /\ policy.background \/ ~Settled(policy)
  <2>. DEFINE p == m.policy
              running == pid # 0
  <2>1. running \in BOOLEAN /\ replaced \in BOOLEAN OBVIOUS
  <2>2. p \in Policies /\ p = h.policy /\ p.generation = h.gen /\ (p.running <=> h.pid # 0)
        /\ (p.background => p.connect) BY <1>10, <1>11
  <2>3. replaced => running /\ p.running /\ p.generation = gen BY <2>2
  <2>4. gen = p.generation => ~(p.running <=> running) \/ replaced BY <2>2
  <2>5. gen # p.generation => running BY <2>2
  <2>6. policy = ObserveTarget(Replaced(p, replaced), running, gen, FALSE) OBVIOUS
  <2>7. running = (pid # 0) OBVIOUS
  <2>. DEFINE q == ObserveTarget(Replaced(p, replaced), running, gen, FALSE)
  <2>. HIDE DEF replaced, p, running, policy
  <2>11. q.generation = gen
    <3>. DEFINE r == Replaced(p, replaced)
    <3>1. p \in Policies BY <2>2
    <3>2. r \in Policies BY <2>1, <3>1, ReplacedPolicy
    <3>3. q = ObserveTarget(r, running, gen, FALSE) OBVIOUS
    <3>. HIDE DEF r, q
    <3>4. ObserveTarget(r, running, gen, FALSE).generation = gen BY <2>1, <3>2, ObserveGeneration
    <3>. QED BY <3>3, <3>4
  <2>9. /\ q \in Policies /\ (q.running <=> running)
        /\ q.background => q.connect
        /\ p.exitRefresh \/ p.running \/ gen # p.generation => q.exitRefresh
        /\ gen # p.generation => q.connect /\ q.background /\ ~q.awaiting /\ ~q.suppressed
        /\ q.background \/ ~Settled(q)
    BY <2>1, <2>2, <2>3, <2>4, <2>5, ObserveIs
  <2>. HIDE DEF q
  <2>8. /\ policy \in Policies /\ (policy.running <=> running) /\ policy.generation = gen
        /\ policy.background => policy.connect
        /\ p.exitRefresh \/ p.running \/ gen # p.generation => policy.exitRefresh
        /\ gen # p.generation => /\ policy.connect /\ policy.background
                                 /\ ~policy.awaiting /\ ~policy.suppressed
        /\ policy.background \/ ~Settled(policy)
    BY <2>6, <2>9, <2>11 DEF q
  <2>. QED BY <1>11, <2>2, <2>7, <2>8
<1>13. told = [m EXCEPT !.policy = policy] OBVIOUS
<1>. HIDE DEF policy, told
<1>14. /\ told \in Hosts /\ told.policy = policy /\ told.ops = m.ops /\ told.backend = m.backend
       /\ told.connected = m.connected /\ told.target = m.target /\ told.module = m.module
       /\ told.deferred = m.deferred /\ told.ready = m.ready /\ told.gen = gen /\ told.pid = pid
       /\ told.wasConnected = h.wasConnected /\ told.tried = m.tried
       /\ told.launched = m.launched
  BY <1>10, <1>12, <1>13 DEF Hosts
<1>15. Acts(m, told) BY <1>10, <1>13, <1>14 DEF Acts, Extends, Hosts
<1>16. ShapeInv(told) BY <1>8, <1>14, ShapeKept DEF Sound
<1>17. Sound(told) BY <1>8, <1>14, <1>16 DEF Sound, SessionInv
<1>18. /\ Called(told, t) /\ Sound(t) /\ t.ready = told.ready /\ t.backend = told.backend
       /\ ~Connects(told.ops) => ~Connects(t.ops)
  <2>1. CASE pid = 0 /\ Available(told)
    <3>1. t = ApplyStaged(told) BY <2>1
    <3>2. t.ops = told.ops \/ t.ops = Append(told.ops, "other") BY <1>17, <3>1, ApplyStagedIs
    <3>3. told.ops \in Seq(Kinds) BY <1>14 DEF Hosts
    <3>4. ~Connects(told.ops) => ~Connects(t.ops) BY <3>2, <3>3 DEF Connects
    <3>. QED BY <1>17, <3>1, <3>4, ApplyStagedIs
  <2>2. CASE ~(pid = 0 /\ Available(told))
    <3>1. t = told BY <2>2
    <3>. QED BY <1>14, <1>17, <3>1, CalledReflexive
  <2>. QED BY <2>1, <2>2
<1>. HIDE DEF t
<1>19. Acts(h, t) BY <1>1, <1>9, <1>15, <1>18, CalledActs, ActsTransitive
<1>20. /\ t \in Hosts /\ t.policy = policy /\ t.gen = gen /\ t.pid = pid /\ t.wasConnected = h.wasConnected
       /\ t.launched = m.launched /\ t.tried = m.tried /\ t.module = h.module
  BY <1>10, <1>14, <1>18 DEF Called
<1>21. t.module = "hades" => ~t.connected
  BY <1>4, <1>8, <1>10, <1>14, <1>18, <1>20 DEF Called
<1>22. Steady(t) BY <1>12, <1>18, <1>20, <1>21 DEF Steady, PolicyInv, TargetInv
<1>23. /\ Acts(t, k) /\ Sound(k) /\ Settles(t, k) /\ Decides(k) /\ Remembers(t, k)
       /\ Holds(t) => ~Connects(k.ops)
  BY <1>18, <1>22, ReconcileIs DEF Steady, PolicyInv
<1>. HIDE DEF k
<1>24. Acts(h, k) BY <1>1, <1>19, <1>20, <1>23, ActsTransitive
<1>25. Steady(k) BY <1>22, <1>23, SettlesSteady
<1>26. Keeps(t, k) BY <1>23, SettlesKeeps
<1>27. /\ k.gen = gen /\ k.pid = pid /\ k.wasConnected = h.wasConnected
       /\ k.launched = IF gen # h.gen THEN pid ELSE h.launched
  BY <1>10, <1>20, <1>26 DEF Keeps
<1>28. gen # h.gen => Open(k) /\ (h.connected /\ h.target = pid => k.tried)
  <2>1. gen # h.gen => Open(t) BY <1>12, <1>20 DEF Open
  <2>. QED BY <2>1, <1>10, <1>20, <1>26 DEF Keeps
<1>29. h.module = "hades2" /\ (h.policy.exitRefresh \/ h.pid # 0 \/ gen # h.gen) =>
         k.policy.exitRefresh \/ (h.ops = <<>> /\ (h.connected => Asks(k.ops)))
  <2>. SUFFICES ASSUME h.module = "hades2", h.policy.exitRefresh \/ h.pid # 0 \/ gen # h.gen
       PROVE  k.policy.exitRefresh \/ (h.ops = <<>> /\ (h.connected => Asks(k.ops)))
    OBVIOUS
  <2>1. t.policy.exitRefresh BY <1>11, <1>12, <1>20
  <2>2. t.ops = <<>> => h.ops = <<>>
    <3>1. h.ops \in Seq(Kinds) /\ t.ops \in Seq(Kinds) BY <1>1, <1>20 DEF Hosts
    <3>. QED BY <3>1, <1>19 DEF Acts, Extends
  <2>3. t.connected = h.connected BY <1>19 DEF Acts
  <2>. QED BY <1>20, <1>23, <2>1, <2>2, <2>3 DEF Remembers
<1>30. Remembers(h, k) BY <1>29 DEF Remembers
<1>31. h.module = "hades2" /\ ~Connects(h.ops) => ~Connects(k.ops)
  <2>. SUFFICES ASSUME h.module = "hades2", ~Connects(h.ops) PROVE ~Connects(k.ops) OBVIOUS
  <2>1. ~Connects(t.ops) /\ ~t.ready
    BY <1>4, <1>8, <1>10, <1>14, <1>18, <1>20 DEF Called
  <2>2. Holds(t) BY <1>12, <1>20, <2>1 DEF Holds
  <2>. QED BY <1>23, <2>2
<1>32. Asleep(h, k)
  <2>1. t.module = "hades" => t.backend = h.backend
    BY <1>4, <1>8, <1>10, <1>14, <1>18, <1>20 DEF Called
  <2>. QED BY <1>20, <1>23, <2>1 DEF Settles, Asleep
<1>. QED BY <1>0, <1>23, <1>24, <1>25, <1>27, <1>28, <1>29, <1>30, <1>31, <1>32 DEF k

--------------------------------------------------------------------------------
(* The handlers *)

\* A handler that publishes asks to be seen; one that does not takes its decisions.
Handles(h, k) ==
  /\ Acts(h, k) /\ Steady(k) /\ Remembers(h, k)
  /\ k.wasConnected = h.wasConnected
  /\ Decides(h) => Decides(k) \/ k.changed

\* A handler that looks for the process pid.
Presents(h, k, pid) ==
  /\ Handles(h, k)
  /\ k.launched = h.launched /\ k.pid \in {h.pid, pid}
  /\ pid = h.pid => Keeps(h, k)

LEMMA HandlesTransitive ==
  ASSUME NEW h \in Hosts, NEW k, NEW l, Handles(h, k), Handles(k, l)
  PROVE  Handles(h, l)
<1>1. Acts(h, k) /\ Acts(k, l) /\ Remembers(h, k) /\ Remembers(k, l) BY DEF Handles
<1>2. Acts(h, l) /\ Remembers(h, l) BY <1>1, ActsTransitive, RemembersTransitive
<1>3. k.changed => l.changed BY <1>1 DEF Acts
<1>. QED BY <1>2, <1>3 DEF Handles

LEMMA PresentsThen ==
  ASSUME NEW h \in Hosts, NEW k, NEW l, NEW pid,
         Presents(h, k, pid), Handles(k, l), Keeps(k, l)
  PROVE  Presents(h, l, pid)
<1>1. Handles(h, l) BY HandlesTransitive DEF Presents
<1>. QED BY <1>1, KeepsTransitive DEF Presents, Keeps

LEMMA PresentsSame ==
  ASSUME NEW h, NEW k, NEW pid, Handles(h, k), Keeps(h, k)
  PROVE  Presents(h, k, pid)
BY DEF Presents, Keeps

LEMMA HandlesReflexive ==
  ASSUME NEW h, Steady(h) PROVE Handles(h, h) /\ Keeps(h, h)
<1>1. h \in Hosts BY DEF Steady, Sound
<1>2. Acts(h, h) BY <1>1 DEF Acts, Extends, Hosts
<1>. QED BY <1>2 DEF Handles, Keeps, Remembers

LEMMA DecidesSame ==
  ASSUME NEW h, NEW k, Decides(h), k.module = h.module, k.untrusted = h.untrusted,
         k.ops = h.ops, k.backend = h.backend, k.connected = h.connected,
         k.policy.exitRefresh = h.policy.exitRefresh,
         k.policy.background => /\ h.policy.background
                                /\ k.policy.connect = h.policy.connect
                                /\ k.policy.running = h.policy.running
                                /\ k.policy.awaiting = h.policy.awaiting
                                /\ k.policy.suppressed = h.policy.suppressed
  PROVE  Decides(k)
<1>1. Available(k) = Available(h) /\ Busy(k) = Busy(h) BY DEF Available, Busy
<1>2. Enabled(k) = Enabled(h) BY <1>1 DEF Enabled
<1>. QED BY <1>1, <1>2 DEF Decides, ConsumesExitRefresh, ConsumesConnect, Settled

LEMMA CalledRemembers == ASSUME NEW h, NEW k, Called(h, k) PROVE Remembers(h, k)
BY DEF Called, Remembers

\* A call of the module that publishes what it does.
LEMMA CalledHandles ==
  ASSUME NEW h, NEW k, Steady(h), Sound(k), Called(h, k), k.changed \/ (Decides(h) => Decides(k))
  PROVE  Handles(h, k) /\ Keeps(h, k)
<1>1. Acts(h, k) /\ Remembers(h, k) /\ Steady(k) /\ Keeps(h, k)
  BY CalledActs, CalledRemembers, CalledSteady, CalledKeeps
<1>. QED BY <1>1 DEF Handles, Called

LEMMA SendHandles ==
  ASSUME NEW h, NEW kind \in Kinds, Steady(h), CanSend(h, kind)
  PROVE  Handles(h, Send(h, kind)) /\ Keeps(h, Send(h, kind))
<1>1. h \in Hosts /\ Sound(h) BY DEF Steady, Sound
<1>2. CASE Accepted(h, kind) BY <1>1, <1>2, SendIs, SendSound, CalledHandles
<1>3. CASE ~Accepted(h, kind)
  <2>1. Send(h, kind) = h BY <1>1, <1>3, SendIs
  <2>. QED BY <2>1, HandlesReflexive
<1>. QED BY <1>2, <1>3

LEMMA PublishPresenceIs ==
  ASSUME NEW h, NEW pid \in Nat, Steady(h)
  PROVE  LET k == PublishPresence(h, pid)
         IN  /\ Presents(h, k, pid) /\ k.pid = pid /\ k.gen = h.gen /\ Asleep(h, k)
             /\ h.module = "hades2" /\ ~Connects(h.ops) => ~Connects(k.ops)
             /\ pid # h.pid => Decides(k)
             /\ pid = h.pid => k = h
<1>. DEFINE k == PublishPresence(h, pid)
<1>1. h \in Hosts /\ h.gen \in Nat BY DEF Steady, Sound, Hosts
<1>2. CASE pid = h.pid
  <2>1. k = h BY <1>2 DEF PublishPresence
  <2>2. Presents(h, h, pid) BY HandlesReflexive, PresentsSame
  <2>3. Asleep(h, h) BY DEF Asleep
  <2>. QED BY <1>2, <2>1, <2>2, <2>3
<1>3. CASE pid # h.pid
  <2>1. k = TargetChanged(h, h.gen, pid) BY <1>3 DEF PublishPresence
  <2>2. /\ Acts(h, k) /\ Steady(k) /\ Decides(k) /\ Remembers(h, k)
        /\ k.gen = h.gen /\ k.pid = pid /\ k.wasConnected = h.wasConnected
        /\ k.launched = h.launched /\ Asleep(h, k)
        /\ h.module = "hades2" /\ ~Connects(h.ops) => ~Connects(k.ops)
    BY <1>1, <1>3, <2>1, TargetChangedIs
  <2>. HIDE DEF k
  <2>3. Handles(h, k) BY <2>2 DEF Handles
  <2>4. Presents(h, k, pid) BY <1>3, <2>2, <2>3 DEF Presents
  <2>5. /\ Presents(h, k, pid) /\ k.pid = pid /\ k.gen = h.gen /\ Asleep(h, k)
        /\ h.module = "hades2" /\ ~Connects(h.ops) => ~Connects(k.ops)
        /\ Decides(k)
    BY <2>2, <2>4
  <2>. QED BY <1>3, <2>5 DEF k
<1>. QED BY <1>2, <1>3

LEMMA ToggleIs ==
  ASSUME NEW h, Steady(h), h.module = "hades2" => ~Connects(h.ops)
  PROVE  Handles(h, Toggle(h)) /\ Keeps(h, Toggle(h))
<1>. DEFINE p == UserWillToggleConnection(h.policy, h.connected)
            t == [h EXCEPT !.policy = UserWillToggleConnection(@, h.connected),
                           !.detached = h.connected, !.tried = @ \/ ~h.connected]
            k == ToggleFromHost(t)
<1>1. h \in Hosts /\ h.policy \in Policies /\ Sound(h) BY DEF Steady, Sound, Hosts
<1>2. /\ p \in Policies /\ p.running = h.policy.running /\ p.exitRefresh = h.policy.exitRefresh
      /\ ~p.background /\ p.generation = h.policy.generation
  <2>1. h.connected \in BOOLEAN /\ h.policy \in Policies BY <1>1 DEF Hosts
  <2>2. p \in Policies BY <2>1 DEF UserWillToggleConnection, Policies
  <2>3. /\ p.running = h.policy.running /\ p.exitRefresh = h.policy.exitRefresh
        /\ ~p.background /\ p.generation = h.policy.generation
    BY <2>1 DEF UserWillToggleConnection, Policies
  <2>. QED BY <2>2, <2>3
<1>3. t = [h EXCEPT !.policy = p, !.detached = h.connected, !.tried = @ \/ ~h.connected] OBVIOUS
<1>4. Toggle(h) = k BY DEF Toggle
<1>. HIDE DEF p, t
<1>5. /\ t \in Hosts /\ t.policy = p /\ t.ops = h.ops /\ t.backend = h.backend
      /\ t.connected = h.connected /\ t.target = h.target /\ t.module = h.module
      /\ t.deferred = h.deferred /\ t.pid = h.pid /\ t.gen = h.gen /\ t.untrusted = h.untrusted
      /\ t.launched = h.launched /\ t.wasConnected = h.wasConnected
      /\ t.detached = h.connected /\ (t.tried <=> h.tried \/ ~h.connected)
  <2>. DEFINE on == h.connected
              tried == h.tried \/ ~on
  <2>1. on \in BOOLEAN /\ tried \in BOOLEAN BY <1>1 DEF Hosts
  <2>2. t = [h EXCEPT !.policy = p, !.detached = on, !.tried = tried] BY <1>3
  <2>3. on = h.connected /\ (tried <=> h.tried \/ ~h.connected) OBVIOUS
  <2>. HIDE DEF on, tried
  <2>7. p \in Policies BY <1>2
  <2>4. t \in Hosts BY <1>1, <2>1, <2>2, <2>7, HostToggled
  <2>5. /\ t.policy = p /\ t.ops = h.ops /\ t.backend = h.backend
        /\ t.connected = h.connected /\ t.target = h.target /\ t.module = h.module
        /\ t.deferred = h.deferred /\ t.pid = h.pid /\ t.gen = h.gen
    BY <1>1, <2>2 DEF Hosts
  <2>6. /\ t.untrusted = h.untrusted /\ t.launched = h.launched
        /\ t.wasConnected = h.wasConnected /\ t.detached = on /\ t.tried = tried
    BY <1>1, <2>2 DEF Hosts
  <2>. QED BY <2>3, <2>4, <2>5, <2>6
<1>6. Acts(h, t) BY <1>1, <1>3, <1>5 DEF Acts, Extends, Hosts
<1>7. ShapeInv(t) BY <1>1, <1>5, ShapeKept DEF Sound
<1>8. Sound(t) BY <1>1, <1>5, <1>7 DEF Sound, SessionInv
<1>9. Steady(t) BY <1>2, <1>5, <1>8 DEF Steady, PolicyInv, TargetInv
<1>10. Remembers(h, t) BY <1>2, <1>5 DEF Remembers
<1>11. Decides(h) => Decides(t) BY <1>2, <1>5, DecidesSame
<1>12. Handles(h, t) BY <1>5, <1>6, <1>9, <1>10, <1>11 DEF Handles
<1>13. Keeps(h, t) BY <1>1, <1>5 DEF Keeps, Open, Hosts
<1>14. /\ Called(t, k) /\ Sound(k) /\ k.backend = t.backend
       /\ k.changed \/ (k.ops = t.ops /\ k.connected = t.connected)
  BY <1>5, <1>8, ToggleFromHostIs
<1>15. k.changed \/ (Decides(t) => Decides(k)) BY <1>14, DecidesSame DEF Called
<1>16. Handles(t, k) /\ Keeps(t, k) BY <1>9, <1>14, <1>15, CalledHandles
<1>17. Handles(h, k) BY <1>1, <1>12, <1>16, HandlesTransitive
<1>18. Keeps(h, k) BY <1>13, <1>16, KeepsTransitive
<1>. QED BY <1>4, <1>17, <1>18

\* The same host but for what no decision of the context depends on.
Alike(h, k) ==
  /\ k \in Hosts /\ k.module = h.module /\ k.gen = h.gen /\ k.pid = h.pid
  /\ k.policy = h.policy /\ k.wasConnected = h.wasConnected
  /\ k.connected = h.connected /\ k.target = h.target
  /\ k.backend = h.backend /\ k.ops = h.ops /\ k.untrusted = h.untrusted
  /\ k.launched = h.launched /\ k.tried = h.tried /\ k.detached = h.detached
  /\ k.overtaken = h.overtaken
  /\ k.deferred => h.deferred
  /\ h.changed => k.changed

LEMMA AlikeSteady ==
  ASSUME NEW h, NEW k, Steady(h), Alike(h, k)
  PROVE  Steady(k)
<1>1. ShapeInv(k) BY ShapeKept DEF Steady, Sound, Alike
<1>2. Sound(k) BY <1>1 DEF Steady, Sound, SessionInv, Alike
<1>. QED BY <1>2 DEF Steady, PolicyInv, TargetInv, Alike

LEMMA AlikeHandles ==
  ASSUME NEW h, NEW k, Steady(h), Alike(h, k)
  PROVE  Handles(h, k) /\ Keeps(h, k)
<1>1. h \in Hosts /\ h.ops \in Seq(Kinds) BY DEF Steady, Sound, Hosts
<1>2. Steady(k) BY AlikeSteady
<1>3. Acts(h, k) BY <1>1 DEF Acts, Alike, Extends
<1>4. Decides(h) => Decides(k) BY DecidesSame DEF Alike
<1>5. Remembers(h, k) BY DEF Remembers, Alike
<1>6. Keeps(h, k) BY DEF Keeps, Open, Alike
<1>. QED BY <1>2, <1>3, <1>4, <1>5, <1>6 DEF Handles, Alike

LEMMA RefreshHandles ==
  ASSUME NEW h, Steady(h)
  PROVE  Handles(h, RefreshFromHost(h)) /\ Keeps(h, RefreshFromHost(h))
<1>. DEFINE k == RefreshFromHost(h)
<1>1. Called(h, k) /\ Sound(k) /\ (k = h \/ k.changed) BY RefreshIs DEF Steady
<1>2. k.changed \/ (Decides(h) => Decides(k)) BY <1>1
<1>. QED BY <1>1, <1>2, CalledHandles

LEMMA PrimaryIs ==
  ASSUME NEW h, Steady(h), Enabled(h), game \in Nat
  PROVE  Presents(h, Primary(h), game)
<1>. DEFINE seen == PublishPresence(h, game)
<1>1. h \in Hosts /\ Sound(h) BY DEF Steady, Sound
<1>2. h.module = "hades2" => ~Connects(h.ops)
  <2>. SUFFICES ASSUME h.module = "hades2" PROVE ~Connects(h.ops) OBVIOUS
  <2>1. h.ops = <<>> \/ h.ops = <<"edit">> BY DEF Enabled, Busy
  <2>. QED BY <2>1 DEF Connects
<1>3. CASE ~Available(h)
  <2>1. Primary(h) = RestartBackendFromHost(h) BY <1>3 DEF Primary
  <2>2. Handles(h, Primary(h)) /\ Keeps(h, Primary(h))
    BY <1>1, <1>3, <2>1, RestartIs, CalledHandles DEF Available
  <2>. QED BY <2>2, PresentsSame
<1>4. CASE Available(h) /\ (h.connected \/ h.pid # 0)
  <2>1. Primary(h) = Toggle(h) BY <1>4 DEF Primary
  <2>. QED BY <1>2, <2>1, ToggleIs, PresentsSame
<1>5. CASE Available(h) /\ ~(h.connected \/ h.pid # 0)
  <2>1. Primary(h) = IF seen.pid # 0 THEN Toggle(seen) ELSE Send(seen, "other")
    BY <1>5 DEF Primary
  <2>2. /\ Presents(h, seen, game)
        /\ h.module = "hades2" /\ ~Connects(h.ops) => ~Connects(seen.ops)
    BY PublishPresenceIs
  <2>. HIDE DEF seen
  <2>3. Steady(seen) /\ seen.module = h.module BY <2>2 DEF Presents, Handles, Acts
  <2>4. CASE seen.pid # 0
    <3>1. Primary(h) = Toggle(seen) BY <2>1, <2>4
    <3>2. Handles(seen, Toggle(seen)) /\ Keeps(seen, Toggle(seen))
      BY <1>2, <2>2, <2>3, ToggleIs
    <3>. QED BY <1>1, <2>2, <3>1, <3>2, PresentsThen
  <2>5. CASE seen.pid = 0
    <3>1. Primary(h) = Send(seen, "other") BY <2>1, <2>5
    <3>2. "other" \in Kinds /\ CanSend(seen, "other") BY DEF Kinds, Silent, CanSend
    <3>3. Handles(seen, Primary(h)) /\ Keeps(seen, Primary(h)) BY <2>3, <3>1, <3>2, SendHandles
    <3>. QED BY <1>1, <2>2, <3>3, PresentsThen
  <2>. QED BY <2>4, <2>5
<1>. QED BY <1>3, <1>4, <1>5

LEMMA ClickRefreshIs ==
  ASSUME NEW h, Steady(h), game \in Nat
  PROVE  Presents(h, RefreshFromHost(PublishPresence(h, game)), game)
<1>. DEFINE seen == PublishPresence(h, game)
<1>1. h \in Hosts BY DEF Steady, Sound
<1>2. Presents(h, seen, game) BY PublishPresenceIs
<1>. HIDE DEF seen
<1>3. Handles(seen, RefreshFromHost(seen)) /\ Keeps(seen, RefreshFromHost(seen))
  BY <1>2, RefreshHandles DEF Presents, Handles
<1>4. Presents(h, RefreshFromHost(seen), game) BY <1>1, <1>2, <1>3, PresentsThen
<1>. QED BY <1>4 DEF seen

LEMMA ObserveAgain ==
  ASSUME NEW p \in Policies, NEW running \in BOOLEAN, NEW gen, p.running <=> running,
         p.generation = gen
  PROVE  ObserveTarget(p, running, gen, FALSE) = p
<1>. DEFINE held == [p EXCEPT !.awaiting = @ \/ (running /\ ~p.running /\ ~FALSE),
                              !.generation = gen]
<1>1. p.running = running BY DEF Policies
<1>2. TargetStateChanged(p, running, FALSE) = p BY <1>1 DEF TargetStateChanged
<1>3. ObserveTarget(p, running, gen, FALSE) = held BY <1>2 DEF ObserveTarget
<1>4. p.awaiting \/ (running /\ ~p.running /\ ~FALSE) <=> p.awaiting OBVIOUS
<1>5. held = p BY <1>4 DEF Policies
<1>. QED BY <1>3, <1>5

LEMMA BecameActiveIs ==
  ASSUME NEW h, NEW asks \in BOOLEAN, Steady(h), game \in Nat
  PROVE  Presents(h, BecameActive(h, asks), game) /\ Asleep(h, BecameActive(h, asks))
<1>. DEFINE a == [h EXCEPT !.active = TRUE]
            front == PublishPresence(a, game)
            f == [front EXCEPT !.policy = ObserveTarget(@, front.pid # 0, front.gen, FALSE)]
            seen == Reconcile(f)
            k == BecameActive(h, asks)
<1>1. h \in Hosts BY DEF Steady, Sound
<1>2. Alike(h, a) BY <1>1 DEF Alike, Hosts
<1>3. k = IF asks /\ seen.connected /\ Available(seen) /\ ~Busy(seen) THEN Send(seen, "status") ELSE seen
  BY DEF BecameActive
<1>. HIDE DEF a
<1>4. a \in Hosts /\ Steady(a) /\ Handles(h, a) /\ Keeps(h, a)
  BY <1>2, AlikeSteady, AlikeHandles DEF Alike
<1>5. Presents(a, front, game) /\ Asleep(a, front) BY <1>4, PublishPresenceIs
<1>. HIDE DEF front
<1>6. Steady(front) /\ front \in Hosts BY <1>5 DEF Presents, Handles, Acts
<1>7. f = front
  <2>. DEFINE running == front.pid # 0
  <2>1. front.policy \in Policies /\ (front.policy.running <=> running)
        /\ front.policy.generation = front.gen
    BY <1>6 DEF Hosts, Steady, PolicyInv
  <2>2. running \in BOOLEAN OBVIOUS
  <2>. DEFINE p == front.policy
              gen == front.gen
  <2>4. f = [front EXCEPT !.policy = ObserveTarget(p, running, gen, FALSE)] OBVIOUS
  <2>. HIDE DEF running, p, gen, f
  <2>3. ObserveTarget(p, running, gen, FALSE) = p
    <3>1. p \in Policies /\ (p.running <=> running) /\ p.generation = gen BY <2>1 DEF p, gen
    <3>. QED BY <2>2, <3>1, ObserveAgain
  <2>5. f = [front EXCEPT !.policy = front.policy] BY <2>3, <2>4 DEF p
  <2>. QED BY <1>6, <2>5 DEF Hosts
<1>8. Acts(front, seen) /\ Sound(seen) /\ Settles(front, seen) /\ Decides(seen)
      /\ Remembers(front, seen) BY <1>6, <1>7, ReconcileIs DEF Steady, PolicyInv
<1>. HIDE DEF seen
<1>9. Steady(seen) /\ Keeps(front, seen) BY <1>6, <1>8, SettlesSteady, SettlesKeeps
<1>10. Handles(front, seen) BY <1>8, <1>9 DEF Handles, Keeps
<1>11. Presents(a, seen, game) BY <1>4, <1>5, <1>9, <1>10, PresentsThen
<1>12. Handles(seen, k) /\ Keeps(seen, k) /\ k.backend = seen.backend
  <2>1. CASE asks /\ seen.connected /\ Available(seen) /\ ~Busy(seen)
    <3>1. k = Send(seen, "status") BY <1>3, <2>1
    <3>2. "status" \in Kinds /\ CanSend(seen, "status") BY DEF Kinds, Trusted, CanSend
    <3>3. seen \in Hosts BY <1>9 DEF Steady, Sound
    <3>. QED BY <1>9, <3>1, <3>2, <3>3, SendHandles, SendIs
  <2>2. CASE ~(asks /\ seen.connected /\ Available(seen) /\ ~Busy(seen))
    <3>1. k = seen BY <1>3, <2>2
    <3>. QED BY <1>9, <3>1, HandlesReflexive
  <2>. QED BY <2>1, <2>2
<1>13. Presents(a, k, game) BY <1>4, <1>11, <1>12, PresentsThen
<1>14. a.pid = h.pid /\ a.launched = h.launched BY <1>2 DEF Alike
<1>15. Handles(h, k) BY <1>1, <1>4, <1>13, HandlesTransitive DEF Presents
<1>16. game = h.pid => Keeps(h, k) BY <1>4, <1>13, <1>14, KeepsTransitive DEF Presents
<1>17. Asleep(h, k)
  <2>1. Asleep(h, a) BY <1>2 DEF Alike, Asleep
  <2>2. Asleep(front, seen) /\ k.module = seen.module
    BY <1>8, <1>12 DEF Settles, Handles, Acts
  <2>. QED BY <1>5, <1>12, <2>1, <2>2 DEF Asleep
<1>. QED BY <1>13, <1>14, <1>15, <1>16, <1>17 DEF Presents

LEMMA PolicySeen ==
  ASSUME NEW p \in Policies, NEW available \in BOOLEAN, NEW wasAvailable \in BOOLEAN,
         NEW connected \in BOOLEAN, NEW wasConnected \in BOOLEAN, p.background => p.connect
  PROVE  LET b == IF available = wasAvailable THEN p
                  ELSE IF available THEN BackendBecameAvailable(p) ELSE BackendBecameUnavailable(p)
             q == IF connected = wasConnected THEN b ELSE ConnectionChanged(b, connected)
         IN  /\ q \in Policies /\ q.running = p.running /\ q.generation = p.generation
             /\ q.background => q.connect
             /\ ~(wasConnected /\ ~connected) => q.exitRefresh = p.exitRefresh
             /\ ~(connected /\ ~wasConnected) =>
                  /\ p.connect => q.connect
                  /\ q.background = p.background /\ q.awaiting = p.awaiting
                  /\ q.suppressed = p.suppressed
<1>. DEFINE b == IF available = wasAvailable THEN p
                 ELSE IF available THEN BackendBecameAvailable(p) ELSE BackendBecameUnavailable(p)
            q == IF connected = wasConnected THEN b ELSE ConnectionChanged(b, connected)
<1>1. /\ b \in Policies /\ b.running = p.running /\ b.generation = p.generation
      /\ p.connect => b.connect
      /\ b.background = p.background /\ b.awaiting = p.awaiting
      /\ b.suppressed = p.suppressed /\ b.exitRefresh = p.exitRefresh
  BY DEF BackendBecameAvailable, BackendBecameUnavailable, Settled, Policies
<1>2. q = IF connected = wasConnected THEN b ELSE ConnectionChanged(b, connected) OBVIOUS
<1>. HIDE DEF b
<1>3. /\ q \in Policies /\ q.running = p.running /\ q.generation = p.generation
      /\ q.background => q.connect
      /\ ~(wasConnected /\ ~connected) => q.exitRefresh = p.exitRefresh
      /\ ~(connected /\ ~wasConnected) =>
           /\ p.connect => q.connect
           /\ q.background = p.background /\ q.awaiting = p.awaiting
           /\ q.suppressed = p.suppressed
  <2>1. CASE connected = wasConnected
    <3>1. q = b BY <1>2, <2>1
    <3>. HIDE DEF q
    <3>. QED BY <1>1, <3>1
  <2>2. CASE connected /\ ~wasConnected
    <3>1. q = ConnectionChanged(b, connected) BY <1>2, <2>2
    <3>2. /\ q \in Policies /\ q.running = b.running /\ q.generation = b.generation
          /\ ~q.background /\ q.exitRefresh = b.exitRefresh
      BY <1>1, <2>2, <3>1 DEF ConnectionChanged, Policies
    <3>. HIDE DEF q
    <3>. QED BY <1>1, <2>2, <3>2
  <2>3. CASE ~connected /\ wasConnected
    <3>1. q = ConnectionChanged(b, connected) BY <1>2, <2>3
    <3>2. /\ q \in Policies /\ q.running = b.running /\ q.generation = b.generation
          /\ q.connect = b.connect /\ q.background = b.background
          /\ q.awaiting = b.awaiting /\ q.suppressed = b.suppressed
      BY <1>1, <2>3, <3>1 DEF ConnectionChanged, Policies
    <3>. HIDE DEF q
    <3>. QED BY <1>1, <2>3, <3>2
  <2>. QED BY <2>1, <2>2, <2>3
<1>. QED BY <1>3 DEF b

LEMMA ModelChangedIs ==
  ASSUME NEW h, Steady(h)
  PROVE  LET k == ModelChanged(h)
         IN  /\ Acts(h, k) /\ Steady(k) /\ Decides(k)
             /\ k.gen = h.gen /\ k.pid = h.pid /\ k.launched = h.launched
             /\ k.wasConnected = h.connected
             /\ h.tried => k.tried
             /\ Open(h) /\ (h.connected /\ h.target = h.pid => h.tried) => Open(k)
             /\ h.module = "hades2" /\ h.policy.exitRefresh /\ ~(h.wasConnected /\ ~h.connected) =>
                  k.policy.exitRefresh \/ (h.ops = <<>> /\ (h.connected => Asks(k.ops)))
             /\ Asleep(h, k)
<1>. DEFINE policy == LET p == IF Available(h) = h.wasAvailable THEN h.policy
                               ELSE IF Available(h) THEN BackendBecameAvailable(h.policy)
                               ELSE BackendBecameUnavailable(h.policy)
                      IN IF h.connected = h.wasConnected THEN p
                         ELSE ConnectionChanged(p, h.connected)
            over == h.overtaken \/ (h.connected /\ ~h.wasConnected /\ h.target # h.pid)
            seen == [h EXCEPT !.wasAvailable = Available(h), !.wasConnected = h.connected,
                              !.overtaken = over, !.policy = policy]
            t == IF Available(h) /\ ~h.wasAvailable /\ h.pid = 0 THEN ApplyStaged(seen) ELSE seen
            k == Reconcile(t)
<1>0. ModelChanged(h) = k BY DEF ModelChanged
<1>1. h \in Hosts /\ h.policy \in Policies /\ Sound(h) BY DEF Steady, Sound, Hosts
<1>2. /\ policy \in Policies /\ policy.running = h.policy.running
      /\ policy.generation = h.policy.generation
      /\ policy.background => policy.connect
      /\ ~(h.wasConnected /\ ~h.connected) => policy.exitRefresh = h.policy.exitRefresh
      /\ ~(h.connected /\ ~h.wasConnected) =>
           /\ h.policy.connect => policy.connect
           /\ policy.background = h.policy.background /\ policy.awaiting = h.policy.awaiting
           /\ policy.suppressed = h.policy.suppressed
  <2>1. Available(h) \in BOOLEAN /\ h.wasAvailable \in BOOLEAN /\ h.connected \in BOOLEAN
        /\ h.wasConnected \in BOOLEAN BY <1>1 DEF Available, Hosts
  <2>2. h.policy.background => h.policy.connect BY DEF Steady, PolicyInv
  <2>. DEFINE p == h.policy
              up == Available(h)
              was == h.wasAvailable
              on == h.connected
              before == h.wasConnected
  <2>3. p \in Policies /\ up \in BOOLEAN /\ was \in BOOLEAN /\ on \in BOOLEAN
        /\ before \in BOOLEAN /\ (p.background => p.connect) BY <1>1, <2>1, <2>2
  <2>. DEFINE b == IF up = was THEN p
                   ELSE IF up THEN BackendBecameAvailable(p) ELSE BackendBecameUnavailable(p)
              q == IF on = before THEN b ELSE ConnectionChanged(b, on)
  <2>4. policy = q OBVIOUS
  <2>. HIDE DEF p, up, was, on, before, policy
  <2>5. /\ q \in Policies /\ q.running = p.running /\ q.generation = p.generation
        /\ q.background => q.connect
        /\ ~(before /\ ~on) => q.exitRefresh = p.exitRefresh
        /\ ~(on /\ ~before) =>
             /\ p.connect => q.connect
             /\ q.background = p.background /\ q.awaiting = p.awaiting
             /\ q.suppressed = p.suppressed
    BY <2>3, PolicySeen
  <2>. HIDE DEF q
  <2>. QED BY <2>4, <2>5 DEF p, on, before
<1>3. Available(h) \in BOOLEAN /\ over \in BOOLEAN BY <1>1 DEF Available, Hosts
<1>4. over <=> h.overtaken \/ (h.connected /\ ~h.wasConnected /\ h.target # h.pid) OBVIOUS
<1>. HIDE DEF policy, over
<1>5. /\ seen \in Hosts /\ seen.policy = policy /\ seen.ops = h.ops /\ seen.backend = h.backend
      /\ seen.connected = h.connected /\ seen.target = h.target /\ seen.module = h.module
      /\ seen.deferred = h.deferred /\ seen.pid = h.pid /\ seen.gen = h.gen
      /\ seen.launched = h.launched /\ seen.wasConnected = h.connected
      /\ seen.detached = h.detached /\ seen.tried = h.tried /\ seen.overtaken = over
  <2>. DEFINE up == Available(h)
              on == h.connected
  <2>1. up \in BOOLEAN /\ on \in BOOLEAN /\ policy \in Policies BY <1>1, <1>2, <1>3 DEF Hosts
  <2>2. seen = [h EXCEPT !.wasAvailable = up, !.wasConnected = on, !.overtaken = over,
                         !.policy = policy] OBVIOUS
  <2>3. on = h.connected OBVIOUS
  <2>. DEFINE marked == [h EXCEPT !.wasAvailable = up, !.wasConnected = on]
  <2>7. seen = [marked EXCEPT !.overtaken = over, !.policy = policy] BY <2>2
  <2>. HIDE DEF up, on, seen
  <2>8. marked \in Hosts BY <1>1, <2>1 DEF Hosts
  <2>. HIDE DEF marked
  <2>4. seen \in Hosts BY <1>3, <2>1, <2>7, <2>8 DEF Hosts
  <2>5. /\ seen.policy = policy /\ seen.ops = h.ops /\ seen.backend = h.backend
        /\ seen.connected = h.connected /\ seen.target = h.target /\ seen.module = h.module
        /\ seen.deferred = h.deferred /\ seen.pid = h.pid /\ seen.gen = h.gen
    BY <1>1, <2>2 DEF Hosts
  <2>6. /\ seen.launched = h.launched /\ seen.wasConnected = on
        /\ seen.detached = h.detached /\ seen.tried = h.tried /\ seen.overtaken = over
    BY <1>1, <2>2 DEF Hosts
  <2>. QED BY <2>3, <2>4, <2>5, <2>6
<1>6. Acts(h, seen) BY <1>1, <1>5 DEF Acts, Extends, Hosts
<1>. HIDE DEF seen
<1>7. ShapeInv(seen) BY <1>1, <1>5, ShapeKept DEF Sound
<1>8. Sound(seen) BY <1>1, <1>5, <1>7 DEF Sound, SessionInv
<1>9. Steady(seen) BY <1>2, <1>5, <1>8 DEF Steady, PolicyInv, TargetInv
<1>10. Open(h) /\ (h.connected /\ h.target = h.pid => h.tried) => Open(seen)
  BY <1>2, <1>4, <1>5 DEF Open
<1>11. Called(seen, t) /\ Sound(t) /\ t.backend = seen.backend
  <2>1. CASE Available(h) /\ ~h.wasAvailable /\ h.pid = 0
    <3>1. t = ApplyStaged(seen) BY <2>1
    <3>. QED BY <1>8, <3>1, ApplyStagedIs
  <2>2. CASE ~(Available(h) /\ ~h.wasAvailable /\ h.pid = 0)
    <3>1. t = seen BY <2>2
    <3>. QED BY <1>5, <1>8, <3>1, CalledReflexive
  <2>. QED BY <2>1, <2>2
<1>. HIDE DEF t
<1>12. Steady(t) /\ t \in Hosts /\ Keeps(seen, t) /\ t.policy = policy
  BY <1>5, <1>9, <1>11, CalledSteady, CalledKeeps DEF Called
<1>13. Acts(h, t) BY <1>1, <1>6, <1>11, CalledActs, ActsTransitive
<1>14. /\ Acts(t, k) /\ Sound(k) /\ Settles(t, k) /\ Decides(k) /\ Remembers(t, k)
  BY <1>12, ReconcileIs DEF Steady, PolicyInv
<1>. HIDE DEF k
<1>15. Acts(h, k) BY <1>1, <1>13, <1>14, ActsTransitive
<1>16. Steady(k) /\ Keeps(t, k) BY <1>12, <1>14, SettlesSteady, SettlesKeeps
<1>17. /\ k.gen = h.gen /\ k.pid = h.pid /\ k.launched = h.launched
       /\ k.wasConnected = h.connected /\ (h.tried => k.tried)
       /\ Open(h) /\ (h.connected /\ h.target = h.pid => h.tried) => Open(k)
  BY <1>5, <1>10, <1>12, <1>16 DEF Keeps
<1>18. h.module = "hades2" /\ h.policy.exitRefresh /\ ~(h.wasConnected /\ ~h.connected) =>
         k.policy.exitRefresh \/ (h.ops = <<>> /\ (h.connected => Asks(k.ops)))
  <2>. SUFFICES ASSUME h.module = "hades2", h.policy.exitRefresh, ~(h.wasConnected /\ ~h.connected)
       PROVE  k.policy.exitRefresh \/ (h.ops = <<>> /\ (h.connected => Asks(k.ops)))
    OBVIOUS
  <2>1. t.policy.exitRefresh BY <1>2, <1>12
  <2>2. t.ops = <<>> => h.ops = <<>>
    <3>1. h.ops \in Seq(Kinds) /\ t.ops \in Seq(Kinds) BY <1>1, <1>12 DEF Hosts
    <3>. QED BY <3>1, <1>13 DEF Acts, Extends
  <2>3. t.connected = h.connected /\ t.module = "hades2" BY <1>13 DEF Acts
  <2>. QED BY <1>14, <2>1, <2>2, <2>3 DEF Remembers
<1>19. Asleep(h, k)
  <2>1. t.module = h.module /\ t.backend = h.backend BY <1>5, <1>11 DEF Called
  <2>. QED BY <1>14, <2>1 DEF Settles, Asleep
<1>. QED BY <1>0, <1>14, <1>15, <1>16, <1>17, <1>18, <1>19 DEF k

LEMMA ActivatedIs ==
  ASSUME NEW h, NEW pid \in Nat, Steady(h)
  PROVE  LET seen == PublishPresence(h, pid)
             k == [seen EXCEPT !.policy = TargetActivated(@)]
         IN  Presents(h, k, pid) /\ k.pid = pid
<1>. DEFINE seen == PublishPresence(h, pid)
            q == TargetActivated(seen.policy)
            k == [seen EXCEPT !.policy = TargetActivated(@)]
<1>1. h \in Hosts BY DEF Steady, Sound
<1>2. Presents(h, seen, pid) /\ seen.pid = pid BY PublishPresenceIs
<1>. HIDE DEF seen
<1>3. Steady(seen) /\ Sound(seen) /\ seen \in Hosts /\ seen.policy \in Policies
      /\ (seen.policy.background => seen.policy.connect)
  BY <1>2 DEF Presents, Handles, Steady, Sound, Hosts, PolicyInv
<1>4. /\ q \in Policies /\ q.running = seen.policy.running
      /\ q.generation = seen.policy.generation /\ q.exitRefresh = seen.policy.exitRefresh
      /\ q.background = seen.policy.background /\ q.awaiting = seen.policy.awaiting
      /\ q.suppressed = seen.policy.suppressed
      /\ seen.policy.connect => q.connect
  BY <1>3 DEF TargetActivated, Policies
<1>5. (seen.policy.background => q.connect = seen.policy.connect) /\ (q.background => q.connect)
  BY <1>3, <1>4 DEF Policies
<1>6. k = [seen EXCEPT !.policy = q] OBVIOUS
<1>. HIDE DEF q, k
<1>7. /\ k \in Hosts /\ k.policy = q /\ k.ops = seen.ops /\ k.backend = seen.backend
      /\ k.connected = seen.connected /\ k.target = seen.target /\ k.module = seen.module
      /\ k.deferred = seen.deferred /\ k.pid = seen.pid /\ k.gen = seen.gen
      /\ k.launched = seen.launched /\ k.wasConnected = seen.wasConnected
      /\ k.detached = seen.detached /\ k.tried = seen.tried /\ k.overtaken = seen.overtaken
      /\ k.untrusted = seen.untrusted
  BY <1>3, <1>4, <1>6 DEF Hosts
<1>8. Acts(seen, k) BY <1>3, <1>6, <1>7 DEF Acts, Extends, Hosts
<1>9. ShapeInv(k) BY <1>3, <1>7, ShapeKept DEF Sound
<1>10. Sound(k) BY <1>3, <1>7, <1>9 DEF Sound, SessionInv
<1>11. Steady(k) BY <1>3, <1>4, <1>5, <1>7, <1>10 DEF Steady, PolicyInv, TargetInv
<1>12. Remembers(seen, k) BY <1>4, <1>7 DEF Remembers
<1>13. Decides(seen) => Decides(k) BY <1>4, <1>5, <1>7, DecidesSame
<1>14. Keeps(seen, k) BY <1>4, <1>7 DEF Keeps, Open
<1>15. Handles(seen, k) BY <1>7, <1>8, <1>11, <1>12, <1>13 DEF Handles
<1>16. Presents(h, k, pid) BY <1>1, <1>2, <1>14, <1>15, PresentsThen
<1>17. Presents(h, k, pid) /\ k.pid = pid BY <1>2, <1>7, <1>16
<1>. QED BY <1>17 DEF k, seen

LEMMA StartedIs ==
  ASSUME NEW h, Steady(h), h.backend # "up"
  PROVE  Handles(h, StartBackend(h)) /\ Keeps(h, StartBackend(h)) /\ StartBackend(h).backend = "up"
BY StartBackendIs, CalledHandles DEF Steady

LEMMA RecoveredIs ==
  ASSUME NEW h, Steady(h), h.backend # "up"
  PROVE  Handles(h, Recovered(h)) /\ Keeps(h, Recovered(h))
<1>. DEFINE u == Up(h)
            k == ConsumeDeferred(u, FALSE)
<1>1. h \in Hosts /\ Sound(h) BY DEF Steady, Sound
<1>2. Called(h, u) /\ Sound(u) /\ u.changed BY <1>1, UpIs
<1>3. Recovered(h) = k BY DEF Recovered
<1>. HIDE DEF u
<1>4. Called(u, k) /\ Sound(k) BY <1>2, ConsumeDeferredIs
<1>5. Called(h, k) BY <1>1, <1>2, <1>4, CalledTransitive
<1>6. k.changed BY <1>2, <1>4 DEF Called
<1>. QED BY <1>3, <1>4, <1>5, <1>6, CalledHandles

LEMMA NotRecoveredIs ==
  ASSUME NEW h, Steady(h), h.backend # "up"
  PROVE  /\ Handles(h, NotRecovered(h)) /\ Keeps(h, NotRecovered(h))
         /\ NotRecovered(h).backend # "up"
<1>1. h \in Hosts /\ Sound(h) /\ h.ops = <<>> BY DEF Steady, Sound, SessionInv
<1>2. CASE ~h.manual /\ h.attempts < MaxAttempts
  <2>. DEFINE k == [h EXCEPT !.attempts = @ + 1]
  <2>1. NotRecovered(h) = k BY <1>2 DEF NotRecovered
  <2>2. Alike(h, k) BY <1>1 DEF Alike, Hosts
  <2>. QED BY <2>1, <2>2, AlikeHandles DEF Alike
<1>3. CASE ~(~h.manual /\ h.attempts < MaxAttempts)
  <2>. DEFINE d == [h EXCEPT !.backend = "down", !.manual = FALSE]
  <2>1. NotRecovered(h) = Published(d) BY <1>3 DEF NotRecovered
  <2>2. d \in Hosts /\ d.ops = h.ops /\ d.backend = "down" /\ d.connected = h.connected
        /\ d.target = h.target /\ d.deferred = h.deferred
        /\ d.module = h.module BY <1>1 DEF Hosts
  <2>3. Called(h, d) BY <1>1, <2>2 DEF Called, Hosts, Extends
  <2>. HIDE DEF d
  <2>4. ShapeInv(d) BY <1>1, <2>2, ShapeKept DEF Sound
  <2>5. Sound(d) BY <1>1, <2>2, <2>4 DEF Sound, SessionInv
  <2>6. Called(h, Published(d)) /\ Published(d).changed /\ Sound(Published(d))
        /\ Published(d).backend # "up"
    BY <1>1, <2>2, <2>3, <2>5, PublishedIs, PublishedSound, CalledTransitive
  <2>. QED BY <2>1, <2>6, CalledHandles
<1>. QED BY <1>2, <1>3

\* The request at the head is answered: the others move up.
LEMMA Moved ==
  ASSUME NEW s \in Seq(Kinds), s # <<>>
  PROVE  /\ Tail(s) \in Seq(Kinds) /\ Len(s) \in Nat /\ Len(s) >= 1
         /\ Len(Tail(s)) = Len(s) - 1 /\ Head(s) = s[1]
         /\ \A i \in 1 .. Len(s) - 1 : Tail(s)[i] = s[i + 1]
OBVIOUS

LEMMA MovedShape ==
  ASSUME NEW h \in Hosts, NEW k \in Hosts, ShapeInv(h), h.ops # <<>>, k.ops = Tail(h.ops),
         k.module = h.module, k.deferred = h.deferred,
         h.module = "hades2" /\ ~h.connected /\ Head(h.ops) # "connect" => ~k.connected
  PROVE  ShapeInv(k)
<1>. SUFFICES ASSUME h.module = "hades2" PROVE ShapeInv(k) BY DEF ShapeInv
<1>. DEFINE n == Len(h.ops)
<1>1. /\ n \in Nat /\ n >= 1 /\ Len(k.ops) = n - 1 /\ Head(h.ops) = h.ops[1]
      /\ k.ops \in Seq(Kinds)
      /\ \A i \in 1 .. n - 1 : k.ops[i] = h.ops[i + 1]
  <2>1. h.ops \in Seq(Kinds) BY DEF Hosts
  <2>. QED BY <2>1, Moved
<1>2. \A i \in 2 .. n : h.ops[i] # "edit" BY DEF ShapeInv
<1>3. \A i \in 1 .. n : h.ops[i] = "connect" =>
        ~h.deferred /\ (i # 1 => ~h.connected) /\ \A j \in 1 .. i - 1 : h.ops[j] # "connect"
  BY DEF ShapeInv
<1>. HIDE DEF n
<1>4. \A i \in 1 .. n - 1 : k.ops[i] # "edit"
  <2>1. TAKE i \in 1 .. n - 1
  <2>2. i + 1 \in 2 .. n BY <1>1
  <2>. QED BY <1>1, <1>2, <2>2
<1>5. ASSUME NEW i \in 1 .. n - 1, k.ops[i] = "connect"
      PROVE  ~k.deferred /\ ~k.connected /\ \A j \in 1 .. i - 1 : k.ops[j] # "connect"
  <2>1. i + 1 \in 1 .. n /\ i + 1 # 1 /\ h.ops[i + 1] = "connect" BY <1>1, <1>5
  <2>2. ~h.deferred /\ ~h.connected /\ \A j \in 1 .. i : h.ops[j] # "connect" BY <1>3, <2>1
  <2>3. Head(h.ops) # "connect" BY <1>1, <2>2
  <2>4. ASSUME NEW j \in 1 .. i - 1 PROVE k.ops[j] # "connect"
    <3>1. j \in 1 .. n - 1 /\ j + 1 \in 1 .. i BY <1>1
    <3>. QED BY <1>1, <2>2, <3>1
  <2>. QED BY <2>2, <2>3, <2>4
<1>6. k.ops # <<>> => 1 \in 1 .. n - 1
  <2>. SUFFICES ASSUME k.ops # <<>> PROVE 1 \in 1 .. n - 1 OBVIOUS
  <2>1. k.ops \in Seq(Kinds) BY DEF Hosts
  <2>2. Len(k.ops) # 0 BY <2>1, EmptySeq
  <2>. QED BY <1>1, <2>2
<1>. QED BY <1>1, <1>4, <1>5, <1>6 DEF ShapeInv

LEMMA RepliedIs ==
  ASSUME NEW h, NEW answer \in Events, Steady(h), h.ops # <<>>,
         h.module = "hades2" /\ ~h.connected /\ Head(h.ops) # "connect" => answer.pid = 0
  PROVE  LET k == Replied(h, answer)
         IN  /\ Steady(k) /\ k.changed /\ k.backend = "up"
             /\ k.module = h.module /\ k.gen = h.gen /\ k.pid = h.pid /\ k.policy = h.policy
             /\ k.launched = h.launched /\ k.wasConnected = h.wasConnected
             /\ Keeps(h, k)
             /\ Head(h.ops) \notin Silent =>
                  /\ k.connected => /\ answer.pid # 0 /\ k.target = answer.pid
                                    /\ answer.pid = h.pid => k.tried
                  /\ h.module = "hades2" => (k.connected <=> answer.pid # 0)
             /\ Head(h.ops) \in Silent =>
                  /\ k.target = h.target /\ (k.connected => h.connected)
                  /\ h.module = "hades2" => k.connected = h.connected
             /\ answer.code # "unknown" =>
                  /\ Len(k.ops) >= Len(h.ops) - 1
                  /\ \A i \in 1 .. Len(h.ops) - 1 : k.ops[i] = h.ops[i + 1]
             /\ h.module = "hades2" /\ h.connected => ~Connects(k.ops)
<1>. DEFINE kind == Head(h.ops)
            unknown == answer.code = "unknown"
            told == kind \notin Silent
            a == [h EXCEPT !.attempts = IF answer.code = "ok" THEN 0 ELSE @]
            pub == Published(a)
            idle == ConsumeDeferred(pub, FALSE)
            uncertain == idle.uncertain \/ unknown
            untrusted == idle.untrusted \/ (unknown /\ kind \in Trusted /\ h.fresh)
            connected == IF told THEN Believed(h, answer.pid) ELSE idle.connected
            target == IF told THEN answer.pid ELSE idle.target
            tried == idle.tried \/ (told /\ answer.pid # 0 /\ answer.pid = h.pid)
            kept == [idle EXCEPT !.uncertain = uncertain, !.untrusted = untrusted,
                                 !.connected = connected, !.target = target, !.tried = tried]
            rest == IF unknown THEN <<>> ELSE Tail(kept.ops)
            next == [kept EXCEPT !.ops = rest, !.fresh = rest # <<>>]
            k == IF answer.code # "ok" \/ kind \in {"connect", "disconnect", "edit"} \/ rest # <<>>
                 THEN Published(next) ELSE next
<1>12. k = IF answer.code # "ok" \/ kind \in {"connect", "disconnect", "edit"} \/ rest # <<>>
           THEN Published(next) ELSE next OBVIOUS
<1>13. Replied(h, answer) = k BY DEF Replied
<1>1. h \in Hosts /\ Sound(h) /\ h.ops \in Seq(Kinds) /\ h.backend = "up" /\ answer.pid \in Nat
  BY DEF Steady, Sound, Hosts, SessionInv, Events
<1>2. Called(h, a) /\ Sound(a)
  <2>1. /\ a \in Hosts /\ a.ops = h.ops /\ a.backend = h.backend /\ a.connected = h.connected
        /\ a.target = h.target /\ a.module = h.module /\ a.deferred = h.deferred
    BY <1>1 DEF Hosts
  <2>2. Called(h, a) BY <1>1, <2>1 DEF Called, Hosts, Extends
  <2>. HIDE DEF a
  <2>3. ShapeInv(a) BY <1>1, <2>1, ShapeKept DEF Sound
  <2>. QED BY <1>1, <2>1, <2>2, <2>3 DEF Sound, SessionInv
<1>3. a \in Hosts /\ a.ops = h.ops /\ a.module = h.module BY <1>1, <1>2 DEF Called, Hosts
<1>. HIDE DEF a
<1>4. Called(a, pub) /\ Sound(pub) /\ pub.changed /\ pub.ops = a.ops
  BY <1>2, <1>3, PublishedIs, PublishedSound
<1>. HIDE DEF pub
<1>5. /\ Called(pub, idle) /\ Sound(idle)
      /\ idle = pub \/ (~pub.connected /\ idle.ops = Append(pub.ops, "connect"))
  BY <1>4, ConsumeDeferredIs
<1>6. Called(h, idle) /\ idle.changed
  <2>1. Called(h, pub) BY <1>1, <1>2, <1>4, CalledTransitive
  <2>2. Called(h, idle) BY <1>1, <1>5, <2>1, CalledTransitive
  <2>. QED BY <1>4, <1>5, <2>2 DEF Called
<1>7. h.module = "hades2" /\ h.connected => idle.ops = h.ops
  BY <1>2, <1>3, <1>4, <1>5 DEF Called
<1>. HIDE DEF idle
<1>8. /\ idle \in Hosts /\ idle.module = h.module /\ idle.pid = h.pid /\ idle.gen = h.gen
      /\ idle.policy = h.policy /\ idle.target = h.target /\ idle.launched = h.launched
      /\ idle.wasConnected = h.wasConnected /\ idle.tried = h.tried
      /\ idle.detached = h.detached /\ idle.overtaken = h.overtaken
      /\ idle.backend = "up"
      /\ idle.connected => h.connected
      /\ h.module = "hades2" => idle.connected = h.connected
  BY <1>1, <1>6 DEF Called
<1>9. idle.ops \in Seq(Kinds) /\ idle.ops # <<>> /\ Head(idle.ops) = kind
      /\ Len(idle.ops) >= Len(h.ops)
      /\ \A i \in 1 .. Len(h.ops) : idle.ops[i] = h.ops[i]
  <2>1. idle.ops \in Seq(Kinds) BY <1>8 DEF Hosts
  <2>2. Len(h.ops) <= Len(idle.ops) /\ \A i \in 1 .. Len(h.ops) : idle.ops[i] = h.ops[i]
    BY <1>6 DEF Called, Extends
  <2>3. Len(h.ops) >= 1 /\ Head(h.ops) = h.ops[1] BY <1>1, Moved
  <2>4. idle.ops # <<>> BY <1>1, <2>1, <2>2, <2>3
  <2>5. Head(idle.ops) = idle.ops[1] BY <2>1, <2>4, Moved
  <2>. QED BY <1>1, <2>1, <2>2, <2>3, <2>4, <2>5
<1>10. /\ uncertain \in BOOLEAN /\ untrusted \in BOOLEAN /\ connected \in BOOLEAN
       /\ target \in Nat /\ tried \in BOOLEAN
  BY <1>1, <1>8 DEF Hosts, Believed
<1>11. /\ told => /\ connected => /\ answer.pid # 0
                                  /\ h.module = "hades" => answer.pid = h.pid
                  /\ h.module = "hades2" => (connected <=> answer.pid # 0)
                  /\ target = answer.pid
                  /\ answer.pid # 0 /\ answer.pid = h.pid => tried
       /\ ~told => (connected <=> idle.connected) /\ target = h.target
       /\ h.tried => tried
  BY <1>1, <1>8 DEF Believed, Hosts
<1>. HIDE DEF uncertain, untrusted, connected, target, tried
<1>14. /\ kept \in Hosts /\ kept.module = h.module /\ kept.pid = h.pid /\ kept.gen = h.gen
       /\ kept.policy = h.policy /\ kept.target = target /\ kept.launched = h.launched
       /\ kept.wasConnected = h.wasConnected /\ kept.tried = tried
       /\ kept.detached = h.detached /\ kept.overtaken = h.overtaken
       /\ kept.backend = "up" /\ kept.connected = connected /\ kept.ops = idle.ops
       /\ kept.changed /\ kept.deferred = idle.deferred
  <2>1. kept \in Hosts BY <1>8, <1>10 DEF Hosts
  <2>2. /\ kept.module = idle.module /\ kept.pid = idle.pid /\ kept.gen = idle.gen
        /\ kept.policy = idle.policy /\ kept.target = target /\ kept.launched = idle.launched
        /\ kept.wasConnected = idle.wasConnected /\ kept.tried = tried
        /\ kept.detached = idle.detached /\ kept.overtaken = idle.overtaken
        /\ kept.backend = idle.backend /\ kept.connected = connected /\ kept.ops = idle.ops
        /\ kept.changed = idle.changed /\ kept.deferred = idle.deferred
    BY <1>8, <1>10 DEF Hosts
  <2>. HIDE DEF kept
  <2>. QED BY <1>6, <1>8, <2>1, <2>2
<1>. HIDE DEF kept
<1>15. rest \in Seq(Kinds) /\ (rest # <<>>) \in BOOLEAN
       /\ rest = IF unknown THEN <<>> ELSE Tail(idle.ops)
  <2>1. Tail(idle.ops) \in Seq(Kinds) BY <1>9, Moved
  <2>2. rest = IF unknown THEN <<>> ELSE Tail(idle.ops) BY <1>14
  <2>. HIDE DEF rest
  <2>3. CASE unknown BY <2>2, <2>3
  <2>4. CASE ~unknown BY <2>1, <2>2, <2>4
  <2>. QED BY <2>3, <2>4
<1>. HIDE DEF rest
<1>16. /\ next \in Hosts /\ next.module = h.module /\ next.pid = h.pid /\ next.gen = h.gen
       /\ next.policy = h.policy /\ next.target = target /\ next.launched = h.launched
       /\ next.wasConnected = h.wasConnected /\ next.tried = tried
       /\ next.detached = h.detached /\ next.overtaken = h.overtaken
       /\ next.backend = "up" /\ next.connected = connected /\ next.ops = rest
       /\ next.changed /\ next.deferred = idle.deferred
  <2>. DEFINE moved == rest # <<>>
  <2>4. moved \in BOOLEAN BY <1>15
  <2>5. next = [kept EXCEPT !.ops = rest, !.fresh = moved] OBVIOUS
  <2>. HIDE DEF moved
  <2>6. kept \in Hosts /\ rest \in Seq(Kinds) BY <1>14, <1>15
  <2>1. next \in Hosts BY <2>4, <2>5, <2>6, HostOps
  <2>2. /\ next.module = kept.module /\ next.pid = kept.pid /\ next.gen = kept.gen
        /\ next.policy = kept.policy /\ next.target = kept.target
        /\ next.launched = kept.launched /\ next.wasConnected = kept.wasConnected
        /\ next.tried = kept.tried
    BY <1>14, <1>15 DEF Hosts
  <2>3. /\ next.detached = kept.detached /\ next.overtaken = kept.overtaken
        /\ next.backend = kept.backend /\ next.connected = kept.connected
        /\ next.ops = rest /\ next.changed = kept.changed /\ next.deferred = kept.deferred
    BY <1>14, <1>15 DEF Hosts
  <2>. HIDE DEF next
  <2>. QED BY <1>14, <2>1, <2>2, <2>3
<1>. HIDE DEF next
<1>17. ShapeInv(next)
  <2>1. CASE unknown
    <3>1. next.ops = <<>> BY <1>15, <1>16, <2>1
    <3>. QED BY <3>1 DEF ShapeInv
  <2>2. CASE ~unknown
    <3>1. next.ops = Tail(idle.ops) BY <1>15, <1>16, <2>2
    <3>2. h.module = "hades2" /\ ~idle.connected /\ Head(idle.ops) # "connect" => ~next.connected
      BY <1>8, <1>9, <1>11, <1>16
    <3>3. ShapeInv(idle) BY <1>5 DEF Sound
    <3>. QED BY <1>8, <1>9, <1>16, <3>1, <3>2, <3>3, MovedShape
  <2>. QED BY <2>1, <2>2
<1>18. next.connected => next.target # 0
  <2>1. CASE told BY <1>11, <1>16, <2>1
  <2>2. CASE ~told BY <1>1, <1>8, <1>11, <1>16, <2>2 DEF Sound, SessionInv
  <2>. QED BY <2>1, <2>2
<1>19. Sound(next) BY <1>16, <1>17, <1>18 DEF Sound, SessionInv
<1>20. Steady(next)
  <2>1. TargetInv(next)
    <3>1. CASE told BY <1>11, <1>16, <3>1 DEF TargetInv
    <3>2. CASE ~told BY <1>8, <1>11, <1>16, <3>2 DEF TargetInv, Steady
    <3>. QED BY <3>1, <3>2
  <2>2. PolicyInv(next) BY <1>16 DEF PolicyInv, Steady
  <2>. QED BY <1>19, <2>1, <2>2 DEF Steady
<1>21. Called(next, k) /\ Sound(k) /\ k.changed /\ k.ops = next.ops /\ k.backend = next.backend
  <2>1. CASE k = Published(next) BY <1>16, <1>19, <2>1, PublishedIs, PublishedSound
  <2>2. CASE k = next BY <1>16, <1>19, <2>2, CalledReflexive
  <2>. QED BY <1>12, <2>1, <2>2
<1>. HIDE DEF k
<1>22. Steady(k) BY <1>20, <1>21, CalledSteady
<1>23. Keeps(h, next) BY <1>11, <1>16 DEF Keeps, Open
<1>24. Keeps(h, k) BY <1>21, <1>23, CalledKeeps, KeepsTransitive
<1>25. /\ k.module = h.module /\ k.gen = h.gen /\ k.pid = h.pid /\ k.policy = h.policy
       /\ k.launched = h.launched /\ k.wasConnected = h.wasConnected
       /\ k.target = target /\ (k.connected => connected) /\ (k.tried = tried)
       /\ h.module = "hades2" => k.connected = connected
  BY <1>16, <1>21 DEF Called
<1>26. kind \notin Silent =>
         /\ k.connected => /\ answer.pid # 0 /\ k.target = answer.pid
                           /\ answer.pid = h.pid => k.tried
         /\ h.module = "hades2" => (k.connected <=> answer.pid # 0)
  <2>. SUFFICES ASSUME told
       PROVE  /\ k.connected => /\ answer.pid # 0 /\ k.target = answer.pid
                                /\ answer.pid = h.pid => k.tried
              /\ h.module = "hades2" => (k.connected <=> answer.pid # 0)
    OBVIOUS
  <2>1. /\ connected => /\ answer.pid # 0
                        /\ h.module = "hades" => answer.pid = h.pid
        /\ h.module = "hades2" => (connected <=> answer.pid # 0)
        /\ target = answer.pid
        /\ answer.pid # 0 /\ answer.pid = h.pid => tried BY <1>11
  <2>2. k.connected => /\ answer.pid # 0 /\ k.target = answer.pid
                       /\ answer.pid = h.pid => k.tried BY <1>25, <2>1
  <2>3. h.module = "hades2" => (k.connected <=> answer.pid # 0) BY <1>25, <2>1
  <2>. QED BY <2>2, <2>3
<1>27. kind \in Silent =>
         /\ k.target = h.target /\ (k.connected => h.connected)
         /\ h.module = "hades2" => k.connected = h.connected
  <2>. SUFFICES ASSUME kind \in Silent
       PROVE  /\ k.target = h.target /\ (k.connected => h.connected)
              /\ h.module = "hades2" => k.connected = h.connected
    OBVIOUS
  <2>1. (connected <=> idle.connected) /\ target = h.target BY <1>11
  <2>2. k.connected \in BOOLEAN /\ h.connected \in BOOLEAN BY <1>1, <1>21 DEF Called, Hosts
  <2>. QED BY <1>8, <1>10, <1>25, <2>1, <2>2
<1>28. answer.code # "unknown" =>
         /\ Len(k.ops) >= Len(h.ops) - 1
         /\ \A i \in 1 .. Len(h.ops) - 1 : k.ops[i] = h.ops[i + 1]
  <2>. SUFFICES ASSUME ~unknown
       PROVE  /\ Len(k.ops) >= Len(h.ops) - 1
              /\ \A i \in 1 .. Len(h.ops) - 1 : k.ops[i] = h.ops[i + 1]
    OBVIOUS
  <2>1. k.ops = Tail(idle.ops) BY <1>15, <1>16, <1>21
  <2>2. Len(k.ops) = Len(idle.ops) - 1 /\ Len(idle.ops) \in Nat
        /\ \A i \in 1 .. Len(idle.ops) - 1 : k.ops[i] = idle.ops[i + 1]
    BY <1>9, <2>1, Moved
  <2>3. Len(h.ops) \in Nat BY <1>1
  <2>4. ASSUME NEW i \in 1 .. Len(h.ops) - 1 PROVE k.ops[i] = h.ops[i + 1]
    <3>1. i \in 1 .. Len(idle.ops) - 1 /\ i + 1 \in 1 .. Len(h.ops) BY <1>9, <2>2, <2>3
    <3>. QED BY <1>9, <2>2, <3>1
  <2>. QED BY <1>9, <2>2, <2>3, <2>4
<1>29. h.module = "hades2" /\ h.connected => ~Connects(k.ops)
  <2>. SUFFICES ASSUME h.module = "hades2", h.connected PROVE ~Connects(k.ops) OBVIOUS
  <2>1. CASE unknown
    <3>1. k.ops = <<>> BY <1>15, <1>16, <1>21, <2>1
    <3>. QED BY <3>1 DEF Connects
  <2>2. CASE ~unknown
    <3>1. k.ops = Tail(h.ops) BY <1>7, <1>15, <1>16, <1>21, <2>2
    <3>2. /\ Len(k.ops) = Len(h.ops) - 1 /\ Len(h.ops) \in Nat
          /\ \A i \in 1 .. Len(h.ops) - 1 : k.ops[i] = h.ops[i + 1]
      BY <1>1, <3>1, Moved
    <3>3. ASSUME NEW i \in 1 .. Len(h.ops) - 1 PROVE h.ops[i + 1] # "connect"
      <4>1. i + 1 \in 1 .. Len(h.ops) /\ i + 1 # 1 BY <3>2
      <4>. QED BY <1>1, <4>1 DEF Sound, ShapeInv
    <3>. QED BY <3>2, <3>3 DEF Connects
  <2>. QED BY <2>1, <2>2
<1>. QED BY <1>13, <1>16, <1>21, <1>22, <1>24, <1>25, <1>26, <1>27, <1>28, <1>29

LEMMA ExitedIs ==
  ASSUME NEW h, Steady(h)
  PROVE  LET k == Exited(h)
         IN  /\ Steady(k) /\ k.changed /\ k.backend # "up" /\ ~k.connected /\ k.ops = <<>>
             /\ k.module = h.module /\ k.policy = h.policy /\ k.pid = h.pid
             /\ Keeps(h, k)
<1>. DEFINE recovers == h.attempts < MaxAttempts
            lost == h.ops # <<>>
            uncertain == h.uncertain \/ lost
            untrusted == h.untrusted \/ (lost /\ h.fresh /\ Head(h.ops) \in Trusted)
            backend == IF recovers THEN "recovering" ELSE "down"
            attempts == IF recovers THEN h.attempts + 1 ELSE h.attempts
            d == [h EXCEPT !.uncertain = uncertain, !.untrusted = untrusted,
                           !.connected = FALSE, !.ops = <<>>, !.fresh = FALSE,
                           !.backend = backend, !.attempts = attempts, !.manual = FALSE]
            k == Published(d)
<1>1. h \in Hosts BY DEF Steady, Sound
<1>2. uncertain \in BOOLEAN /\ untrusted \in BOOLEAN /\ backend \in {"recovering", "down"}
      /\ attempts \in Nat BY <1>1 DEF Hosts
<1>3. Exited(h) = k BY DEF Exited
<1>. HIDE DEF uncertain, untrusted, backend, attempts
<1>12. <<>> \in Seq(Kinds) OBVIOUS
<1>13. d \in Hosts
  <2>. DEFINE marked == [h EXCEPT !.uncertain = uncertain, !.untrusted = untrusted,
                                  !.connected = FALSE]
  <2>1. marked \in Hosts BY <1>1, <1>2 DEF Hosts
  <2>2. d = [marked EXCEPT !.ops = <<>>, !.fresh = FALSE, !.backend = backend,
                           !.attempts = attempts, !.manual = FALSE] BY <1>1 DEF Hosts
  <2>. HIDE DEF marked
  <2>. QED BY <1>2, <1>12, <2>1, <2>2 DEF Hosts
<1>4. /\ d \in Hosts /\ d.ops = <<>> /\ d.backend = backend /\ ~d.connected
      /\ d.module = h.module /\ d.policy = h.policy /\ d.pid = h.pid /\ d.gen = h.gen
      /\ d.launched = h.launched /\ d.wasConnected = h.wasConnected
      /\ d.tried = h.tried /\ d.detached = h.detached /\ d.overtaken = h.overtaken
  BY <1>1, <1>13 DEF Hosts
<1>. HIDE DEF d
<1>5. ShapeInv(d) BY <1>4 DEF ShapeInv
<1>6. Sound(d) BY <1>4, <1>5 DEF Sound, SessionInv
<1>7. Steady(d) BY <1>4, <1>6 DEF Steady, PolicyInv, TargetInv
<1>8. Called(d, k) /\ Sound(k) /\ k.changed /\ k.ops = d.ops /\ k.backend = d.backend
  BY <1>4, <1>6, PublishedIs, PublishedSound
<1>. HIDE DEF k
<1>9. Steady(k) /\ Keeps(d, k) BY <1>7, <1>8, CalledSteady, CalledKeeps
<1>10. Keeps(h, d) BY <1>4 DEF Keeps, Open
<1>11. Keeps(h, k) BY <1>9, <1>10, KeepsTransitive
<1>. QED BY <1>2, <1>3, <1>4, <1>8, <1>9, <1>11 DEF Called

--------------------------------------------------------------------------------
(* The queue of the main thread *)

\* The order of two of its events.
After(e, f) ==
  /\ e.fn = "exit" => f.fn \notin {"exit", "reply", "recover"}
  /\ e.fn = "reply" => f.fn \notin {"reply", "recover"}
  /\ f.fn # "start"
  /\ e.fn = "launch" /\ f.fn = "launch" => e.pid < f.pid
  /\ e.fn = "launch" /\ f.fn = "activate" => e.pid <= f.pid

Ordered(q) == \A i, j \in 1 .. Len(q) : i < j => After(q[i], q[j])

\* The context sees what the module shows before it changes again.
Leads(q) ==
  \E n \in 1 .. Len(q) :
    q[n].fn = "changed" /\ \A i \in 1 .. n - 1 : q[i].fn \notin {"reply", "recover"}

Has(q, fn) == \E e \in Range(q) : e.fn = fn

\* What the end of a handler does to the queue: d events of its head are gone.
Moves(q, r, d) ==
  /\ Len(r) \in {Len(q) - d, Len(q) - d + 1}
  /\ \A i \in 1 .. Len(r) :
       /\ i <= Len(q) - d => r[i] = q[i + d]
       /\ i > Len(q) - d => r[i] = Event("changed")

LEMMA ChangedIsEvent == Event("changed") \in Events /\ Event("changed").fn = "changed"
BY DEF Event, Events, Fns, Codes

LEMMA RangeIs ==
  ASSUME NEW q \in Seq(Events)
  PROVE  /\ Range(q) = {q[i] : i \in 1 .. Len(q)} /\ Range(q) \subseteq Events
         /\ q # <<>> => Head(q) \in Range(q) /\ Head(q) = q[1]
         /\ q = <<>> => Range(q) = {}
BY DEF Range

LEMMA AppendIs ==
  ASSUME NEW q \in Seq(Events), NEW e \in Events, Ordered(q), \A f \in Range(q) : After(f, e)
  PROVE  /\ Append(q, e) \in Seq(Events) /\ Range(Append(q, e)) = Range(q) \cup {e}
         /\ Ordered(Append(q, e))
         /\ Leads(q) => Leads(Append(q, e))
<1>. DEFINE r == Append(q, e)
            n == Len(q)
<1>1. r \in Seq(Events) /\ Len(r) = n + 1 /\ r[n + 1] = e /\ n \in Nat
      /\ \A i \in 1 .. n : r[i] = q[i] OBVIOUS
<1>2. Range(q) = {q[i] : i \in 1 .. n} /\ Range(r) = {r[i] : i \in 1 .. n + 1}
  BY <1>1, RangeIs
<1>. HIDE DEF r, n
<1>3. Range(r) = Range(q) \cup {e}
  <2>1. ASSUME NEW x \in Range(r) PROVE x \in Range(q) \cup {e}
    <3>1. PICK i \in 1 .. n + 1 : x = r[i] BY <1>2, <2>1
    <3>2. CASE i = n + 1 BY <1>1, <3>1, <3>2
    <3>3. CASE i # n + 1
      <4>1. i \in 1 .. n BY <1>1, <3>3
      <4>. QED BY <1>1, <1>2, <3>1, <4>1
    <3>. QED BY <3>2, <3>3
  <2>2. ASSUME NEW x \in Range(q) PROVE x \in Range(r)
    <3>1. PICK i \in 1 .. n : x = q[i] BY <1>2, <2>2
    <3>2. i \in 1 .. n + 1 /\ x = r[i] BY <1>1, <3>1
    <3>. QED BY <1>2, <3>2
  <2>3. e \in Range(r)
    <3>1. n + 1 \in 1 .. n + 1 BY <1>1
    <3>. QED BY <1>1, <1>2, <3>1
  <2>. QED BY <2>1, <2>2, <2>3
<1>4. Ordered(r)
  <2>1. SUFFICES ASSUME NEW i \in 1 .. n + 1, NEW j \in 1 .. n + 1, i < j PROVE After(r[i], r[j])
    BY <1>1 DEF Ordered
  <2>2. i \in 1 .. n /\ r[i] = q[i] BY <1>1, <2>1
  <2>3. CASE j = n + 1
    <3>1. q[i] \in Range(q) BY <1>2, <2>2
    <3>. QED BY <1>1, <2>2, <2>3, <3>1
  <2>4. CASE j # n + 1
    <3>1. j \in 1 .. n /\ r[j] = q[j] BY <1>1, <2>4
    <3>. QED BY <2>1, <2>2, <3>1 DEF Ordered, n
  <2>. QED BY <2>3, <2>4
<1>5. ASSUME Leads(q) PROVE Leads(r)
  <2>1. PICK m \in 1 .. n :
          q[m].fn = "changed" /\ \A i \in 1 .. m - 1 : q[i].fn \notin {"reply", "recover"}
    BY <1>5 DEF Leads, n
  <2>2. m \in 1 .. n + 1 /\ r[m].fn = "changed" BY <1>1, <2>1
  <2>3. ASSUME NEW i \in 1 .. m - 1 PROVE r[i].fn \notin {"reply", "recover"}
    <3>1. i \in 1 .. n BY <1>1
    <3>. QED BY <1>1, <2>1, <3>1
  <2>. QED BY <1>1, <2>2, <2>3 DEF Leads
<1>. QED BY <1>1, <1>3, <1>4, <1>5 DEF r

LEMMA MovesIs ==
  ASSUME NEW q \in Seq(Events), NEW r \in Seq(Events), NEW d \in {0, 1}, d <= Len(q),
         Moves(q, r, d), Ordered(q)
  PROVE  /\ Range(r) \subseteq Range(q) \cup {Event("changed")}
         /\ d = 0 => Range(q) \subseteq Range(r)
         /\ d = 1 => /\ Range(q) \subseteq Range(r) \cup {Head(q)}
                     /\ \A e \in Range(r) : e = Event("changed") \/ After(Head(q), e)
         /\ Ordered(r)
         /\ Leads(q) /\ (d = 1 => Head(q).fn # "changed") => Leads(r)
         /\ Event("changed") \in Range(r) /\ (\A e \in Range(r) : e.fn \notin {"reply", "recover"})
              => Leads(r)
<1>. DEFINE n == Len(q)
            m == Len(r)
            c == Event("changed")
<1>1. n \in Nat /\ m \in Nat /\ m \in {n - d, n - d + 1} /\ d <= n BY DEF Moves
<1>2. \A i \in 1 .. m : /\ i <= n - d => i + d \in 1 .. n /\ r[i] = q[i + d]
                        /\ i > n - d => i = m /\ r[i] = c
  BY <1>1 DEF Moves
<1>3. Range(q) = {q[i] : i \in 1 .. n} /\ Range(r) = {r[i] : i \in 1 .. m}
      /\ (n # 0 => Head(q) = q[1]) BY <1>1, RangeIs
<1>4. \A i, j \in 1 .. n : i < j => After(q[i], q[j]) BY DEF Ordered
<1>5. c.fn = "changed" BY ChangedIsEvent
<1>6. \A e : After(e, c) BY <1>5 DEF After
<1>7. Leads(q) <=> \E k \in 1 .. n :
        q[k].fn = "changed" /\ \A i \in 1 .. k - 1 : q[i].fn \notin {"reply", "recover"}
  BY DEF Leads
<1>8. Leads(r) <=> \E k \in 1 .. m :
        r[k].fn = "changed" /\ \A i \in 1 .. k - 1 : r[i].fn \notin {"reply", "recover"}
  BY DEF Leads
<1>9. Ordered(r) <=> \A i, j \in 1 .. m : i < j => After(r[i], r[j]) BY DEF Ordered
<1>. HIDE DEF n, m, c
<1>10. ASSUME NEW x \in Range(r)
       PROVE  (\E i \in 1 .. n : i > d /\ x = q[i]) \/ x = c
  <2>1. PICK i \in 1 .. m : x = r[i] BY <1>3, <1>10
  <2>2. CASE i <= n - d
    <3>1. i + d \in 1 .. n /\ i + d > d /\ x = q[i + d] BY <1>1, <1>2, <2>1, <2>2
    <3>. QED BY <3>1
  <2>3. CASE i > n - d BY <1>2, <2>1, <2>3
  <2>. QED BY <1>1, <2>2, <2>3
<1>11. ASSUME NEW i \in 1 .. n, i > d PROVE q[i] \in Range(r)
  <2>1. i - d \in 1 .. m /\ i - d <= n - d /\ (i - d) + d = i BY <1>1, <1>11
  <2>2. r[i - d] = q[i] BY <1>2, <2>1
  <2>. QED BY <1>3, <2>1, <2>2
<1>12. Range(r) \subseteq Range(q) \cup {c} BY <1>3, <1>10
<1>13. ASSUME d = 0 PROVE Range(q) \subseteq Range(r)
  <2>1. ASSUME NEW x \in Range(q) PROVE x \in Range(r)
    <3>1. PICK i \in 1 .. n : x = q[i] BY <1>3, <2>1
    <3>2. i > d BY <1>1, <1>13
    <3>. QED BY <1>11, <3>1, <3>2
  <2>. QED BY <2>1
<1>14. ASSUME d = 1
       PROVE  /\ Range(q) \subseteq Range(r) \cup {Head(q)}
              /\ \A e \in Range(r) : e = c \/ After(Head(q), e)
  <2>1. n # 0 /\ Head(q) = q[1] /\ 1 \in 1 .. n BY <1>1, <1>3, <1>14
  <2>2. ASSUME NEW x \in Range(q) PROVE x \in Range(r) \cup {Head(q)}
    <3>1. PICK i \in 1 .. n : x = q[i] BY <1>3, <2>2
    <3>2. CASE i = 1 BY <2>1, <3>1, <3>2
    <3>3. CASE i # 1
      <4>1. i > d BY <1>1, <1>14, <3>3
      <4>. QED BY <1>11, <3>1, <4>1
    <3>. QED BY <3>2, <3>3
  <2>3. ASSUME NEW x \in Range(r), x # c PROVE After(Head(q), x)
    <3>1. PICK i \in 1 .. n : i > d /\ x = q[i] BY <1>10, <2>3
    <3>2. 1 < i BY <1>14, <3>1
    <3>. QED BY <1>4, <2>1, <3>1, <3>2
  <2>. QED BY <2>2, <2>3
<1>15. Ordered(r)
  <2>1. SUFFICES ASSUME NEW i \in 1 .. m, NEW j \in 1 .. m, i < j PROVE After(r[i], r[j])
    BY <1>9
  <2>2. CASE j > n - d
    <3>1. r[j] = c BY <1>2, <2>2
    <3>. QED BY <1>6, <3>1
  <2>3. CASE j <= n - d
    <3>1. i <= n - d BY <1>1, <2>1, <2>3
    <3>2. i + d \in 1 .. n /\ r[i] = q[i + d] BY <1>2, <3>1
    <3>3. j + d \in 1 .. n /\ r[j] = q[j + d] BY <1>2, <2>3
    <3>4. i + d < j + d BY <1>1, <2>1
    <3>. QED BY <1>4, <3>2, <3>3, <3>4
  <2>. QED BY <1>1, <2>2, <2>3
<1>16. ASSUME Leads(q), d = 1 => Head(q).fn # "changed" PROVE Leads(r)
  <2>1. PICK k \in 1 .. n :
          q[k].fn = "changed" /\ \A i \in 1 .. k - 1 : q[i].fn \notin {"reply", "recover"}
    BY <1>7, <1>16
  <2>2. k > d
    <3>1. CASE d = 0 BY <1>1, <3>1
    <3>2. CASE d = 1
      <4>1. q[1].fn # "changed" BY <1>1, <1>3, <1>16, <3>2
      <4>. QED BY <1>1, <2>1, <3>2, <4>1
    <3>. QED BY <3>1, <3>2
  <2>3. k - d \in 1 .. m /\ k - d <= n - d /\ (k - d) + d = k BY <1>1, <2>2
  <2>4. r[k - d] = q[k] BY <1>2, <2>3
  <2>5. ASSUME NEW i \in 1 .. (k - d) - 1 PROVE r[i].fn \notin {"reply", "recover"}
    <3>1. i \in 1 .. m /\ i <= n - d /\ i + d \in 1 .. k - 1 BY <1>1, <2>3
    <3>2. r[i] = q[i + d] BY <1>2, <3>1
    <3>. QED BY <2>1, <3>1, <3>2
  <2>. QED BY <1>8, <2>1, <2>3, <2>4, <2>5
<1>17. ASSUME c \in Range(r), \A e \in Range(r) : e.fn \notin {"reply", "recover"} PROVE Leads(r)
  <2>1. PICK k \in 1 .. m : r[k] = c BY <1>3, <1>17
  <2>2. ASSUME NEW i \in 1 .. k - 1 PROVE r[i].fn \notin {"reply", "recover"}
    <3>1. i \in 1 .. m BY <1>1
    <3>. QED BY <1>3, <1>17, <3>1
  <2>. QED BY <1>5, <1>8, <2>1, <2>2
<1>. QED BY <1>12, <1>13, <1>14, <1>15, <1>16, <1>17 DEF c

--------------------------------------------------------------------------------
(* The invariants *)

Workers == [alive : BOOLEAN, attached : Nat, answer : Events]

\* Each variable is of its type, and the host is as a handler left it.
TypeInv ==
  /\ host.module \in Modules
  /\ game \in Nat /\ born \in Nat /\ noted \in Nat
  /\ worker \in Workers
  /\ main \in Seq(Events)

\* What the queue holds of the games that were started.
WorldInv ==
  /\ game \in {0, born} /\ noted <= born /\ host.pid <= born
  /\ \A e \in Range(main) :
       /\ e.fn \in {"launch", "activate"} => e.pid \in 1 .. born
       /\ e.fn = "launch" => e.pid <= noted
       /\ e.fn = "changed" => e = Event("changed")
  /\ Ordered(main)

\* The answer in flight may say where the worker is attached.
ToldFlies == worker.answer # NoAnswer /\ Head(host.ops) \notin Silent

\* Who runs a worker, what it still owes and which events tell so.
WorkerInv ==
  /\ worker.alive => host.backend = "up" /\ ~Has(main, "exit")
  /\ ~worker.alive => /\ worker.attached = 0 /\ worker.answer \in {NoAnswer, Answered}
                      /\ host.backend = "up" <=> Has(main, "exit")
  /\ worker.answer # NoAnswer => host.ops # <<>>
  /\ worker.answer \in {NoAnswer, Answered} \/ worker.answer.fn = "reply"
  /\ worker.answer = Answered <=> Has(main, "reply")
  /\ Has(main, "start") => host.module = "hades" /\ host.backend # "up"

\* What an answer in flight says, of the request that waits for it.
AnswerInv ==
  \A a \in {worker.answer} \cup Range(main) :
    a.fn = "reply" =>
      /\ Head(host.ops) \in Silent => a.code = "ok"
      /\ Head(host.ops) \notin Silent /\ worker.alive => a.pid = worker.attached
      /\ host.module = "hades2" /\ ~host.connected /\ Head(host.ops) # "connect" => a.pid = 0

\* The host believes the worker's last answer.
AttachInv ==
  /\ worker.alive /\ ~ToldFlies /\ host.connected => worker.attached = host.target
  /\ host.module = "hades2" /\ ~host.connected =>
       worker.attached = 0 \/ (ToldFlies /\ Head(host.ops) = "connect")

\* The context has yet to see that a connection has come or gone.
Unseen == host.module = "hades2" /\ (host.connected # host.wasConnected)

\* A change that the context has not seen is in the queue.
SeenInv ==
  Unseen =>
    /\ Leads(main)
    /\ ~host.connected => worker.attached = 0 /\ ~Connects(host.ops)

\* A decision waits only for a change that is still in the queue.
DecidesInv == ~Has(main, "changed") => Decides(host)

\* The opportunity of the game launched last is open, while it is observed.
LaunchInv ==
  /\ host.launched <= noted
  /\ host.launched # 0 =>
       \A e \in Range(main) :
         /\ e.fn = "launch" => host.launched < e.pid
         /\ e.fn = "activate" => host.launched <= e.pid
  /\ host.launched = game /\ game # 0 =>
       /\ host.pid = game
       /\ host.connected /\ host.target = game => host.tried
       /\ Open(host)

\* The inductive invariant.
Inv ==
  /\ TypeInv /\ Steady(host) /\ WorldInv /\ WorkerInv /\ AnswerInv /\ AttachInv /\ SeenInv
  /\ DecidesInv /\ LaunchInv

\* The context will find that the process it observes has gone.
Due ==
  \/ host.pid \notin {0, game}
  \/ \E e \in Range(main) : e.fn \in {"launch", "activate"} /\ e.pid # game

\* A request that waits will say where the worker is attached.
Asked == ~ToldFlies /\ \E i \in 1 .. Len(host.ops) : host.ops[i] \notin Silent

\* The host will find where a worker is that is attached to a process that has gone.
Followed == worker.attached \notin {0, game} => Due \/ host.policy.exitRefresh \/ Asked

\* The process whose launch was notified last is observed, or it will be.
Known ==
  noted = game /\ game # 0 =>
    \/ \E e \in Range(main) : e.fn = "launch" /\ e.pid = game
    \/ /\ host.pid = game
       /\ \A e \in Range(main) : e.fn \in {"launch", "activate"} => e.pid = game

\* Where the worker of Hades II is, is known or will be asked.
StaleInv == host.module = "hades2" => Followed /\ Known

\* The system reports each end of a process of Hades II.
EndsKnown == Modules \cap {"hades2"} \subseteq Recorded

--------------------------------------------------------------------------------
(* The end of a handler *)

\* The handler has taken d events from the queue, and the host is k at its end.
Turn(k, d) ==
  /\ d = 1 => main # <<>>
  /\ Became(k, IF d = 1 THEN Tail(main) ELSE main)
  /\ UNCHANGED world

\* What it leaves.
Left(k) ==
  /\ Steady(host') /\ host'.module = k.module /\ host'.pid = k.pid /\ host'.policy = k.policy
  /\ host'.wasConnected = k.wasConnected /\ host'.connected = k.connected
  /\ host'.backend = k.backend /\ host'.ops = k.ops /\ host'.launched = k.launched
  /\ host'.tried = k.tried
  /\ Decides(k) => Decides(host')
  /\ Open(k) => Open(host')
  /\ k.connected => host'.target = k.target

Queued(k, d) ==
  /\ main' \in Seq(Events) /\ Ordered(main')
  /\ k.changed => Event("changed") \in Range(main')
  /\ Range(main') \subseteq Range(main) \cup {Event("changed")}
  /\ d = 0 => Range(main) \subseteq Range(main')
  /\ d = 1 => /\ main # <<>> /\ Head(main) \in Range(main)
              /\ Range(main) \subseteq Range(main') \cup {Head(main)}
              /\ \A e \in Range(main') : e = Event("changed") \/ After(Head(main), e)
  /\ Leads(main) /\ (d = 1 => Head(main).fn # "changed") => Leads(main')
  /\ Event("changed") \in Range(main') /\ (\A e \in Range(main') : e.fn \notin {"reply", "recover"})
       => Leads(main')

LEMMA LeftIs ==
  ASSUME NEW k, NEW t \in Nat, Steady(k), k.connected => t = k.target,
         host' = [k EXCEPT !.target = t]
  PROVE  Left(k)
<1>. DEFINE l == [k EXCEPT !.target = t]
<1>1. k \in Hosts BY DEF Steady, Sound
<1>2. /\ l \in Hosts /\ l.module = k.module /\ l.gen = k.gen /\ l.pid = k.pid
      /\ l.policy = k.policy /\ l.wasConnected = k.wasConnected /\ l.connected = k.connected
      /\ l.backend = k.backend /\ l.ops = k.ops /\ l.untrusted = k.untrusted
      /\ l.launched = k.launched /\ l.tried = k.tried /\ l.detached = k.detached
      /\ l.overtaken = k.overtaken /\ l.deferred = k.deferred /\ l.target = t
  BY <1>1 DEF Hosts
<1>3. host' = l OBVIOUS
<1>. HIDE DEF l
<1>4. ShapeInv(l) BY <1>2, ShapeKept DEF Steady, Sound
<1>5. Sound(l) BY <1>2, <1>4 DEF Steady, Sound, SessionInv
<1>6. Steady(l) BY <1>2, <1>5 DEF Steady, PolicyInv, TargetInv
<1>7. Decides(k) => Decides(l)
  <2>. SUFFICES ASSUME Decides(k) PROVE Decides(l) OBVIOUS
  <2>. QED BY <1>2, DecidesSame
<1>8. Open(k) => Open(l) BY <1>2 DEF Open
<1>. QED BY <1>2, <1>3, <1>6, <1>7, <1>8 DEF Left

LEMMA TurnIs ==
  ASSUME NEW k, NEW d \in {0, 1}, TypeInv, WorldInv, Steady(k), Turn(k, d)
  PROVE  Left(k) /\ Queued(k, d)
<1>. DEFINE rest == IF d = 1 THEN Tail(main) ELSE main
            c == Event("changed")
<1>1. main \in Seq(Events) /\ Ordered(main) /\ k \in Hosts /\ k.changed \in BOOLEAN
  BY DEF TypeInv, WorldInv, Steady, Sound, Hosts
<1>2. /\ rest \in Seq(Events) /\ d <= Len(main) /\ Len(rest) = Len(main) - d
      /\ \A i \in 1 .. Len(rest) : rest[i] = main[i + d]
  <2>1. CASE d = 0 BY <1>1, <2>1
  <2>2. CASE d = 1
    <3>1. main # <<>> /\ Len(main) \in Nat BY <1>1, <2>2 DEF Turn
    <3>2. Len(main) >= 1 BY <1>1, <3>1
    <3>3. rest = Tail(main) BY <2>2
    <3>. QED BY <1>1, <2>2, <3>1, <3>2, <3>3
  <2>. QED BY <2>1, <2>2
<1>3. main' = IF k.changed /\ c \notin Range(rest) THEN Append(rest, c) ELSE rest
  BY DEF Turn, Became
<1>4. c \in Events BY ChangedIsEvent
<1>. HIDE DEF rest, c
<1>5. main' \in Seq(Events)
      /\ \/ main' = rest
         \/ /\ Len(main') = Len(rest) + 1 /\ main'[Len(rest) + 1] = c
            /\ \A i \in 1 .. Len(rest) : main'[i] = rest[i]
  <2>1. CASE k.changed /\ c \notin Range(rest)
    <3>1. main' = Append(rest, c) BY <1>3, <2>1
    <3>. QED BY <1>2, <1>4, <3>1
  <2>2. CASE ~(k.changed /\ c \notin Range(rest)) BY <1>2, <1>3, <2>2
  <2>. QED BY <2>1, <2>2
<1>6. Moves(main, main', d)
  <2>1. Len(main) \in Nat /\ Len(rest) \in Nat /\ Len(main') \in Nat BY <1>1, <1>2, <1>5
  <2>2. Len(main') \in {Len(main) - d, Len(main) - d + 1} BY <1>2, <1>5
  <2>3. ASSUME NEW i \in 1 .. Len(main')
        PROVE  /\ i <= Len(main) - d => main'[i] = main[i + d]
               /\ i > Len(main) - d => main'[i] = c
    <3>1. CASE i <= Len(main) - d
      <4>1. i \in 1 .. Len(rest) BY <1>2, <2>1, <3>1
      <4>2. main'[i] = rest[i] BY <1>5, <4>1
      <4>. QED BY <1>2, <2>1, <3>1, <4>1, <4>2
    <3>2. CASE i > Len(main) - d
      <4>1. i = Len(rest) + 1 /\ main' # rest BY <1>2, <2>1, <2>2, <3>2
      <4>. QED BY <1>5, <2>1, <1>2, <3>2, <4>1
    <3>. QED BY <1>1, <1>2, <2>1, <3>1, <3>2
  <2>. QED BY <2>2, <2>3 DEF Moves, c
<1>7. k.changed => c \in Range(main')
  <2>. SUFFICES ASSUME k.changed PROVE c \in Range(main') OBVIOUS
  <2>1. CASE c \in Range(rest) BY <1>3, <2>1
  <2>2. CASE c \notin Range(rest)
    <3>1. main' = Append(rest, c) BY <1>3, <2>2
    <3>2. Len(main') \in 1 .. Len(main') /\ main'[Len(main')] = c BY <1>2, <1>4, <3>1
    <3>. QED BY <1>5, <3>2, RangeIs
  <2>. QED BY <2>1, <2>2
<1>8. d = 1 => main # <<>> /\ Head(main) \in Range(main) BY <1>1, RangeIs DEF Turn
<1>9. Queued(k, d) BY <1>1, <1>2, <1>5, <1>6, <1>7, <1>8, MovesIs DEF Queued, c
<1>10. Left(k)
  <2>. DEFINE t == IF k.connected THEN k.target ELSE 0
  <2>1. host' = [k EXCEPT !.target = t] BY DEF Turn, Became
  <2>2. t \in Nat /\ (k.connected => t = k.target) BY <1>1 DEF Hosts
  <2>. HIDE DEF t
  <2>. QED BY <2>1, <2>2, LeftIs
<1>. QED BY <1>9, <1>10

\* The handlers that start, all but those of a change, an answer and an exit.
LEMMA CalmIs ==
  ASSUME NEW h, Steady(h)
  PROVE  LET c == Calm(h)
         IN  /\ Steady(c) /\ c.module = h.module /\ c.gen = h.gen /\ c.pid = h.pid
             /\ c.policy = h.policy /\ c.wasConnected = h.wasConnected
             /\ c.connected = h.connected /\ c.target = h.target /\ c.backend = h.backend
             /\ c.ops = h.ops /\ c.untrusted = h.untrusted /\ c.launched = h.launched
             /\ c.tried = h.tried /\ c.active = h.active /\ c.ready = h.ready
             /\ Decides(h) <=> Decides(c)
             /\ Open(h) <=> Open(c)
             /\ Enabled(h) <=> Enabled(c)
<1>. DEFINE c == Calm(h)
<1>1. h \in Hosts BY DEF Steady, Sound
<1>2. /\ c \in Hosts /\ c.module = h.module /\ c.gen = h.gen /\ c.pid = h.pid
      /\ c.policy = h.policy /\ c.wasConnected = h.wasConnected
      /\ c.connected = h.connected /\ c.target = h.target /\ c.backend = h.backend
      /\ c.ops = h.ops /\ c.untrusted = h.untrusted /\ c.launched = h.launched
      /\ c.tried = h.tried /\ c.active = h.active /\ c.ready = h.ready
      /\ c.detached = h.detached /\ c.overtaken = h.overtaken /\ c.deferred = h.deferred
  BY <1>1 DEF Hosts, Calm
<1>. HIDE DEF c
<1>3. ShapeInv(c) BY <1>2, ShapeKept DEF Steady, Sound
<1>4. Sound(c) BY <1>2, <1>3 DEF Steady, Sound, SessionInv
<1>5. Steady(c) BY <1>2, <1>4 DEF Steady, PolicyInv, TargetInv
<1>6. Decides(h) => Decides(c)
  <2>. SUFFICES ASSUME Decides(h) PROVE Decides(c) OBVIOUS
  <2>. QED BY <1>2, DecidesSame
<1>7. Decides(c) => Decides(h)
  <2>. SUFFICES ASSUME Decides(c) PROVE Decides(h) OBVIOUS
  <2>. QED BY <1>2, DecidesSame
<1>8. Open(h) <=> Open(c) BY <1>2 DEF Open
<1>9. Enabled(h) <=> Enabled(c) BY <1>2 DEF Enabled, Available, Busy
<1>. QED BY <1>2, <1>5, <1>6, <1>7, <1>8, <1>9 DEF c

--------------------------------------------------------------------------------
(* A handler that leaves the request in flight in its place *)

LEMMA AnswersDiffer ==
  /\ NoAnswer \in Events /\ NoAnswer.fn = "none" /\ Answered \in Events /\ Answered.fn = "answered"
  /\ NoAnswer # Answered
BY DEF NoAnswer, Answered, Event, Events, Fns, Codes

LEMMA ExtendsHead ==
  ASSUME NEW s \in Seq(Kinds), NEW t \in Seq(Kinds), Extends(s, t), s # <<>>
  PROVE  t # <<>> /\ Head(t) = Head(s)
<1>1. Len(s) \in Nat /\ Len(s) # 0 /\ Len(t) \in Nat OBVIOUS
<1>2. Len(s) <= Len(t) /\ 1 \in 1 .. Len(s) BY <1>1 DEF Extends
<1>3. t[1] = s[1] BY <1>2 DEF Extends
<1>. QED BY <1>1, <1>2, <1>3

LEMMA InFlightAnswered ==
  ASSUME WorkerInv, NEW a \in {worker.answer} \cup Range(main), a.fn = "reply"
  PROVE  worker.answer # NoAnswer /\ host.ops # <<>>
<1>1. CASE a = worker.answer BY <1>1, AnswersDiffer DEF WorkerInv
<1>2. CASE a \in Range(main)
  <2>1. Has(main, "reply") BY <1>2 DEF Has
  <2>. QED BY <2>1, AnswersDiffer DEF WorkerInv
<1>. QED BY <1>1, <1>2

\* The handler that starts from the host as it is and ends in k.
Ordinary(k, d) ==
  /\ Acts(Calm(host), k) /\ Left(k) /\ Queued(k, d) /\ Started
  /\ d = 1 => Head(main).fn \notin {"reply", "exit"}
  /\ d = 0 /\ Has(main, "start") => k.backend # "up"

LEMMA OrdinaryHas ==
  ASSUME NEW k, NEW d \in {0, 1}, Ordinary(k, d), NEW fn \in Fns, fn # "changed"
  PROVE  /\ Has(main', fn) => Has(main, fn)
         /\ Has(main, fn) /\ (d = 1 => Head(main).fn # fn) => Has(main', fn)
BY ChangedIsEvent DEF Ordinary, Queued, Has

LEMMA OrdinaryHost ==
  ASSUME NEW k, NEW d \in {0, 1}, Inv, Ordinary(k, d)
  PROVE  /\ host' \in Hosts /\ Steady(host') /\ host'.module = host.module
         /\ host'.connected => host.connected /\ host'.target = host.target
         /\ host.module = "hades2" => host'.connected = host.connected
         /\ host.backend = "up" => host'.backend = "up"
         /\ Extends(host.ops, host'.ops)
         /\ host.ops # <<>> => host'.ops # <<>> /\ Head(host'.ops) = Head(host.ops)
         /\ host.backend # "up" => host.ops = <<>> /\ ~host.connected
<1>1. Steady(host) BY DEF Inv
<1>2. host \in Hosts /\ SessionInv(host) BY <1>1 DEF Steady, Sound
<1>. DEFINE c == Calm(host)
<1>3. /\ c.module = host.module /\ c.connected = host.connected /\ c.target = host.target
      /\ c.backend = host.backend /\ c.ops = host.ops BY <1>1, CalmIs
<1>4. Acts(c, k) BY DEF Ordinary
<1>. HIDE DEF c
<1>5. /\ k \in Hosts /\ k.module = host.module /\ k.target = host.target
      /\ k.connected => host.connected
      /\ host.module = "hades2" => k.connected = host.connected
      /\ host.backend = "up" => k.backend = "up"
      /\ Extends(host.ops, k.ops) BY <1>3, <1>4 DEF Acts
<1>6. /\ Steady(host') /\ host'.module = k.module /\ host'.connected = k.connected
      /\ host'.backend = k.backend /\ host'.ops = k.ops
      /\ k.connected => host'.target = k.target BY DEF Ordinary, Left
<1>7. host' \in Hosts BY <1>6 DEF Steady, Sound
<1>8. host.ops # <<>> => k.ops # <<>> /\ Head(k.ops) = Head(host.ops)
  <2>1. host.ops \in Seq(Kinds) /\ k.ops \in Seq(Kinds) BY <1>2, <1>5 DEF Hosts
  <2>. QED BY <1>5, <2>1, ExtendsHead
<1>. QED BY <1>2, <1>5, <1>6, <1>7, <1>8 DEF SessionInv

LEMMA OrdinaryWorker ==
  ASSUME NEW k, NEW d \in {0, 1}, Inv, Ordinary(k, d)
  PROVE  /\ WorkerInv' /\ AnswerInv' /\ AttachInv'
         /\ worker' \in Workers
         /\ worker' = worker \/ (worker'.attached = 0 /\ host.backend # "up")
         /\ ToldFlies' <=> ToldFlies
<1>1. TypeInv /\ WorldInv /\ WorkerInv /\ AnswerInv /\ AttachInv BY DEF Inv
<1>2. /\ host' \in Hosts /\ Steady(host') /\ host'.module = host.module
      /\ host'.connected => host.connected /\ host'.target = host.target
      /\ host.module = "hades2" => host'.connected = host.connected
      /\ host.backend = "up" => host'.backend = "up"
      /\ host.ops # <<>> => host'.ops # <<>> /\ Head(host'.ops) = Head(host.ops)
      /\ host.backend # "up" => host.ops = <<>> /\ ~host.connected BY OrdinaryHost
<1>3. (Has(main', "exit") <=> Has(main, "exit")) /\ (Has(main', "reply") <=> Has(main, "reply"))
  <2>1. d = 1 => Head(main).fn # "exit" /\ Head(main).fn # "reply" BY DEF Ordinary
  <2>2. "exit" \in Fns /\ "reply" \in Fns BY DEF Fns
  <2>. QED BY <2>1, <2>2, OrdinaryHas
<1>4. Has(main', "start") => host.module = "hades" /\ host'.backend # "up"
  <2>. SUFFICES ASSUME Has(main', "start") PROVE host.module = "hades" /\ host'.backend # "up" OBVIOUS
  <2>1. "start" \in Fns BY DEF Fns
  <2>2. Has(main, "start") BY <2>1, OrdinaryHas
  <2>3. CASE d = 0 BY <1>1, <2>2, <2>3 DEF WorkerInv, Ordinary, Left
  <2>4. CASE d = 1 BY <2>4, ChangedIsEvent DEF Ordinary, Queued, Has, After
  <2>. QED BY <2>3, <2>4
<1>5. Started BY DEF Ordinary
<1>6. \A a \in Range(main') : a.fn = "reply" => a \in Range(main)
  BY ChangedIsEvent DEF Ordinary, Queued
<1>7. CASE host'.backend = "up" /\ host.backend # "up"
  <2>1. worker' = NewWorker BY <1>5, <1>7 DEF Started
  <2>2. /\ worker'.alive /\ worker'.attached = 0 /\ worker'.answer = NoAnswer
        /\ worker' \in Workers BY <2>1, AnswersDiffer DEF NewWorker, Workers
  <2>3. ~worker.alive /\ ~Has(main, "exit") BY <1>1, <1>7 DEF WorkerInv
  <2>4. worker.answer = NoAnswer BY <1>1, <1>2, <1>7 DEF WorkerInv
  <2>5. ~Has(main, "reply") BY <1>1, <2>4, AnswersDiffer DEF WorkerInv
  <2>6. WorkerInv' BY <1>2, <1>3, <1>4, <1>7, <2>2, <2>3, <2>5, AnswersDiffer DEF WorkerInv
  <2>7. \A a \in Range(main') : a.fn # "reply" BY <1>6, <2>5 DEF Has
  <2>8. AnswerInv' BY <2>2, <2>7, AnswersDiffer DEF AnswerInv
  <2>9. ~ToldFlies' /\ ~ToldFlies BY <2>2, <2>4 DEF ToldFlies
  <2>10. AttachInv' BY <1>2, <1>7, <2>2 DEF AttachInv
  <2>. QED BY <1>7, <2>2, <2>6, <2>8, <2>9, <2>10
<1>8. CASE ~(host'.backend = "up" /\ host.backend # "up")
  <2>1. worker' = worker BY <1>5, <1>8 DEF Started
  <2>2. host'.backend = "up" <=> host.backend = "up" BY <1>2, <1>8
  <2>3. WorkerInv'
    BY <1>1, <1>2, <1>3, <1>4, <2>1, <2>2 DEF WorkerInv
  <2>4. AnswerInv'
    <3>1. SUFFICES ASSUME NEW a \in {worker.answer} \cup Range(main'), a.fn = "reply"
          PROVE  /\ Head(host'.ops) \in Silent => a.code = "ok"
                 /\ Head(host'.ops) \notin Silent /\ worker.alive => a.pid = worker.attached
                 /\ host'.module = "hades2" /\ ~host'.connected /\ Head(host'.ops) # "connect" => a.pid = 0
      BY <2>1 DEF AnswerInv
    <3>2. a \in {worker.answer} \cup Range(main) BY <1>6, <3>1
    <3>3. host.ops # <<>> BY <1>1, <3>1, <3>2, InFlightAnswered
    <3>4. Head(host'.ops) = Head(host.ops) BY <1>2, <3>3
    <3>. QED BY <1>1, <1>2, <3>1, <3>2, <3>4 DEF AnswerInv
  <2>5. ToldFlies' <=> ToldFlies
    <3>1. CASE worker.answer = NoAnswer BY <2>1, <3>1 DEF ToldFlies
    <3>2. CASE worker.answer # NoAnswer
      <4>1. host.ops # <<>> BY <1>1, <3>2 DEF WorkerInv
      <4>. QED BY <1>2, <2>1, <4>1 DEF ToldFlies
    <3>. QED BY <3>1, <3>2
  <2>6. AttachInv'
    <3>1. worker.alive /\ ~ToldFlies' /\ host'.connected => worker.attached = host'.target
      BY <1>1, <1>2, <2>5 DEF AttachInv
    <3>2. ASSUME host'.module = "hades2", ~host'.connected
          PROVE  worker.attached = 0 \/ (ToldFlies' /\ Head(host'.ops) = "connect")
      <4>1. host.module = "hades2" /\ ~host.connected BY <1>2, <3>2
      <4>2. worker.attached = 0 \/ (ToldFlies /\ Head(host.ops) = "connect")
        BY <1>1, <4>1 DEF AttachInv
      <4>3. ToldFlies => host.ops # <<>> BY <1>1 DEF ToldFlies, WorkerInv
      <4>. QED BY <1>2, <2>5, <4>2, <4>3
    <3>. QED BY <2>1, <3>1, <3>2 DEF AttachInv
  <2>. QED BY <1>1, <2>1, <2>3, <2>4, <2>5, <2>6 DEF TypeInv
<1>. QED BY <1>7, <1>8

LEMMA OrdinarySeen ==
  ASSUME NEW k, NEW d \in {0, 1}, Inv, Ordinary(k, d), k.wasConnected = host.wasConnected,
         d = 1 => Head(main).fn # "changed",
         Unseen /\ ~Connects(host.ops) => ~Connects(k.ops)
  PROVE  SeenInv'
<1>1. WorldInv /\ WorkerInv /\ SeenInv BY DEF Inv
<1>2. /\ host'.module = host.module
      /\ host.module = "hades2" => host'.connected = host.connected BY OrdinaryHost
<1>3. host'.wasConnected = k.wasConnected /\ host'.ops = k.ops BY DEF Ordinary, Left
<1>4. worker' = worker \/ worker'.attached = 0 BY OrdinaryWorker
<1>5. SUFFICES ASSUME Unseen'
      PROVE  Leads(main') /\ (~host'.connected => worker'.attached = 0 /\ ~Connects(host'.ops))
  BY DEF SeenInv
<1>6. Unseen BY <1>2, <1>3, <1>5 DEF Unseen
<1>7. Leads(main) /\ (~host.connected => worker.attached = 0 /\ ~Connects(host.ops))
  BY <1>1, <1>6 DEF SeenInv
<1>8. Leads(main') BY <1>7 DEF Ordinary, Queued
<1>9. host'.connected = host.connected BY <1>2, <1>6 DEF Unseen
<1>. QED BY <1>3, <1>4, <1>6, <1>7, <1>8, <1>9

LEMMA QueuedWorld ==
  ASSUME NEW k, NEW d \in {0, 1}, WorldInv, Left(k), Queued(k, d), UNCHANGED world, k.pid <= born
  PROVE  WorldInv'
<1>1. host'.pid = k.pid /\ game' = game /\ born' = born /\ noted' = noted BY DEF Left, world
<1>2. ASSUME NEW e \in Range(main')
      PROVE  /\ e.fn \in {"launch", "activate"} => e.pid \in 1 .. born
             /\ e.fn = "launch" => e.pid <= noted
             /\ e.fn = "changed" => e = Event("changed")
  <2>1. CASE e \in Range(main) BY <2>1 DEF WorldInv
  <2>2. CASE e \notin Range(main)
    <3>1. e = Event("changed") BY <1>2, <2>2 DEF Queued
    <3>. QED BY <3>1, ChangedIsEvent
  <2>. QED BY <2>1, <2>2
<1>3. Ordered(main') BY DEF Queued
<1>. QED BY <1>1, <1>2, <1>3 DEF WorldInv

LEMMA QueuedDecides ==
  ASSUME NEW k, NEW d \in {0, 1}, WorldInv, DecidesInv, Left(k), Queued(k, d),
         Decides(host) => Decides(k) \/ k.changed,
         d = 1 /\ Head(main).fn = "changed" => Decides(k) \/ k.changed
  PROVE  DecidesInv'
<1>1. SUFFICES ASSUME ~Has(main', "changed") PROVE Decides(host') BY DEF DecidesInv
<1>2. ~k.changed BY <1>1, ChangedIsEvent DEF Queued, Has
<1>3. CASE d = 1 /\ Head(main).fn = "changed" BY <1>2, <1>3 DEF Left
<1>4. CASE ~(d = 1 /\ Head(main).fn = "changed")
  <2>1. ~Has(main, "changed") BY <1>1, <1>4 DEF Queued, Has
  <2>. QED BY <1>2, <2>1 DEF Left, DecidesInv
<1>. QED BY <1>3, <1>4

\* Every handler but that of a launch.
LEMMA QueuedLaunch ==
  ASSUME NEW k, NEW d \in {0, 1}, TypeInv, LaunchInv, Left(k), Queued(k, d), UNCHANGED world,
         k.launched = host.launched,
         host.launched = game /\ game # 0 =>
           /\ k.pid = game
           /\ k.connected /\ k.target = game => k.tried
           /\ Open(k)
  PROVE  LaunchInv'
<1>1. game' = game /\ noted' = noted BY DEF world
<1>2. /\ host'.launched = host.launched /\ host'.pid = k.pid /\ host'.tried = k.tried
      /\ host'.connected = k.connected /\ (k.connected => host'.target = k.target)
      /\ Open(k) => Open(host') BY DEF Left
<1>3. ASSUME host.launched # 0, NEW e \in Range(main')
      PROVE  /\ e.fn = "launch" => host.launched < e.pid
             /\ e.fn = "activate" => host.launched <= e.pid
  <2>1. CASE e \in Range(main) BY <1>3, <2>1 DEF LaunchInv
  <2>2. CASE e \notin Range(main)
    <3>1. e = Event("changed") BY <1>3, <2>2 DEF Queued
    <3>. QED BY <3>1, ChangedIsEvent
  <2>. QED BY <2>1, <2>2
<1>4. ASSUME host.launched = game, game # 0
      PROVE  /\ host'.pid = game
             /\ host'.connected /\ host'.target = game => host'.tried
             /\ Open(host')
  BY <1>2, <1>4
<1>5. host.launched <= noted BY DEF LaunchInv
<1>. QED BY <1>1, <1>2, <1>3, <1>4, <1>5 DEF LaunchInv

LEMMA QueuedKnown ==
  ASSUME NEW k, NEW d \in {0, 1}, TypeInv, WorldInv, Known, Left(k), Queued(k, d), UNCHANGED world,
         \/ k.pid \in {host.pid, game} /\ (d = 1 => Head(main).fn # "launch")
         \/ d = 1 /\ Head(main).fn \in {"launch", "activate"} /\ k.pid = Head(main).pid
  PROVE  Known'
<1>1. game' = game /\ noted' = noted /\ host'.pid = k.pid BY DEF world, Left
<1>2. SUFFICES ASSUME noted = game, game # 0,
                      \A e \in Range(main') : ~(e.fn = "launch" /\ e.pid = game)
               PROVE  /\ k.pid = game
                      /\ \A e \in Range(main') : e.fn \in {"launch", "activate"} => e.pid = game
  BY <1>1 DEF Known
<1>3. game = born /\ born \in Nat BY <1>2 DEF WorldInv, TypeInv
<1>4. \A e \in Range(main') :
        e \in Range(main) \/ (e.fn = "changed") BY ChangedIsEvent DEF Queued
<1>5. CASE \E e \in Range(main) : e.fn = "launch" /\ e.pid = game
  <2>1. PICK e \in Range(main) : e.fn = "launch" /\ e.pid = game BY <1>5
  <2>2. d = 1 /\ e = Head(main) BY <1>2, <2>1 DEF Queued
  <2>3. k.pid = game BY <2>1, <2>2
  <2>4. ASSUME NEW f \in Range(main'), f.fn \in {"launch", "activate"} PROVE f.pid = game
    <3>1. f \in Range(main) BY <1>4, <2>4
    <3>2. After(Head(main), f) BY <2>2, <2>4, ChangedIsEvent DEF Queued
    <3>3. f.pid \in 1 .. born /\ (f.fn = "launch" => f.pid <= noted) BY <2>4, <3>1 DEF WorldInv
    <3>. QED BY <1>2, <1>3, <2>1, <2>2, <2>4, <3>2, <3>3 DEF After
  <2>. QED BY <2>3, <2>4
<1>6. CASE ~\E e \in Range(main) : e.fn = "launch" /\ e.pid = game
  <2>1. /\ host.pid = game
        /\ \A e \in Range(main) : e.fn \in {"launch", "activate"} => e.pid = game
    BY <1>2, <1>6 DEF Known
  <2>2. d = 1 => Head(main) \in Range(main) BY DEF Queued
  <2>3. k.pid = game BY <2>1, <2>2
  <2>. QED BY <1>4, <2>1, <2>3
<1>. QED BY <1>5, <1>6

LEMMA OrdinaryFollowed ==
  ASSUME NEW k, NEW d \in {0, 1}, Inv, Ordinary(k, d), UNCHANGED world, Followed,
         host.module = "hades2",
         worker.attached # 0 /\ (\/ host.policy.exitRefresh
                                 \/ host.pid # 0 /\ k.pid # host.pid
                                 \/ d = 1 /\ Head(main).fn = "launch")
           => k.policy.exitRefresh \/ (host.ops = <<>> /\ (host.connected => Asks(k.ops))),
         d = 1 /\ Head(main).fn = "activate" => k.pid = Head(main).pid
  PROVE  Followed'
<1>1. TypeInv /\ WorldInv /\ WorkerInv /\ AttachInv BY DEF Inv
<1>2. /\ worker' = worker \/ (worker'.attached = 0 /\ host.backend # "up")
      /\ ToldFlies' <=> ToldFlies BY OrdinaryWorker
<1>3. game' = game BY DEF world
<1>4. /\ host'.pid = k.pid /\ host'.policy = k.policy /\ host'.ops = k.ops BY DEF Ordinary, Left
<1>5. SUFFICES ASSUME worker' = worker, worker.attached \notin {0, game}
               PROVE  Due' \/ k.policy.exitRefresh \/ Asked'
  BY <1>2, <1>3, <1>4 DEF Followed
<1>6. ASSUME k.policy.exitRefresh \/ (host.ops = <<>> /\ (host.connected => Asks(k.ops)))
      PROVE  Due' \/ k.policy.exitRefresh \/ Asked'
  <2>1. SUFFICES ASSUME host.ops = <<>>, host.connected => Asks(k.ops) PROVE Asked' BY <1>6
  <2>2. ~ToldFlies BY <1>1, <2>1 DEF ToldFlies, WorkerInv
  <2>3. host.connected BY <1>1, <1>5, <2>2 DEF AttachInv
  <2>4. Asks(k.ops) BY <2>1, <2>3
  <2>5. k.ops \in Seq(Kinds) BY DEF Ordinary, Acts, Hosts
  <2>6. 1 \in 1 .. Len(k.ops) /\ k.ops[1] \notin Silent BY <2>4, <2>5 DEF Asks
  <2>. QED BY <1>2, <1>4, <2>2, <2>6 DEF Asked
<1>7. CASE Asked
  <2>1. Extends(host.ops, host'.ops) BY OrdinaryHost
  <2>2. PICK i \in 1 .. Len(host.ops) : host.ops[i] \notin Silent BY <1>7 DEF Asked
  <2>3. host \in Hosts /\ host' \in Hosts BY OrdinaryHost DEF Inv, Steady, Sound
  <2>4. Len(host.ops) \in Nat /\ Len(host'.ops) \in Nat BY <2>3 DEF Hosts
  <2>5. i \in 1 .. Len(host'.ops) /\ host'.ops[i] \notin Silent BY <2>1, <2>2, <2>4 DEF Extends
  <2>6. ~ToldFlies' BY <1>2, <1>7 DEF Asked
  <2>. QED BY <2>5, <2>6 DEF Asked
<1>8. CASE host.policy.exitRefresh BY <1>5, <1>6, <1>8
<1>9. CASE host.pid \notin {0, game}
  <2>1. CASE k.pid = host.pid BY <1>3, <1>4, <1>9, <2>1 DEF Due
  <2>2. CASE k.pid # host.pid BY <1>5, <1>6, <1>9, <2>2
  <2>. QED BY <2>1, <2>2
<1>10. CASE \E e \in Range(main) : e.fn \in {"launch", "activate"} /\ e.pid # game
  <2>1. PICK e \in Range(main) : e.fn \in {"launch", "activate"} /\ e.pid # game BY <1>10
  <2>2. CASE e \in Range(main') BY <1>3, <2>1, <2>2 DEF Due
  <2>3. CASE e \notin Range(main')
    <3>1. d = 1 /\ e = Head(main) BY <2>3 DEF Ordinary, Queued
    <3>2. CASE e.fn = "launch" BY <1>5, <1>6, <3>1, <3>2
    <3>3. CASE e.fn = "activate"
      <4>1. k.pid = e.pid BY <3>1, <3>3
      <4>2. e.pid # 0 BY <1>1, <2>1 DEF WorldInv
      <4>. QED BY <1>3, <1>4, <2>1, <4>1, <4>2 DEF Due
    <3>. QED BY <2>1, <3>2, <3>3
  <2>. QED BY <2>2, <2>3
<1>. QED BY <1>5, <1>7, <1>8, <1>9, <1>10 DEF Followed, Due

--------------------------------------------------------------------------------
(* The handlers *)

LEMMA PresentsTurn ==
  ASSUME NEW k, NEW d \in {0, 1}, Inv, Presents(Calm(host), k, game), Turn(k, d), Started,
         d = 1 => Head(main).fn \in {"start", "terminate", "recover"},
         d = 0 /\ Has(main, "start") => k.backend # "up",
         Unseen /\ ~Connects(host.ops) => ~Connects(k.ops)
  PROVE  Inv' /\ (StaleInv => StaleInv')
<1>. DEFINE c == Calm(host)
<1>1. /\ TypeInv /\ WorldInv /\ WorkerInv /\ AttachInv /\ DecidesInv /\ LaunchInv /\ Steady(host)
  BY DEF Inv
<1>2. /\ c.module = host.module /\ c.pid = host.pid /\ c.policy = host.policy
      /\ c.wasConnected = host.wasConnected /\ c.connected = host.connected
      /\ c.target = host.target /\ c.ops = host.ops /\ c.launched = host.launched
      /\ c.tried = host.tried /\ (Decides(host) => Decides(c)) /\ (Open(host) => Open(c))
  BY <1>1, CalmIs
<1>3. /\ Acts(c, k) /\ Steady(k) /\ Remembers(c, k) /\ k.wasConnected = c.wasConnected
      /\ Decides(c) => Decides(k) \/ k.changed
      /\ k.launched = c.launched /\ k.pid \in {c.pid, game}
      /\ game = c.pid => Keeps(c, k)
  BY DEF Presents, Handles
<1>4. Acts(Calm(host), k) BY DEF Presents, Handles
<1>. HIDE DEF c
<1>5. Left(k) /\ Queued(k, d) BY <1>1, <1>3, TurnIs
<1>6. UNCHANGED world BY DEF Turn
<1>7. Ordinary(k, d) BY <1>4, <1>5 DEF Ordinary
<1>8. WorkerInv' /\ AnswerInv' /\ AttachInv' /\ worker' \in Workers BY <1>7, OrdinaryWorker
<1>9. Steady(host') /\ host'.module = host.module BY <1>7, OrdinaryHost
<1>10. main' \in Seq(Events) BY <1>5 DEF Queued
<1>11. TypeInv' BY <1>1, <1>6, <1>8, <1>9, <1>10 DEF TypeInv, world
<1>12. k.pid <= born
  <2>1. game <= born BY <1>1 DEF WorldInv, TypeInv
  <2>. QED BY <1>1, <1>2, <1>3, <2>1 DEF WorldInv
<1>13. WorldInv' BY <1>1, <1>5, <1>6, <1>12, QueuedWorld
<1>14. SeenInv' BY <1>2, <1>3, <1>7, OrdinarySeen
<1>15. DecidesInv' BY <1>1, <1>2, <1>3, <1>5, QueuedDecides
<1>16. LaunchInv'
  <2>1. ASSUME host.launched = game, game # 0
        PROVE  /\ k.pid = game
               /\ k.connected /\ k.target = game => k.tried
               /\ Open(k)
    <3>1. /\ host.pid = game /\ Open(host)
          /\ host.connected /\ host.target = game => host.tried BY <1>1, <2>1 DEF LaunchInv
    <3>2. Keeps(c, k) BY <1>2, <1>3, <3>1
    <3>. QED BY <1>2, <1>3, <3>1, <3>2 DEF Keeps, Acts
  <2>. QED BY <1>1, <1>2, <1>3, <1>5, <1>6, <2>1, QueuedLaunch
<1>17. ASSUME StaleInv PROVE StaleInv'
  <2>1. SUFFICES ASSUME host.module = "hades2" PROVE Followed' /\ Known' BY <1>9 DEF StaleInv
  <2>2. Followed /\ Known BY <1>17, <2>1 DEF StaleInv
  <2>3. Followed' BY <1>2, <1>3, <1>6, <1>7, <2>1, <2>2, OrdinaryFollowed DEF Remembers
  <2>4. Known' BY <1>1, <1>2, <1>3, <1>5, <1>6, <2>2, QueuedKnown
  <2>. QED BY <2>3, <2>4
<1>. QED BY <1>8, <1>9, <1>11, <1>13, <1>14, <1>15, <1>16, <1>17 DEF Inv

LEMMA LaunchedTurn ==
  ASSUME Inv, OnLaunched
  PROVE  Inv' /\ (StaleInv => StaleInv')
<1>. DEFINE c == Calm(host)
            pid == Head(main).pid
            k == TargetChanged(c, host.gen + 1, pid)
<1>1. /\ TypeInv /\ WorldInv /\ WorkerInv /\ AttachInv /\ DecidesInv /\ LaunchInv /\ Steady(host)
  BY DEF Inv
<1>2. /\ c.module = host.module /\ c.pid = host.pid /\ c.policy = host.policy
      /\ c.wasConnected = host.wasConnected /\ c.connected = host.connected
      /\ c.target = host.target /\ c.ops = host.ops /\ c.gen = host.gen /\ Steady(c)
  BY <1>1, CalmIs
<1>3. Turn(k, 1) /\ Started /\ Head(main).fn = "launch" /\ main # <<>>
  BY DEF OnLaunched, Next1, Turn
<1>4. Head(main) \in Range(main) BY <1>1, <1>3, RangeIs DEF TypeInv
<1>5. pid \in 1 .. born /\ pid <= noted /\ pid \in Nat /\ pid # 0
  BY <1>1, <1>3, <1>4 DEF WorldInv, TypeInv
<1>6. host.gen \in Nat /\ host.gen + 1 # host.gen BY <1>1 DEF Steady, Sound, Hosts
<1>7. k = TargetChanged(Calm(host), host.gen + 1, pid) OBVIOUS
<1>. HIDE DEF c, pid
<1>8. /\ Acts(c, k) /\ Steady(k) /\ Decides(k) /\ Remembers(c, k)
      /\ k.pid = pid /\ k.wasConnected = c.wasConnected
      /\ k.launched = pid
      /\ Open(k) /\ (c.connected /\ c.target = pid => k.tried)
      /\ c.module = "hades2" =>
           k.policy.exitRefresh \/ (c.ops = <<>> /\ (c.connected => Asks(k.ops)))
      /\ c.module = "hades2" /\ ~Connects(c.ops) => ~Connects(k.ops)
  BY <1>2, <1>5, <1>6, TargetChangedIs
<1>. HIDE DEF k
<1>9. Left(k) /\ Queued(k, 1) BY <1>1, <1>3, <1>8, TurnIs
<1>10. UNCHANGED world BY <1>3 DEF Turn
<1>11. Ordinary(k, 1) BY <1>3, <1>8, <1>9 DEF Ordinary, c
<1>12. WorkerInv' /\ AnswerInv' /\ AttachInv' /\ worker' \in Workers BY <1>11, OrdinaryWorker
<1>13. Steady(host') /\ host'.module = host.module BY <1>11, OrdinaryHost
<1>14. main' \in Seq(Events) BY <1>9 DEF Queued
<1>15. TypeInv' BY <1>1, <1>10, <1>12, <1>13, <1>14 DEF TypeInv, world
<1>16. k.pid <= born BY <1>1, <1>5, <1>8 DEF TypeInv
<1>17. WorldInv' BY <1>1, <1>9, <1>10, <1>16, QueuedWorld
<1>18. SeenInv' BY <1>2, <1>3, <1>8, <1>11, OrdinarySeen DEF Unseen
<1>19. DecidesInv' BY <1>1, <1>8, <1>9, QueuedDecides
<1>20. LaunchInv'
  <2>1. game' = game /\ noted' = noted BY <1>10 DEF world
  <2>2. /\ host'.launched = pid /\ host'.pid = pid /\ host'.tried = k.tried
        /\ host'.connected = k.connected /\ (k.connected => host'.target = k.target)
        /\ Open(host') BY <1>8, <1>9 DEF Left
  <2>3. ASSUME NEW e \in Range(main')
        PROVE  (e.fn = "launch" => pid < e.pid) /\ (e.fn = "activate" => pid <= e.pid)
    <3>1. e = Event("changed") \/ After(Head(main), e) BY <1>9, <2>3 DEF Queued
    <3>. QED BY <1>3, <3>1, ChangedIsEvent DEF After, pid
  <2>4. ASSUME host'.connected, host'.target = pid PROVE host'.tried
    <3>1. c.connected /\ c.target = pid BY <1>8, <2>2, <2>4 DEF Acts
    <3>. QED BY <1>8, <2>2, <3>1
  <2>. QED BY <1>5, <2>1, <2>2, <2>3, <2>4 DEF LaunchInv
<1>21. ASSUME StaleInv PROVE StaleInv'
  <2>1. SUFFICES ASSUME host.module = "hades2" PROVE Followed' /\ Known' BY <1>13 DEF StaleInv
  <2>2. Followed /\ Known BY <1>21, <2>1 DEF StaleInv
  <2>3. Followed' BY <1>2, <1>3, <1>8, <1>10, <1>11, <2>1, <2>2, OrdinaryFollowed
  <2>4. Known' BY <1>1, <1>3, <1>8, <1>9, <1>10, <2>2, QueuedKnown DEF pid
  <2>. QED BY <2>3, <2>4
<1>. QED BY <1>12, <1>13, <1>15, <1>17, <1>18, <1>19, <1>20, <1>21 DEF Inv

LEMMA ActivatedTurn ==
  ASSUME Inv, OnActivated
  PROVE  Inv' /\ (StaleInv => StaleInv')
<1>. DEFINE c == Calm(host)
            pid == Head(main).pid
            seen == PublishPresence(c, pid)
            k == [seen EXCEPT !.policy = TargetActivated(@)]
<1>1. /\ TypeInv /\ WorldInv /\ WorkerInv /\ AttachInv /\ DecidesInv /\ LaunchInv /\ Steady(host)
  BY DEF Inv
<1>2. /\ c.module = host.module /\ c.pid = host.pid /\ c.policy = host.policy
      /\ c.wasConnected = host.wasConnected /\ c.connected = host.connected
      /\ c.target = host.target /\ c.ops = host.ops /\ c.launched = host.launched
      /\ c.tried = host.tried /\ (Decides(host) => Decides(c)) /\ (Open(host) => Open(c))
      /\ Steady(c)
  BY <1>1, CalmIs
<1>3. Turn(k, 1) /\ Started /\ Head(main).fn = "activate" /\ main # <<>>
  BY DEF OnActivated, Next1, Turn
<1>4. Head(main) \in Range(main) BY <1>1, <1>3, RangeIs DEF TypeInv
<1>5. pid \in 1 .. born /\ pid \in Nat /\ pid # 0
  BY <1>1, <1>3, <1>4 DEF WorldInv, TypeInv
<1>. HIDE DEF c, pid
<1>6. Presents(c, k, pid) /\ k.pid = pid BY <1>2, <1>5, ActivatedIs
<1>7. c.module = "hades2" /\ ~Connects(c.ops) => ~Connects(k.ops)
  <2>1. c.module = "hades2" /\ ~Connects(c.ops) => ~Connects(seen.ops)
    BY <1>2, <1>5, PublishPresenceIs
  <2>2. seen \in Hosts BY <1>2, <1>5, PublishPresenceIs DEF Presents, Handles, Acts
  <2>. HIDE DEF seen
  <2>3. k.ops = seen.ops BY <2>2 DEF Hosts
  <2>. QED BY <2>1, <2>3
<1>. HIDE DEF k
<1>8. /\ Acts(c, k) /\ Steady(k) /\ Remembers(c, k) /\ k.wasConnected = c.wasConnected
      /\ Decides(c) => Decides(k) \/ k.changed
      /\ k.launched = c.launched
      /\ pid = c.pid => Keeps(c, k)
  BY <1>6 DEF Presents, Handles
<1>9. Left(k) /\ Queued(k, 1) BY <1>1, <1>3, <1>8, TurnIs
<1>10. UNCHANGED world BY <1>3 DEF Turn
<1>11. Ordinary(k, 1) BY <1>3, <1>8, <1>9 DEF Ordinary, c
<1>12. WorkerInv' /\ AnswerInv' /\ AttachInv' /\ worker' \in Workers BY <1>11, OrdinaryWorker
<1>13. Steady(host') /\ host'.module = host.module BY <1>11, OrdinaryHost
<1>14. main' \in Seq(Events) BY <1>9 DEF Queued
<1>15. TypeInv' BY <1>1, <1>10, <1>12, <1>13, <1>14 DEF TypeInv, world
<1>16. k.pid <= born BY <1>1, <1>5, <1>6 DEF TypeInv
<1>17. WorldInv' BY <1>1, <1>9, <1>10, <1>16, QueuedWorld
<1>18. SeenInv' BY <1>2, <1>3, <1>7, <1>8, <1>11, OrdinarySeen DEF Unseen
<1>19. DecidesInv' BY <1>1, <1>2, <1>3, <1>8, <1>9, QueuedDecides
<1>20. LaunchInv'
  <2>1. ASSUME host.launched = game, game # 0
        PROVE  /\ k.pid = game
               /\ k.connected /\ k.target = game => k.tried
               /\ Open(k)
    <3>1. /\ host.pid = game /\ Open(host)
          /\ host.connected /\ host.target = game => host.tried BY <1>1, <2>1 DEF LaunchInv
    <3>2. pid = game
      <4>1. host.launched <= pid BY <1>1, <1>3, <1>4, <2>1 DEF LaunchInv, pid
      <4>2. game = born BY <1>1, <2>1 DEF WorldInv
      <4>. QED BY <1>1, <1>5, <2>1, <4>1, <4>2 DEF TypeInv
    <3>3. Keeps(c, k) BY <1>2, <1>8, <3>1, <3>2
    <3>. QED BY <1>2, <1>8, <3>1, <3>3 DEF Keeps, Acts
  <2>. QED BY <1>1, <1>2, <1>8, <1>9, <1>10, <2>1, QueuedLaunch
<1>21. ASSUME StaleInv PROVE StaleInv'
  <2>1. SUFFICES ASSUME host.module = "hades2" PROVE Followed' /\ Known' BY <1>13 DEF StaleInv
  <2>2. Followed /\ Known BY <1>21, <2>1 DEF StaleInv
  <2>3. Followed'
    BY <1>2, <1>3, <1>6, <1>8, <1>10, <1>11, <2>1, <2>2, OrdinaryFollowed DEF Remembers, pid
  <2>4. Known' BY <1>1, <1>3, <1>6, <1>9, <1>10, <2>2, QueuedKnown DEF pid
  <2>. QED BY <2>3, <2>4
<1>. QED BY <1>12, <1>13, <1>15, <1>17, <1>18, <1>19, <1>20, <1>21 DEF Inv

LEMMA ModelTurn ==
  ASSUME Inv, OnModelChanged
  PROVE  Inv' /\ (StaleInv => StaleInv')
<1>. DEFINE c == Calm(host)
            k == ModelChanged(c)
<1>1. /\ TypeInv /\ WorldInv /\ WorkerInv /\ AttachInv /\ SeenInv /\ DecidesInv /\ LaunchInv
      /\ Steady(host)
  BY DEF Inv
<1>2. /\ c.module = host.module /\ c.pid = host.pid /\ c.policy = host.policy
      /\ c.wasConnected = host.wasConnected /\ c.connected = host.connected
      /\ c.target = host.target /\ c.ops = host.ops /\ c.launched = host.launched
      /\ c.tried = host.tried /\ (Open(host) => Open(c)) /\ Steady(c)
  BY <1>1, CalmIs
<1>3. Turn(k, 1) /\ Started /\ Head(main).fn = "changed"
  BY DEF OnModelChanged, Next1, Turn
<1>. HIDE DEF c
<1>4. /\ Acts(c, k) /\ Steady(k) /\ Decides(k) /\ k.pid = c.pid /\ k.launched = c.launched
      /\ k.wasConnected = c.connected
      /\ c.tried => k.tried
      /\ Open(c) /\ (c.connected /\ c.target = c.pid => c.tried) => Open(k)
      /\ c.module = "hades2" /\ c.policy.exitRefresh /\ ~(c.wasConnected /\ ~c.connected) =>
           k.policy.exitRefresh \/ (c.ops = <<>> /\ (c.connected => Asks(k.ops)))
  BY <1>2, ModelChangedIs
<1>. HIDE DEF k
<1>5. Left(k) /\ Queued(k, 1) BY <1>1, <1>3, <1>4, TurnIs
<1>6. UNCHANGED world BY <1>3 DEF Turn
<1>7. Ordinary(k, 1) BY <1>3, <1>4, <1>5 DEF Ordinary, c
<1>8. WorkerInv' /\ AnswerInv' /\ AttachInv' /\ worker' \in Workers BY <1>7, OrdinaryWorker
<1>9. /\ Steady(host') /\ host'.module = host.module
      /\ host.module = "hades2" => host'.connected = host.connected BY <1>7, OrdinaryHost
<1>10. main' \in Seq(Events) BY <1>5 DEF Queued
<1>11. TypeInv' BY <1>1, <1>6, <1>8, <1>9, <1>10 DEF TypeInv, world
<1>12. k.pid <= born BY <1>1, <1>2, <1>4 DEF WorldInv
<1>13. WorldInv' BY <1>1, <1>5, <1>6, <1>12, QueuedWorld
<1>14. SeenInv'
  <2>1. host'.wasConnected = host.connected BY <1>2, <1>4, <1>5 DEF Left
  <2>2. ~Unseen' BY <1>9, <2>1 DEF Unseen
  <2>. QED BY <2>2 DEF SeenInv
<1>15. DecidesInv' BY <1>1, <1>4, <1>5, QueuedDecides
<1>16. LaunchInv'
  <2>1. ASSUME host.launched = game, game # 0
        PROVE  /\ k.pid = game
               /\ k.connected /\ k.target = game => k.tried
               /\ Open(k)
    <3>1. /\ host.pid = game /\ Open(host)
          /\ host.connected /\ host.target = game => host.tried BY <1>1, <2>1 DEF LaunchInv
    <3>2. Open(k) BY <1>2, <1>4, <3>1
    <3>. QED BY <1>2, <1>4, <3>1, <3>2 DEF Acts
  <2>. QED BY <1>1, <1>2, <1>4, <1>5, <1>6, <2>1, QueuedLaunch
<1>17. ASSUME StaleInv PROVE StaleInv'
  <2>1. SUFFICES ASSUME host.module = "hades2" PROVE Followed' /\ Known' BY <1>9 DEF StaleInv
  <2>2. Followed /\ Known BY <1>17, <2>1 DEF StaleInv
  <2>3. worker.attached # 0 => ~(host.wasConnected /\ ~host.connected)
    BY <1>1, <2>1 DEF SeenInv, Unseen
  <2>4. Followed'
    BY <1>2, <1>3, <1>4, <1>6, <1>7, <2>1, <2>2, <2>3, OrdinaryFollowed
  <2>5. Known' BY <1>1, <1>2, <1>3, <1>4, <1>5, <1>6, <2>2, QueuedKnown
  <2>. QED BY <2>4, <2>5
<1>. QED BY <1>8, <1>9, <1>11, <1>13, <1>14, <1>15, <1>16, <1>17 DEF Inv

LEMMA ReplyTurn ==
  ASSUME Inv, OnReply
  PROVE  Inv' /\ (StaleInv => StaleInv')
<1>. DEFINE c == Calm(host)
            a == Head(main)
            k == Replied(c, a)
<1>1. /\ TypeInv /\ WorldInv /\ WorkerInv /\ AnswerInv /\ AttachInv /\ SeenInv /\ DecidesInv
      /\ LaunchInv /\ Steady(host)
  BY DEF Inv
<1>2. /\ c.module = host.module /\ c.pid = host.pid /\ c.policy = host.policy
      /\ c.wasConnected = host.wasConnected /\ c.connected = host.connected
      /\ c.target = host.target /\ c.ops = host.ops /\ c.launched = host.launched
      /\ c.tried = host.tried /\ (Open(host) => Open(c)) /\ Steady(c)
  BY <1>1, CalmIs
<1>3. Turn(k, 1) /\ a.fn = "reply" /\ main # <<>>
  BY DEF OnReply, Next1, Turn
<1>4. a \in Range(main) /\ a \in Events BY <1>1, <1>3, RangeIs DEF TypeInv
<1>5. worker.answer = Answered /\ host.ops # <<>>
  <2>1. Has(main, "reply") BY <1>3, <1>4 DEF Has
  <2>. QED BY <1>1, <2>1, AnswersDiffer DEF WorkerInv
<1>6. /\ Head(host.ops) \in Silent => a.code = "ok"
      /\ Head(host.ops) \notin Silent /\ worker.alive => a.pid = worker.attached
      /\ host.module = "hades2" /\ ~host.connected /\ Head(host.ops) # "connect" => a.pid = 0
  BY <1>1, <1>3, <1>4 DEF AnswerInv
<1>7. /\ worker'.alive = worker.alive /\ worker'.attached = worker.attached
      /\ worker'.answer = NoAnswer /\ worker' \in Workers
  BY <1>1, AnswersDiffer DEF OnReply, TypeInv, Workers
<1>. HIDE DEF c, a
<1>8. /\ Steady(k) /\ k.changed /\ k.backend = "up"
      /\ k.module = c.module /\ k.pid = c.pid /\ k.policy = c.policy
      /\ k.launched = c.launched /\ k.wasConnected = c.wasConnected
      /\ Keeps(c, k)
  BY <1>2, <1>4, <1>5, <1>6, RepliedIs
<1>9. /\ Head(c.ops) \notin Silent =>
           /\ k.connected => /\ a.pid # 0 /\ k.target = a.pid
                             /\ a.pid = c.pid => k.tried
           /\ c.module = "hades2" => (k.connected <=> a.pid # 0)
      /\ Head(c.ops) \in Silent =>
           /\ k.target = c.target /\ (k.connected => c.connected)
           /\ c.module = "hades2" => k.connected = c.connected
      /\ c.module = "hades2" /\ c.connected => ~Connects(k.ops)
  BY <1>2, <1>4, <1>5, <1>6, RepliedIs
<1>10. a.code # "unknown" =>
         /\ Len(k.ops) >= Len(c.ops) - 1
         /\ \A i \in 1 .. Len(c.ops) - 1 : k.ops[i] = c.ops[i + 1]
  BY <1>2, <1>4, <1>5, <1>6, RepliedIs
<1>. HIDE DEF k
<1>11. Left(k) /\ Queued(k, 1) BY <1>1, <1>3, <1>8, TurnIs
<1>12. UNCHANGED world BY <1>3 DEF Turn
<1>13. /\ Steady(host') /\ host'.module = host.module /\ host'.pid = host.pid
       /\ host'.policy = host.policy /\ host'.wasConnected = host.wasConnected
       /\ host'.connected = k.connected /\ host'.backend = "up" /\ host'.ops = k.ops
       /\ k.connected => host'.target = k.target
  BY <1>2, <1>8, <1>11 DEF Left
<1>14. main' \in Seq(Events) BY <1>11 DEF Queued
<1>15. TypeInv' BY <1>1, <1>7, <1>12, <1>13, <1>14 DEF TypeInv, world
<1>16. WorldInv'
  <2>1. k.pid <= born BY <1>1, <1>2, <1>8 DEF WorldInv
  <2>. QED BY <1>1, <1>11, <1>12, <2>1, QueuedWorld
<1>17. \A e \in Range(main') : e.fn \notin {"reply", "recover", "start"}
  BY <1>3, <1>11, ChangedIsEvent DEF Queued, After, a
<1>18. WorkerInv'
  <2>1. Has(main', "exit") <=> Has(main, "exit")
    BY <1>3, <1>11, ChangedIsEvent DEF Queued, Has, a
  <2>2. ~worker.alive => worker.attached = 0 /\ (host.backend = "up" <=> Has(main, "exit"))
    BY <1>1 DEF WorkerInv
  <2>3. host.backend = "up" BY <1>1, <1>5 DEF Steady, Sound, SessionInv
  <2>4. worker.alive => ~Has(main, "exit") BY <1>1 DEF WorkerInv
  <2>5. ~Has(main', "reply") /\ ~Has(main', "start") BY <1>17 DEF Has
  <2>. QED BY <1>7, <1>13, <2>1, <2>2, <2>3, <2>4, <2>5, AnswersDiffer DEF WorkerInv
<1>19. AnswerInv' BY <1>7, <1>17, AnswersDiffer DEF AnswerInv
<1>20. ~ToldFlies' BY <1>7 DEF ToldFlies
<1>21. AttachInv'
  <2>1. Head(host.ops) \in Silent => ~ToldFlies BY DEF ToldFlies
  <2>2. ASSUME worker.alive, k.connected PROVE worker.attached = k.target
    <3>1. CASE Head(host.ops) \in Silent BY <1>1, <1>2, <1>9, <2>1, <2>2, <3>1 DEF AttachInv
    <3>2. CASE Head(host.ops) \notin Silent BY <1>2, <1>6, <1>9, <2>2, <3>2
    <3>. QED BY <3>1, <3>2
  <2>3. ASSUME host.module = "hades2", ~k.connected PROVE worker.attached = 0
    <3>1. CASE Head(host.ops) \in Silent
      <4>1. ~host.connected BY <1>2, <1>9, <2>3, <3>1
      <4>. QED BY <1>1, <2>1, <2>3, <3>1, <4>1 DEF AttachInv
    <3>2. CASE Head(host.ops) \notin Silent
      <4>1. a.pid = 0 BY <1>2, <1>9, <2>3, <3>2
      <4>. QED BY <1>1, <1>6, <3>2, <4>1 DEF WorkerInv
    <3>. QED BY <3>1, <3>2
  <2>. QED BY <1>7, <1>13, <2>2, <2>3 DEF AttachInv
<1>22. SeenInv'
  <2>1. SUFFICES ASSUME Unseen'
        PROVE  Leads(main') /\ (~host'.connected => worker'.attached = 0 /\ ~Connects(host'.ops))
    BY DEF SeenInv
  <2>2. Leads(main') BY <1>8, <1>11, <1>17 DEF Queued
  <2>3. ASSUME ~host'.connected PROVE worker'.attached = 0 /\ ~Connects(host'.ops)
    <3>1. host.module = "hades2" /\ host.wasConnected BY <1>13, <2>1, <2>3 DEF Unseen, Steady, Sound, Hosts
    <3>2. worker'.attached = 0 BY <1>13, <1>20, <1>21, <2>3, <3>1 DEF AttachInv
    <3>3. host.connected
      <4>1. SUFFICES ASSUME ~host.connected PROVE FALSE OBVIOUS
      <4>2. Unseen BY <3>1, <4>1 DEF Unseen
      <4>3. PICK n \in 1 .. Len(main) :
              main[n].fn = "changed" /\ \A i \in 1 .. n - 1 : main[i].fn \notin {"reply", "recover"}
        BY <1>1, <4>2 DEF SeenInv, Leads
      <4>4. main[1].fn = "reply" BY <1>1, <1>3, RangeIs DEF TypeInv, a
      <4>. QED BY <1>1, <4>3, <4>4 DEF TypeInv
    <3>. QED BY <1>2, <1>9, <1>13, <3>1, <3>2, <3>3
  <2>. QED BY <2>2, <2>3
<1>23. DecidesInv' BY <1>1, <1>8, <1>11, QueuedDecides
<1>24. LaunchInv'
  <2>1. ASSUME host.launched = game, game # 0
        PROVE  /\ k.pid = game
               /\ k.connected /\ k.target = game => k.tried
               /\ Open(k)
    <3>1. /\ host.pid = game /\ Open(host)
          /\ host.connected /\ host.target = game => host.tried BY <1>1, <2>1 DEF LaunchInv
    <3>2. k.connected /\ k.target = game => k.tried
      <4>1. CASE Head(c.ops) \in Silent BY <1>2, <1>8, <1>9, <3>1, <4>1 DEF Keeps
      <4>2. CASE Head(c.ops) \notin Silent BY <1>2, <1>9, <3>1, <4>2
      <4>. QED BY <4>1, <4>2
    <3>. QED BY <1>2, <1>8, <3>1, <3>2 DEF Keeps
  <2>. QED BY <1>1, <1>2, <1>8, <1>11, <1>12, <2>1, QueuedLaunch
<1>25. ASSUME StaleInv PROVE StaleInv'
  <2>1. SUFFICES ASSUME host.module = "hades2" PROVE Followed' /\ Known' BY <1>13 DEF StaleInv
  <2>2. Followed /\ Known BY <1>25, <2>1 DEF StaleInv
  <2>3. Known'
    BY <1>1, <1>2, <1>3, <1>8, <1>11, <1>12, <2>2, QueuedKnown DEF a
  <2>4. Due => Due'
    BY <1>3, <1>11, <1>12, <1>13 DEF Due, Queued, world, a
  <2>5. Asked => Asked'
    <3>1. SUFFICES ASSUME Asked PROVE Asked' OBVIOUS
    <3>2. Head(host.ops) \in Silent BY <1>5, <3>1, AnswersDiffer DEF Asked, ToldFlies
    <3>3. a.code # "unknown" BY <1>6, <3>2
    <3>4. PICK i \in 1 .. Len(host.ops) : host.ops[i] \notin Silent BY <3>1 DEF Asked
    <3>5. host.ops \in Seq(Kinds) /\ k.ops \in Seq(Kinds) BY <1>1, <1>8 DEF Steady, Sound, Hosts
    <3>6. Len(host.ops) \in Nat /\ Len(k.ops) \in Nat /\ Head(host.ops) = host.ops[1]
      BY <1>5, <3>5
    <3>7. i # 1 BY <3>2, <3>4, <3>6
    <3>8. i - 1 \in 1 .. Len(host.ops) - 1 /\ (i - 1) + 1 = i BY <3>4, <3>6, <3>7
    <3>9. k.ops[i - 1] = host.ops[i] /\ i - 1 \in 1 .. Len(k.ops) BY <1>2, <1>10, <3>3, <3>6, <3>8
    <3>. QED BY <1>13, <1>20, <3>4, <3>9 DEF Asked
  <2>. QED BY <1>7, <1>12, <1>13, <2>2, <2>3, <2>4, <2>5 DEF Followed, world
<1>. QED BY <1>13, <1>15, <1>16, <1>18, <1>19, <1>21, <1>22, <1>23, <1>24, <1>25 DEF Inv

LEMMA ExitTurn ==
  ASSUME Inv, OnExit
  PROVE  Inv' /\ (StaleInv => StaleInv')
<1>. DEFINE c == Calm(host)
            k == Exited(c)
<1>1. /\ TypeInv /\ WorldInv /\ WorkerInv /\ AnswerInv /\ AttachInv /\ SeenInv /\ DecidesInv
      /\ LaunchInv /\ Steady(host)
  BY DEF Inv
<1>2. /\ c.module = host.module /\ c.pid = host.pid /\ c.policy = host.policy
      /\ c.wasConnected = host.wasConnected /\ c.connected = host.connected
      /\ c.target = host.target /\ c.ops = host.ops /\ c.launched = host.launched
      /\ c.tried = host.tried /\ (Open(host) => Open(c)) /\ Steady(c)
  BY <1>1, CalmIs
<1>3. Turn(k, 1) /\ Head(main).fn = "exit" /\ main # <<>> /\ worker' = worker
  BY DEF OnExit, Next1, Turn
<1>4. Head(main) \in Range(main) BY <1>1, <1>3, RangeIs DEF TypeInv
<1>5. Has(main, "exit") BY <1>3, <1>4 DEF Has
<1>6. ~worker.alive /\ worker.attached = 0 /\ worker.answer \in {NoAnswer, Answered}
  BY <1>1, <1>5 DEF WorkerInv
<1>. HIDE DEF c
<1>8. /\ Steady(k) /\ k.changed /\ k.backend # "up" /\ ~k.connected /\ k.ops = <<>>
      /\ k.module = c.module /\ k.pid = c.pid /\ Keeps(c, k)
  BY <1>2, ExitedIs
<1>. HIDE DEF k
<1>9. k.launched = c.launched /\ k.wasConnected = c.wasConnected BY <1>8 DEF Keeps
<1>11. Left(k) /\ Queued(k, 1) BY <1>1, <1>3, <1>8, TurnIs
<1>12. UNCHANGED world BY <1>3 DEF Turn
<1>13. /\ Steady(host') /\ host'.module = host.module /\ host'.pid = host.pid
       /\ ~host'.connected /\ host'.backend # "up" /\ host'.ops = <<>>
  BY <1>2, <1>8, <1>11 DEF Left
<1>14. main' \in Seq(Events) BY <1>11 DEF Queued
<1>15. TypeInv' BY <1>1, <1>3, <1>12, <1>13, <1>14 DEF TypeInv, world
<1>16. WorldInv'
  <2>1. k.pid <= born BY <1>1, <1>2, <1>8 DEF WorldInv
  <2>. QED BY <1>1, <1>11, <1>12, <2>1, QueuedWorld
<1>17. \A e \in Range(main') : e.fn \notin {"exit", "reply", "recover", "start"}
  BY <1>3, <1>11, ChangedIsEvent DEF Queued, After
<1>18. worker.answer = NoAnswer
  <2>1. ~Has(main, "reply")
    <3>1. SUFFICES ASSUME NEW e \in Range(main), e.fn = "reply" PROVE FALSE BY DEF Has
    <3>2. e \in Range(main') BY <1>3, <1>11, <3>1 DEF Queued
    <3>. QED BY <1>17, <3>1, <3>2
  <2>. QED BY <1>1, <1>6, <2>1 DEF WorkerInv
<1>19. WorkerInv'
  <2>1. ~Has(main', "exit") /\ ~Has(main', "reply") /\ ~Has(main', "start") BY <1>17 DEF Has
  <2>. QED BY <1>3, <1>6, <1>13, <1>18, <2>1, AnswersDiffer DEF WorkerInv
<1>20. AnswerInv' BY <1>3, <1>17, <1>18, AnswersDiffer DEF AnswerInv
<1>21. AttachInv' BY <1>3, <1>6 DEF AttachInv
<1>22. SeenInv'
  <2>1. Leads(main') BY <1>8, <1>11, <1>17 DEF Queued
  <2>2. ~Connects(host'.ops) BY <1>13 DEF Connects
  <2>. QED BY <1>3, <1>6, <2>1, <2>2 DEF SeenInv
<1>23. DecidesInv' BY <1>1, <1>8, <1>11, QueuedDecides
<1>24. LaunchInv'
  <2>1. ASSUME host.launched = game, game # 0
        PROVE  /\ k.pid = game
               /\ k.connected /\ k.target = game => k.tried
               /\ Open(k)
    <3>1. host.pid = game /\ Open(host) BY <1>1, <2>1 DEF LaunchInv
    <3>. QED BY <1>2, <1>8, <3>1 DEF Keeps
  <2>. QED BY <1>1, <1>2, <1>9, <1>11, <1>12, <2>1, QueuedLaunch
<1>25. ASSUME StaleInv PROVE StaleInv'
  <2>1. SUFFICES ASSUME host.module = "hades2" PROVE Followed' /\ Known' BY <1>13 DEF StaleInv
  <2>2. Known BY <1>25, <2>1 DEF StaleInv
  <2>3. Known' BY <1>1, <1>2, <1>3, <1>8, <1>11, <1>12, <2>2, QueuedKnown
  <2>. QED BY <1>3, <1>6, <2>3 DEF Followed
<1>. QED BY <1>13, <1>15, <1>16, <1>19, <1>20, <1>21, <1>22, <1>23, <1>24, <1>25 DEF Inv

LEMMA StartWaits ==
  ASSUME Inv, Has(main, "start")
  PROVE  host.module = "hades" /\ host.backend # "up" /\ ~Unseen
BY DEF Inv, WorkerInv, Unseen

LEMMA ShownSeen == ASSUME Inv, Shown PROVE ~Unseen
<1>1. SUFFICES ASSUME Leads(main) PROVE FALSE BY DEF Inv, SeenInv
<1>2. PICK n \in 1 .. Len(main) : main[n].fn = "changed" BY <1>1 DEF Leads
<1>3. main[n] \in Range(main) BY RangeIs DEF Inv, TypeInv
<1>. QED BY <1>2, <1>3 DEF Inv, WorldInv, Shown

LEMMA RecoverSeen == ASSUME Inv, main # <<>>, Head(main).fn = "recover" PROVE ~Unseen
<1>1. SUFFICES ASSUME Leads(main) PROVE FALSE BY DEF Inv, SeenInv
<1>2. PICK n \in 1 .. Len(main) :
        main[n].fn = "changed" /\ \A i \in 1 .. n - 1 : main[i].fn \notin {"reply", "recover"}
  BY <1>1 DEF Leads
<1>3. main[1].fn = "recover" /\ Len(main) \in Nat BY RangeIs DEF Inv, TypeInv
<1>4. n # 1 BY <1>2, <1>3
<1>. QED BY <1>2, <1>3, <1>4

LEMMA QueueHandlers ==
  ASSUME Inv, OnStart \/ OnTerminated \/ OnRecover
  PROVE  Inv' /\ (StaleInv => StaleInv')
<1>. DEFINE c == Calm(host)
<1>1. Steady(host) /\ game \in Nat /\ main \in Seq(Events) BY DEF Inv, TypeInv
<1>2. c.module = host.module /\ c.backend = host.backend /\ c.ops = host.ops /\ Steady(c)
  BY <1>1, CalmIs
<1>3. CASE OnStart
  <2>. DEFINE k == StartBackend(c)
  <2>1. Turn(k, 1) /\ Started /\ main # <<>> /\ Head(main).fn = "start" BY <1>3 DEF OnStart, Next1, Turn
  <2>2. Head(main) \in Range(main) BY <1>1, <2>1, RangeIs
  <2>3. Has(main, "start") BY <2>1, <2>2 DEF Has
  <2>4. host.backend # "up" /\ ~Unseen BY <2>3, StartWaits
  <2>5. Handles(c, k) /\ Keeps(c, k) BY <1>2, <2>4, StartedIs
  <2>6. Presents(c, k, game) BY <2>5, PresentsSame
  <2>. HIDE DEF k
  <2>. QED BY <2>1, <2>4, <2>6, PresentsTurn
<1>4. CASE OnTerminated
  <2>. DEFINE k == PublishPresence(c, game)
  <2>1. Turn(k, 1) /\ Started /\ Head(main).fn = "terminate" BY <1>4 DEF OnTerminated, Next1, Turn
  <2>2. Presents(c, k, game) /\ (c.module = "hades2" /\ ~Connects(c.ops) => ~Connects(k.ops))
    BY <1>1, <1>2, PublishPresenceIs
  <2>. HIDE DEF k
  <2>3. Unseen /\ ~Connects(host.ops) => ~Connects(k.ops) BY <1>2, <2>2 DEF Unseen
  <2>. QED BY <2>1, <2>2, <2>3, PresentsTurn
<1>5. CASE OnRecover
  <2>1. PICK k \in IF host.backend # "recovering" THEN {c} ELSE {Recovered(c), NotRecovered(c)} :
          Next1("recover", k)
    BY <1>5 DEF OnRecover
  <2>2. Turn(k, 1) /\ Started /\ main # <<>> /\ Head(main).fn = "recover"
    BY <1>5, <2>1 DEF OnRecover, Next1, Turn
  <2>3. Presents(c, k, game)
    <3>1. CASE host.backend # "recovering"
      <4>1. k = c BY <2>1, <3>1
      <4>. QED BY <1>2, <4>1, HandlesReflexive, PresentsSame
    <3>2. CASE host.backend = "recovering"
      <4>1. k \in {Recovered(c), NotRecovered(c)} /\ c.backend # "up" BY <1>2, <2>1, <3>2
      <4>2. Handles(c, k) /\ Keeps(c, k) BY <1>2, <4>1, RecoveredIs, NotRecoveredIs
      <4>. QED BY <4>2, PresentsSame
    <3>. QED BY <3>1, <3>2
  <2>4. ~Unseen BY <2>2, RecoverSeen
  <2>. QED BY <2>2, <2>3, <2>4, PresentsTurn
<1>. QED BY <1>3, <1>4, <1>5

LEMMA UserTurn ==
  ASSUME NEW k, Inv, Shown, Now(k), Started, Presents(Calm(host), k, game),
         Has(main, "start") => k.backend # "up"
  PROVE  Inv' /\ (StaleInv => StaleInv')
<1>1. Turn(k, 0) BY DEF Now, Turn
<1>2. ~Unseen BY ShownSeen
<1>. QED BY <1>1, <1>2, PresentsTurn

LEMMA NotStarted ==
  ASSUME NEW k, Inv, Now(k), Steady(k), k.backend = host.backend, UNCHANGED worker
  PROVE  Started
<1>1. Turn(k, 0) /\ TypeInv /\ WorldInv BY DEF Now, Turn, Inv
<1>2. Left(k) BY <1>1, TurnIs
<1>. QED BY <1>2 DEF Left, Started

LEMMA UserHandlers ==
  ASSUME Inv, \/ ClickPrimary \/ ClickRefresh \/ Activate
              \/ \E kind \in {"other", "edit", "status"} : Work(kind)
  PROVE  Inv' /\ (StaleInv => StaleInv')
<1>. DEFINE c == Calm(host)
<1>1. Steady(host) /\ game \in Nat BY DEF Inv, TypeInv
<1>2. /\ c.module = host.module /\ c.backend = host.backend /\ c.ops = host.ops /\ Steady(c)
      /\ c.connected = host.connected /\ (Enabled(host) <=> Enabled(c))
  BY <1>1, CalmIs
<1>3. CASE ClickPrimary
  <2>. DEFINE k == Primary(c)
  <2>1. Now(k) /\ Started /\ Shown /\ Enabled(host) BY <1>3 DEF ClickPrimary
  <2>2. Presents(c, k, game) BY <1>1, <1>2, <2>1, PrimaryIs
  <2>3. ~Has(main, "start") BY <2>1, StartWaits DEF Enabled, Available
  <2>. HIDE DEF k
  <2>. QED BY <2>1, <2>2, <2>3, UserTurn
<1>4. CASE ClickRefresh
  <2>. DEFINE k == RefreshFromHost(PublishPresence(c, game))
  <2>1. Now(k) /\ Started /\ Shown /\ Available(host) BY <1>4 DEF ClickRefresh
  <2>2. Presents(c, k, game) BY <1>1, <1>2, <2>1, ClickRefreshIs
  <2>3. ~Has(main, "start") BY <2>1, StartWaits DEF Available
  <2>. HIDE DEF k
  <2>. QED BY <2>1, <2>2, <2>3, UserTurn
<1>5. CASE Activate
  <2>1. PICK asks \in {host.module = "hades", TRUE} : Now(BecameActive(c, asks)) BY <1>5 DEF Activate
  <2>. DEFINE k == BecameActive(c, asks)
  <2>2. Now(k) /\ Started /\ Shown /\ asks \in BOOLEAN BY <1>5, <2>1 DEF Activate
  <2>3. Presents(c, k, game) /\ Asleep(c, k) BY <1>1, <1>2, <2>2, BecameActiveIs
  <2>. HIDE DEF k
  <2>4. Has(main, "start") => k.backend # "up" BY <1>2, <2>3, StartWaits DEF Asleep
  <2>. QED BY <2>2, <2>3, <2>4, UserTurn
<1>6. ASSUME NEW kind \in {"other", "edit", "status"}, Work(kind)
      PROVE  Inv' /\ (StaleInv => StaleInv')
  <2>. DEFINE k == Send(c, kind)
  <2>1. Now(k) /\ Started /\ Shown /\ Available(host) /\ ~Busy(host)
        /\ (kind = "edit" => host.connected) BY <1>6 DEF Work
  <2>2. kind \in Kinds BY DEF Kinds, Trusted, Silent
  <2>3. CanSend(c, kind) BY <1>2, <2>1 DEF CanSend, Busy
  <2>4. Handles(c, k) /\ Keeps(c, k) BY <1>2, <2>2, <2>3, SendHandles
  <2>5. Presents(c, k, game) BY <2>4, PresentsSame
  <2>6. ~Has(main, "start") BY <2>1, StartWaits DEF Available
  <2>. HIDE DEF k
  <2>. QED BY <2>1, <2>5, <2>6, UserTurn
<1>. QED BY <1>3, <1>4, <1>5, <1>6

LEMMA QuietHandlers ==
  ASSUME Inv, Deactivate \/ RuntimeReady \/ RuntimeReset
  PROVE  Inv' /\ (StaleInv => StaleInv')
<1>. DEFINE c == Calm(host)
<1>1. Steady(host) BY DEF Inv
<1>2. c.module = host.module /\ c.backend = host.backend /\ Steady(c) BY <1>1, CalmIs
<1>3. c \in Hosts BY <1>2 DEF Steady, Sound
<1>. HIDE DEF c
<1>4. CASE Deactivate
  <2>. DEFINE k == [c EXCEPT !.active = FALSE]
  <2>1. Now(k) /\ Shown /\ UNCHANGED worker BY <1>4 DEF Deactivate, c
  <2>2. Alike(c, k) BY <1>3 DEF Alike, Hosts
  <2>. HIDE DEF k
  <2>3. Handles(c, k) /\ Keeps(c, k) /\ Steady(k) /\ k.backend = host.backend
    BY <1>2, <2>2, AlikeHandles, AlikeSteady DEF Alike
  <2>4. Presents(Calm(host), k, game) BY <2>3, PresentsSame DEF c
  <2>5. Started BY <2>1, <2>3, NotStarted
  <2>6. Has(main, "start") => k.backend # "up" BY <2>3, StartWaits
  <2>. QED BY <2>1, <2>4, <2>5, <2>6, UserTurn
<1>5. CASE RuntimeReset
  <2>. DEFINE k == [c EXCEPT !.ready = FALSE]
  <2>1. Now(k) /\ Shown /\ UNCHANGED worker BY <1>5 DEF RuntimeReset, c
  <2>2. Alike(c, k) BY <1>3 DEF Alike, Hosts
  <2>. HIDE DEF k
  <2>3. Handles(c, k) /\ Keeps(c, k) /\ Steady(k) /\ k.backend = host.backend
    BY <1>2, <2>2, AlikeHandles, AlikeSteady DEF Alike
  <2>4. Presents(Calm(host), k, game) BY <2>3, PresentsSame DEF c
  <2>5. Started BY <2>1, <2>3, NotStarted
  <2>6. Has(main, "start") => k.backend # "up" BY <2>3, StartWaits
  <2>. QED BY <2>1, <2>4, <2>5, <2>6, UserTurn
<1>6. CASE RuntimeReady
  <2>. DEFINE a == [c EXCEPT !.ready = TRUE]
              k == ConsumeDeferred(a, Busy(host))
  <2>1. Now(k) /\ Shown /\ UNCHANGED worker BY <1>6 DEF RuntimeReady, c
  <2>2. Alike(c, a) BY <1>3 DEF Alike, Hosts
  <2>. HIDE DEF a
  <2>3. Handles(c, a) /\ Keeps(c, a) /\ Steady(a) /\ a.backend = host.backend
    BY <1>2, <2>2, AlikeHandles, AlikeSteady DEF Alike
  <2>4. Busy(host) \in BOOLEAN BY DEF Busy
  <2>5. Called(a, k) /\ Sound(k) /\ (k = a \/ k.changed) /\ k.backend = a.backend
    BY <2>3, <2>4, ConsumeDeferredIs DEF Steady
  <2>. HIDE DEF k
  <2>6. Handles(a, k) /\ Keeps(a, k) BY <2>3, <2>5, CalledHandles
  <2>7. Handles(c, k) /\ Keeps(c, k) BY <1>3, <2>3, <2>6, HandlesTransitive, KeepsTransitive
  <2>8. Presents(Calm(host), k, game) BY <2>7, PresentsSame DEF c
  <2>9. Steady(k) BY <2>6 DEF Handles
  <2>10. Started BY <2>1, <2>3, <2>5, <2>9, NotStarted
  <2>11. Has(main, "start") => k.backend # "up" BY <2>3, <2>5, StartWaits
  <2>. QED BY <2>1, <2>8, <2>10, <2>11, UserTurn
<1>. QED BY <1>4, <1>5, <1>6

LEMMA HandlersKeep == ASSUME Inv, HostActions PROVE Inv' /\ (StaleInv => StaleInv')
BY QueueHandlers, UserHandlers, QuietHandlers, ModelTurn, LaunchedTurn, ActivatedTurn, ReplyTurn,
   ExitTurn DEF HostActions

--------------------------------------------------------------------------------
(* The world *)

\* An event of the world joins the queue; the host has yet to handle it.
Joins(e) ==
  /\ main' \in Seq(Events) /\ Ordered(main') /\ Range(main') = Range(main) \cup {e}
  /\ Leads(main) => Leads(main')
  /\ host' = host

LEMMA JoinsIs ==
  ASSUME Inv, NEW e \in Events, main' = Append(main, e), UNCHANGED host,
         \A f \in Range(main) : After(f, e)
  PROVE  Joins(e)
<1>1. main \in Seq(Events) /\ Ordered(main) BY DEF Inv, TypeInv, WorldInv
<1>. QED BY <1>1, AppendIs DEF Joins

\* The game, its launches and its activations; the worker and the host are left alone.
LEMMA JoinsKeeps ==
  ASSUME Inv, NEW e \in Events, Joins(e), UNCHANGED worker,
         e.fn \in {"launch", "activate", "terminate", "recover"}
  PROVE  /\ main' \in Seq(Events) /\ worker' \in Workers /\ Steady(host')
         /\ WorkerInv' /\ AnswerInv' /\ AttachInv' /\ SeenInv' /\ DecidesInv'
<1>1. /\ TypeInv /\ Steady(host) /\ WorkerInv /\ AnswerInv /\ AttachInv /\ SeenInv /\ DecidesInv
  BY DEF Inv
<1>2. /\ host' = host /\ worker' = worker /\ Range(main') = Range(main) \cup {e}
      /\ Leads(main) => Leads(main')
  BY DEF Joins
<1>3. \A fn \in {"exit", "reply", "start", "changed"} : Has(main', fn) <=> Has(main, fn)
  BY <1>2 DEF Has
<1>4. WorkerInv' BY <1>1, <1>2, <1>3 DEF WorkerInv
<1>5. AnswerInv'
  <2>1. \A a \in Range(main') : a.fn = "reply" => a \in Range(main) BY <1>2
  <2>. QED BY <1>1, <1>2, <2>1 DEF AnswerInv
<1>6. ToldFlies' <=> ToldFlies BY <1>2 DEF ToldFlies
<1>7. AttachInv' BY <1>1, <1>2, <1>6 DEF AttachInv
<1>8. SeenInv' BY <1>1, <1>2 DEF SeenInv, Unseen
<1>9. DecidesInv' BY <1>1, <1>2, <1>3 DEF DecidesInv
<1>. QED BY <1>1, <1>2, <1>4, <1>5, <1>7, <1>8, <1>9 DEF TypeInv, Joins

LEMMA JoinsSame ==
  ASSUME Inv, NEW e \in Events, Joins(e), UNCHANGED <<worker, world>>,
         e.fn \in {"activate", "terminate", "recover"},
         e.fn = "activate" => e.pid = game /\ game # 0
  PROVE  Inv' /\ (StaleInv => StaleInv')
<1>1. TypeInv /\ WorldInv /\ LaunchInv BY DEF Inv
<1>2. /\ host' = host /\ worker' = worker /\ game' = game /\ born' = born /\ noted' = noted
      /\ Range(main') = Range(main) \cup {e} /\ Ordered(main')
  BY DEF Joins, world
<1>3. /\ main' \in Seq(Events) /\ worker' \in Workers /\ Steady(host')
      /\ WorkerInv' /\ AnswerInv' /\ AttachInv' /\ SeenInv' /\ DecidesInv' BY JoinsKeeps
<1>4. TypeInv' BY <1>1, <1>2, <1>3 DEF TypeInv
<1>5. game # 0 => game = born BY <1>1 DEF WorldInv
<1>6. WorldInv'
  <2>1. e.fn = "activate" => e.pid \in 1 .. born BY <1>1, <1>5 DEF TypeInv
  <2>. QED BY <1>1, <1>2, <2>1 DEF WorldInv
<1>7. LaunchInv'
  <2>1. e.fn = "activate" => host.launched <= e.pid
    <3>1. host.launched \in Nat BY DEF Inv, Steady, Sound, Hosts
    <3>. QED BY <1>1, <1>5, <3>1 DEF LaunchInv, WorldInv, TypeInv
  <2>. QED BY <1>1, <1>2, <2>1 DEF LaunchInv
<1>8. ASSUME StaleInv PROVE StaleInv'
  <2>1. Due => Due' BY <1>2 DEF Due
  <2>2. Asked => Asked' BY <1>2 DEF Asked, ToldFlies
  <2>3. Followed => Followed' BY <1>2, <2>1, <2>2 DEF Followed
  <2>4. Known => Known' BY <1>2 DEF Known
  <2>. QED BY <1>2, <1>8, <2>3, <2>4 DEF StaleInv
<1>. QED BY <1>3, <1>4, <1>6, <1>7, <1>8 DEF Inv

LEMMA NotifyLaunchTurn ==
  ASSUME Inv, NotifyLaunch
  PROVE  Inv' /\ (StaleInv => StaleInv')
<1>1. TypeInv /\ WorldInv /\ LaunchInv BY DEF Inv
<1>2. PICK pid \in noted + 1 .. born :
        noted' = pid /\ main' = Append(main, Note("launch", pid)) BY DEF NotifyLaunch
<1>. DEFINE e == Note("launch", pid)
<1>3. game' = game /\ born' = born /\ host' = host /\ worker' = worker BY DEF NotifyLaunch
<1>4. pid \in 1 .. born /\ noted < pid /\ pid \in Nat BY <1>1, <1>2 DEF TypeInv
<1>5. e \in Events /\ e.fn = "launch" /\ e.pid = pid BY <1>4 DEF Note, Events, Fns, Codes
<1>6. main' = Append(main, e) BY <1>2
<1>. HIDE DEF e
<1>7. ASSUME NEW f \in Range(main) PROVE After(f, e)
  <2>1. f.fn = "launch" => f.pid <= noted /\ f.pid \in 1 .. born BY <1>1, <1>7 DEF WorldInv
  <2>2. f.fn = "launch" => f.pid < pid BY <1>1, <1>4, <2>1 DEF TypeInv
  <2>. QED BY <1>5, <2>2 DEF After
<1>8. Joins(e) BY <1>3, <1>5, <1>6, <1>7, JoinsIs
<1>9. Range(main') = Range(main) \cup {e} /\ Ordered(main') BY <1>8 DEF Joins
<1>10. /\ main' \in Seq(Events) /\ worker' \in Workers /\ Steady(host')
       /\ WorkerInv' /\ AnswerInv' /\ AttachInv' /\ SeenInv' /\ DecidesInv'
  BY <1>3, <1>5, <1>8, JoinsKeeps
<1>11. TypeInv' BY <1>1, <1>2, <1>3, <1>4, <1>10 DEF TypeInv
<1>12. WorldInv'
  <2>1. ASSUME NEW f \in Range(main')
        PROVE  /\ f.fn \in {"launch", "activate"} => f.pid \in 1 .. born
               /\ f.fn = "launch" => f.pid <= pid
               /\ f.fn = "changed" => f = Event("changed")
    <3>1. CASE f = e BY <1>4, <1>5, <3>1
    <3>2. CASE f \in Range(main)
      <4>1. /\ f.fn \in {"launch", "activate"} => f.pid \in 1 .. born
            /\ f.fn = "launch" => f.pid <= noted
            /\ f.fn = "changed" => f = Event("changed") BY <1>1, <3>2 DEF WorldInv
      <4>. QED BY <1>1, <1>4, <4>1 DEF TypeInv
    <3>. QED BY <1>9, <2>1, <3>1, <3>2
  <2>2. pid <= born BY <1>4
  <2>. QED BY <1>1, <1>2, <1>3, <1>9, <2>1, <2>2 DEF WorldInv
<1>13. LaunchInv'
  <2>1. host.launched <= noted /\ host.launched \in Nat BY <1>1 DEF LaunchInv, Inv, Steady, Sound, Hosts
  <2>2. host.launched < pid /\ host.launched <= pid BY <1>1, <1>4, <2>1 DEF TypeInv
  <2>. QED BY <1>1, <1>2, <1>3, <1>5, <1>9, <2>2 DEF LaunchInv
<1>14. ASSUME StaleInv PROVE StaleInv'
  <2>1. Due => Due' BY <1>3, <1>9 DEF Due
  <2>2. Asked => Asked' BY <1>3 DEF Asked, ToldFlies
  <2>3. Followed => Followed' BY <1>3, <2>1, <2>2 DEF Followed
  <2>4. Known' BY <1>2, <1>5, <1>9, <1>3 DEF Known
  <2>. QED BY <1>3, <1>14, <2>3, <2>4 DEF StaleInv
<1>. QED BY <1>10, <1>11, <1>12, <1>13, <1>14 DEF Inv

LEMMA NotifiedTurn ==
  ASSUME Inv, NotifyActivation \/ RecoveryDue
  PROVE  Inv' /\ (StaleInv => StaleInv')
<1>1. TypeInv /\ WorldInv /\ WorkerInv BY DEF Inv
<1>2. CASE NotifyActivation
  <2>. DEFINE e == Note("activate", game)
  <2>1. game # 0 /\ game = born /\ game \in Nat BY <1>1, <1>2 DEF NotifyActivation, WorldInv, TypeInv
  <2>2. e \in Events /\ e.fn = "activate" /\ e.pid = game BY <2>1 DEF Note, Events, Fns, Codes
  <2>3. main' = Append(main, e) /\ UNCHANGED <<worker, world>> /\ UNCHANGED host
    BY <1>2 DEF NotifyActivation
  <2>. HIDE DEF e
  <2>4. ASSUME NEW f \in Range(main) PROVE After(f, e)
    <3>1. f.fn = "launch" => f.pid \in 1 .. born BY <1>1, <2>4 DEF WorldInv
    <3>. QED BY <2>1, <2>2, <3>1 DEF After
  <2>5. Joins(e) BY <2>2, <2>3, <2>4, JoinsIs
  <2>. QED BY <2>1, <2>2, <2>3, <2>5, JoinsSame
<1>3. CASE RecoveryDue
  <2>. DEFINE e == Event("recover")
  <2>1. e \in Events /\ e.fn = "recover" BY DEF Event, Events, Fns, Codes
  <2>2. main' = Append(main, e) /\ UNCHANGED <<worker, world>> /\ UNCHANGED host
        /\ host.backend = "recovering"
    BY <1>3 DEF RecoveryDue
  <2>. HIDE DEF e
  <2>3. host.ops = <<>> BY <2>2 DEF Inv, Steady, Sound, SessionInv
  <2>4. ~Has(main, "exit") /\ ~Has(main, "reply")
    <3>1. ~worker.alive BY <1>1, <2>2 DEF WorkerInv
    <3>2. worker.answer = NoAnswer BY <1>1, <2>3 DEF WorkerInv
    <3>. QED BY <1>1, <2>2, <3>1, <3>2, AnswersDiffer DEF WorkerInv
  <2>5. ASSUME NEW f \in Range(main) PROVE After(f, e)
    BY <2>1, <2>4, <2>5 DEF After, Has
  <2>6. Joins(e) BY <2>1, <2>2, <2>5, JoinsIs
  <2>. QED BY <2>1, <2>2, <2>6, JoinsSame
<1>. QED BY <1>2, <1>3

LEMMA GameStartsTurn ==
  ASSUME Inv, GameStarts
  PROVE  Inv' /\ (StaleInv => StaleInv')
<1>1. TypeInv /\ WorldInv /\ LaunchInv BY DEF Inv
<1>2. /\ game = 0 /\ born' = born + 1 /\ game' = born + 1
      /\ noted' = noted /\ main' = main /\ host' = host /\ worker' = worker
  BY DEF GameStarts
<1>3. born \in Nat /\ noted \in Nat /\ noted <= born /\ host.pid <= born
  BY <1>1 DEF TypeInv, WorldInv
<1>4. host \in Hosts /\ host.pid \in Nat /\ host.launched \in Nat BY DEF Inv, Steady, Sound, Hosts
<1>5. TypeInv' BY <1>1, <1>2, <1>3 DEF TypeInv
<1>6. WorldInv'
  <2>1. ASSUME NEW e \in Range(main), e.fn \in {"launch", "activate"} PROVE e.pid \in 1 .. born + 1
    <3>1. e.pid \in 1 .. born BY <1>1, <2>1 DEF WorldInv
    <3>. QED BY <1>3, <3>1
  <2>2. noted <= born + 1 /\ host.pid <= born + 1 BY <1>3, <1>4
  <2>. QED BY <1>1, <1>2, <2>1, <2>2 DEF WorldInv
<1>7. LaunchInv'
  <2>1. host.launched # born + 1 BY <1>1, <1>3, <1>4 DEF LaunchInv
  <2>. QED BY <1>1, <1>2, <2>1 DEF LaunchInv
<1>8. WorkerInv' /\ AnswerInv' /\ AttachInv' /\ SeenInv' /\ DecidesInv' /\ Steady(host')
  BY <1>2 DEF Inv, WorkerInv, AnswerInv, AttachInv, SeenInv, DecidesInv, ToldFlies, Unseen
<1>9. ASSUME StaleInv PROVE StaleInv'
  <2>1. ASSUME Due PROVE Due'
    <3>1. CASE host.pid \notin {0, game} BY <1>2, <1>3, <1>4, <3>1 DEF Due
    <3>2. CASE \E e \in Range(main) : e.fn \in {"launch", "activate"} /\ e.pid # game
      <4>1. PICK e \in Range(main) : e.fn \in {"launch", "activate"} BY <3>2
      <4>2. e.pid \in 1 .. born BY <1>1, <4>1 DEF WorldInv
      <4>3. e.pid # born + 1 BY <1>3, <4>2
      <4>. QED BY <1>2, <4>1, <4>3 DEF Due
    <3>. QED BY <2>1, <3>1, <3>2 DEF Due
  <2>2. Asked => Asked' BY <1>2 DEF Asked, ToldFlies
  <2>3. Followed => Followed' BY <1>2, <2>1, <2>2 DEF Followed
  <2>4. Known' BY <1>2, <1>3 DEF Known
  <2>. QED BY <1>2, <1>9, <2>3, <2>4 DEF StaleInv
<1>. QED BY <1>5, <1>6, <1>7, <1>8, <1>9 DEF Inv

LEMMA GameExitsTurn ==
  ASSUME Inv, GameExits
  PROVE  Inv' /\ (EndsKnown /\ StaleInv => StaleInv')
<1>1. TypeInv /\ WorldInv /\ LaunchInv BY DEF Inv
<1>2. /\ game # 0 /\ game' = 0 /\ born' = born /\ noted' = noted /\ host' = host
      /\ worker' = worker
      /\ host.module \in Recorded => noted = game
      /\ main' = main \/ main' = Append(main, Note("terminate", game))
  BY DEF GameExits
<1>3. game = born /\ game \in Nat BY <1>1, <1>2 DEF WorldInv, TypeInv
<1>. DEFINE e == Note("terminate", game)
<1>4. e \in Events /\ e.fn = "terminate" BY <1>3 DEF Note, Events, Fns, Codes
<1>5. main' = main \/ main' = Append(main, e) BY <1>2
<1>. HIDE DEF e
<1>6. /\ main' \in Seq(Events) /\ worker' \in Workers /\ Steady(host')
      /\ WorkerInv' /\ AnswerInv' /\ AttachInv' /\ SeenInv' /\ DecidesInv'
      /\ Ordered(main') /\ Range(main) \subseteq Range(main')
      /\ \A f \in Range(main') : f \in Range(main) \/ f.fn = "terminate"
  <2>1. CASE main' = main
    BY <1>1, <1>2, <2>1 DEF Inv, TypeInv, WorldInv, WorkerInv, AnswerInv, AttachInv, SeenInv, DecidesInv, ToldFlies, Unseen
  <2>2. CASE main' = Append(main, e)
    <3>1. \A f \in Range(main) : After(f, e) BY <1>4 DEF After
    <3>2. Joins(e) BY <1>2, <1>4, <2>2, <3>1, JoinsIs
    <3>. QED BY <1>2, <1>4, <3>2, JoinsKeeps DEF Joins
  <2>. QED BY <1>5, <2>1, <2>2
<1>7. TypeInv' BY <1>1, <1>2, <1>6 DEF TypeInv
<1>8. WorldInv' BY <1>1, <1>2, <1>6 DEF WorldInv
<1>9. LaunchInv' BY <1>1, <1>2, <1>6 DEF LaunchInv
<1>10. ASSUME EndsKnown, StaleInv PROVE StaleInv'
  <2>1. SUFFICES ASSUME host.module = "hades2" PROVE Followed' /\ Known' BY <1>2 DEF StaleInv
  <2>2. noted = game BY <1>1, <1>2, <1>10, <2>1 DEF EndsKnown, TypeInv
  <2>3. Followed /\ Known BY <1>10, <2>1 DEF StaleInv
  <2>4. Known' BY <1>2 DEF Known
  <2>5. ASSUME NEW f \in Range(main), f.fn \in {"launch", "activate"} PROVE Due'
    <3>1. f.pid # 0 BY <1>1, <2>5 DEF WorldInv
    <3>. QED BY <1>2, <1>6, <2>5, <3>1 DEF Due
  <2>6. CASE worker.attached = game
    <3>1. CASE host.pid = game BY <1>2, <2>4, <3>1 DEF Due, Followed
    <3>2. CASE host.pid # game
      <4>1. PICK f \in Range(main) : f.fn = "launch" BY <1>2, <2>2, <2>3, <3>2 DEF Known
      <4>. QED BY <2>4, <2>5, <4>1 DEF Followed
    <3>. QED BY <3>1, <3>2
  <2>7. CASE worker.attached # game
    <3>1. Due => Due' BY <1>2, <2>5 DEF Due
    <3>2. Asked => Asked' BY <1>2 DEF Asked, ToldFlies
    <3>. QED BY <1>2, <2>3, <2>4, <2>7, <3>1, <3>2 DEF Followed
  <2>. QED BY <2>4, <2>6, <2>7
<1>. QED BY <1>6, <1>7, <1>8, <1>9, <1>10 DEF Inv

LEMMA OutcomesAre ==
  ASSUME NEW kind \in Kinds, NEW a \in Outcomes(kind), game \in Nat
  PROVE  /\ a \in Events /\ a.fn = "reply" /\ a.pid \in {0, game}
         /\ kind \in Silent => a.code = "ok"
         /\ worker.attached = 0 /\ kind # "connect" => a.pid = 0
<1>. DEFINE alive == worker.attached # 0 /\ worker.attached = game
            there == IF alive THEN game ELSE 0
<1>1. there \in {0, game} /\ (worker.attached = 0 => there = 0) OBVIOUS
<1>2. \A code \in {"ok", "failed", "unknown"}, pid \in Nat :
        /\ Answer(code, pid) \in Events /\ Answer(code, pid).fn = "reply"
        /\ Answer(code, pid).pid = pid /\ Answer(code, pid).code = code
  BY DEF Answer, Events, Fns, Codes
<1>3. Outcomes(kind) = CASE kind = "other"      -> {Answer("ok", 0)}
                         [] kind = "scan"       -> {Answer("ok", there)}
                         [] kind = "connect"    -> {Answer("ok", game), Answer("failed", 0), Answer("unknown", 0)}
                         [] kind = "disconnect" -> {Answer("ok", 0)}
                         [] OTHER -> {Answer("ok", there)}
                                     \cup (IF alive THEN {Answer("unknown", there), Answer("failed", 0)} ELSE {})
  BY DEF Outcomes
<1>4. alive => worker.attached # 0 OBVIOUS
<1>. HIDE DEF alive, there
<1>5. kind \in Silent <=> kind = "other" BY DEF Silent
<1>6. CASE kind = "other"
  <2>1. a = Answer("ok", 0) BY <1>3, <1>6
  <2>. QED BY <1>2, <2>1
<1>7. CASE kind = "scan"
  <2>1. a = Answer("ok", there) BY <1>3, <1>7
  <2>. QED BY <1>1, <1>2, <1>5, <1>7, <2>1
<1>8. CASE kind = "connect"
  <2>1. a \in {Answer("ok", game), Answer("failed", 0), Answer("unknown", 0)} BY <1>3, <1>8
  <2>. QED BY <1>2, <1>5, <1>8, <2>1
<1>9. CASE kind = "disconnect"
  <2>1. a = Answer("ok", 0) BY <1>3, <1>9
  <2>. QED BY <1>2, <1>5, <1>9, <2>1
<1>10. CASE kind \notin {"other", "scan", "connect", "disconnect"}
  <2>1. a = Answer("ok", there) \/ (alive /\ a \in {Answer("unknown", there), Answer("failed", 0)})
    BY <1>3, <1>10
  <2>. QED BY <1>1, <1>2, <1>4, <1>5, <1>10, <2>1
<1>. QED BY <1>6, <1>7, <1>8, <1>9, <1>10

LEMMA ExecuteTurn ==
  ASSUME Inv, Execute
  PROVE  Inv' /\ (StaleInv => StaleInv')
<1>1. /\ TypeInv /\ WorldInv /\ WorkerInv /\ AnswerInv /\ AttachInv /\ SeenInv /\ DecidesInv
      /\ LaunchInv /\ Steady(host)
  BY DEF Inv
<1>. DEFINE kind == Head(host.ops)
<1>2. worker.alive /\ host.ops # <<>> /\ worker.answer = NoAnswer BY DEF Execute
<1>3. PICK a \in Outcomes(kind) :
        worker' = [worker EXCEPT !.answer = a,
                                 !.attached = IF kind \in Silent THEN @ ELSE a.pid]
  BY DEF Execute
<1>4. game' = game /\ born' = born /\ noted' = noted /\ main' = main /\ host' = host
  BY DEF Execute, world
<1>5. kind \in Kinds
  <2>1. host.ops \in Seq(Kinds) BY <1>1 DEF Steady, Sound, Hosts
  <2>. QED BY <1>2, <2>1
<1>. HIDE DEF kind
<1>6. /\ a \in Events /\ a.fn = "reply" /\ a.pid \in {0, game}
      /\ kind \in Silent => a.code = "ok"
      /\ worker.attached = 0 /\ kind # "connect" => a.pid = 0
  BY <1>1, <1>5, OutcomesAre DEF TypeInv
<1>7. /\ worker' \in Workers /\ worker'.alive /\ worker'.answer = a
      /\ kind \in Silent => worker'.attached = worker.attached
      /\ kind \notin Silent => worker'.attached = a.pid
  <2>1. a.pid \in Nat BY <1>1, <1>6 DEF TypeInv
  <2>2. worker \in Workers BY <1>1 DEF TypeInv
  <2>3. CASE kind \in Silent
    <3>1. worker' = [worker EXCEPT !.answer = a, !.attached = worker.attached] BY <1>3, <2>3
    <3>. QED BY <1>2, <1>6, <2>2, <2>3, <3>1 DEF Workers
  <2>4. CASE kind \notin Silent
    <3>1. worker' = [worker EXCEPT !.answer = a, !.attached = a.pid] BY <1>3, <2>4
    <3>. QED BY <1>2, <1>6, <2>1, <2>2, <2>4, <3>1 DEF Workers
  <2>. QED BY <2>3, <2>4
<1>8. ~Has(main, "reply") /\ a # NoAnswer /\ a # Answered
  BY <1>1, <1>2, <1>6, AnswersDiffer DEF WorkerInv
<1>9. ~ToldFlies /\ (ToldFlies' <=> kind \notin Silent)
  BY <1>2, <1>4, <1>7, <1>8 DEF ToldFlies, kind
<1>10. host.module = "hades2" /\ ~host.connected => worker.attached = 0
  BY <1>1, <1>9 DEF AttachInv
<1>11. TypeInv' BY <1>1, <1>4, <1>7 DEF TypeInv
<1>12. WorldInv' BY <1>1, <1>4 DEF WorldInv
<1>13. WorkerInv' BY <1>1, <1>2, <1>4, <1>6, <1>7, <1>8 DEF WorkerInv
<1>14. AnswerInv'
  <2>1. SUFFICES ASSUME NEW b \in {a} \cup Range(main), b.fn = "reply"
        PROVE  /\ kind \in Silent => b.code = "ok"
               /\ kind \notin Silent => b.pid = worker'.attached
               /\ host.module = "hades2" /\ ~host.connected /\ kind # "connect" => b.pid = 0
    BY <1>4, <1>7 DEF AnswerInv, kind
  <2>2. b = a BY <1>8, <2>1 DEF Has
  <2>. QED BY <1>6, <1>7, <1>10, <2>2
<1>15. AttachInv'
  <2>1. worker'.alive /\ ~ToldFlies' /\ host.connected => worker'.attached = host.target
    BY <1>1, <1>2, <1>7, <1>9 DEF AttachInv
  <2>2. host.module = "hades2" /\ ~host.connected =>
          worker'.attached = 0 \/ (ToldFlies' /\ kind = "connect")
    BY <1>6, <1>7, <1>9, <1>10
  <2>. QED BY <1>4, <2>1, <2>2 DEF AttachInv, kind
<1>16. SeenInv'
  <2>1. SUFFICES ASSUME Unseen, ~host.connected PROVE worker'.attached = 0
    BY <1>1, <1>4 DEF SeenInv, Unseen
  <2>2. worker.attached = 0 /\ ~Connects(host.ops) BY <1>1, <2>1 DEF SeenInv
  <2>3. kind # "connect"
    <3>1. host.ops \in Seq(Kinds) BY <1>1 DEF Steady, Sound, Hosts
    <3>2. 1 \in 1 .. Len(host.ops) /\ kind = host.ops[1] BY <1>2, <3>1 DEF kind
    <3>. QED BY <2>2, <3>2 DEF Connects
  <2>. QED BY <1>6, <1>7, <2>2, <2>3
<1>17. DecidesInv' /\ LaunchInv' /\ Steady(host') BY <1>1, <1>4 DEF DecidesInv, LaunchInv
<1>18. ASSUME StaleInv PROVE StaleInv'
  <2>1. Due => Due' BY <1>4 DEF Due
  <2>2. kind \in Silent => (Asked => Asked') BY <1>4, <1>9 DEF Asked
  <2>3. Followed => Followed' BY <1>4, <1>6, <1>7, <2>1, <2>2 DEF Followed
  <2>4. Known => Known' BY <1>4 DEF Known
  <2>. QED BY <1>4, <1>18, <2>3, <2>4 DEF StaleInv
<1>. QED BY <1>11, <1>12, <1>13, <1>14, <1>15, <1>16, <1>17, <1>18 DEF Inv

LEMMA ReplySentTurn ==
  ASSUME Inv, Reply
  PROVE  Inv' /\ (StaleInv => StaleInv')
<1>1. /\ TypeInv /\ WorldInv /\ WorkerInv /\ AnswerInv /\ AttachInv /\ SeenInv /\ DecidesInv
      /\ LaunchInv /\ Steady(host)
  BY DEF Inv
<1>. DEFINE a == worker.answer
<1>2. worker.alive /\ a \notin {NoAnswer, Answered} /\ a.fn = "reply" /\ a \in Events
  BY <1>1 DEF Reply, WorkerInv, TypeInv, Workers
<1>3. /\ game' = game /\ born' = born /\ noted' = noted /\ host' = host
      /\ main' = Append(main, a)
  BY DEF Reply, world
<1>4. /\ worker' \in Workers /\ worker'.alive /\ worker'.attached = worker.attached
      /\ worker'.answer = Answered
  BY <1>1, <1>2, AnswersDiffer DEF Reply, TypeInv, Workers
<1>. HIDE DEF a
<1>5. ~Has(main, "exit") /\ ~Has(main, "reply") BY <1>1, <1>2 DEF WorkerInv, a
<1>6. ASSUME NEW f \in Range(main) PROVE After(f, a)
  BY <1>2, <1>5, <1>6 DEF Has, After
<1>7. Joins(a) BY <1>2, <1>3, <1>6, JoinsIs
<1>8. /\ main' \in Seq(Events) /\ Ordered(main') /\ Range(main') = Range(main) \cup {a}
      /\ Leads(main) => Leads(main') BY <1>7 DEF Joins
<1>9. ToldFlies' <=> ToldFlies BY <1>2, <1>3, <1>4, AnswersDiffer DEF ToldFlies, a
<1>10. /\ \A fn \in {"exit", "start", "changed"} : Has(main', fn) <=> Has(main, fn)
       /\ Has(main', "reply")
  BY <1>2, <1>8 DEF Has
<1>11. host.ops # <<>> BY <1>1, <1>2 DEF WorkerInv, a
<1>12. TypeInv' BY <1>1, <1>3, <1>4, <1>8 DEF TypeInv
<1>13. WorldInv' BY <1>1, <1>2, <1>3, <1>8 DEF WorldInv
<1>14. WorkerInv' BY <1>1, <1>2, <1>3, <1>4, <1>10, <1>11 DEF WorkerInv
<1>15. AnswerInv'
  <2>1. \A b \in {worker'.answer} \cup Range(main') :
          b.fn = "reply" => b \in {worker.answer} \cup Range(main)
    BY <1>4, <1>8, AnswersDiffer DEF a
  <2>. QED BY <1>1, <1>2, <1>3, <1>4, <2>1 DEF AnswerInv
<1>16. AttachInv' BY <1>1, <1>2, <1>3, <1>4, <1>9 DEF AttachInv
<1>17. SeenInv' BY <1>1, <1>3, <1>4, <1>8 DEF SeenInv, Unseen
<1>18. DecidesInv' /\ Steady(host') BY <1>1, <1>3, <1>10 DEF DecidesInv
<1>19. LaunchInv' BY <1>1, <1>2, <1>3, <1>8 DEF LaunchInv
<1>20. ASSUME StaleInv PROVE StaleInv'
  <2>1. Due => Due' BY <1>3, <1>8 DEF Due
  <2>2. Asked => Asked' BY <1>3, <1>9 DEF Asked
  <2>3. Followed => Followed' BY <1>3, <1>4, <2>1, <2>2 DEF Followed
  <2>4. Known => Known' BY <1>2, <1>3, <1>8 DEF Known
  <2>. QED BY <1>3, <1>20, <2>3, <2>4 DEF StaleInv
<1>. QED BY <1>12, <1>13, <1>14, <1>15, <1>16, <1>17, <1>18, <1>19, <1>20 DEF Inv

LEMMA CrashTurn ==
  ASSUME Inv, Crash
  PROVE  Inv' /\ (StaleInv => StaleInv')
<1>1. /\ TypeInv /\ WorldInv /\ WorkerInv /\ AnswerInv /\ AttachInv /\ SeenInv /\ DecidesInv
      /\ LaunchInv /\ Steady(host)
  BY DEF Inv
<1>. DEFINE e == Event("exit")
<1>2. worker.alive /\ host.backend = "up" BY <1>1 DEF Crash, WorkerInv
<1>3. /\ game' = game /\ born' = born /\ noted' = noted /\ host' = host
      /\ main' = Append(main, e)
  BY DEF Crash, world
<1>4. /\ worker' \in Workers /\ ~worker'.alive /\ worker'.attached = 0
      /\ worker'.answer = IF worker.answer = Answered THEN Answered ELSE NoAnswer
  BY <1>1, AnswersDiffer DEF Crash, TypeInv, Workers
<1>5. e \in Events /\ e.fn = "exit" BY DEF Event, Events, Fns, Codes
<1>. HIDE DEF e
<1>6. ~Has(main, "exit") BY <1>1, <1>2 DEF WorkerInv
<1>7. ASSUME NEW f \in Range(main) PROVE After(f, e)
  BY <1>5, <1>6, <1>7 DEF Has, After
<1>8. Joins(e) BY <1>3, <1>5, <1>7, JoinsIs
<1>9. /\ main' \in Seq(Events) /\ Ordered(main') /\ Range(main') = Range(main) \cup {e}
      /\ Leads(main) => Leads(main') BY <1>8 DEF Joins
<1>10. /\ \A fn \in {"reply", "start", "changed"} : Has(main', fn) <=> Has(main, fn)
       /\ Has(main', "exit")
  BY <1>5, <1>9 DEF Has
<1>11. TypeInv' BY <1>1, <1>3, <1>4, <1>9 DEF TypeInv
<1>12. WorldInv' BY <1>1, <1>3, <1>5, <1>9 DEF WorldInv
<1>13. WorkerInv'
  BY <1>1, <1>2, <1>3, <1>4, <1>10, AnswersDiffer DEF WorkerInv
<1>14. AnswerInv'
  <2>1. \A b \in {worker'.answer} \cup Range(main') : b.fn = "reply" => b \in Range(main)
    BY <1>4, <1>5, <1>9, AnswersDiffer
  <2>. QED BY <1>1, <1>3, <1>4, <2>1 DEF AnswerInv
<1>15. AttachInv' BY <1>4 DEF AttachInv
<1>16. SeenInv' BY <1>1, <1>3, <1>4, <1>9 DEF SeenInv, Unseen
<1>17. DecidesInv' /\ Steady(host') BY <1>1, <1>3, <1>10 DEF DecidesInv
<1>18. LaunchInv' BY <1>1, <1>3, <1>5, <1>9 DEF LaunchInv
<1>19. ASSUME StaleInv PROVE StaleInv'
  <2>1. Followed' BY <1>4 DEF Followed
  <2>2. Known => Known' BY <1>3, <1>5, <1>9 DEF Known
  <2>. QED BY <1>3, <1>19, <2>1, <2>2 DEF StaleInv
<1>. QED BY <1>11, <1>12, <1>13, <1>14, <1>15, <1>16, <1>17, <1>18, <1>19 DEF Inv

LEMMA NextKeeps ==
  ASSUME Inv, [Next]_vars
  PROVE  Inv' /\ (EndsKnown /\ StaleInv => StaleInv')
<1>1. CASE HostActions BY <1>1, HandlersKeep
<1>2. CASE World
  BY <1>2, GameStartsTurn, NotifyLaunchTurn, NotifiedTurn, GameExitsTurn, ExecuteTurn,
     ReplySentTurn, CrashTurn DEF World
<1>3. CASE UNCHANGED vars
  <2>1. game' = game /\ born' = born /\ noted' = noted /\ main' = main /\ host' = host
        /\ worker' = worker BY <1>3 DEF vars, world
  <2>2. Inv'
    BY <2>1 DEF Inv, TypeInv, WorldInv, WorkerInv, AnswerInv, AttachInv, SeenInv, DecidesInv,
                LaunchInv, ToldFlies, Unseen
  <2>3. StaleInv => StaleInv' BY <2>1 DEF StaleInv, Followed, Known, Due, Asked, ToldFlies
  <2>. QED BY <2>2, <2>3
<1>. QED BY <1>1, <1>2, <1>3 DEF Next

--------------------------------------------------------------------------------
(* The start *)

LEMMA InitialPolicy ==
  ASSUME NEW running \in BOOLEAN
  PROVE  LET p == ObserveTarget(NewPolicy, running, 0, TRUE)
         IN  p \in Policies /\ (p.running <=> running) /\ p.generation = 0
             /\ (p.background => p.connect)
<1>. DEFINE s == TargetStateChanged(NewPolicy, running, TRUE)
            p == [s EXCEPT !.awaiting = FALSE, !.generation = 0]
<1>1. /\ NewPolicy \in Policies /\ ~NewPolicy.running /\ NewPolicy.generation = 0
      /\ ~NewPolicy.awaiting /\ ~NewPolicy.background
  BY DEF NewPolicy, Policies
<1>2. s \in Policies /\ (s.running <=> running) /\ ~s.awaiting /\ (s.background => s.connect)
  <2>1. CASE running
    <3>1. s = [NewPolicy EXCEPT !.running = TRUE, !.suppressed = FALSE, !.restart = TRUE, !.connect = TRUE]
      BY <2>1 DEF TargetStateChanged, NewPolicy
    <3>. QED BY <1>1, <2>1, <3>1 DEF Policies
  <2>2. CASE ~running
    <3>2. NewPolicy.running = running BY <2>2 DEF NewPolicy
    <3>1. s = NewPolicy BY <3>2 DEF TargetStateChanged
    <3>. QED BY <1>1, <2>2, <3>1
  <2>. QED BY <2>1, <2>2
<1>3. ObserveTarget(NewPolicy, running, 0, TRUE) = [s EXCEPT !.awaiting = @ \/ FALSE, !.generation = 0]
  BY <1>1 DEF ObserveTarget
<1>. HIDE DEF s
<1>4. [s EXCEPT !.awaiting = @ \/ FALSE, !.generation = 0] = p BY <1>2 DEF Policies
<1>5. p \in Policies /\ (p.running <=> running) /\ p.generation = 0 /\ (p.background => p.connect)
  BY <1>2 DEF Policies
<1>. QED BY <1>3, <1>4, <1>5

LEMMA InitialHostIs ==
  ASSUME game \in Nat, NEW module \in {"hades", "hades2"}, NEW active \in BOOLEAN
  PROVE  LET k == InitialHost(module, active)
         IN  /\ Steady(k) /\ Decides(k) /\ k.module = module /\ k.pid = game
             /\ k.launched = 0 /\ ~k.connected /\ ~k.wasConnected
             /\ k.backend = "up" <=> module = "hades2"
<1>. DEFINE n == [NoHost(module) EXCEPT !.pid = game, !.lastPid = game, !.active = active]
            seen == ModuleLifetimeChanged(n)
            p == ObserveTarget(NewPolicy, game # 0, 0, TRUE)
            t == [seen EXCEPT !.policy = p]
            told == Calm(t)
            k == InitialHost(module, active)
<1>1. <<>> \in Seq(Kinds) /\ NewPolicy \in Policies BY DEF NewPolicy, Policies
<1>2. /\ n \in Hosts /\ n.module = module /\ n.pid = game /\ n.gen = 0 /\ n.policy = NewPolicy
      /\ n.launched = 0 /\ ~n.connected /\ ~n.wasConnected /\ n.backend = "down" /\ n.ops = <<>>
  BY <1>1 DEF NoHost, Hosts
<1>. HIDE DEF n
<1>3. Sound(n) BY <1>2 DEF Sound, SessionInv, ShapeInv
<1>4. /\ Called(n, seen) /\ Sound(seen)
      /\ module = "hades" => seen.backend = "down"
  BY <1>2, <1>3, ModuleLifetimeChangedIs
<1>5. module = "hades2" => seen.backend = "up"
  <2>. SUFFICES ASSUME module = "hades2" PROVE seen.backend = "up" OBVIOUS
  <2>. DEFINE c == [n EXCEPT !.deferred = FALSE, !.ready = FALSE]
  <2>1. seen = StartBackend(c) BY <1>2 DEF ModuleLifetimeChanged, Available
  <2>2. c \in Hosts /\ c.ops = <<>> /\ c.backend = "down" /\ ~c.connected BY <1>2 DEF Hosts
  <2>. HIDE DEF c
  <2>3. Sound(c) BY <2>2 DEF Sound, SessionInv, ShapeInv
  <2>. QED BY <2>1, <2>2, <2>3, StartBackendIs
<1>6. /\ seen \in Hosts /\ seen.module = module /\ seen.pid = game /\ seen.gen = 0
      /\ seen.policy = NewPolicy /\ seen.launched = 0 /\ ~seen.connected /\ ~seen.wasConnected
  BY <1>2, <1>4 DEF Called
<1>7. told = Calm([seen EXCEPT !.policy = ObserveTarget(@, game # 0, 0, TRUE)]) BY <1>6
<1>8. k = IF Available(told) THEN ModelChanged(told) ELSE told BY <1>7 DEF InitialHost, n
<1>. HIDE DEF seen
<1>9. p \in Policies /\ (p.running <=> game # 0) /\ p.generation = 0 /\ (p.background => p.connect)
  <2>1. (game # 0) \in BOOLEAN OBVIOUS
  <2>. QED BY <2>1, InitialPolicy
<1>. HIDE DEF p
<1>10. /\ t \in Hosts /\ t.module = module /\ t.pid = game /\ t.gen = 0 /\ t.policy = p
       /\ t.launched = 0 /\ ~t.connected /\ ~t.wasConnected /\ t.backend = seen.backend
       /\ t.ops = seen.ops /\ t.deferred = seen.deferred /\ t.target = seen.target
       /\ t.connected = seen.connected
  BY <1>6, <1>9 DEF Hosts
<1>. HIDE DEF t
<1>11. ShapeInv(t) BY <1>4, <1>6, <1>10, ShapeKept DEF Sound
<1>12. Sound(t) BY <1>4, <1>10, <1>11 DEF Sound, SessionInv
<1>13. Steady(t) BY <1>9, <1>10, <1>12 DEF Steady, PolicyInv, TargetInv
<1>14. /\ Steady(told) /\ told.module = module /\ told.pid = game /\ told.launched = 0
       /\ ~told.connected /\ ~told.wasConnected /\ told.backend = seen.backend
  BY <1>10, <1>13, CalmIs
<1>. HIDE DEF told, k
<1>15. CASE module = "hades"
  <2>1. ~Available(told) BY <1>4, <1>14, <1>15 DEF Available
  <2>2. k = told BY <1>8, <2>1
  <2>3. Decides(told) BY <2>1 DEF Decides, ConsumesExitRefresh, ConsumesConnect
  <2>4. told.backend # "up" BY <2>1 DEF Available
  <2>. QED BY <1>14, <1>15, <2>2, <2>3, <2>4 DEF k
<1>16. CASE module = "hades2"
  <2>1. Available(told) BY <1>5, <1>14, <1>16 DEF Available
  <2>2. k = ModelChanged(told) BY <1>8, <2>1
  <2>3. /\ Acts(told, k) /\ Steady(k) /\ Decides(k) /\ k.pid = told.pid
        /\ k.launched = told.launched /\ k.wasConnected = told.connected
    BY <1>14, <2>2, ModelChangedIs
  <2>4. k.module = module /\ ~k.connected /\ k.backend = "up"
    BY <1>14, <2>1, <2>3 DEF Acts, Available
  <2>. QED BY <1>14, <1>16, <2>3, <2>4 DEF k
<1>. QED BY <1>15, <1>16

LEMMA PairIs ==
  ASSUME NEW a \in Events, NEW b \in Events PROVE <<a>> \o <<b>> = <<a, b>>
<1>. DEFINE p == <<a>> \o <<b>>
            q == <<a, b>>
<1>1. p \in Seq(Events) /\ q \in Seq(Events) /\ Len(p) = 2 /\ Len(q) = 2 OBVIOUS
<1>2. p[1] = a /\ p[2] = b /\ q[1] = a /\ q[2] = b OBVIOUS
<1>3. \A i \in 1 .. Len(p) : p[i] = q[i] BY <1>1, <1>2
<1>. HIDE DEF p, q
<1>. QED BY <1>1, <1>3, SeqEqual DEF p, q

LEMMA InitInv == ASSUME Init PROVE Inv /\ StaleInv
<1>1. game \in {0, 1} /\ born = game /\ noted = game BY DEF Init
<1>2. PICK module \in Modules, active \in BOOLEAN : host = InitialHost(module, active) BY DEF Init
<1>3. module \in {"hades", "hades2"} BY ModuleAssumption
<1>4. /\ Steady(host) /\ Decides(host) /\ host.module = module /\ host.pid = game
      /\ host.launched = 0 /\ ~host.connected /\ ~host.wasConnected
      /\ host.backend = "up" <=> module = "hades2"
  BY <1>1, <1>2, <1>3, InitialHostIs
<1>. DEFINE e == Event("start")
            c == Event("changed")
<1>5. e \in Events /\ e.fn = "start" /\ c \in Events /\ c.fn = "changed"
  BY DEF Event, Events, Fns, Codes
<1>6. \/ main = <<>> \/ main = <<c>>
      \/ host.module = "hades" /\ (main = <<e>> \/ main = <<e, c>>)
  <2>1. main = (IF host.module = "hades" THEN <<e>> ELSE <<>>)
               \o (IF host.changed THEN <<c>> ELSE <<>>) BY DEF Init
  <2>. HIDE DEF e, c
  <2>2. CASE host.module = "hades" /\ host.changed
    <3>1. main = <<e>> \o <<c>> BY <2>1, <2>2
    <3>2. main = <<e, c>> BY <1>5, <3>1, PairIs
    <3>. QED BY <2>2, <3>2
  <2>3. CASE host.module = "hades" /\ ~host.changed
    <3>1. main = <<e>> \o <<>> BY <2>1, <2>3
    <3>2. main = <<e>> BY <3>1
    <3>. QED BY <2>3, <3>2
  <2>4. CASE host.module # "hades" /\ host.changed
    <3>1. main = <<>> \o <<c>> BY <2>1, <2>4
    <3>2. main = <<c>> BY <3>1
    <3>. QED BY <3>2
  <2>5. CASE host.module # "hades" /\ ~host.changed
    <3>1. main = <<>> \o <<>> BY <2>1, <2>5
    <3>2. main = <<>> BY <3>1
    <3>. QED BY <3>2
  <2>. QED BY <2>2, <2>3, <2>4, <2>5
<1>. HIDE DEF e, c
<1>7. main \in Seq(Events)
  <2>1. <<>> \in Seq(Events) /\ <<c>> \in Seq(Events) /\ <<e>> \in Seq(Events)
        /\ <<e, c>> \in Seq(Events) BY <1>5
  <2>. QED BY <1>6, <2>1
<1>8. \A f \in Range(main) : f = c \/ (f = e /\ host.module = "hades")
  <2>1. \A i \in 1 .. Len(main) : main[i] = c \/ (main[i] = e /\ host.module = "hades") BY <1>6
  <2>. QED BY <1>7, <2>1, RangeIs
<1>9. Ordered(main)
  <2>1. SUFFICES ASSUME NEW i \in 1 .. Len(main), NEW j \in 1 .. Len(main), i < j
                 PROVE  After(main[i], main[j]) BY DEF Ordered
  <2>4. CASE main = <<>> BY <2>1, <2>4
  <2>5. CASE main = <<c>> BY <2>1, <2>5
  <2>6. CASE main = <<e>> BY <2>1, <2>6
  <2>7. CASE main = <<e, c>>
    <3>1. i = 1 /\ j = 2 BY <2>1, <2>7
    <3>2. main[i] = e /\ main[j] = c BY <2>7, <3>1
    <3>. QED BY <1>5, <3>2 DEF After
  <2>. QED BY <1>6, <2>4, <2>5, <2>6, <2>7
<1>10. /\ worker \in Workers /\ (worker.alive <=> host.module = "hades2")
       /\ worker.attached = 0 /\ worker.answer = NoAnswer
  <2>1. worker = [NewWorker EXCEPT !.alive = host.module = "hades2"] BY DEF Init
  <2>2. (host.module = "hades2") \in BOOLEAN /\ NewWorker \in Workers /\ NewWorker.attached = 0
        /\ NewWorker.answer = NoAnswer BY AnswersDiffer DEF NewWorker, Workers
  <2>. QED BY <2>1, <2>2 DEF Workers
<1>11. TypeInv BY <1>1, <1>4, <1>7, <1>10 DEF TypeInv
<1>12. WorldInv BY <1>1, <1>4, <1>5, <1>8, <1>9 DEF WorldInv, c
<1>13. WorkerInv
  <2>1. ~Has(main, "exit") /\ ~Has(main, "reply") BY <1>5, <1>8 DEF Has
  <2>2. Has(main, "start") => host.module = "hades" BY <1>5, <1>8 DEF Has
  <2>. QED BY <1>4, <1>10, <2>1, <2>2, AnswersDiffer DEF WorkerInv
<1>14. AnswerInv BY <1>5, <1>8, <1>10, AnswersDiffer DEF AnswerInv
<1>15. AttachInv BY <1>4, <1>10 DEF AttachInv
<1>16. SeenInv BY <1>4 DEF SeenInv, Unseen, Steady, Sound, Hosts
<1>17. DecidesInv BY <1>4 DEF DecidesInv
<1>18. LaunchInv BY <1>1, <1>4 DEF LaunchInv
<1>19. StaleInv
  <2>1. Known BY <1>4, <1>5, <1>8 DEF Known
  <2>. QED BY <1>10, <2>1 DEF StaleInv, Followed
<1>. QED BY <1>4, <1>11, <1>12, <1>13, <1>14, <1>15, <1>16, <1>17, <1>18, <1>19 DEF Inv

--------------------------------------------------------------------------------
(* The theorems *)

(* Every reachable state satisfies the invariant: what the context observes,  *)
(* what it still has to hear, what the worker does and what was decided agree *)
(* (TrainerGameContext.swift:147, 168, 209).                                  *)
THEOREM InvAlways == Spec => []Inv
<1>1. Init => Inv BY InitInv
<1>2. Inv /\ [Next]_vars => Inv' BY NextKeeps
<1>. QED BY <1>1, <1>2, PTL DEF Spec

(* And where a worker is attached to a process of Hades II that has gone, an  *)
(* event, a refresh that is due or a request in flight will tell              *)
(* (TrainerGameContext.swift:168, 211).                                       *)
THEOREM StaleInvAlways == ASSUME EndsKnown PROVE Spec => [](Inv /\ StaleInv)
<1>1. Init => Inv /\ StaleInv BY InitInv
<1>2. (Inv /\ StaleInv) /\ [Next]_vars => (Inv /\ StaleInv)' BY EndsKnown, NextKeeps
<1>. QED BY <1>1, <1>2, PTL DEF Spec

(* What is left when all is quiet *)

LEMMA QuietIs ==
  ASSUME Inv, Quiet
  PROVE  Decides(host) /\ host.pid = game /\ ~Busy(host) /\ host.ops = <<>> /\ ~ToldFlies
         /\ (host.backend = "up" => worker.alive)
<1>1. main = <<>> /\ ~Busy(host) /\ host.pid = game BY DEF Quiet
<1>2. host.ops = <<>> BY <1>1 DEF Busy
<1>3. Range(main) = {} BY <1>1 DEF Range
<1>4. ~Has(main, "changed") /\ ~Has(main, "exit") BY <1>3 DEF Has
<1>. QED BY <1>1, <1>2, <1>4 DEF Inv, DecidesInv, WorkerInv, ToldFlies

LEMMA LaunchFound == ASSUME Inv PROVE LaunchAnswered
<1>1. SUFFICES ASSUME Wanted, ~host.connected PROVE host.tried \/ host.overtaken BY DEF LaunchAnswered
<1>2. /\ Quiet /\ Available(host) /\ ~host.untrusted
      /\ host.launched # 0 /\ host.launched = host.pid /\ ~host.detached
  BY <1>1 DEF Wanted
<1>3. Decides(host) /\ host.pid = game /\ ~Busy(host) BY <1>2, QuietIs
<1>4. Open(host) BY <1>2, <1>3 DEF Inv, LaunchInv
<1>5. SUFFICES ASSUME host.policy.connect, host.policy.background,
                      ~host.policy.awaiting, ~host.policy.suppressed
               PROVE  FALSE
  BY <1>2, <1>4 DEF Open
<1>6. Settled(host.policy) BY <1>2, <1>5 DEF Inv, Steady, PolicyInv, Settled
<1>7. Enabled(host) BY <1>2, <1>3 DEF Enabled
<1>8. ConsumesConnect(host.policy, Available(host), Busy(host), host.connected, Enabled(host))
  BY <1>1, <1>2, <1>3, <1>5, <1>6, <1>7 DEF ConsumesConnect
<1>. QED BY <1>2, <1>3, <1>5, <1>8 DEF Decides

LEMMA FreshFound == ASSUME Inv, StaleInv PROVE NoStale
<1>1. SUFFICES ASSUME Quiet, ~host.untrusted, host.connected
               PROVE  worker.attached = host.pid /\ host.pid # 0
  BY DEF NoStale, Fresh
<1>2. /\ Decides(host) /\ host.pid = game /\ ~Busy(host) /\ host.ops = <<>> /\ ~ToldFlies
      /\ host.backend = "up" => worker.alive
  BY <1>1, QuietIs
<1>3. host.backend = "up" /\ host.target # 0 /\ host.module \in {"hades", "hades2"}
  BY <1>1 DEF Inv, Steady, Sound, SessionInv, Hosts
<1>4. worker.attached = host.target BY <1>1, <1>2, <1>3 DEF Inv, AttachInv
<1>5. CASE host.module = "hades" BY <1>1, <1>3, <1>4, <1>5 DEF Inv, Steady, TargetInv
<1>6. CASE host.module = "hades2"
  <2>1. SUFFICES ASSUME worker.attached \notin {0, game} PROVE FALSE BY <1>2, <1>3, <1>4
  <2>2. Due \/ host.policy.exitRefresh \/ Asked BY <1>6, <2>1 DEF StaleInv, Followed
  <2>3. ~Asked BY <1>2 DEF Asked
  <2>4. ~Due
    <3>1. Range(main) = {} BY <1>1 DEF Quiet, Range
    <3>. QED BY <1>2, <3>1 DEF Due
  <2>5. ConsumesExitRefresh(host.policy, Available(host), Busy(host))
    BY <1>2, <1>3, <2>2, <2>3, <2>4 DEF ConsumesExitRefresh, Available
  <2>. QED BY <1>1, <1>2, <2>5 DEF Decides
<1>. QED BY <1>3, <1>5, <1>6

(* A game that was launched is attached to, or that was tried at least once,  *)
(* whatever exits, refreshes, recoveries and busy workers came between        *)
(* (TrainerGameContext.swift:225).                                            *)
THEOREM LaunchAnsweredAlways == Spec => []LaunchAnswered
<1>1. Inv => LaunchAnswered BY LaunchFound
<1>. QED BY <1>1, InvAlways, PTL

(* Once all is quiet the host does not claim to be connected to a process     *)
(* that has gone, if the system reports each end of a process of Hades II     *)
(* (TrainerGameContext.swift:211).                                            *)
THEOREM NoStaleAlways == ASSUME EndsKnown PROVE Spec => []NoStale
<1>1. Inv /\ StaleInv => NoStale BY FreshFound
<1>2. Spec => [](Inv /\ StaleInv) BY EndsKnown, StaleInvAlways
<1>. QED BY <1>1, <1>2, PTL
================================================================================
