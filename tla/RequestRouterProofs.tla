-------------------------- MODULE RequestRouterProofs --------------------------
(* Theorems about RequestRouter for every cache size, command and identity. *)
EXTENDS RequestRouter, SequenceTheorems, TLAPS

(* What a reply may say, with the histories it carries.                     *)
Payloads == UNION {[told -> Values \cup {Nothing}] : told \in SUBSET (Fields \cup Receipts)}

Replies ==
  [id : Ids \cup {Nothing}, request : Requests \cup {Unusable},
   code : {"ok", "invalid_request", "duplicate_conflict", "operation_failed", "outcome_unknown"},
   payload : Payloads, truth : Payloads, acted : BOOLEAN, replayed : BOOLEAN]

(* The types of the worker's part of the state.                             *)
WorkerTypeOK ==
  /\ cache \in Seq(Replies) /\ done \in Seq(Ids) /\ out \in Seq(Replies)
  /\ live \in States /\ baseline \in States \cup {Nothing}

(* The cache is the newest part of the history, and only a full one has     *)
(* forgotten anything.                                                      *)
Window ==
  /\ Len(cache) <= MaxCache /\ Len(cache) <= Len(done)
  /\ Len(cache) < MaxCache => Len(cache) = Len(done)
  /\ \A i \in 1..Len(cache) : cache[i].id = done[Len(done) - Len(cache) + i]

Kept == WorkerTypeOK /\ Window /\ OnceOnly /\ ToldTrue

Chunk == [line : Lines, ends : BOOLEAN]

RouterInv == input \in Seq(Chunk) /\ Kept

--------------------------------------------------------------------------------
LEMMA StatePayload ==
  ASSUME NEW state \in States
  PROVE  state \in Payloads
<1>1. CASE state \in [Fields -> Values]
  <2>1. state \in [Fields -> Values \cup {Nothing}] /\ Fields \in SUBSET (Fields \cup Receipts)
    BY <1>1
  <2>. QED BY <2>1 DEF Payloads
<1>2. CASE state \in [Fields \cup Receipts -> Values]
  <2>1. state \in [Fields \cup Receipts -> Values \cup {Nothing}]
    BY <1>2
  <2>. QED BY <2>1 DEF Payloads
<1>. QED BY <1>1, <1>2 DEF States

LEMMA UntoldPayload == Untold \in Payloads
<1>1. Untold \in [{} -> Values \cup {Nothing}] BY DEF Untold
<1>. QED BY <1>1 DEF Payloads

LEMMA StateFacts ==
  ASSUME NEW state \in States
  PROVE  /\ DOMAIN state \subseteq Fields \cup Receipts
         /\ \A k \in DOMAIN state : state[k] \in Values
BY DEF States

LEMMA PublishPayload ==
  ASSUME NEW previous \in States \cup {Nothing}, NEW state \in States, NEW kind
  PROVE  Publish(previous, state, kind) \in Payloads
<1>1. CASE kind = "snapshot" \/ previous = Nothing
  BY <1>1, StatePayload DEF Publish
<1>2. CASE ~(kind = "snapshot" \/ previous = Nothing)
  <2>. DEFINE told == {k \in DOMAIN state : k \in DOMAIN previous => previous[k] # state[k] \/ k \in Receipts}
              all == told \cup (DOMAIN previous \ DOMAIN state)
  <2>1. previous \in States BY <1>2
  <2>2. all \in SUBSET (Fields \cup Receipts) BY <2>1, StateFacts
  <2>3. Changes(previous, state) = [k \in all |-> IF k \in DOMAIN state THEN state[k] ELSE Nothing]
    BY DEF Changes
  <2>4. Changes(previous, state) \in [all -> Values \cup {Nothing}]
    BY <2>3, StateFacts
  <2>5. Changes(previous, state) \in Payloads BY <2>2, <2>4 DEF Payloads
  <2>. QED BY <1>2, <2>5 DEF Publish
<1>. QED BY <1>1, <1>2

LEMMA ReplyType ==
  ASSUME NEW id \in Ids \cup {Nothing}, NEW request \in Requests \cup {Unusable},
         NEW code \in {"ok", "invalid_request", "duplicate_conflict", "operation_failed", "outcome_unknown"},
         NEW payload \in Payloads
  PROVE  /\ Reply(id, request, code, payload) \in Replies
         /\ Reply(id, request, code, payload).id = id
         /\ Reply(id, request, code, payload).code = code
         /\ Reply(id, request, code, payload).acted = FALSE
BY UntoldPayload DEF Reply, Replies

LEMMA LineType ==
  ASSUME NEW line \in Lines
  PROVE  line.id \in Ids \cup {Nothing} /\ line.request \in Requests \cup {Unusable}
BY DEF Lines, Line

(* A reply that is sent and not remembered.                                 *)
LEMMA SendKeeps ==
  ASSUME Kept, NEW reply \in Replies, TellsTrue(reply), Send(reply),
         UNCHANGED <<cache, done>>
  PROVE  out' \in Seq(Replies) /\ Window' /\ OnceOnly' /\ ToldTrue'
<1>1. out' \in Seq(Replies) BY DEF Kept, WorkerTypeOK, Send
<1>2. \A i \in DOMAIN out' : TellsTrue(out'[i])
  <2>1. CASE hostOpen
    <3>1. out' = Append(out, reply) BY <2>1 DEF Send
    <3>2. out \in Seq(Replies) BY DEF Kept, WorkerTypeOK
    <3>3. \A i \in 1..Len(out) : TellsTrue(out[i]) BY <3>2 DEF Kept, ToldTrue
    <3>4. TAKE i \in DOMAIN out'
    <3>5. i \in 1..(Len(out) + 1) BY <3>1, <3>2
    <3>6. CASE i \in 1..Len(out)
      <4>1. out'[i] = out[i] BY <3>1, <3>2, <3>6
      <4>. QED BY <4>1, <3>3, <3>6
    <3>7. CASE i = Len(out) + 1
      <4>1. out'[i] = reply BY <3>1, <3>2, <3>7
      <4>. QED BY <4>1
    <3>. QED BY <3>2, <3>5, <3>6, <3>7
  <2>2. CASE ~hostOpen BY <2>2 DEF Send, Kept, ToldTrue
  <2>. QED BY <2>1, <2>2
<1>3. Window' /\ OnceOnly' BY DEF Kept, Window, OnceOnly
<1>4. ToldTrue' BY <1>2 DEF Kept, ToldTrue, TellsTrue
<1>. QED BY <1>1, <1>3, <1>4

(* A reply that is remembered: its request was not in the cache.            *)
LEMMA AnswerKeeps ==
  ASSUME Kept, NEW reply \in Replies, NEW acted \in BOOLEAN, reply.id \in Ids,
         Cached(reply.id) = {}, acted => reply.code \in {"ok", "outcome_unknown"},
         Answer(reply, acted)
  PROVE  /\ out' \in Seq(Replies) /\ cache' \in Seq(Replies) /\ done' \in Seq(Ids)
         /\ Window' /\ OnceOnly' /\ ToldTrue'
<1>. DEFINE told == [reply EXCEPT !.acted = acted]
            all == Append(cache, told)
            n == Len(done)
            m == Len(cache)
<1>1. told \in Replies /\ told.id = reply.id /\ TellsTrue(told)
  BY DEF Replies, TellsTrue
<1>2. Send(told) /\ cache' = Remember(told) /\ done' = Append(done, reply.id)
  BY <1>1 DEF Answer
<1>3. /\ cache \in Seq(Replies) /\ done \in Seq(Ids)
      /\ n \in Nat /\ m \in Nat /\ MaxCache \in Nat \ {0}
  BY RouterAssumption DEF Kept, WorkerTypeOK
<1>4. all \in Seq(Replies) /\ Len(all) = m + 1 /\ all[m + 1] = told
      /\ \A i \in 1..m : all[i] = cache[i]
  BY <1>1, <1>3
<1>5. done' \in Seq(Ids) /\ Len(done') = n + 1 /\ done'[n + 1] = reply.id
      /\ \A i \in 1..n : done'[i] = done[i]
  BY <1>2, <1>3
<1>6. /\ m <= MaxCache /\ m <= n /\ (m < MaxCache => m = n)
      /\ \A i \in 1..m : cache[i].id = done[n - m + i]
  BY DEF Kept, Window
<1>7. /\ cache' \in Seq(Replies)
      /\ m < MaxCache => cache' = all
      /\ m = MaxCache => Len(cache') = m /\ \A i \in 1..m : cache'[i] = all[i + 1]
  <2>1. CASE m < MaxCache
    BY <2>1, <1>2, <1>3, <1>4 DEF Remember
  <2>2. CASE m = MaxCache
    <3>1. cache' = Tail(all) BY <2>2, <1>2, <1>3, <1>4 DEF Remember
    <3>2. all # <<>> BY <1>3, <1>4
    <3>. HIDE DEF all
    <3>3. /\ Tail(all) \in Seq(Replies) /\ Len(Tail(all)) = Len(all) - 1
          /\ \A i \in 1..Len(Tail(all)) : Tail(all)[i] = all[i + 1]
      BY <3>2, <1>4, HeadTailProperties
    <3>. QED BY <3>1, <3>3, <2>2, <1>3, <1>4
  <2>3. m < MaxCache \/ m = MaxCache
    <3>1. m <= MaxCache BY <1>6
    <3>. QED BY <3>1, <1>3
  <2>. HIDE DEF all, m, told
  <2>. QED BY <2>1, <2>2, <2>3
<1>8. \A i \in 1..(m + 1) : all[i].id = done'[n - m + i]
  <2>1. TAKE i \in 1..(m + 1)
  <2>2. CASE i \in 1..m BY <2>2, <1>3, <1>4, <1>5, <1>6
  <2>3. CASE i = m + 1 BY <2>3, <1>1, <1>3, <1>4, <1>5, <1>6
  <2>. QED BY <2>1, <2>2, <2>3, <1>3
<1>9. Window'
  <2>1. CASE m < MaxCache
    <3>1. cache' = all /\ n = m BY <2>1, <1>6, <1>7
    <3>. QED BY <3>1, <2>1, <1>3, <1>4, <1>5, <1>8 DEF Window
  <2>2. CASE m = MaxCache
    <3>1. Len(cache') = m /\ Len(done') = n + 1 BY <2>2, <1>5, <1>7
    <3>2. \A i \in 1..m : cache'[i].id = done'[n + 1 - m + i]
      <4>1. TAKE i \in 1..m
      <4>2. i + 1 \in 1..(m + 1) /\ n - m + (i + 1) = n + 1 - m + i BY <1>3
      <4>. QED BY <4>2, <2>2, <1>7, <1>8
    <3>. QED BY <3>1, <3>2, <2>2, <1>3, <1>6 DEF Window
  <2>. QED BY <2>1, <2>2, <1>3, <1>6
<1>10. \A j \in 1..n : done[j] = reply.id => n + 1 - j > MaxCache
  <2>1. TAKE j \in 1..n
  <2>2. HAVE done[j] = reply.id
  <2>3. j <= n - m
    <3>1. SUFFICES ASSUME j > n - m PROVE FALSE BY <1>3
    <3>2. j - (n - m) \in 1..m /\ n - m + (j - (n - m)) = j BY <3>1, <1>3, <1>6
    <3>3. cache[j - (n - m)].id = reply.id BY <3>2, <2>2, <1>6
    <3>4. j - (n - m) \in Cached(reply.id) BY <3>2, <3>3, <1>3 DEF Cached
    <3>. QED BY <3>4
  <2>4. m = MaxCache BY <2>3, <1>3, <1>6
  <2>. QED BY <2>3, <2>4, <1>3
<1>11. OnceOnly'
  <2>1. \A i, j \in 1..n : i < j /\ done[i] = done[j] => j - i > MaxCache
    BY <1>3 DEF Kept, OnceOnly
  <2>2. SUFFICES ASSUME NEW i \in 1..(n + 1), NEW j \in 1..(n + 1), i < j, done'[i] = done'[j]
                 PROVE  j - i > MaxCache
    BY <1>5 DEF OnceOnly
  <2>3. CASE j \in 1..n BY <2>1, <2>2, <2>3, <1>3, <1>5
  <2>4. CASE j = n + 1 BY <2>2, <2>4, <1>3, <1>5, <1>10
  <2>. QED BY <2>3, <2>4, <1>3
<1>12. \A i \in DOMAIN cache' : TellsTrue(cache'[i])
  <2>1. \A i \in 1..(m + 1) : TellsTrue(all[i])
    <3>1. \A i \in 1..m : TellsTrue(cache[i]) BY <1>3 DEF Kept, ToldTrue
    <3>. QED BY <3>1, <1>1, <1>3, <1>4
  <2>2. CASE m < MaxCache BY <2>1, <2>2, <1>3, <1>4, <1>7
  <2>3. CASE m = MaxCache
    <3>1. TAKE i \in DOMAIN cache'
    <3>2. i \in 1..m /\ i + 1 \in 1..(m + 1) BY <2>3, <1>3, <1>7
    <3>. QED BY <3>2, <2>1, <2>3, <1>7
  <2>. QED BY <2>2, <2>3, <1>3, <1>6
<1>13. out' \in Seq(Replies) BY <1>1, <1>2 DEF Kept, WorkerTypeOK, Send
<1>14. \A i \in DOMAIN out' : TellsTrue(out'[i])
  <2>1. CASE hostOpen
    <3>1. out' = Append(out, told) BY <2>1, <1>2 DEF Send
    <3>2. out \in Seq(Replies) BY DEF Kept, WorkerTypeOK
    <3>3. \A i \in 1..Len(out) : TellsTrue(out[i]) BY <3>2 DEF Kept, ToldTrue
    <3>4. TAKE i \in DOMAIN out'
    <3>5. i \in 1..(Len(out) + 1) BY <1>1, <3>1, <3>2
    <3>6. CASE i \in 1..Len(out)
      <4>1. out'[i] = out[i] BY <1>1, <3>1, <3>2, <3>6
      <4>. QED BY <4>1, <3>3, <3>6
    <3>7. CASE i = Len(out) + 1
      <4>1. out'[i] = told BY <1>1, <3>1, <3>2, <3>7
      <4>. QED BY <4>1, <1>1
    <3>. QED BY <3>2, <3>5, <3>6, <3>7
  <2>2. CASE ~hostOpen BY <2>2, <1>2 DEF Send, Kept, ToldTrue
  <2>. QED BY <2>1, <2>2
<1>15. ToldTrue' BY <1>12, <1>14 DEF ToldTrue, TellsTrue
<1>. QED BY <1>5, <1>7, <1>9, <1>11, <1>13, <1>15

--------------------------------------------------------------------------------
(* One lemma for each way a request is handled.                             *)
LEMMA PlainKeeps ==
  ASSUME Kept, NEW id \in Ids \cup {Nothing}, NEW request \in Requests \cup {Unusable},
         NEW code \in {"invalid_request", "duplicate_conflict"}, NEW payload \in Payloads,
         Plain(Reply(id, request, code, payload))
  PROVE  Kept'
<1>. DEFINE reply == Reply(id, request, code, payload)
<1>1. reply \in Replies /\ TellsTrue(reply)
  <2>1. code \in {"ok", "invalid_request", "duplicate_conflict", "operation_failed", "outcome_unknown"}
    OBVIOUS
  <2>2. reply \in Replies BY <2>1, ReplyType
  <2>3. ~reply.acted BY DEF Reply
  <2>. QED BY <2>2, <2>3 DEF TellsTrue
<1>2. Send(reply) /\ UNCHANGED <<cache, done, live, baseline>> BY DEF Plain
<1>3. out' \in Seq(Replies) /\ Window' /\ OnceOnly' /\ ToldTrue' BY <1>1, <1>2, SendKeeps
<1>. QED BY <1>2, <1>3 DEF Kept, WorkerTypeOK

(* A reply that was remembered is told again.                               *)
LEMMA ReplayedKeeps ==
  ASSUME Kept, NEW id, NEW request, Replayed(id, request)
  PROVE  Kept'
<1>1. PICK i \in Cached(id) :
        /\ Send([cache[i] EXCEPT !.replayed = TRUE])
        /\ baseline' = Nothing /\ UNCHANGED <<cache, done, live>>
  BY DEF Replayed, Invalidated
<1>. DEFINE reply == [cache[i] EXCEPT !.replayed = TRUE]
<1>2. i \in 1..Len(cache) /\ cache[i] \in Replies /\ TellsTrue(cache[i])
  BY DEF Cached, Kept, WorkerTypeOK, ToldTrue
<1>3. reply \in Replies /\ TellsTrue(reply)
  BY <1>2 DEF Replies, TellsTrue
<1>4. out' \in Seq(Replies) /\ Window' /\ OnceOnly' /\ ToldTrue'
  BY <1>1, <1>3, SendKeeps
<1>. QED BY <1>1, <1>4 DEF Kept, WorkerTypeOK

(* A new request: whatever it is told, it is told once and truly.           *)
LEMMA NewKeeps ==
  ASSUME Kept, NEW id \in Ids, Cached(id) = {}, NEW reply \in Replies, reply.id = id,
         NEW acted \in BOOLEAN, acted => reply.code \in {"ok", "outcome_unknown"},
         Answer(reply, acted), live' \in States, baseline' \in States \cup {Nothing}
  PROVE  Kept'
BY AnswerKeeps DEF Kept, WorkerTypeOK

LEMMA TellingKeeps ==
  ASSUME Kept, NEW id \in Ids, Cached(id) = {}, NEW request \in Requests \cup {Unusable},
         NEW code \in {"ok", "invalid_request", "operation_failed", "outcome_unknown"},
         NEW payload \in Payloads, NEW acted \in BOOLEAN,
         acted => code \in {"ok", "outcome_unknown"},
         Answer(Reply(id, request, code, payload), acted),
         live' \in States, baseline' \in States \cup {Nothing}
  PROVE  Kept'
<1>1. /\ Reply(id, request, code, payload) \in Replies
      /\ Reply(id, request, code, payload).id = id
      /\ Reply(id, request, code, payload).code = code
  BY UntoldPayload DEF Reply, Replies
<1>. QED BY <1>1, NewKeeps

LEMMA CoreSaveKeeps ==
  ASSUME Kept, NEW id \in Ids, Cached(id) = {}, NEW request \in Requests \cup {Unusable},
         CoreSave(id, request)
  PROVE  Kept'
<1>1. live' \in States /\ baseline' \in States \cup {Nothing} /\ live \in Payloads
  BY StatePayload DEF CoreSave, Kept, WorkerTypeOK
<1>2. CASE \E code \in {"invalid_request", "operation_failed"} :
             Answer(Reply(id, request, Code(code, FALSE), live), FALSE)
  <2>1. PICK code \in {"invalid_request", "operation_failed"} :
          Answer(Reply(id, request, code, live), FALSE)
    BY <1>2 DEF Code
  <2>. QED BY <1>1, <2>1, TellingKeeps
<1>3. CASE Answer(Reply(id, request, "ok", Untold), TRUE)
  BY <1>1, <1>3, UntoldPayload, TellingKeeps
<1>4. CASE Unencodable(id, request, live)
  <2>1. PICK told \in Payloads : Answer(Reply(id, request, "outcome_unknown", told), TRUE)
    BY <1>1, <1>4, UntoldPayload DEF Unencodable, Code
  <2>. QED BY <1>1, <2>1, TellingKeeps
<1>. QED BY <1>2, <1>3, <1>4 DEF CoreSave, WithState

LEMMA DispatchedKeeps ==
  ASSUME Kept, NEW id \in Ids, Cached(id) = {}, NEW request \in Requests \cup {Unusable},
         Dispatched(id, request)
  PROVE  Kept'
<1>1. CASE Refused(id, request)
  <2>1. Answer(Reply(id, request, "invalid_request", live), FALSE) /\ baseline' = Nothing
        /\ live' = live
    BY <1>1 DEF Refused, Code, Invalidated
  <2>2. live \in States /\ live \in Payloads BY StatePayload DEF Kept, WorkerTypeOK
  <2>. QED BY <2>1, <2>2, TellingKeeps
<1>2. CASE Raises(id, request)
  <2>1. PICK state \in States : live' = state /\ baseline' = Nothing
          /\ \E told \in {state, Untold} :
               Answer(Reply(id, request, "operation_failed", told), FALSE)
    BY <1>2 DEF Raises, Code, Invalidated
  <2>2. PICK told \in Payloads : Answer(Reply(id, request, "operation_failed", told), FALSE)
    BY <2>1, StatePayload, UntoldPayload
  <2>. QED BY <2>1, <2>2, TellingKeeps
<1>3. CASE Observes(id, request)
  <2>1. PICK state \in States : live' = state /\ baseline' = state
          /\ Answer([Reply(id, request, "ok", Publish(baseline, state, ReplyKind(request.command)))
                       EXCEPT !.truth = state], TRUE)
    BY <1>3 DEF Observes
  <2>. DEFINE payload == Publish(baseline, state, ReplyKind(request.command))
              reply   == [Reply(id, request, "ok", payload) EXCEPT !.truth = state]
  <2>2. payload \in Payloads /\ state \in Payloads
    BY PublishPayload, StatePayload DEF Kept, WorkerTypeOK
  <2>3. Reply(id, request, "ok", payload) \in Replies
        /\ Reply(id, request, "ok", payload).id = id
        /\ Reply(id, request, "ok", payload).code = "ok"
    <3>. HIDE DEF payload
    <3>. QED BY <2>2, UntoldPayload DEF Reply, Replies
  <2>4. reply \in Replies /\ reply.id = id /\ reply.code = "ok"
    <3>. HIDE DEF payload
    <3>. QED BY <2>2, <2>3 DEF Replies
  <2>5. live' \in States /\ baseline' \in States \cup {Nothing} /\ Answer(reply, TRUE)
    BY <2>1
  <2>. HIDE DEF reply
  <2>. QED BY <2>4, <2>5, NewKeeps
<1>4. CASE Reports(id, request)
  <2>1. PICK state \in States : live' = state /\ baseline' = Nothing
          /\ \E told \in {state, Untold} : Answer(Reply(id, request, "ok", told), TRUE)
    BY <1>4 DEF Reports, Invalidated
  <2>2. PICK told \in Payloads : Answer(Reply(id, request, "ok", told), TRUE)
    BY <2>1, StatePayload, UntoldPayload
  <2>. QED BY <2>1, <2>2, TellingKeeps
<1>5. CASE Garbles(id, request)
  <2>1. PICK state \in States : live' = state /\ baseline' \in {state, Nothing}
          /\ \E told \in {state, Untold} :
               Answer(Reply(id, request, "outcome_unknown", told), TRUE)
    BY <1>5 DEF Garbles, Unencodable, Code
  <2>2. PICK told \in Payloads : Answer(Reply(id, request, "outcome_unknown", told), TRUE)
    BY <2>1, StatePayload, UntoldPayload
  <2>. QED BY <2>1, <2>2, TellingKeeps
<1>. QED BY <1>1, <1>2, <1>3, <1>4, <1>5 DEF Dispatched, ParametersRefused, WorkspaceRefused

LEMMA HandleKeeps ==
  ASSUME Kept, NEW id \in Ids \cup {Nothing}, NEW request \in Requests \cup {Unusable},
         Handle(id, request)
  PROVE  Kept'
<1>1. CASE NoIdentity(id, request)
  BY <1>1, UntoldPayload, PlainKeeps DEF NoIdentity
<1>2. CASE Replayed(id, request) BY <1>2, ReplayedKeeps
<1>3. CASE Conflicting(id, request)
  BY <1>3, UntoldPayload, PlainKeeps DEF Conflicting
<1>4. CASE id # Nothing /\ Cached(id) = {} /\ Malformed(id, request)
  <2>1. live \in Payloads BY StatePayload DEF Kept, WorkerTypeOK
  <2>. QED BY <1>4, <2>1, PlainKeeps DEF Malformed
<1>5. CASE id # Nothing /\ Cached(id) = {} /\ Hello(id, request)
  <2>1. live' \in States /\ baseline' \in States \cup {Nothing}
    BY <1>5 DEF Hello, Kept, WorkerTypeOK
  <2>. QED BY <1>5, <2>1, UntoldPayload, TellingKeeps DEF Hello
<1>6. CASE id # Nothing /\ Cached(id) = {} /\ CoreSave(id, request) BY <1>6, CoreSaveKeeps
<1>7. CASE id # Nothing /\ Cached(id) = {} /\ Dispatched(id, request) BY <1>7, DispatchedKeeps
<1>. QED BY <1>1, <1>2, <1>3, <1>4, <1>5, <1>6, <1>7 DEF Handle

--------------------------------------------------------------------------------
LEMMA InputFacts ==
  ASSUME input \in Seq(Chunk), Reading
  PROVE  /\ Head(input).line \in Lines /\ Tail(input) \in Seq(Chunk)
         /\ Skip(input) \in Seq(Chunk)
<1>1. input # <<>> BY DEF Reading
<1>2. Head(input) \in Chunk /\ Tail(input) \in Seq(Chunk) BY <1>1, HeadTailProperties
<1>3. SubSeq(input, 3, Len(input)) \in Seq(Chunk)
  <2>1. \A i \in 3..Len(input) : input[i] \in Chunk OBVIOUS
  <2>2. Len(input) \in Int OBVIOUS
  <2>. QED BY <2>1, <2>2, SubSeqProperties
<1>. QED BY <1>2, <1>3 DEF Skip, Chunk

LEMMA ChunksType ==
  ASSUME NEW line \in Lines
  PROVE  Chunks(line) \in Seq(Chunk)
<1>1. Line("garbage", Nothing, Unusable) \in Lines BY DEF Lines, Forms
<1>2. \A l \in Lines, b \in BOOLEAN : [line |-> l, ends |-> b] \in Chunk BY DEF Chunk
<1>3. CASE line.form = "long"
  <2>. DEFINE first == [line |-> line, ends |-> FALSE]
              rest  == [line |-> Line("garbage", Nothing, Unusable), ends |-> TRUE]
  <2>1. first \in Chunk /\ rest \in Chunk BY <1>1, <1>2
  <2>2. Chunks(line) = <<first, rest>> BY <1>3 DEF Chunks
  <2>. HIDE DEF first, rest
  <2>. QED BY <2>1, <2>2
<1>4. CASE line.form # "long"
  <2>. DEFINE whole == [line |-> line, ends |-> TRUE]
  <2>1. whole \in Chunk BY <1>2
  <2>2. Chunks(line) = <<whole>> BY <1>4 DEF Chunks
  <2>. HIDE DEF whole
  <2>. QED BY <2>1, <2>2
<1>. QED BY <1>3, <1>4

(* Steps that change no reply, no history and nothing remembered.           *)
LEMMA QuietKeeps ==
  ASSUME Kept, UNCHANGED <<cache, done, out, baseline>>, live' \in States
  PROVE  Kept'
BY DEF Kept, WorkerTypeOK, Window, OnceOnly, ToldTrue, TellsTrue

(* Steps of the host that take replies away.                                *)
LEMMA ReadKeeps ==
  ASSUME Kept, (out # <<>> /\ out' = Tail(out)) \/ out' = <<>>, UNCHANGED workerVars
  PROVE  Kept'
<1>1. out \in Seq(Replies) BY DEF Kept, WorkerTypeOK
<1>2. out' \in Seq(Replies) /\ \A i \in DOMAIN out' : TellsTrue(out'[i])
  <2>1. CASE out # <<>> /\ out' = Tail(out)
    <3>1. /\ Tail(out) \in Seq(Replies) /\ Len(Tail(out)) = Len(out) - 1
          /\ \A i \in 1..Len(Tail(out)) : Tail(out)[i] = out[i + 1]
      BY <1>1, <2>1, HeadTailProperties
    <3>2. \A i \in 1..Len(out) : TellsTrue(out[i]) BY <1>1 DEF Kept, ToldTrue
    <3>3. \A i \in 1..Len(Tail(out)) : i + 1 \in 1..Len(out) BY <1>1, <3>1
    <3>4. \A i \in 1..Len(Tail(out)) : TellsTrue(Tail(out)[i]) BY <3>1, <3>2, <3>3
    <3>. QED BY <2>1, <3>1, <3>4
  <2>2. CASE out' = <<>> BY <2>2
  <2>. QED BY <2>1, <2>2
<1>3. UNCHANGED <<cache, done, live, baseline>> BY DEF workerVars
<1>. QED BY <1>2, <1>3 DEF Kept, WorkerTypeOK, Window, OnceOnly, ToldTrue, TellsTrue

LEMMA InitEstablishes ==
  ASSUME Init
  PROVE  RouterInv
<1>1. live \in States BY DEF Init, States
<1>2. cache = <<>> /\ done = <<>> /\ out = <<>> /\ input = <<>> /\ baseline = Nothing BY DEF Init
<1>3. WorkerTypeOK BY <1>1, <1>2 DEF WorkerTypeOK
<1>4. Window BY <1>2, RouterAssumption DEF Window
<1>5. OnceOnly /\ ToldTrue BY <1>2 DEF OnceOnly, ToldTrue
<1>. QED BY <1>2, <1>3, <1>4, <1>5 DEF RouterInv, Kept

LEMMA NextKeeps ==
  ASSUME RouterInv, [Next]_vars
  PROVE  RouterInv'
<1>1. input \in Seq(Chunk) /\ Kept BY DEF RouterInv
<1>2. CASE \E line \in Lines : HostWrites(line)
  <2>1. PICK line \in Lines : HostWrites(line) BY <1>2
  <2>2. input' = input \o Chunks(line) /\ UNCHANGED <<out, workerVars>> BY <2>1 DEF HostWrites
  <2>3. input' \in Seq(Chunk) BY <1>1, <2>2, ChunksType, ConcatProperties
  <2>4. Kept' BY <1>1, <2>2, QuietKeeps DEF workerVars, Kept, WorkerTypeOK
  <2>. QED BY <2>3, <2>4 DEF RouterInv
<1>3. CASE HostReads
  <2>1. /\ (out # <<>> /\ out' = Tail(out)) \/ out' = <<>>
        /\ UNCHANGED input /\ UNCHANGED workerVars
    BY <1>3 DEF HostReads
  <2>. QED BY <1>1, <2>1, ReadKeeps DEF RouterInv
<1>4. CASE HostCloses
  <2>1. out' = <<>> /\ UNCHANGED input /\ UNCHANGED workerVars BY <1>4 DEF HostCloses
  <2>. QED BY <1>1, <2>1, ReadKeeps DEF RouterInv
<1>5. CASE RefuseLong
  <2>1. Reading /\ input' = Skip(input)
        /\ Plain(Reply(Nothing, Unusable, "invalid_request", Untold))
    BY <1>5 DEF RefuseLong
  <2>. QED BY <1>1, <2>1, InputFacts, UntoldPayload, PlainKeeps DEF RouterInv
<1>6. CASE RefuseUndecodable
  <2>1. PICK id \in Ids \cup {Nothing} :
          Reading /\ input' = Tail(input)
          /\ Plain(Reply(id, Unusable, "invalid_request", Untold))
    BY <1>1, <1>6, InputFacts, LineType DEF RefuseUndecodable
  <2>. QED BY <1>1, <2>1, InputFacts, UntoldPayload, PlainKeeps DEF RouterInv
<1>7. CASE Serve
  <2>1. Reading /\ input' = Tail(input) /\ Handle(Head(input).line.id, Head(input).line.request)
    BY <1>7 DEF Serve
  <2>2. Head(input).line \in Lines /\ Tail(input) \in Seq(Chunk) BY <1>1, <2>1, InputFacts
  <2>. QED BY <1>1, <2>1, <2>2, LineType, HandleKeeps DEF RouterInv
<1>8. CASE Interrupted
  <2>1. UNCHANGED <<input, cache, done, out, baseline>> BY <1>8 DEF Interrupted
  <2>2. live' \in States BY <1>1, <1>8 DEF Interrupted, Kept, WorkerTypeOK
  <2>. QED BY <1>1, <2>1, <2>2, QuietKeeps DEF RouterInv
<1>9. CASE EndOfInput
  <2>1. UNCHANGED <<input, cache, done, live, out, baseline>> BY <1>9 DEF EndOfInput
  <2>. QED BY <1>1, <2>1, QuietKeeps DEF RouterInv, Kept, WorkerTypeOK
<1>10. CASE UNCHANGED vars
  <2>1. UNCHANGED <<input, cache, done, live, out, baseline>> BY <1>10 DEF vars, workerVars
  <2>. QED BY <1>1, <2>1, QuietKeeps DEF RouterInv, Kept, WorkerTypeOK
<1>. QED BY <1>2, <1>3, <1>4, <1>5, <1>6, <1>7, <1>8, <1>9, <1>10 DEF Next

LEMMA Invariance == Spec => []RouterInv
<1>1. Init => RouterInv BY InitEstablishes
<1>2. RouterInv /\ [Next]_vars => RouterInv' BY NextKeeps
<1>. QED BY <1>1, <1>2, PTL DEF Spec

(* A request written again acts again only when the cache has let it go:    *)
(* JsonlRequestRouter.cache, for every size and every order of requests.    *)
THEOREM DoneOnceOnly == Spec => []OnceOnly
<1>1. RouterInv => OnceOnly BY DEF RouterInv, Kept
<1>. QED BY <1>1, Invariance, PTL

(* What has been done is never told as a plain failure, neither at once nor *)
(* when its reply is repeated from the cache.                               *)
THEOREM DoneIsTold == Spec => []ToldTrue
<1>1. RouterInv => ToldTrue BY DEF RouterInv, Kept
<1>. QED BY <1>1, Invariance, PTL

--------------------------------------------------------------------------------
(* Replies in order. A long line is returned in two pieces, all others in   *)
(* one; "at" says where in the input the first piece of an owed line lies.  *)
Pieces(line) == IF line.form = "long" THEN 2 ELSE 1

Laid(at) ==
  /\ at[Len(out) + 1] = 1 /\ at[Len(owed) + 1] = Len(input) + 1
  /\ \A k \in (Len(out) + 1)..Len(owed) :
       /\ at[k] \in 1..Len(input)
       /\ input[at[k]].line = owed[k]
       /\ input[at[k]].ends = (owed[k].form # "long")
       /\ at[k + 1] = at[k] + Pieces(owed[k])
       /\ \A j \in (k + 1)..(Len(owed) + 1) : at[k] + Pieces(owed[k]) <= at[j]

(* The replies the host has not read answer the oldest lines it is owed,    *)
(* and the lines after those are the ones that wait in the input.           *)
Matched ==
  hostOpen =>
    /\ Len(out) <= Len(owed)
    /\ \A i \in 1..Len(out) : out[i].id = Answerable(owed[i])
    /\ \E at \in [1..(Len(owed) + 1) -> Int] : Laid(at)

OrderInv == owed \in Seq(Lines) /\ Matched

(* The state the host has been told. "shown" is what it shows after each of *)
(* the replies it has not read.                                             *)
Shows == [Fields -> Values \cup {Nothing}]

After(shown, reply) == IF CoreOwned(reply) THEN shown ELSE Merge(shown, reply.payload)

Agrees(shown, state) == \A k \in Fields : shown[k] = state[k]

(* The reply to a runtime command, read in its turn.                        *)
Truthful(shown, reply) ==
  reply.truth # Untold /\ ~reply.replayed =>
    /\ Agrees(shown, reply.truth)
    /\ DOMAIN reply.truth \cap Receipts \subseteq DOMAIN reply.payload

(* None of the first n replies stops the host.                              *)
GoesOn(n) == \A i \in 1..n : ~Terminal(out[i])

Shown(shown) ==
  /\ shown[0] = view
  /\ \A i \in 1..Len(out) :
       /\ shown[i] = After(shown[i - 1], out[i])
       /\ GoesOn(i - 1) => Truthful(shown[i], out[i])
  /\ GoesOn(Len(out)) /\ baseline # Nothing => Agrees(shown[Len(out)], baseline)

ViewInv ==
  /\ view \in Shows
  /\ worker = "serving" /\ baseline # Nothing => baseline = live
  /\ hostOpen => \E shown \in [0..Len(out) -> Shows] : Shown(shown)

(* A reply that tells the truth to a host that shows the baseline.          *)
Right(reply) ==
  \A shown \in Shows :
    (baseline # Nothing => Agrees(shown, baseline)) =>
      /\ Truthful(After(shown, reply), reply)
      /\ ~Terminal(reply) /\ baseline' # Nothing => Agrees(After(shown, reply), baseline')

--------------------------------------------------------------------------------
(* What a reply does to what the host shows.                                *)
LEMMA AfterType ==
  ASSUME NEW shown \in Shows, NEW reply \in Replies
  PROVE  After(shown, reply) \in Shows
<1>1. PICK told \in SUBSET (Fields \cup Receipts) : reply.payload \in [told -> Values \cup {Nothing}]
  BY DEF Replies, Payloads
<1>. QED BY <1>1 DEF After, Merge, Shows

LEMMA StateShows ==
  ASSUME NEW state \in States, NEW shown
  PROVE  Agrees(Merge(shown, state), state)
BY DEF States, Agrees, Merge

LEMMA UntoldShows ==
  ASSUME NEW shown \in Shows
  PROVE  Merge(shown, Untold) = shown
BY DEF Merge, Untold, Shows

(* Publish, applied to what the host shows, gives the new state.            *)
LEMMA PublishShows ==
  ASSUME NEW previous \in States \cup {Nothing}, NEW state \in States, NEW kind,
         NEW shown \in Shows, previous # Nothing => Agrees(shown, previous)
  PROVE  /\ Agrees(Merge(shown, Publish(previous, state, kind)), state)
         /\ DOMAIN state \cap Receipts \subseteq DOMAIN Publish(previous, state, kind)
<1>1. CASE kind = "snapshot" \/ previous = Nothing
  BY <1>1, StateShows DEF Publish
<1>2. CASE ~(kind = "snapshot" \/ previous = Nothing)
  <2>. DEFINE told == {k \in DOMAIN state : k \in DOMAIN previous => previous[k] # state[k] \/ k \in Receipts}
              all == told \cup (DOMAIN previous \ DOMAIN state)
              payload == Publish(previous, state, kind)
  <2>1. previous \in States BY <1>2
  <2>2. payload = [k \in all |-> IF k \in DOMAIN state THEN state[k] ELSE Nothing]
    BY <1>2 DEF Publish, Changes
  <2>3. Fields \subseteq DOMAIN state /\ Fields \subseteq DOMAIN previous BY <2>1 DEF States
  <2>4. DOMAIN state \cap Receipts \subseteq all OBVIOUS
  <2>5. \A k \in Fields : Merge(shown, payload)[k] = state[k]
    <3>1. TAKE k \in Fields
    <3>2. Merge(shown, payload)[k] = IF k \in DOMAIN payload THEN payload[k] ELSE shown[k]
      BY DEF Merge
    <3>3. CASE k \in all
      <4>1. k \in DOMAIN payload /\ payload[k] = state[k] BY <2>2, <2>3, <3>3
      <4>. HIDE DEF payload
      <4>. QED BY <3>2, <4>1
    <3>4. CASE k \notin all
      <4>1. k \notin DOMAIN payload BY <2>2, <3>4
      <4>2. previous[k] = state[k] BY <2>3, <3>4
      <4>3. shown[k] = previous[k] BY <1>2 DEF Agrees
      <4>. HIDE DEF payload
      <4>. QED BY <3>2, <4>1, <4>2, <4>3
    <3>. QED BY <3>3, <3>4
  <2>6. DOMAIN payload = all BY <2>2
  <2>. QED BY <2>4, <2>5, <2>6 DEF Agrees
<1>. QED BY <1>1, <1>2

(* A reply without a payload leaves the host with what it shows.            *)
LEMMA UntoldRight ==
  ASSUME NEW reply, reply.payload = Untold, reply.truth = Untold, baseline' = baseline
  PROVE  Right(reply)
<1>1. SUFFICES ASSUME NEW shown \in Shows, baseline # Nothing => Agrees(shown, baseline)
               PROVE  Agrees(After(shown, reply), baseline) \/ baseline = Nothing
  BY DEF Right, Truthful
<1>2. After(shown, reply) = shown BY UntoldShows DEF After
<1>. QED BY <1>1, <1>2

(* A reply after which the whole state is told next.                        *)
LEMMA ForgottenRight ==
  ASSUME NEW reply, reply.truth = Untold \/ reply.replayed = TRUE,
         baseline' = Nothing \/ Terminal(reply)
  PROVE  Right(reply)
BY DEF Right, Truthful

(* A reply about the Core saves: the host's fields are not its concern.     *)
LEMMA CoreRight ==
  ASSUME NEW reply, reply.truth = Untold, CoreOwned(reply), baseline' = baseline
  PROVE  Right(reply)
BY DEF Right, Truthful, After

--------------------------------------------------------------------------------
(* Whatever a request's fate, it gets one reply, with its identity, that    *)
(* tells the truth.                                                         *)
Told(id) == \E reply \in Replies : reply.id = id /\ Send(reply) /\ Right(reply)

Fresh == baseline' # Nothing => baseline' = live'

LEMMA AnswerTold ==
  ASSUME NEW reply \in Replies, NEW acted \in BOOLEAN, Answer(reply, acted),
         Right([reply EXCEPT !.acted = acted])
  PROVE  Told(reply.id)
<1>1. [reply EXCEPT !.acted = acted] \in Replies /\ [reply EXCEPT !.acted = acted].id = reply.id
  BY DEF Replies
<1>. QED BY <1>1 DEF Told, Answer

(* An answer that carries no truth.                                         *)
LEMMA AnswerQuiet ==
  ASSUME NEW id \in Ids, NEW request \in Requests \cup {Unusable},
         NEW code \in {"ok", "invalid_request", "operation_failed", "outcome_unknown"},
         NEW payload \in Payloads, NEW acted \in BOOLEAN,
         Answer(Reply(id, request, code, payload), acted),
         \/ payload = Untold /\ baseline' = baseline
         \/ request.command \in CoreSaveCommands /\ baseline' = baseline
         \/ baseline' = Nothing
         \/ code = "outcome_unknown"
  PROVE  Told(id)
<1>. DEFINE reply == Reply(id, request, code, payload)
            told  == [reply EXCEPT !.acted = acted]
<1>1. reply \in Replies /\ reply.id = id
  BY UntoldPayload DEF Reply, Replies
<1>2. told.payload = payload /\ told.request = request /\ told.code = code /\ told.truth = Untold
  BY DEF Reply
<1>3. Answer(reply, acted) OBVIOUS
<1>. HIDE DEF reply
<1>4. Right(told)
  <2>. HIDE DEF told
  <2>1. CASE payload = Untold /\ baseline' = baseline BY <1>2, <2>1, UntoldRight
  <2>2. CASE request.command \in CoreSaveCommands /\ baseline' = baseline
    BY <1>2, <2>2, CoreRight DEF CoreOwned
  <2>3. CASE baseline' = Nothing BY <1>2, <2>3, ForgottenRight
  <2>4. CASE code = "outcome_unknown" BY <1>2, <2>4, ForgottenRight DEF Terminal
  <2>. QED BY <2>1, <2>2, <2>3, <2>4
<1>. QED BY <1>1, <1>3, <1>4, AnswerTold

LEMMA PlainTold ==
  ASSUME NEW id \in Ids \cup {Nothing}, NEW request \in Requests \cup {Unusable},
         NEW code \in {"invalid_request", "duplicate_conflict"},
         Plain(Reply(id, request, code, Untold))
  PROVE  Told(id)
<1>. DEFINE reply == Reply(id, request, code, Untold)
<1>1. reply \in Replies /\ reply.id = id BY UntoldPayload DEF Reply, Replies
<1>2. reply.payload = Untold /\ reply.truth = Untold BY DEF Reply
<1>3. Send(reply) /\ baseline' = baseline BY DEF Plain
<1>. HIDE DEF reply
<1>. QED BY <1>1, <1>2, <1>3, UntoldRight DEF Told

(* The whole state is told, and it is the baseline when there is one.       *)
LEMMA MalformedTold ==
  ASSUME Kept, baseline # Nothing => baseline = live,
         NEW id \in Ids, NEW request \in Requests \cup {Unusable}, Malformed(id, request)
  PROVE  Told(id)
<1>. DEFINE reply == Reply(id, request, "invalid_request", live)
<1>1. live \in States /\ live \in Payloads BY StatePayload DEF Kept, WorkerTypeOK
<1>2. reply \in Replies /\ reply.id = id BY <1>1, UntoldPayload DEF Reply, Replies
<1>3. reply.payload = live /\ reply.truth = Untold /\ reply.request = Unusable
  BY DEF Malformed, Reply
<1>4. Send(reply) /\ baseline' = baseline BY DEF Malformed, Plain
<1>. HIDE DEF reply
<1>5. ~CoreOwned(reply) BY <1>3 DEF CoreOwned, CoreSaveCommands, Unusable
<1>6. Right(reply)
  <2>1. SUFFICES ASSUME NEW shown \in Shows, baseline # Nothing
                 PROVE  Agrees(After(shown, reply), baseline)
    BY <1>3, <1>4 DEF Right, Truthful
  <2>2. After(shown, reply) = Merge(shown, live) BY <1>3, <1>5 DEF After
  <2>. QED BY <1>1, <2>1, <2>2, StateShows
<1>. QED BY <1>2, <1>4, <1>6 DEF Told

LEMMA ObservesTold ==
  ASSUME Kept, NEW id \in Ids, NEW request \in Requests \cup {Unusable},
         request.command \in SnapshotCommands \cup PatchCommands \cup IndependentCommands,
         Observes(id, request)
  PROVE  Told(id) /\ Fresh
<1>1. PICK state \in States : live' = state /\ baseline' = state
        /\ Answer([Reply(id, request, "ok", Publish(baseline, state, ReplyKind(request.command)))
                     EXCEPT !.truth = state], TRUE)
  BY DEF Observes
<1>. DEFINE payload == Publish(baseline, state, ReplyKind(request.command))
            plain   == Reply(id, request, "ok", payload)
            reply   == [plain EXCEPT !.truth = state]
            told    == [reply EXCEPT !.acted = TRUE]
<1>2. payload \in Payloads /\ state \in Payloads /\ baseline \in States \cup {Nothing}
  BY PublishPayload, StatePayload DEF Kept, WorkerTypeOK
<1>3. plain \in Replies
  <2>. HIDE DEF payload
  <2>. QED BY <1>2, UntoldPayload DEF Reply, Replies
<1>4. plain.id = id /\ plain.request = request /\ plain.payload = payload /\ plain.code = "ok"
  <2>. HIDE DEF payload
  <2>. QED BY DEF Reply
<1>5. reply \in Replies /\ reply.id = id /\ reply.request = request /\ reply.payload = payload
      /\ reply.truth = state
  <2>. HIDE DEF payload, plain
  <2>. QED BY <1>2, <1>3, <1>4 DEF Replies
<1>6. told.request = request /\ told.payload = payload /\ told.truth = state
  <2>. HIDE DEF payload, reply
  <2>. QED BY <1>5 DEF Replies
<1>7. ~CoreOwned(told)
  <2>. HIDE DEF told
  <2>1. request.command \notin CoreSaveCommands
    BY DEF SnapshotCommands, PatchCommands, IndependentCommands, CoreSaveCommands
  <2>. QED BY <1>6, <2>1 DEF CoreOwned
<1>8. Right(told)
  <2>1. SUFFICES ASSUME NEW shown \in Shows, baseline # Nothing => Agrees(shown, baseline)
                 PROVE  /\ Truthful(After(shown, told), told)
                        /\ Agrees(After(shown, told), state)
    BY <1>1 DEF Right
  <2>2. After(shown, told) = Merge(shown, payload)
    <3>. HIDE DEF told, payload
    <3>. QED BY <1>6, <1>7 DEF After
  <2>3. Agrees(Merge(shown, payload), state) /\ DOMAIN state \cap Receipts \subseteq DOMAIN payload
    BY <1>2, <2>1, PublishShows
  <2>. HIDE DEF told, payload
  <2>. QED BY <1>6, <2>2, <2>3 DEF Truthful
<1>9. Answer(reply, TRUE) BY <1>1
<1>10. Told(id)
  <2>. HIDE DEF reply
  <2>. QED BY <1>5, <1>8, <1>9, AnswerTold
<1>. QED BY <1>1, <1>10 DEF Fresh

LEMMA DispatchedTold ==
  ASSUME Kept, NEW id \in Ids, NEW request \in Requests \cup {Unusable},
         Dispatched(id, request)
  PROVE  Told(id) /\ Fresh
<1>1. CASE Refused(id, request)
  <2>1. Answer(Reply(id, request, "invalid_request", live), FALSE) /\ baseline' = Nothing
    BY <1>1 DEF Refused, Code, Invalidated
  <2>2. live \in Payloads BY StatePayload DEF Kept, WorkerTypeOK
  <2>. QED BY <2>1, <2>2, AnswerQuiet DEF Fresh
<1>2. CASE Raises(id, request)
  <2>1. PICK told \in Payloads :
          Answer(Reply(id, request, "operation_failed", told), FALSE) /\ baseline' = Nothing
    BY <1>2, StatePayload, UntoldPayload DEF Raises, Code, Invalidated
  <2>. QED BY <2>1, AnswerQuiet DEF Fresh
<1>3. CASE Observes(id, request) BY <1>3, ObservesTold DEF Dispatched
<1>4. CASE Reports(id, request)
  <2>1. PICK told \in Payloads : Answer(Reply(id, request, "ok", told), TRUE) /\ baseline' = Nothing
    BY <1>4, StatePayload, UntoldPayload DEF Reports, Invalidated
  <2>. QED BY <2>1, AnswerQuiet DEF Fresh
<1>5. CASE Garbles(id, request)
  <2>1. PICK told \in Payloads : Answer(Reply(id, request, "outcome_unknown", told), TRUE)
    BY <1>5, StatePayload, UntoldPayload DEF Garbles, Unencodable, Code
  <2>2. baseline' # Nothing => baseline' = live' BY <1>5 DEF Garbles
  <2>. QED BY <2>1, <2>2, AnswerQuiet DEF Fresh
<1>. QED BY <1>1, <1>2, <1>3, <1>4, <1>5 DEF Dispatched, ParametersRefused, WorkspaceRefused

LEMMA CoreSaveTold ==
  ASSUME Kept, NEW id \in Ids, NEW request \in Requests \cup {Unusable}, CoreSave(id, request)
  PROVE  Told(id)
<1>1. baseline' = baseline /\ request.command \in CoreSaveCommands BY DEF CoreSave
<1>2. PICK code \in {"ok", "invalid_request", "operation_failed", "outcome_unknown"},
           payload \in Payloads, acted \in BOOLEAN :
             Answer(Reply(id, request, code, payload), acted)
  BY StatePayload, UntoldPayload DEF CoreSave, WithState, Unencodable, Code, Kept, WorkerTypeOK
<1>. QED BY <1>1, <1>2, AnswerQuiet

LEMMA ReplayedTold ==
  ASSUME Kept, NEW id, NEW request, Replayed(id, request)
  PROVE  Told(id) /\ Fresh
<1>1. PICK i \in Cached(id) :
        Send([cache[i] EXCEPT !.replayed = TRUE]) /\ baseline' = Nothing
  BY DEF Replayed, Invalidated
<1>2. cache[i] \in Replies /\ cache[i].id = id BY DEF Cached, Kept, WorkerTypeOK
<1>. DEFINE reply == [cache[i] EXCEPT !.replayed = TRUE]
<1>3. reply \in Replies /\ reply.id = id /\ reply.replayed = TRUE BY <1>2 DEF Replies
<1>4. Send(reply) BY <1>1
<1>. HIDE DEF reply
<1>5. Right(reply) BY <1>1, <1>3, ForgottenRight
<1>. QED BY <1>1, <1>3, <1>4, <1>5 DEF Told, Fresh

LEMMA HandleTold ==
  ASSUME Kept, baseline # Nothing => baseline = live,
         NEW id \in Ids \cup {Nothing}, NEW request \in Requests \cup {Unusable},
         Handle(id, request)
  PROVE  Told(id) /\ Fresh
<1>0. live' = live /\ baseline' = baseline => Fresh BY DEF Fresh
<1>1. CASE NoIdentity(id, request)
  BY <1>0, <1>1, PlainTold DEF NoIdentity, Plain
<1>2. CASE Replayed(id, request) BY <1>2, ReplayedTold
<1>3. CASE Conflicting(id, request)
  BY <1>0, <1>3, PlainTold DEF Conflicting, Plain
<1>4. CASE id # Nothing /\ Malformed(id, request)
  BY <1>0, <1>4, MalformedTold DEF Malformed, Plain
<1>5. CASE id # Nothing /\ Hello(id, request)
  <2>1. Answer(Reply(id, request, "ok", Untold), FALSE) /\ live' = live /\ baseline' = baseline
    BY <1>5 DEF Hello
  <2>. QED BY <1>0, <1>5, <2>1, UntoldPayload, AnswerQuiet
<1>6. CASE id # Nothing /\ CoreSave(id, request)
  BY <1>0, <1>6, CoreSaveTold DEF CoreSave
<1>7. CASE id # Nothing /\ Dispatched(id, request) BY <1>7, DispatchedTold
<1>. QED BY <1>1, <1>2, <1>3, <1>4, <1>5, <1>6, <1>7 DEF Handle

--------------------------------------------------------------------------------
(* A reply that is sent is read after those that wait already.              *)
LEMMA SendShows ==
  ASSUME RouterInv, ViewInv, hostOpen' = hostOpen, view' = view,
         NEW id \in Ids \cup {Nothing}, Told(id)
  PROVE  hostOpen' => (\E shown \in [0..Len(out) -> Shows] : Shown(shown))'
<1>1. SUFFICES ASSUME hostOpen
               PROVE  \E shown \in [0..Len(out') -> Shows] : Shown(shown)'
  OBVIOUS
<1>2. PICK reply \in Replies : reply.id = id /\ Send(reply) /\ Right(reply) BY DEF Told
<1>3. out \in Seq(Replies) BY DEF RouterInv, Kept, WorkerTypeOK
<1>4. /\ out' \in Seq(Replies) /\ Len(out') = Len(out) + 1 /\ out'[Len(out) + 1] = reply
      /\ \A i \in 1..Len(out) : out'[i] = out[i]
  BY <1>1, <1>2, <1>3 DEF Send
<1>5. PICK old \in [0..Len(out) -> Shows] : Shown(old) BY <1>1 DEF ViewInv
<1>0. PICK n \in Nat : n = Len(out) BY <1>3
<1>. DEFINE last == After(old[n], reply)
<1>6. n = Len(out) /\ old[n] \in Shows /\ last \in Shows BY <1>0, AfterType
<1>a. PICK shown : shown = [i \in 0..(n + 1) |-> IF i = n + 1 THEN last ELSE old[i]] OBVIOUS
<1>7. shown \in [0..Len(out') -> Shows] BY <1>a, <1>4, <1>5, <1>6
<1>8. /\ \A i \in 0..n : shown[i] = old[i]
      /\ shown[n + 1] = last
  BY <1>a
<1>9. \A m \in 0..n : GoesOn(m)' <=> GoesOn(m)
  BY <1>3, <1>4, <1>6 DEF GoesOn
<1>10. shown[0] = view' BY <1>5, <1>6, <1>8 DEF Shown
<1>11. \A i \in 1..n : /\ shown[i] = After(shown[i - 1], out'[i])
                       /\ GoesOn(i - 1)' => Truthful(shown[i], out'[i])
  <2>1. TAKE i \in 1..n
  <2>2. i \in 0..n /\ i - 1 \in 0..n BY <1>6
  <2>3. old[i] = After(old[i - 1], out[i]) /\ (GoesOn(i - 1) => Truthful(old[i], out[i]))
    BY <1>5, <1>6 DEF Shown
  <2>4. shown[i] = old[i] /\ shown[i - 1] = old[i - 1] BY <1>8, <2>2
  <2>6. out'[i] = out[i] BY <1>4, <1>6
  <2>5. GoesOn(i - 1)' <=> GoesOn(i - 1) BY <1>9, <2>2
  <2>. QED BY <2>3, <2>4, <2>5, <2>6
<1>12. /\ shown[n + 1] = After(shown[n], out'[n + 1])
       /\ GoesOn(n)' => Truthful(shown[n + 1], out'[n + 1])
       /\ GoesOn(n + 1)' /\ baseline' # Nothing => Agrees(shown[n + 1], baseline')
  <2>1. shown[n] = old[n] /\ n + 1 - 1 = n /\ n \in 0..n BY <1>6, <1>8
  <2>8. out'[n + 1] = reply BY <1>4, <1>6
  <2>9. shown[n + 1] = After(old[n], reply) BY <1>8
  <2>2. shown[n + 1] = After(shown[n], out'[n + 1]) BY <2>1, <2>8, <2>9
  <2>3. GoesOn(n) /\ baseline # Nothing => Agrees(old[n], baseline) BY <1>5, <1>6 DEF Shown
  <2>4. GoesOn(n)' => GoesOn(n) BY <1>9, <2>1
  <2>5. GoesOn(n)' => Truthful(last, reply) BY <1>2, <1>6, <2>3, <2>4 DEF Right
  <2>6. GoesOn(n + 1)' => GoesOn(n)' /\ ~Terminal(reply)
    BY <1>4, <1>6 DEF GoesOn
  <2>7. GoesOn(n + 1)' /\ baseline' # Nothing => Agrees(last, baseline')
    BY <1>2, <1>6, <2>3, <2>4, <2>6 DEF Right
  <2>. QED BY <1>4, <1>8, <2>2, <2>5, <2>7
<1>13. \A i \in 1..(n + 1) : /\ shown[i] = After(shown[i - 1], out'[i])
                             /\ GoesOn(i - 1)' => Truthful(shown[i], out'[i])
  <2>1. TAKE i \in 1..(n + 1)
  <2>2. CASE i \in 1..n BY <2>2, <1>11
  <2>3. CASE i = n + 1
    <3>1. i - 1 = n BY <2>3, <1>6
    <3>. QED BY <2>3, <3>1, <1>12
  <2>. QED BY <2>2, <2>3, <1>6
<1>14. Shown(shown)'
  <2>1. Len(out') = n + 1 BY <1>4, <1>6
  <2>. QED BY <1>10, <1>12, <1>13, <2>1 DEF Shown
<1>. QED BY <1>7, <1>14

(* The oldest waiting piece is the first of the oldest unanswered line.     *)
LEMMA OldestWaiting ==
  ASSUME input \in Seq(Chunk), out \in Seq(Replies), owed \in Seq(Lines), Matched, hostOpen,
         input # <<>>
  PROVE  /\ Len(out) + 1 \in 1..Len(owed)
         /\ Head(input).line = owed[Len(out) + 1]
         /\ Head(input).ends = (owed[Len(out) + 1].form # "long")
<1>1. PICK at \in [1..(Len(owed) + 1) -> Int] : Laid(at) BY DEF Matched
<1>2. Len(out) \in Nat /\ Len(owed) \in Nat /\ Len(input) \in Nat \ {0} /\ Len(out) <= Len(owed)
  BY DEF Matched
<1>3. Len(out) # Len(owed)
  <2>1. SUFFICES ASSUME Len(out) = Len(owed) PROVE FALSE OBVIOUS
  <2>2. 1 = Len(input) + 1 BY <1>1, <2>1 DEF Laid
  <2>. QED BY <1>2, <2>2
<1>4. Len(out) + 1 \in 1..Len(owed) /\ Len(out) + 1 \in (Len(out) + 1)..Len(owed) BY <1>2, <1>3
<1>5. at[Len(out) + 1] = 1 BY <1>1 DEF Laid
<1>6. input[1].line = owed[Len(out) + 1] /\ input[1].ends = (owed[Len(out) + 1].form # "long")
  BY <1>1, <1>4, <1>5 DEF Laid
<1>. QED BY <1>4, <1>6

(* The oldest waiting line is taken from the input and answered.            *)
LEMMA AnsweredNext ==
  ASSUME RouterInv, OrderInv, RouterInv', UNCHANGED <<hostOpen, owed>>, input # <<>>,
         hostOpen => Told(Answerable(owed[Len(out) + 1])),
         hostOpen => input' = SubSeq(input, Pieces(owed[Len(out) + 1]) + 1, Len(input))
  PROVE  OrderInv'
<1>. DEFINE n == Len(out)
            m == Len(owed)
            p == Pieces(owed[n + 1])
<1>1. input \in Seq(Chunk) /\ out \in Seq(Replies) /\ owed \in Seq(Lines) /\ Matched
  BY DEF RouterInv, Kept, WorkerTypeOK, OrderInv
<1>2. SUFFICES ASSUME hostOpen PROVE Matched' BY DEF OrderInv, Matched
<1>3. n + 1 \in 1..m BY <1>1, <1>2, OldestWaiting
<1>4. PICK reply \in Replies : reply.id = Answerable(owed[n + 1]) /\ Send(reply) BY <1>2 DEF Told
<1>5. /\ Len(out') = n + 1 /\ out'[n + 1] = reply
      /\ \A i \in 1..n : out'[i] = out[i]
  BY <1>1, <1>2, <1>4 DEF Send
<1>6. PICK at \in [1..(m + 1) -> Int] : Laid(at) BY <1>1, <1>2 DEF Matched
<1>7. n \in Nat /\ m \in Nat /\ Len(input) \in Nat /\ p \in {1, 2} BY <1>1 DEF Pieces
<1>8. /\ at[n + 1] = 1 /\ at[m + 1] = Len(input) + 1
      /\ at[n + 2] = p + 1
      /\ \A j \in (n + 2)..(m + 1) : 1 + p <= at[j] /\ at[j] \in Int
  <2>1. n + 1 \in (n + 1)..m BY <1>3, <1>7
  <2>2. at[n + 1] = 1 /\ at[m + 1] = Len(input) + 1 BY <1>6 DEF Laid
  <2>3. at[n + 1 + 1] = at[n + 1] + p
        /\ \A j \in (n + 1 + 1)..(m + 1) : at[n + 1] + p <= at[j]
    BY <1>6, <2>1 DEF Laid
  <2>4. n + 1 + 1 = n + 2 BY <1>7
  <2>5. \A j \in (n + 2)..(m + 1) : at[j] \in Int BY <1>6, <1>7
  <2>. HIDE DEF p, n, m
  <2>. QED BY <2>2, <2>3, <2>4, <2>5, <1>7
<1>9. /\ Len(input') = Len(input) - p
      /\ \A i \in 1..Len(input') : input'[i] = input[i + p]
  <2>1. Len(input) + 1 >= 1 + p
    <3>1. m + 1 \in (n + 2)..(m + 1) BY <1>3, <1>7
    <3>. HIDE DEF p, n, m
    <3>. QED BY <1>8, <3>1
  <2>2. input' = SubSeq(input, p + 1, Len(input)) BY <1>2
  <2>. HIDE DEF p
  <2>. QED BY <2>1, <2>2, <1>1, <1>7
<1>a. PICK shifted : shifted = [k \in 1..(m + 1) |-> at[k] - p] OBVIOUS
<1>10. shifted \in [1..(Len(owed') + 1) -> Int]
  <2>. HIDE DEF p
  <2>. QED BY <1>a, <1>6, <1>7
<1>11. \A k \in 1..(m + 1) : shifted[k] = at[k] - p BY <1>a
<1>. HIDE DEF p
<1>12. shifted[Len(out') + 1] = 1 /\ shifted[Len(owed') + 1] = Len(input') + 1
  <2>1. Len(out') + 1 = n + 2 /\ n + 2 \in 1..(m + 1) /\ m + 1 \in 1..(m + 1) BY <1>3, <1>5, <1>7
  <2>2. shifted[n + 2] = at[n + 2] - p /\ shifted[m + 1] = at[m + 1] - p BY <1>11, <2>1
  <2>. HIDE DEF n, m
  <2>3. shifted[n + 2] = 1 BY <2>2, <1>7, <1>8
  <2>4. shifted[m + 1] = Len(input') + 1 BY <2>2, <1>7, <1>8, <1>9
  <2>. QED BY <2>1, <2>3, <2>4 DEF m
<1>13. ASSUME NEW k \in (n + 2)..m
       PROVE  /\ shifted[k] \in 1..Len(input')
              /\ input'[shifted[k]].line = owed[k]
              /\ input'[shifted[k]].ends = (owed[k].form # "long")
              /\ shifted[k + 1] = shifted[k] + Pieces(owed[k])
              /\ \A j \in (k + 1)..(m + 1) : shifted[k] + Pieces(owed[k]) <= shifted[j]
  <2>. HIDE DEF n, m
  <2>1. k \in (n + 1)..m /\ k \in (n + 2)..(m + 1) /\ k \in 1..(m + 1) /\ k + 1 \in 1..(m + 1)
    BY <1>7
  <2>2. /\ at[k] \in 1..Len(input)
        /\ input[at[k]].line = owed[k]
        /\ input[at[k]].ends = (owed[k].form # "long")
        /\ at[k + 1] = at[k] + Pieces(owed[k])
        /\ \A j \in (k + 1)..(m + 1) : at[k] + Pieces(owed[k]) <= at[j]
    BY <1>6, <2>1 DEF Laid, n, m
  <2>3. shifted[k] = at[k] - p /\ shifted[k + 1] = at[k + 1] - p BY <1>11, <2>1
  <2>4. 1 + p <= at[k] /\ at[k] \in Int BY <1>8, <2>1
  <2>5. shifted[k] \in 1..Len(input')
    <3>1. at[k] - p \in 1..(Len(input) - p)
      <4>1. at[k] \in Int /\ 1 + p <= at[k] /\ at[k] <= Len(input) BY <2>2, <2>4
      <4>. QED BY <4>1, <1>7
    <3>2. Len(input') = Len(input) - p BY <1>9
    <3>. QED BY <3>1, <3>2, <2>3
  <2>6. input'[shifted[k]] = input[at[k]]
    <3>1. shifted[k] + p = at[k] BY <2>3, <2>4, <1>7
    <3>. QED BY <2>5, <3>1, <1>9
  <2>7. Pieces(owed[k]) \in Nat BY DEF Pieces
  <2>8. shifted[k + 1] = shifted[k] + Pieces(owed[k]) BY <2>2, <2>3, <2>4, <2>7, <1>7
  <2>9. \A j \in (k + 1)..(m + 1) : shifted[k] + Pieces(owed[k]) <= shifted[j]
    <3>1. TAKE j \in (k + 1)..(m + 1)
    <3>2. j \in 1..(m + 1) /\ j \in (n + 2)..(m + 1) BY <1>7
    <3>3. shifted[j] = at[j] - p /\ at[j] \in Int BY <3>2, <1>8, <1>11
    <3>4. at[k] + Pieces(owed[k]) <= at[j] BY <2>2
    <3>. QED BY <3>3, <3>4, <2>3, <2>4, <2>7, <1>7
  <2>. QED BY <2>2, <2>5, <2>6, <2>8, <2>9
<1>14. Laid(shifted)'
  <2>1. Len(out') + 1 = n + 2 BY <1>5, <1>7
  <2>. HIDE DEF n
  <2>. QED BY <1>12, <1>13, <2>1 DEF Laid
<1>15. Len(out') <= Len(owed') BY <1>3, <1>5, <1>7
<1>16. \A i \in 1..Len(out') : out'[i].id = Answerable(owed'[i])
  <2>1. \A i \in 1..n : out[i].id = Answerable(owed[i]) BY <1>1, <1>2 DEF Matched
  <2>2. TAKE i \in 1..Len(out')
  <2>3. CASE i \in 1..n BY <2>1, <2>3, <1>5
  <2>4. CASE i = n + 1 BY <2>4, <1>4, <1>5
  <2>. QED BY <2>3, <2>4, <1>5, <1>7
<1>. QED BY <1>10, <1>14, <1>15, <1>16 DEF Matched

(* The host writes a line: its pieces come last.                            *)
LEMMA WrittenNext ==
  ASSUME RouterInv, OrderInv, NEW line \in Lines, HostWrites(line)
  PROVE  OrderInv'
<1>. DEFINE n == Len(out)
            m == Len(owed)
            c == Len(input)
            p == Pieces(line)
<1>1. input \in Seq(Chunk) /\ out \in Seq(Replies) /\ owed \in Seq(Lines) /\ Matched /\ hostOpen
  BY DEF RouterInv, Kept, WorkerTypeOK, OrderInv, HostWrites
<1>2. UNCHANGED <<out, hostOpen>> /\ owed' = Append(owed, line) /\ input' = input \o Chunks(line)
  BY DEF HostWrites
<1>3. /\ Len(owed') = m + 1 /\ owed'[m + 1] = line /\ owed' \in Seq(Lines)
      /\ \A i \in 1..m : owed'[i] = owed[i]
  BY <1>1, <1>2
<1>4. n \in Nat /\ m \in Nat /\ c \in Nat /\ p \in {1, 2} /\ n <= m BY <1>1 DEF Pieces, Matched
<1>5. Chunks(line) \in Seq(Chunk) /\ Len(Chunks(line)) = p
      /\ Chunks(line)[1].line = line /\ Chunks(line)[1].ends = (line.form # "long")
  BY ChunksType DEF Chunks, Pieces
<1>6. /\ Len(input') = c + p
      /\ \A i \in 1..c : input'[i] = input[i]
      /\ input'[c + 1].line = line /\ input'[c + 1].ends = (line.form # "long")
  <2>. HIDE DEF p
  <2>1. /\ Len(input \o Chunks(line)) = c + p
        /\ \A i \in 1..c : (input \o Chunks(line))[i] = input[i]
        /\ (input \o Chunks(line))[c + 1] = Chunks(line)[1]
    BY <1>1, <1>4, <1>5, ConcatProperties
  <2>. QED BY <2>1, <1>2, <1>5
<1>7. PICK at \in [1..(m + 1) -> Int] : Laid(at) BY <1>1 DEF Matched
<1>a. PICK longer : longer = [k \in 1..(m + 2) |-> IF k = m + 2 THEN c + p + 1 ELSE at[k]] OBVIOUS
<1>8. longer \in [1..(Len(owed') + 1) -> Int]
  <2>. HIDE DEF c, p
  <2>1. Len(owed') + 1 = m + 2 BY <1>3, <1>4
  <2>. QED BY <2>1, <1>a, <1>4, <1>7
<1>9. longer[m + 2] = c + p + 1 /\ \A k \in 1..(m + 1) : longer[k] = at[k] BY <1>a, <1>4
<1>. HIDE DEF p, c, n, m
<1>10. at[n + 1] = 1 /\ at[m + 1] = c + 1 BY <1>7 DEF Laid, n, m, c
<1>11. ASSUME NEW k \in (n + 1)..(m + 1)
       PROVE  /\ longer[k] \in 1..Len(input')
              /\ input'[longer[k]].line = owed'[k]
              /\ input'[longer[k]].ends = (owed'[k].form # "long")
              /\ longer[k + 1] = longer[k] + Pieces(owed'[k])
              /\ \A j \in (k + 1)..(m + 2) : longer[k] + Pieces(owed'[k]) <= longer[j]
  <2>0. \A i \in DOMAIN owed' : Pieces(owed'[i]) \in Nat BY DEF Pieces
  <2>1. CASE k \in (n + 1)..m
    <3>1. /\ at[k] \in 1..c
          /\ input[at[k]].line = owed[k]
          /\ input[at[k]].ends = (owed[k].form # "long")
          /\ at[k + 1] = at[k] + Pieces(owed[k])
          /\ \A j \in (k + 1)..(m + 1) : at[k] + Pieces(owed[k]) <= at[j]
      BY <1>7, <2>1 DEF Laid, n, m, c
    <3>2. k \in 1..m /\ k \in 1..(m + 1) /\ k + 1 \in 1..(m + 1) /\ m + 1 \in (k + 1)..(m + 1)
      BY <2>1, <1>4
    <3>3. longer[k] = at[k] /\ longer[k + 1] = at[k + 1] /\ owed'[k] = owed[k]
      BY <3>2, <1>3, <1>9
    <3>4. longer[k] \in 1..Len(input') /\ input'[longer[k]] = input[at[k]]
      BY <3>1, <3>3, <1>4, <1>6
    <3>5. \A j \in (k + 1)..(m + 2) : longer[k] + Pieces(owed'[k]) <= longer[j]
      <4>1. TAKE j \in (k + 1)..(m + 2)
      <4>2. CASE j \in (k + 1)..(m + 1)
        <5>1. longer[j] = at[j] BY <4>2, <1>4, <1>9, <3>2
        <5>. QED BY <5>1, <4>2, <3>1, <3>3
      <4>3. CASE j = m + 2
        <5>1. at[k] + Pieces(owed[k]) <= c + 1 BY <3>1, <3>2, <1>10
        <5>2. Pieces(owed[k]) \in Nat BY DEF Pieces
        <5>. QED BY <5>1, <5>2, <4>3, <3>1, <3>3, <1>4, <1>9
      <4>. QED BY <4>2, <4>3, <1>4
    <3>. QED BY <3>1, <3>3, <3>4, <3>5
  <2>2. CASE k = m + 1
    <3>1. m + 1 \in 1..(m + 1) BY <1>4
    <3>2. longer[k] = c + 1 /\ owed'[k] = line BY <2>2, <3>1, <1>3, <1>9, <1>10
    <3>3. longer[k + 1] = c + p + 1 /\ \A j \in (k + 1)..(m + 2) : j = k + 1
      <4>1. k + 1 = m + 2 BY <2>2, <1>4
      <4>. QED BY <4>1, <1>4, <1>9
    <3>4. longer[k] \in 1..Len(input') BY <3>2, <1>4, <1>6
    <3>5. longer[k + 1] = longer[k] + Pieces(owed'[k]) BY <3>2, <3>3, <1>4 DEF p
    <3>6. longer[k] + Pieces(owed'[k]) \in Int BY <3>2, <1>4 DEF p
    <3>7. \A j \in (k + 1)..(m + 2) : longer[k] + Pieces(owed'[k]) <= longer[j]
      <4>1. TAKE j \in (k + 1)..(m + 2)
      <4>2. longer[j] = longer[k] + Pieces(owed'[k]) BY <3>3, <3>5
      <4>. QED BY <4>2, <3>6
    <3>. QED BY <3>2, <3>4, <3>5, <3>7, <1>6
  <2>. QED BY <2>1, <2>2, <1>4
<1>12. longer[n + 1] = 1 /\ longer[m + 2] = Len(input') + 1
  <2>1. n + 1 \in 1..(m + 1) BY <1>4
  <2>2. longer[n + 1] = 1 BY <2>1, <1>9, <1>10
  <2>3. Len(input') + 1 = c + p + 1 BY <1>4, <1>6
  <2>. QED BY <2>2, <2>3, <1>9
<1>13. Laid(longer)'
  <2>1. Len(owed') = m + 1 /\ Len(owed') + 1 = m + 2 BY <1>3, <1>4
  <2>2. Len(out') = n BY <1>2 DEF n
  <2>. QED BY <1>11, <1>12, <2>1, <2>2 DEF Laid
<1>14. Len(out') <= Len(owed') BY <1>2, <1>3, <1>4 DEF n
<1>15. \A i \in 1..Len(out') : out'[i].id = Answerable(owed'[i])
  <2>1. \A i \in 1..n : out[i].id = Answerable(owed[i]) /\ i \in 1..m
    BY <1>1, <1>4 DEF Matched, n
  <2>. QED BY <2>1, <1>2, <1>3 DEF n
<1>. QED BY <1>3, <1>8, <1>13, <1>14, <1>15 DEF OrderInv, Matched

(* The host reads the oldest reply: one line less is owed.                  *)
LEMMA ReadNext ==
  ASSUME RouterInv, OrderInv, hostOpen, out # <<>>,
         out' = Tail(out), owed' = Tail(owed), UNCHANGED input
  PROVE  OrderInv'
<1>. DEFINE n == Len(out)
            m == Len(owed)
<1>1. out \in Seq(Replies) /\ owed \in Seq(Lines) /\ Matched
  BY DEF RouterInv, Kept, WorkerTypeOK, OrderInv
<1>2. n \in Nat \ {0} /\ m \in Nat /\ n <= m BY <1>1 DEF Matched
<1>3. owed # <<>> BY <1>1, <1>2
<1>4. /\ owed' \in Seq(Lines) /\ Len(owed') = m - 1 /\ \A i \in 1..(m - 1) : owed'[i] = owed[i + 1]
      /\ Len(out') = n - 1 /\ \A i \in 1..(n - 1) : out'[i] = out[i + 1]
  BY <1>1, <1>3, HeadTailProperties
<1>5. PICK at \in [1..(m + 1) -> Int] : Laid(at) BY <1>1 DEF Matched
<1>a. PICK moved : moved = [k \in 1..m |-> at[k + 1]] OBVIOUS
<1>6. moved \in [1..(Len(owed') + 1) -> Int]
  <2>1. Len(owed') + 1 = m BY <1>2, <1>4
  <2>2. \A k \in 1..m : k + 1 \in 1..(m + 1) BY <1>2
  <2>. HIDE DEF m
  <2>. QED BY <2>1, <2>2, <1>a, <1>5
<1>7. \A k \in 1..m : moved[k] = at[k + 1] BY <1>a
<1>. HIDE DEF n, m
<1>8. ASSUME NEW k \in n..(m - 1)
      PROVE  /\ moved[k] \in 1..Len(input')
             /\ input'[moved[k]].line = owed'[k]
             /\ input'[moved[k]].ends = (owed'[k].form # "long")
             /\ moved[k + 1] = moved[k] + Pieces(owed'[k])
             /\ \A j \in (k + 1)..m : moved[k] + Pieces(owed'[k]) <= moved[j]
  <2>1. k + 1 \in (n + 1)..m /\ k \in 1..m /\ k + 1 \in 1..m /\ k \in 1..(m - 1) BY <1>2
  <2>2. /\ at[k + 1] \in 1..Len(input)
        /\ input[at[k + 1]].line = owed[k + 1]
        /\ input[at[k + 1]].ends = (owed[k + 1].form # "long")
        /\ at[k + 1 + 1] = at[k + 1] + Pieces(owed[k + 1])
        /\ \A j \in (k + 1 + 1)..(m + 1) : at[k + 1] + Pieces(owed[k + 1]) <= at[j]
    BY <1>5, <2>1 DEF Laid, n, m
  <2>3. moved[k] = at[k + 1] /\ moved[k + 1] = at[k + 1 + 1] /\ owed'[k] = owed[k + 1]
    BY <2>1, <1>4, <1>7
  <2>4. \A j \in (k + 1)..m : moved[k] + Pieces(owed'[k]) <= moved[j]
    <3>1. TAKE j \in (k + 1)..m
    <3>2. j \in 1..m /\ j + 1 \in (k + 1 + 1)..(m + 1) BY <1>2
    <3>3. moved[j] = at[j + 1] BY <3>2, <1>7
    <3>. QED BY <3>2, <3>3, <2>2, <2>3
  <2>. QED BY <2>2, <2>3, <2>4
<1>9. moved[n] = 1 /\ moved[m] = Len(input') + 1
  <2>1. n \in 1..m /\ m \in 1..m BY <1>2
  <2>2. at[n + 1] = 1 /\ at[m + 1] = Len(input) + 1 BY <1>5 DEF Laid, n, m
  <2>. QED BY <2>1, <2>2, <1>7
<1>10. Laid(moved)'
  <2>1. Len(out') + 1 = n /\ Len(owed') = m - 1 /\ Len(owed') + 1 = m BY <1>2, <1>4
  <2>. QED BY <1>8, <1>9, <2>1 DEF Laid
<1>11. Len(out') <= Len(owed') BY <1>2, <1>4
<1>12. \A i \in 1..Len(out') : out'[i].id = Answerable(owed'[i])
  <2>1. \A i \in 1..n : out[i].id = Answerable(owed[i]) BY <1>1 DEF Matched, n
  <2>2. TAKE i \in 1..Len(out')
  <2>3. i \in 1..(n - 1) /\ i \in 1..(m - 1) /\ i + 1 \in 1..n BY <1>2, <1>4
  <2>. QED BY <2>1, <2>3, <1>4
<1>. QED BY <1>4, <1>6, <1>10, <1>11, <1>12 DEF OrderInv, Matched

(* The host reads the oldest reply: it shows what that reply left it with.  *)
LEMMA ReadShows ==
  ASSUME RouterInv, ViewInv, HostReads, ~Terminal(Head(out)), UNCHANGED workerVars
  PROVE  ViewInv'
<1>1. out \in Seq(Replies) /\ out # <<>> /\ hostOpen /\ out' = Tail(out)
  BY DEF RouterInv, Kept, WorkerTypeOK, HostReads
<1>0. PICK n \in Nat : n = Len(out) BY <1>1
<1>2. n = Len(out) /\ n \in Nat \ {0} /\ Len(out') = n - 1 /\ Head(out) = out[1]
      /\ \A i \in 1..(n - 1) : out'[i] = out[i + 1]
  BY <1>0, <1>1, HeadTailProperties
<1>3. PICK old \in [0..n -> Shows] : Shown(old) BY <1>1, <1>2 DEF ViewInv
<1>a. PICK shown : shown = [i \in 0..(n - 1) |-> old[i + 1]] OBVIOUS
<1>4. shown \in [0..Len(out') -> Shows]
  <2>1. \A i \in 0..(n - 1) : i + 1 \in 0..n BY <1>2
  <2>. QED BY <2>1, <1>a, <1>2, <1>3
<1>5. \A i \in 0..(n - 1) : shown[i] = old[i + 1] BY <1>a
<1>6. old[0] = view /\ \A i \in 1..n : /\ old[i] = After(old[i - 1], out[i])
                                       /\ GoesOn(i - 1) => Truthful(old[i], out[i])
  BY <1>2, <1>3 DEF Shown
<1>7. view' = shown[0]
  <2>1. 1 \in 1..n /\ 0 \in 0..(n - 1) /\ 1 - 1 = 0 /\ 0 + 1 = 1 BY <1>2
  <2>2. old[1] = After(view, out[1]) BY <1>6, <2>1
  <2>3. view' = After(view, out[1]) BY <1>2 DEF HostReads, After
  <2>4. shown[0] = old[1] BY <1>5, <2>1
  <2>. QED BY <2>2, <2>3, <2>4
<1>8. \A i \in 0..(n - 1) : GoesOn(i)' => GoesOn(i + 1)
  <2>1. SUFFICES ASSUME NEW i \in 0..(n - 1), GoesOn(i)', NEW j \in 1..(i + 1)
                 PROVE  ~Terminal(out[j])
    BY DEF GoesOn
  <2>2. CASE j = 1 BY <2>2, <1>2
  <2>3. CASE j # 1
    <3>1. j - 1 \in 1..i /\ j - 1 \in 1..(n - 1) /\ j - 1 + 1 = j BY <2>3, <1>2
    <3>2. ~Terminal(out'[j - 1]) BY <2>1, <3>1 DEF GoesOn
    <3>3. out'[j - 1] = out[j] BY <3>1, <1>2
    <3>. QED BY <3>2, <3>3
  <2>. QED BY <2>2, <2>3
<1>9. ASSUME NEW i \in 1..(n - 1)
      PROVE  /\ shown[i] = After(shown[i - 1], out'[i])
             /\ GoesOn(i - 1)' => Truthful(shown[i], out'[i])
  <2>1. i + 1 \in 1..n /\ i \in 0..(n - 1) /\ i - 1 \in 0..(n - 1) /\ i + 1 - 1 = i /\ i - 1 + 1 = i
    BY <1>2
  <2>2. /\ old[i + 1] = After(old[i], out[i + 1])
        /\ GoesOn(i) => Truthful(old[i + 1], out[i + 1])
    BY <2>1, <1>6
  <2>3. shown[i] = old[i + 1] /\ shown[i - 1] = old[i] /\ out'[i] = out[i + 1]
    BY <2>1, <1>2, <1>5
  <2>4. GoesOn(i - 1)' => GoesOn(i) BY <2>1, <1>8
  <2>. QED BY <2>2, <2>3, <2>4
<1>10. GoesOn(n - 1)' /\ baseline' # Nothing => Agrees(shown[n - 1], baseline')
  <2>1. n - 1 \in 0..(n - 1) /\ n - 1 + 1 = n BY <1>2
  <2>2. GoesOn(n - 1)' => GoesOn(n) BY <2>1, <1>8
  <2>3. shown[n - 1] = old[n] BY <2>1, <1>5
  <2>4. GoesOn(n) /\ baseline # Nothing => Agrees(old[n], baseline) BY <1>2, <1>3 DEF Shown
  <2>5. baseline' = baseline BY DEF workerVars
  <2>. QED BY <2>2, <2>3, <2>4, <2>5
<1>11. Shown(shown)' BY <1>2, <1>7, <1>9, <1>10 DEF Shown
<1>12. view' \in Shows
  <2>1. 0 \in 0..Len(out') BY <1>2
  <2>. QED BY <2>1, <1>4, <1>7
<1>. QED BY <1>4, <1>11, <1>12 DEF ViewInv, workerVars

--------------------------------------------------------------------------------
(* All of it.                                                               *)
Joint == RouterInv /\ OrderInv /\ ViewInv

LEMMA JointInit ==
  ASSUME Init
  PROVE  Joint
<1>1. out = <<>> /\ owed = <<>> /\ input = <<>> /\ baseline = Nothing
      /\ view = [k \in Fields |-> Nothing]
  BY DEF Init
<1>2. Len(out) = 0 /\ Len(owed) = 0 /\ Len(input) = 0 BY <1>1
<1>3. RouterInv BY InitEstablishes
<1>4. OrderInv
  <2>1. PICK at : at = [k \in 1..1 |-> 1] OBVIOUS
  <2>2. at \in [1..(Len(owed) + 1) -> Int] BY <2>1, <1>2
  <2>3. Laid(at) BY <2>1, <1>2 DEF Laid
  <2>4. owed \in Seq(Lines) BY <1>1
  <2>. QED BY <2>2, <2>3, <2>4, <1>2 DEF OrderInv, Matched
<1>5. ViewInv
  <2>1. view \in Shows BY <1>1 DEF Shows
  <2>2. PICK shown : shown = [i \in 0..0 |-> view] OBVIOUS
  <2>3. shown \in [0..Len(out) -> Shows] BY <2>1, <2>2, <1>2
  <2>4. Shown(shown) BY <2>2, <1>1, <1>2 DEF Shown
  <2>. QED BY <2>1, <2>3, <2>4, <1>1 DEF ViewInv
<1>. QED BY <1>3, <1>4, <1>5 DEF Joint

(* A step of the worker that answers nothing.                               *)
LEMMA SilentNext ==
  ASSUME OrderInv, ViewInv, UNCHANGED <<input, owed, hostOpen, out, view, baseline>>,
         worker' = "serving" => worker = "serving" /\ live' = live
  PROVE  OrderInv' /\ ViewInv'
<1>1. OrderInv' BY DEF OrderInv, Matched, Laid
<1>2. ViewInv' BY DEF ViewInv, Shown, GoesOn
<1>. QED BY <1>1, <1>2

(* A step after which the host holds its end no longer.                     *)
LEMMA ClosedNext ==
  ASSUME OrderInv, ViewInv, ~hostOpen', owed' = <<>>, view' \in Shows,
         UNCHANGED <<worker, live, baseline>>
  PROVE  OrderInv' /\ ViewInv'
<1>1. owed' \in Seq(Lines) BY DEF OrderInv
<1>. QED BY <1>1 DEF OrderInv, Matched, ViewInv

(* A line that is taken from the input gets its reply.                      *)
LEMMA AnsweringNext ==
  ASSUME Joint, RouterInv', Reading, UNCHANGED <<worker, hostVars>>, Fresh,
         hostOpen => input' = SubSeq(input, Pieces(owed[Len(out) + 1]) + 1, Len(input)),
         NEW id \in Ids \cup {Nothing}, Told(id),
         hostOpen => id = Answerable(owed[Len(out) + 1])
  PROVE  OrderInv' /\ ViewInv'
<1>1. UNCHANGED <<hostOpen, owed, view>> /\ input # <<>> /\ worker = "serving"
  BY DEF hostVars, Reading
<1>2. OrderInv' BY <1>1, AnsweredNext DEF Joint
<1>3. hostOpen' => (\E shown \in [0..Len(out) -> Shows] : Shown(shown))'
  BY <1>1, SendShows DEF Joint
<1>4. view' \in Shows BY <1>1 DEF Joint, ViewInv
<1>. QED BY <1>1, <1>2, <1>3, <1>4 DEF ViewInv, Fresh

(* What is taken from the input is what the oldest unanswered line left.    *)
LEMMA Taken ==
  ASSUME Joint, Reading, hostOpen
  PROVE  LET line == owed[Len(out) + 1]
         IN  /\ line \in Lines /\ Head(input).line = line
             /\ line.form = "long" => Skip(input) = SubSeq(input, Pieces(line) + 1, Len(input))
             /\ line.form # "long" =>
                  /\ Skip(input) = SubSeq(input, Pieces(line) + 1, Len(input))
                  /\ Tail(input) = SubSeq(input, Pieces(line) + 1, Len(input))
<1>. DEFINE line == owed[Len(out) + 1]
<1>1. input \in Seq(Chunk) /\ out \in Seq(Replies) /\ owed \in Seq(Lines) /\ Matched /\ input # <<>>
  BY DEF Joint, RouterInv, Kept, WorkerTypeOK, OrderInv, Reading
<1>2. /\ Len(out) + 1 \in 1..Len(owed)
      /\ Head(input).line = line /\ Head(input).ends = (line.form # "long")
  BY <1>1, OldestWaiting
<1>3. line \in Lines BY <1>1, <1>2
<1>. HIDE DEF line
<1>4. Tail(input) = SubSeq(input, 2, Len(input)) BY <1>1
<1>5. CASE line.form = "long"
  <2>0. Head(input).ends = FALSE BY <1>2, <1>5, Zenon
  <2>1. ~Head(input).ends /\ Pieces(line) + 1 = 3 BY <2>0, <1>5 DEF Pieces
  <2>2. Skip(input) = SubSeq(input, 3, Len(input)) BY <2>1 DEF Skip
  <2>. QED BY <1>2, <1>3, <1>5, <2>1, <2>2 DEF line
<1>6. CASE line.form # "long"
  <2>0. Head(input).ends = TRUE BY <1>2, <1>6, Zenon
  <2>1. Head(input).ends /\ Pieces(line) + 1 = 2 BY <2>0, <1>6 DEF Pieces
  <2>2. Skip(input) = Tail(input) BY <2>1 DEF Skip
  <2>. QED BY <1>2, <1>3, <1>4, <1>6, <2>1, <2>2 DEF line
<1>. QED BY <1>5, <1>6

LEMMA JointNext ==
  ASSUME Joint, [Next]_vars
  PROVE  Joint'
<1>1. RouterInv /\ OrderInv /\ ViewInv /\ RouterInv' BY NextKeeps DEF Joint
<1>2. Kept /\ input \in Seq(Chunk) /\ live \in States BY <1>1 DEF RouterInv, Kept, WorkerTypeOK
<1>3. SUFFICES OrderInv' /\ ViewInv' BY <1>1 DEF Joint
<1>4. CASE \E line \in Lines : HostWrites(line)
  <2>1. PICK line \in Lines : HostWrites(line) BY <1>4
  <2>2. OrderInv' BY <1>1, <2>1, WrittenNext
  <2>3. UNCHANGED <<hostOpen, out, view, worker, live, baseline>> BY <2>1 DEF HostWrites, workerVars
  <2>4. ViewInv' BY <1>1, <2>3 DEF ViewInv, Shown, GoesOn
  <2>. QED BY <2>2, <2>4
<1>5. CASE HostReads
  <2>1. UNCHANGED <<input, workerVars>> /\ UNCHANGED <<worker, live, baseline>>
        /\ hostOpen /\ out # <<>>
    BY <1>5 DEF HostReads, workerVars
  <2>2. CASE ~Terminal(Head(out))
    <3>1. out' = Tail(out) /\ owed' = Tail(owed) BY <1>5, <2>2 DEF HostReads
    <3>. QED BY <1>1, <1>5, <2>1, <2>2, <3>1, ReadNext, ReadShows
  <2>3. CASE Terminal(Head(out))
    <3>1. ~hostOpen' /\ owed' = <<>> BY <1>5, <2>3 DEF HostReads
    <3>2. Head(out) \in Replies BY <1>2, <2>1, HeadTailProperties DEF Kept, WorkerTypeOK
    <3>3. view' = After(view, Head(out)) BY <1>5 DEF HostReads, After
    <3>4. view' \in Shows BY <1>1, <3>2, <3>3, AfterType DEF ViewInv
    <3>. QED BY <1>1, <2>1, <3>1, <3>4, ClosedNext
  <2>. QED BY <2>2, <2>3
<1>6. CASE HostCloses
  <2>1. ~hostOpen' /\ owed' = <<>> /\ view' = view /\ UNCHANGED <<worker, live, baseline>>
    BY <1>6 DEF HostCloses, workerVars
  <2>2. view' \in Shows BY <1>1, <2>1 DEF ViewInv
  <2>. QED BY <1>1, <2>1, <2>2, ClosedNext
<1>7. CASE RefuseLong
  <2>1. /\ Reading /\ TooLong(Head(input).line) /\ input' = Skip(input)
        /\ Plain(Reply(Nothing, Unusable, "invalid_request", Untold))
        /\ UNCHANGED <<worker, hostVars>> /\ worker = "serving"
    BY <1>7 DEF RefuseLong, Reading
  <2>2. Told(Nothing) BY <2>1, PlainTold
  <2>3. Fresh BY <1>1, <2>1 DEF Plain, Fresh, ViewInv
  <2>4. hostOpen => /\ input' = SubSeq(input, Pieces(owed[Len(out) + 1]) + 1, Len(input))
                    /\ Nothing = Answerable(owed[Len(out) + 1])
    <3>1. HAVE hostOpen
    <3>2. TooLong(owed[Len(out) + 1]) BY <2>1, <3>1, Taken
    <3>3. Nothing = Answerable(owed[Len(out) + 1]) BY <3>2 DEF TooLong, Answerable, Decodable
    <3>. QED BY <2>1, <3>1, <3>3, Taken
  <2>. QED BY <1>1, <2>1, <2>2, <2>3, <2>4, AnsweringNext
<1>8. CASE RefuseUndecodable
  <2>. DEFINE line == Head(input).line
              id   == IF line.form = "badFile" THEN line.id ELSE Nothing
  <2>1. /\ Reading /\ line.form \in {"garbage", "badFile"} /\ input' = Tail(input)
        /\ Plain(Reply(id, Unusable, "invalid_request", Untold))
        /\ UNCHANGED <<worker, hostVars>> /\ worker = "serving"
    BY <1>8 DEF RefuseUndecodable, Reading
  <2>2. line \in Lines BY <1>2, <2>1, InputFacts
  <2>3. id \in Ids \cup {Nothing} BY <2>2, LineType
  <2>4. Told(id)
    <3>. HIDE DEF id
    <3>. QED BY <2>1, <2>3, PlainTold
  <2>5. Fresh BY <1>1, <2>1 DEF Plain, Fresh, ViewInv
  <2>6. id = Answerable(line) BY <2>1 DEF Answerable, Decodable
  <2>7. hostOpen => /\ input' = SubSeq(input, Pieces(owed[Len(out) + 1]) + 1, Len(input))
                    /\ id = Answerable(owed[Len(out) + 1])
    <3>1. HAVE hostOpen
    <3>2. owed[Len(out) + 1] = line BY <2>1, <3>1, Taken
    <3>. HIDE DEF id
    <3>. QED BY <2>1, <2>6, <3>1, <3>2, Taken
  <2>. HIDE DEF id
  <2>. QED BY <1>1, <2>1, <2>3, <2>4, <2>5, <2>7, AnsweringNext
<1>9. CASE Serve
  <2>. DEFINE line == Head(input).line
  <2>1. /\ Reading /\ Decodable(line) /\ input' = Tail(input)
        /\ Handle(line.id, line.request)
        /\ UNCHANGED <<worker, hostVars>> /\ worker = "serving"
    BY <1>9 DEF Serve, Reading
  <2>2. line \in Lines BY <1>2, <2>1, InputFacts
  <2>3. line.id \in Ids \cup {Nothing} /\ line.request \in Requests \cup {Unusable}
    BY <2>2, LineType
  <2>4. baseline # Nothing => baseline = live BY <1>1, <2>1 DEF ViewInv
  <2>5. Told(line.id) /\ Fresh
    <3>. HIDE DEF line
    <3>. QED BY <1>2, <2>1, <2>3, <2>4, HandleTold
  <2>6. hostOpen => /\ input' = SubSeq(input, Pieces(owed[Len(out) + 1]) + 1, Len(input))
                    /\ line.id = Answerable(owed[Len(out) + 1])
    <3>1. HAVE hostOpen
    <3>2. owed[Len(out) + 1] = line BY <2>1, <3>1, Taken
    <3>3. line.form # "long" /\ line.id = Answerable(line) BY <2>1 DEF Decodable, Answerable
    <3>. HIDE DEF line
    <3>. QED BY <2>1, <3>1, <3>2, <3>3, Taken
  <2>. HIDE DEF line
  <2>. QED BY <1>1, <2>1, <2>3, <2>5, <2>6, AnsweringNext
<1>10. CASE Interrupted
  <2>1. UNCHANGED <<input, owed, hostOpen, out, view, baseline>> /\ worker' = "closed"
    BY <1>10 DEF Interrupted, hostVars
  <2>. QED BY <1>1, <2>1, SilentNext
<1>11. CASE EndOfInput
  <2>1. UNCHANGED <<input, owed, hostOpen, out, view, baseline>> /\ worker' = "closed"
    BY <1>11 DEF EndOfInput, hostVars
  <2>. QED BY <1>1, <2>1, SilentNext
<1>12. CASE UNCHANGED vars
  <2>1. UNCHANGED <<input, owed, hostOpen, out, view, baseline, worker, live>>
    BY <1>12 DEF vars, hostVars, workerVars
  <2>. QED BY <1>1, <2>1, SilentNext
<1>. QED BY <1>4, <1>5, <1>6, <1>7, <1>8, <1>9, <1>10, <1>11, <1>12 DEF Next

LEMMA JointAlways == Spec => []Joint
<1>1. Init => Joint BY JointInit
<1>2. Joint /\ [Next]_vars => Joint' BY JointNext
<1>. QED BY <1>1, <1>2, PTL DEF Spec

(* Replies come in the order of the requests, one for each line, with the   *)
(* identity of the line: the main loop of server.py and its framing, for    *)
(* any number of lines written ahead, long and undecodable ones among them. *)
THEOREM AnsweredInOrderAlways == Spec => []AnsweredInOrder
<1>1. Joint => AnsweredInOrder
  <2>1. SUFFICES ASSUME Joint, hostOpen
                 PROVE  /\ Len(out) <= Len(owed)
                        /\ \A i \in DOMAIN out : out[i].id = Answerable(owed[i])
                        /\ worker = "serving" /\ input = <<>> => Len(out) = Len(owed)
    BY DEF AnsweredInOrder
  <2>2. out \in Seq(Replies) /\ owed \in Seq(Lines) /\ Matched
    BY <2>1 DEF Joint, RouterInv, Kept, WorkerTypeOK, OrderInv
  <2>3. Len(out) <= Len(owed) /\ \A i \in 1..Len(out) : out[i].id = Answerable(owed[i])
    BY <2>1, <2>2 DEF Matched
  <2>4. input = <<>> => Len(out) = Len(owed)
    <3>1. SUFFICES ASSUME input = <<>>, Len(out) # Len(owed) PROVE FALSE OBVIOUS
    <3>2. PICK at \in [1..(Len(owed) + 1) -> Int] : Laid(at) BY <2>1, <2>2 DEF Matched
    <3>3. Len(out) + 1 \in (Len(out) + 1)..Len(owed) BY <2>2, <2>3, <3>1
    <3>4. at[Len(out) + 1] \in 1..Len(input) BY <3>2, <3>3 DEF Laid
    <3>. QED BY <3>1, <3>4
  <2>. QED BY <2>2, <2>3, <2>4
<1>. QED BY <1>1, JointAlways, PTL

(* What the host shows after the reply to a runtime command is the state    *)
(* that reply stands for: Hades2ReplyProjection's patches are relative to   *)
(* what the host has been told, whatever errors, repetitions and replies of *)
(* other kinds lie between.                                                 *)
THEOREM ViewTrueAlways == Spec => ViewTrue
<1>. DEFINE Step == \A r \in {out[i] : i \in DOMAIN out \cap {1}} :
                      HostReads /\ r.truth # Untold /\ ~r.replayed =>
                        /\ \A k \in Fields : view'[k] = r.truth[k]
                        /\ DOMAIN r.truth \cap Receipts \subseteq DOMAIN r.payload
<1>1. Joint => Step
  <2>1. SUFFICES ASSUME Joint, HostReads, out[1].truth # Untold, ~out[1].replayed
                 PROVE  /\ \A k \in Fields : view'[k] = out[1].truth[k]
                        /\ DOMAIN out[1].truth \cap Receipts \subseteq DOMAIN out[1].payload
    OBVIOUS
  <2>2. out \in Seq(Replies) /\ out # <<>> /\ hostOpen
    BY <2>1 DEF Joint, RouterInv, Kept, WorkerTypeOK, HostReads
  <2>3. PICK shown \in [0..Len(out) -> Shows] : Shown(shown) BY <2>1, <2>2 DEF Joint, ViewInv
  <2>4. 1 \in 1..Len(out) /\ 1 - 1 = 0 /\ GoesOn(0) /\ Head(out) = out[1] BY <2>2 DEF GoesOn
  <2>5. shown[0] = view /\ shown[1] = After(shown[0], out[1]) /\ Truthful(shown[1], out[1])
    BY <2>3, <2>4 DEF Shown
  <2>6. view' = After(view, out[1]) BY <2>1, <2>4 DEF HostReads, After
  <2>. QED BY <2>1, <2>5, <2>6 DEF Truthful, Agrees
<1>. QED BY <1>1, JointAlways, PTL DEF ViewTrue

================================================================================
