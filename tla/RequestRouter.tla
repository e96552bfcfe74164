---------------------------- MODULE RequestRouter ----------------------------
(***************************************************************************)
(* The worker's main loop: Backend/core/server.py reads one line, protocol *)
(* .py routes it and remembers the reply, framing.py carries what does not *)
(* fit a line, and the Hades II adapter publishes its state as patches     *)
(* against what it last told the host (games/hades2/reply_projection.py).  *)
(*                                                                         *)
(* The host may write a few lines ahead and may write a request again. A   *)
(* request's content is its command and parameters, as CommandContract     *)
(* reads them; the fields of the adapter's state are a small set. Reading  *)
(* a chunk and answering it is one step: the loop is sequential, and an    *)
(* interrupt in the middle is a step of its own.                           *)
(***************************************************************************)
EXTENDS CommandContract, Naturals, Sequences

CONSTANTS
  Ids,        \* request identities of an acceptable length
  Fields,     \* the fields of the adapter's state
  Values,     \* what a field may hold
  Requests,   \* what the host asks: a command and its parameters
  MaxCache,   \* replies remembered: 256 in the code
  MaxLines,   \* bound on the lines the host writes
  MaxAhead,   \* bound on the lines written and not yet answered
  Nothing     \* no identity, no baseline, a field's null

(* Commands of the Hades II contract by the kind of their reply.           *)
SnapshotCommands ==
  {"scan", "status", "connect", "disconnect", "disable_all", "runtime_reset", "reset_desired"}

PatchCommands ==
  {"set_desired", "set_vital", "set_counter", "lock_vital", "set_resource", "lock_resource",
   "set_rerolls", "lock_rerolls", "set_gathering_desired", "set_chaos_gate_desired",
   "generate_gathering", "mature_garden", "set_stat", "set_element", "lock_element",
   "set_boon_rarity_desired", "set_next_room_reward_desired", "set_next_occurrence_desired",
   "spawn_reward", "acquire_chaos_pair", "open_sell_traits", "set_trait_level",
   "set_trait_rarity", "set_trait_remaining_uses", "expire_trait", "remove_trait",
   "advance_trait_lifecycle", "open_special_choice"}

IndependentCommands ==
  {"launch", "save_editor_inventory", "save_editor_open", "save_editor_target",
   "save_editor_query", "save_editor_detail", "save_editor_stage", "save_editor_unstage",
   "save_editor_review", "save_editor_cancel", "save_editor_apply", "save_editor_close",
   "list_profiles", "save_profile", "load_profile", "delete_profile", "diagnostics",
   "export_diagnostics", "prepare", "restore"}

(* The save editor's commands that name an open workspace.                 *)
WorkspaceCommands ==
  {"save_editor_target", "save_editor_query", "save_editor_detail", "save_editor_stage",
   "save_editor_unstage", "save_editor_review", "save_editor_cancel", "save_editor_apply",
   "save_editor_close"}

CoreSaveCommands ==
  {"core.save.list", "core.save.backup", "core.save.rename", "core.save.set_retention",
   "core.save.protect", "core.save.delete", "core.save.open_folder", "core.save.restore",
   "core.save.cancel_staged", "core.save.apply_staged"}

ReplyKind(command) ==
  CASE command \in SnapshotCommands    -> "snapshot"
    [] command \in PatchCommands       -> "patch"
    [] command \in IndependentCommands -> "independent"

ASSUME RouterAssumption ==
  /\ MaxCache \in Nat \ {0} /\ MaxLines \in Nat /\ MaxAhead \in Nat \ {0}
  /\ Nothing \notin Ids \cup Values

VARIABLES
  written,   \* how many lines the host has written
  owed,      \* the lines whose reply the host has not read, oldest first
  input,     \* the chunks readline has not returned yet
  hostOpen,  \* the host still holds its end of the pipe
  worker,    \* "serving" or "closed"
  cache,     \* JsonlRequestRouter.cache, oldest first
  done,      \* the identities of the requests handled so far, in order
  live,      \* Hades2Adapter.state
  baseline,  \* Hades2ReplyProjection._previous
  out,       \* replies the host has not read
  view       \* what the host shows of the fields

hostVars   == <<written, owed, hostOpen, view>>
workerVars == <<worker, cache, done, live, baseline>>
vars       == <<input, out, hostVars, workerVars>>

-----------------------------------------------------------------------------
(* Lines. A "sound" line is a request, or names a payload file with one;   *)
(* the payload of "badFile" does not match its descriptor; "long" is       *)
(* longer than a control frame, "brim" by one byte, its newline.           *)
Forms == {"sound", "garbage", "badFile", "long", "brim"}
Line(form, id, request) == [form |-> form, id |-> id, request |-> request]

(* No request, or one without a usable command or parameters.              *)
Unusable == [command |-> "malformed", params |-> Null]

Lines ==
       {Line(form, Nothing, Unusable) : form \in Forms}
  \cup {Line("badFile", id, Unusable) : id \in Ids}
  \cup {Line("sound", id, request) : id \in Ids, request \in Requests \cup {Unusable}}

TooLong(line)   == line.form \in {"long", "brim"}
Decodable(line) == line.form = "sound"

(* readline(inline_bytes + 1): a longer line comes in pieces, and only the *)
(* last one ends with a newline.                                           *)
Chunks(line) ==
  IF line.form = "long"
  THEN <<[line |-> line, ends |-> FALSE], [line |-> Line("garbage", Nothing, Unusable), ends |-> TRUE]>>
  ELSE <<[line |-> line, ends |-> TRUE]>>

(* What is left once the rest of an overlong line has been skipped.        *)
SkipOneMore(chunks) == SubSeq(chunks, 3, Len(chunks))
Skip(chunks) == IF Head(chunks).ends THEN Tail(chunks) ELSE SubSeq(chunks, 3, Len(chunks))

-----------------------------------------------------------------------------
(* The projection of the adapter's state.                                  *)
Receipts == {"applied"}     \* ACTION_RESULT_FIELDS, lastAction

States == [Fields -> Values] \cup [Fields \cup Receipts -> Values]

(* A field that went away is told as null.                                 *)
Changes(previous, reply) ==
  LET told == {k \in DOMAIN reply : k \in DOMAIN previous => previous[k] # reply[k] \/ k \in Receipts}
  IN  [k \in told \cup (DOMAIN previous \ DOMAIN reply) |->
         IF k \in DOMAIN reply THEN reply[k] ELSE Nothing]

Publish(previous, reply, kind) ==
  IF kind = "snapshot" \/ previous = Nothing THEN reply ELSE Changes(previous, reply)

(* Hades2Model.apply: what a payload does not mention stays.               *)
Merge(shown, payload) ==
  [k \in Fields |-> IF k \in DOMAIN payload THEN payload[k] ELSE shown[k]]

-----------------------------------------------------------------------------
(* Replies. "truth" is the state a reply to a runtime command stands for,  *)
(* "acted" says that the operation had returned to the router.             *)
Untold == [k \in {} |-> Nothing]

Reply(id, request, code, payload) ==
  [id |-> id, request |-> request, code |-> code, payload |-> payload,
   truth |-> Untold, acted |-> FALSE, replayed |-> FALSE]

Terminal(r) == r.code = "outcome_unknown"

Code(code, returned) == IF returned THEN "outcome_unknown" ELSE code

Send(reply) == out' = IF hostOpen THEN Append(out, reply) ELSE out

(* cache[request_id] = ..., popitem(last=False) while there are too many.  *)
RememberFewer(entry) ==
  LET all == Append(cache, entry)
  IN  IF Len(all) >= MaxCache THEN Tail(all) ELSE all
Remember(entry) ==
  LET all == Append(cache, entry)
  IN  IF Len(all) > MaxCache THEN Tail(all) ELSE all

Cached(id) == {i \in DOMAIN cache : cache[i].id = id}

-----------------------------------------------------------------------------
(* One request that could be decoded: JsonlRequestRouter._handle_encoded.  *)
Plain(reply) ==
  /\ Send(reply)
  /\ UNCHANGED <<cache, done, live, baseline>>

NoIdentity(id, request) ==
  /\ id = Nothing
  /\ Plain(Reply(Nothing, request, "invalid_request", Untold))

(* The same request again: the old reply, and the adapter is told that the *)
(* host may now hold an old observation.                                   *)
ForgetNothing(previous) == previous
Invalidated(previous) == Nothing

Replayed(id, request) ==
  \E i \in Cached(id) :
    /\ cache[i].request = request
    /\ Send([cache[i] EXCEPT !.replayed = TRUE])
    /\ baseline' = Invalidated(baseline)
    /\ UNCHANGED <<cache, done, live>>

Conflicting(id, request) ==
  /\ \E i \in Cached(id) : cache[i].request # request
  /\ Plain(Reply(id, request, "duplicate_conflict", Untold))

(* No usable command or parameters: answered, and not remembered.          *)
Malformed(id, request) ==
  /\ request = Unusable
  /\ Plain(Reply(id, request, "invalid_request", live))

(* Every other reply is remembered.                                        *)
Answer(reply, acted) ==
  LET told == [reply EXCEPT !.acted = acted]
  IN  /\ Send(told)
      /\ cache' = Remember(told)
      /\ done' = Append(done, told.id)

Hello(id, request) ==
  /\ request.command = "hello"
  /\ Answer(Reply(id, request, "ok", Untold), FALSE)
  /\ UNCHANGED <<live, baseline>>

(* A result that is no JSON object or cannot be encoded: the operation has *)
(* returned, and the state beside the error may be no better.              *)
Unencodable(id, request, state) ==
  \E told \in {state, Untold} :
    Answer(Reply(id, request, Code("operation_failed", TRUE), told), TRUE)

(* _with_state: a result is kept when the list cannot be read after it.    *)
WithStateRead(refreshed) == IF refreshed THEN "ok" ELSE "operation_failed"
WithState(refreshed) == "ok"

CoreSave(id, request) ==
  /\ request.command \in CoreSaveCommands
  /\ \/ \E code \in {"invalid_request", "operation_failed"} :
          Answer(Reply(id, request, Code(code, FALSE), live), FALSE)
     \/ IF request.command = "core.save.list" THEN Answer(Reply(id, request, "ok", Untold), TRUE)
        ELSE \E refreshed \in BOOLEAN :
               Answer(Reply(id, request, WithState(refreshed), Untold), TRUE)
     \/ Unencodable(id, request, live)
  /\ UNCHANGED <<live, baseline>>

(* The contract refuses before it calls the adapter: parameters that the   *)
(* command does not take, and a save editor's request whose workspace or   *)
(* whose baseline is not the current one. The host is told the state, so   *)
(* the baseline of the patches is dropped.                                 *)
Refused(id, request) ==
  /\ Answer(Reply(id, request, Code("invalid_request", FALSE), live), FALSE)
  /\ baseline' = Invalidated(baseline)
  /\ UNCHANGED live

Valid(request) == Takes(request.command, request.params)

ParametersRefused(id, request) == ~Valid(request) /\ Refused(id, request)

WorkspaceRefused(id, request) ==
  Valid(request) /\ request.command \in WorkspaceCommands /\ Refused(id, request)

(* Hades2Adapter.dispatch raises: whatever the command has changed is told *)
(* as the error's state, if it can be encoded.                             *)
Raises(id, request) ==
  /\ \E state \in States :
       /\ live' = state
       /\ \E told \in {state, Untold} :
            Answer(Reply(id, request, Code("operation_failed", FALSE), told), FALSE)
  /\ baseline' = Invalidated(baseline)

(* It returns a reply of its kind.                                         *)
Observes(id, request) ==
  /\ ReplyKind(request.command) # "independent"
  /\ \E state \in States :
       /\ live' = state
       /\ baseline' = state
       /\ Answer([Reply(id, request, "ok", Publish(baseline, state, ReplyKind(request.command)))
                    EXCEPT !.truth = state], TRUE)

Reports(id, request) ==
  /\ ReplyKind(request.command) = "independent"
  /\ \E state \in States :
       /\ live' = state
       /\ \E told \in {state, Untold} : Answer(Reply(id, request, "ok", told), TRUE)
  /\ baseline' = Invalidated(baseline)

(* It returns a result that cannot be told.                                *)
Garbles(id, request) ==
  /\ \E state \in States :
       /\ live' = state
       /\ baseline' = IF ReplyKind(request.command) = "independent" THEN Nothing ELSE state
       /\ Unencodable(id, request, state)

Dispatched(id, request) ==
  /\ request.command \in SnapshotCommands \cup PatchCommands \cup IndependentCommands
  /\ \/ ParametersRefused(id, request)
     \/ WorkspaceRefused(id, request)
     \/ /\ Valid(request)
        /\ \/ Raises(id, request)
           \/ Observes(id, request)
           \/ Reports(id, request)
           \/ Garbles(id, request)

Handle(id, request) ==
  \/ NoIdentity(id, request)
  \/ Replayed(id, request)
  \/ Conflicting(id, request)
  \/ /\ id # Nothing /\ Cached(id) = {}
     /\ \/ Malformed(id, request)
        \/ Hello(id, request)
        \/ CoreSave(id, request)
        \/ Dispatched(id, request)

-----------------------------------------------------------------------------
(* server.main.                                                            *)
Init ==
  /\ written = 0 /\ owed = <<>> /\ input = <<>> /\ hostOpen = TRUE
  /\ worker = "serving" /\ cache = <<>> /\ done = <<>>
  /\ live \in [Fields -> Values] /\ baseline = Nothing
  /\ out = <<>>
  /\ view = [k \in Fields |-> Nothing]

Reading == worker = "serving" /\ input # <<>>

(* The rest of an overlong line is skipped once it has been answered.      *)
RefuseLong ==
  /\ Reading /\ TooLong(Head(input).line)
  /\ input' = Skip(input)
  /\ Plain(Reply(Nothing, Unusable, "invalid_request", Untold))
  /\ UNCHANGED <<worker, hostVars>>

(* A payload that cannot be read is told to the request of its descriptor. *)
RefuseUndecodable ==
  /\ Reading
  /\ LET line == Head(input).line
     IN  /\ line.form \in {"garbage", "badFile"}
         /\ Plain(Reply(IF line.form = "badFile" THEN line.id ELSE Nothing,
                        Unusable, "invalid_request", Untold))
  /\ input' = Tail(input)
  /\ UNCHANGED <<worker, hostVars>>

Serve ==
  /\ Reading /\ Decodable(Head(input).line)
  /\ Handle(Head(input).line.id, Head(input).line.request)
  /\ input' = Tail(input)
  /\ UNCHANGED <<worker, hostVars>>

(* SIGTERM or SIGINT, a reply that cannot be written to its payload file,  *)
(* a pipe nobody reads: the worker goes, with the command done or not.     *)
Interrupted ==
  /\ worker = "serving"
  /\ worker' = "closed"
  /\ IF Reading /\ Decodable(Head(input).line) THEN live' \in {live} \cup States ELSE UNCHANGED live
  /\ UNCHANGED <<input, cache, done, baseline, out, hostVars>>

EndOfInput ==
  /\ worker = "serving" /\ input = <<>> /\ ~hostOpen
  /\ worker' = "closed"
  /\ UNCHANGED <<input, cache, done, live, baseline, out, hostVars>>

-----------------------------------------------------------------------------
(* The host: it writes a line, reads a reply in order, and goes away. After *)
(* a terminal reply it stops the worker.                                   *)
HostWrites(line) ==
  /\ hostOpen /\ written < MaxLines /\ Len(owed) < MaxAhead
  /\ written' = written + 1
  /\ owed' = Append(owed, line)
  /\ input' = input \o Chunks(line)
  /\ UNCHANGED <<hostOpen, out, view, workerVars>>

CoreOwned(reply) == reply.request.command \in CoreSaveCommands

HostReads ==
  /\ hostOpen /\ out # <<>>
  /\ view' = IF CoreOwned(Head(out)) THEN view ELSE Merge(view, Head(out).payload)
  /\ IF Terminal(Head(out))
     THEN hostOpen' = FALSE /\ out' = <<>> /\ owed' = <<>>
     ELSE out' = Tail(out) /\ owed' = Tail(owed) /\ UNCHANGED hostOpen
  /\ UNCHANGED <<written, input, workerVars>>

HostCloses ==
  /\ hostOpen
  /\ hostOpen' = FALSE /\ out' = <<>> /\ owed' = <<>>
  /\ UNCHANGED <<written, input, view, workerVars>>

Next ==
  \/ \E line \in Lines : HostWrites(line)
  \/ HostReads
  \/ HostCloses
  \/ RefuseLong
  \/ RefuseUndecodable
  \/ Serve
  \/ Interrupted
  \/ EndOfInput

Spec == Init /\ [][Next]_vars

-----------------------------------------------------------------------------
(* The identity a line must be answered with: none when it was not read.   *)
Answerable(line) == IF Decodable(line) \/ line.form = "badFile" THEN line.id ELSE Nothing

(* The host matches replies by their order and identity. Whatever it       *)
(* writes, the worker never leaves a line out, answers one twice or takes  *)
(* the rest of an overlong line for the next request (server.py:119).      *)
AnsweredInOrder ==
  hostOpen =>
    /\ Len(out) <= Len(owed)
    /\ \A i \in DOMAIN out : out[i].id = Answerable(owed[i])
    /\ worker = "serving" /\ input = <<>> => Len(out) = Len(owed)

(* A request written again acts again only when MaxCache other requests    *)
(* have been handled in between (protocol.py:236, 308).                    *)
OnceOnly ==
  \A i, j \in DOMAIN done : i < j /\ done[i] = done[j] => j - i > MaxCache

TellsTrue(r) == r.acted => r.code \in {"ok", "outcome_unknown"}

(* What has been done is never told as a plain failure, after which the    *)
(* user would do it again: not when its result cannot be encoded, not when *)
(* the list cannot be read after it, and not when the request is repeated  *)
(* (protocol.py:155, 236, 286).                                            *)
ToldTrue ==
  /\ \A i \in DOMAIN cache : TellsTrue(cache[i])
  /\ \A i \in DOMAIN out : TellsTrue(out[i])

(* When the host has applied the reply to a runtime command it shows the   *)
(* state the adapter had, whatever errors, repetitions and replies of      *)
(* other kinds came before, and the action's receipt is among what it got  *)
(* (reply_projection.py:20, adapter.py:1124).                              *)
ViewTrue ==
  [][ \A r \in {out[i] : i \in DOMAIN out \cap {1}} :
        HostReads /\ r.truth # Untold /\ ~r.replayed =>
          /\ \A k \in Fields : view'[k] = r.truth[k]
          /\ DOMAIN r.truth \cap Receipts \subseteq DOMAIN r.payload ]_vars
=============================================================================
