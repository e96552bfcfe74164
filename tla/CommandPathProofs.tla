--------------------------- MODULE CommandPathProofs ---------------------------
(* Theorems about CommandPath for every set of commands and every number of  *)
(* workers, leases, reloads, handoffs and losses.  Each action is first seen *)
(* as an event, which keeps what the invariants tell apart: what became of   *)
(* the slots, of the worker's mailbox, of its reply and of the call.         *)
EXTENDS CommandPath, TLAPS

SlotStates == {"absent", "idle", "reserving", "posted", "executing", "complete"}
Outcomes   == {"ok", "unsure", "handoff", "marker", "unknown", "refused", "nil", "gone"}
Slots ==
  [state : SlotStates, closed : BOOLEAN, poisoned : BOOLEAN, read : BOOLEAN,
   cmd : Commands \cup {NoCommand}, boot : BOOLEAN, outcome : Outcomes \cup {"cancelled"}, gen : Nat]

Busy == {"install", "submit", "reserved", "wait", "late", "cancelling"}
Records ==
  [state : {"unborn", "dead", "idle"} \cup Busy, attached : BOOLEAN, tainted : BOOLEAN,
   box : Leases \cup {NoLease}, pending : BOOLEAN]
Replies == {"ok", "failed", "notRun", "unknown", "nil", "gone", "handoff", "unsure"}
Exchanges ==
  [method : {"none", "attach", "detach", "taint", "acknowledge", "execute"},
   cmd : Commands \cup {NoCommand}, boot : BOOLEAN, reply : Replies \cup {"none"},
   pid : BOOLEAN, tainted : BOOLEAN]
Sessions ==
  [worker : Workers \cup {NoWorker}, fatal : {"none", "restart", "unknown"}, lostAttach : BOOLEAN,
   pid : BOOLEAN, tainted : BOOLEAN, ready : BOOLEAN, broken : BOOLEAN]
CallRecords ==
  [cmd : Commands \cup {NoCommand}, stage : {"none", "cross", "accept", "handoff", "tainting"},
   retried : BOOLEAN, handoffs : Nat]

SlotTypeOK == slot \in [Leases -> Slots]
GameTypeOK ==
  /\ active \in Leases \cup {NoLease} /\ pump \in {"idle", "checked", "claimed", "evaluated"}
  /\ found \in Outcomes /\ tainted \in BOOLEAN /\ gameUp \in BOOLEAN /\ lua \in Nat /\ booted \in BOOLEAN
  /\ ran \in Seq(Commands \cup {NoCommand})
WorkerTypeOK == worker \in [Workers -> Records] /\ rpc \in [Workers -> Exchanges]
MainTypeOK ==
  /\ main \in Sessions /\ call \in CallRecords
  /\ result \in [Commands -> {"none", "ok", "notRun", "unknown"}]
  /\ accepted \subseteq Commands \cup {NoCommand} /\ losses \in Nat
TypeInv == SlotTypeOK /\ GameTypeOK /\ WorkerTypeOK /\ MainTypeOK

--------------------------------------------------------------------------------
(* The transitions of one slot.                                              *)

(* A slot fades when flags, the read mark or the generation change, or when  *)
(* a request that was not claimed is cancelled: nothing becomes possible.    *)
Fades(s, t) ==
  /\ t.cmd = s.cmd
  /\ \/ t.state = s.state /\ t.outcome = s.outcome
     \/ s.state = "posted" /\ t.state = "complete" /\ t.outcome = "cancelled"
Fading == \A b \in Leases : Fades(slot[b], slot'[b])
(* One slot changes, and how.                                                *)
Only(b, state, outcome, cmd) ==
  /\ slot'[b].state = state /\ slot'[b].outcome = outcome /\ slot'[b].cmd = cmd
  /\ \A k \in Leases \ {b} : slot'[k] = slot[k]

LEMMA SlotOperations ==
  ASSUME NEW s \in Slots
  PROVE  /\ \A poison \in BOOLEAN : Invalidate(s, poison) \in Slots /\ Fades(s, Invalidate(s, poison))
         /\ \A outcome \in Outcomes \cup {"cancelled"} :
              LET t == Terminal(s, outcome) IN
              t \in Slots /\ t.state = "complete" /\ t.outcome = outcome /\ t.cmd = s.cmd
                /\ t.poisoned = s.poisoned /\ t.gen = s.gen
         /\ \A c \in Commands \cup {NoCommand}, boot \in BOOLEAN :
              LET t == Reserve(s, c, boot) IN
              t \in Slots /\ t.state = "reserving" /\ t.cmd = c /\ t.outcome = "unknown"
         /\ Post(s) \in Slots /\ Post(s).state = "posted" /\ Post(s).cmd = s.cmd /\ Post(s).outcome = s.outcome
         /\ Read(s) \in Slots /\ Fades(s, Read(s))
         /\ Ack(s) \in Slots /\ Ack(s).state = "idle" /\ Ack(s).cmd = s.cmd /\ Ack(s).outcome = s.outcome
<1>1. ASSUME NEW poison \in BOOLEAN PROVE Invalidate(s, poison) \in Slots /\ Fades(s, Invalidate(s, poison))
  <2>. DEFINE flagged == [s EXCEPT !.closed = TRUE, !.poisoned = @ \/ poison]
  <2>1. /\ flagged \in Slots /\ flagged.cmd = s.cmd /\ flagged.state = s.state /\ flagged.outcome = s.outcome
    BY DEF Slots
  <2>2. LET t == Terminal(flagged, "cancelled") IN
        t \in Slots /\ t.cmd = flagged.cmd /\ t.state = "complete" /\ t.outcome = "cancelled"
    <3>. HIDE DEF flagged
    <3>. QED BY <2>1 DEF Slots, SlotStates, Outcomes, Terminal
  <2>3. Invalidate(s, poison) = IF s.state = "posted" THEN Terminal(flagged, "cancelled") ELSE flagged
    BY DEF Invalidate
  <2>. HIDE DEF flagged
  <2>. QED BY <2>1, <2>2, <2>3 DEF Fades
<1>2. ASSUME NEW outcome \in Outcomes \cup {"cancelled"}
      PROVE  LET t == Terminal(s, outcome) IN
             t \in Slots /\ t.state = "complete" /\ t.outcome = outcome /\ t.cmd = s.cmd
               /\ t.poisoned = s.poisoned /\ t.gen = s.gen
  BY DEF Slots, SlotStates, Terminal
<1>3. ASSUME NEW c \in Commands \cup {NoCommand}, NEW boot \in BOOLEAN
      PROVE  LET t == Reserve(s, c, boot) IN
             t \in Slots /\ t.state = "reserving" /\ t.cmd = c /\ t.outcome = "unknown"
  BY DEF Slots, SlotStates, Outcomes, Reserve
<1>4. /\ Post(s) \in Slots /\ Post(s).state = "posted" /\ Post(s).cmd = s.cmd /\ Post(s).outcome = s.outcome
      /\ Read(s) \in Slots /\ Fades(s, Read(s))
      /\ Ack(s) \in Slots /\ Ack(s).state = "idle" /\ Ack(s).cmd = s.cmd /\ Ack(s).outcome = s.outcome
  BY DEF Slots, SlotStates, Fades, Post, Read, Ack
<1>. QED BY <1>1, <1>2, <1>3, <1>4

LEMMA FadeTwice ==
  ASSUME NEW s, NEW t, NEW u, Fades(s, t), Fades(t, u)
  PROVE  Fades(s, u)
BY DEF Fades

LEMMA Standing == NewSlot \in Slots /\ NewSlot.state = "idle"
BY DEF NewSlot, Slots, SlotStates, Outcomes

(* One slot is exchanged.                                                    *)
LEMMA Exchanged ==
  ASSUME SlotTypeOK, NEW b \in Leases, NEW s \in Slots, slot' = [slot EXCEPT ![b] = s]
  PROVE  /\ SlotTypeOK' /\ slot'[b] = s /\ \A k \in Leases \ {b} : slot'[k] = slot[k]
         /\ Fades(slot[b], s) => Fading
BY DEF SlotTypeOK, Fading, Fades

LEMMA Unchanged == UNCHANGED slot => Fading
BY DEF Fading, Fades

LEMMA Closings ==
  ASSUME SlotTypeOK, WorkerTypeOK, NEW w \in Workers, slot' \in {CloseSlot(w), PoisonSlot(w), slot}
  PROVE  SlotTypeOK' /\ Fading
<1>. DEFINE b == worker[w].box
<1>1. CASE UNCHANGED slot
  BY <1>1, Unchanged DEF SlotTypeOK
<1>2. ASSUME b \in Leases, NEW poison \in BOOLEAN, slot' = [slot EXCEPT ![b] = Invalidate(@, poison)]
      PROVE  SlotTypeOK' /\ Fading
  <2>. DEFINE s == Invalidate(slot[b], poison)
  <2>1. slot[b] \in Slots
    BY <1>2 DEF SlotTypeOK
  <2>2. s \in Slots /\ Fades(slot[b], s) /\ slot' = [slot EXCEPT ![b] = s]
    BY <1>2, <2>1, SlotOperations
  <2>. HIDE DEF s
  <2>. QED BY <1>2, <2>2, Exchanged
<1>3. b \in Leases \cup {NoLease}
  BY DEF WorkerTypeOK, Records
<1>. QED BY <1>1, <1>2, <1>3 DEF CloseSlot, PoisonSlot

--------------------------------------------------------------------------------
(* The steps of a worker, as the other parts see them.                       *)

Others(w) ==
  /\ \A v \in Workers \ {w} : worker'[v] = worker[v] /\ rpc'[v] = rpc[v]
  /\ rpc'[w].method = rpc[w].method /\ rpc'[w].cmd = rpc[w].cmd
  /\ UNCHANGED <<main, call, result, accepted>>
Loosens(w) ==
  \/ worker'[w].box = worker[w].box /\ worker'[w].pending \in {worker[w].pending, FALSE}
  \/ worker'[w].box = NoLease /\ ~worker'[w].pending
Moves(w, state) ==
  /\ Others(w) /\ rpc'[w] = rpc[w] /\ worker'[w].state = state /\ worker'[w].pending = worker[w].pending
Answers(w, answer) ==
  /\ Others(w) /\ worker'[w].state = "idle" /\ rpc'[w].reply = answer

LEMMA ReplyIs ==
  ASSUME WorkerTypeOK, MainTypeOK, NEW w \in Workers, NEW r \in Records, NEW answer \in Replies, Reply(w, r, answer)
  PROVE  /\ WorkerTypeOK' /\ MainTypeOK' /\ Answers(w, answer)
         /\ worker'[w].box = r.box /\ worker'[w].pending = r.pending
<1>. DEFINE now == [r EXCEPT !.state = "idle"]
            told == [rpc[w] EXCEPT !.reply = answer, !.pid = r.attached, !.tainted = r.tainted]
<1>1. now \in Records /\ now.state = "idle" /\ now.box = r.box /\ now.pending = r.pending
  BY DEF Records
<1>2. /\ told \in Exchanges /\ told.reply = answer /\ told.method = rpc[w].method /\ told.cmd = rpc[w].cmd
  <2>1. rpc[w] \in Exchanges
    BY DEF WorkerTypeOK
  <2>2. r.attached \in BOOLEAN /\ r.tainted \in BOOLEAN
    BY DEF Records
  <2>. QED BY <2>1, <2>2 DEF Exchanges
<1>3. worker' = [worker EXCEPT ![w] = now] /\ rpc' = [rpc EXCEPT ![w] = told] /\ UNCHANGED mainVars
  BY DEF Reply, WorkerTypeOK
<1>. HIDE DEF now, told
<1>4. worker' \in [Workers -> Records] /\ rpc' \in [Workers -> Exchanges]
  BY <1>1, <1>2, <1>3 DEF WorkerTypeOK
<1>. QED BY <1>1, <1>2, <1>3, <1>4 DEF WorkerTypeOK, MainTypeOK, mainVars, Answers, Others

LEMMA GotoIs ==
  ASSUME WorkerTypeOK, MainTypeOK, NEW w \in Workers, NEW state \in Busy, Goto(w, state)
  PROVE  /\ WorkerTypeOK' /\ MainTypeOK' /\ Moves(w, state) /\ worker'[w].box = worker[w].box
<1>. DEFINE now == [worker[w] EXCEPT !.state = state]
<1>1. now \in Records /\ now.state = state /\ now.box = worker[w].box /\ now.pending = worker[w].pending
  BY DEF Records, WorkerTypeOK
<1>2. worker' = [worker EXCEPT ![w] = now] /\ UNCHANGED <<rpc, mainVars>>
  BY DEF Goto, WorkerTypeOK
<1>. HIDE DEF now
<1>3. worker' \in [Workers -> Records]
  BY <1>1, <1>2 DEF WorkerTypeOK
<1>. QED BY <1>1, <1>2, <1>3 DEF WorkerTypeOK, MainTypeOK, mainVars, Moves, Others

LEMMA Returning ==
  ASSUME WorkerTypeOK, NEW w \in Workers
  PROVE  /\ worker[w] \in Records
         /\ \A r \in Records :
              /\ Unboxed(r) \in Records /\ Unboxed(r).box = NoLease /\ ~Unboxed(r).pending
              /\ Released(r) \in Records /\ Released(r).box = NoLease /\ ~Released(r).pending
              /\ \A on \in BOOLEAN : /\ [r EXCEPT !.tainted = on] \in Records
                                     /\ [r EXCEPT !.tainted = on].box = r.box
                                     /\ [r EXCEPT !.tainted = on].pending = r.pending
                                     /\ [r EXCEPT !.pending = on] \in Records
                                     /\ [r EXCEPT !.pending = on].box = r.box
                                     /\ [r EXCEPT !.pending = on].pending = on
         /\ Dead \in Records /\ Dead.state = "dead" /\ Dead.box = NoLease /\ ~Dead.pending
<1>1. worker[w] \in Records
  BY DEF WorkerTypeOK
<1>2. ASSUME NEW r \in Records
      PROVE  /\ Unboxed(r) \in Records /\ Unboxed(r).box = NoLease /\ ~Unboxed(r).pending
             /\ Released(r) \in Records /\ Released(r).box = NoLease /\ ~Released(r).pending
  BY <1>2 DEF Records, Unboxed, Released
<1>3. ASSUME NEW r \in Records, NEW on \in BOOLEAN
      PROVE  /\ [r EXCEPT !.tainted = on] \in Records
             /\ [r EXCEPT !.tainted = on].box = r.box /\ [r EXCEPT !.tainted = on].pending = r.pending
             /\ [r EXCEPT !.pending = on] \in Records
             /\ [r EXCEPT !.pending = on].box = r.box /\ [r EXCEPT !.pending = on].pending = on
  BY <1>3 DEF Records
<1>4. Dead \in Records /\ Dead.state = "dead" /\ Dead.box = NoLease /\ ~Dead.pending
  BY DEF Records, Dead, NewWorker, Busy
<1>. QED BY <1>1, <1>2, <1>3, <1>4

(* How the game changes when a mailbox is installed.                         *)
Switched ==
  /\ UNCHANGED <<pump, found, gameUp, lua, booted, ran>>
  /\ \/ UNCHANGED <<active, tainted>>
     \/ pump = "idle" /\ tainted' /\ UNCHANGED active
     \/ pump = "idle" /\ active' \in Leases /\ UNCHANGED tainted /\ Retire(ProducerAlive) = "ok"

(* A worker holds its own mailbox, and knows what it has put there.          *)
OwnInv ==
  \A w \in Workers :
    /\ worker[w].state \in {"unborn", "dead"} => worker[w].box = NoLease /\ ~worker[w].pending
    /\ worker[w].state = "unborn" => rpc[w].method = "none"
    /\ worker[w].state \in Busy =>
         worker[w].box # NoLease /\ rpc[w].method = "execute" /\ rpc[w].reply = "none"
    /\ worker[w].pending => worker[w].box # NoLease /\ worker[w].state = "idle"
    /\ worker[w].box # NoLease => slot[worker[w].box].state # "absent"
    /\ \A v \in Workers : worker[w].box = worker[v].box /\ worker[w].box # NoLease => v = w
    /\ rpc[w].method = "execute" => rpc[w].cmd \in Commands
    /\ worker[w].state \in {"reserved", "cancelling"} =>
         slot[worker[w].box].state = "reserving" /\ slot[worker[w].box].cmd = rpc[w].cmd
    /\ worker[w].state \in {"wait", "late"} =>
         /\ slot[worker[w].box].state \in {"posted", "executing", "complete"}
         /\ slot[worker[w].box].cmd = rpc[w].cmd

Box(w) == slot[worker[w].box]
Asked(w, methods) == rpc[w].method \in methods /\ rpc[w].reply = "none"

Ended(w) ==
  /\ Fading /\ Others(w) /\ rpc'[w] = rpc[w] /\ UNCHANGED gameVars
  /\ worker'[w].state = "dead" /\ worker'[w].box = NoLease /\ ~worker'[w].pending
Served(w) ==
  /\ Fading /\ Loosens(w) /\ UNCHANGED gameVars
  /\ worker[w].state = "idle" /\ Asked(w, {"attach", "detach", "taint", "acknowledge"})
  /\ \E answer \in {"ok", "failed"} : Answers(w, answer)
Freed(w) ==
  /\ Loosens(w) /\ Answers(w, "ok") /\ UNCHANGED gameVars
  /\ worker[w].state = "idle" /\ worker[w].pending /\ Asked(w, {"acknowledge"}) /\ ~worker'[w].pending
  /\ worker[w].box # NoLease /\ Box(w).state = "complete"
  /\ Only(worker[w].box, "idle", Box(w).outcome, Box(w).cmd)
Declined(w) ==
  /\ Fading /\ Loosens(w) /\ Switched /\ Asked(w, {"execute"})
  /\ \/ worker[w].state \in {"idle", "install", "submit"} /\ Answers(w, "notRun")
     \/ worker[w].state \in {"submit", "wait", "late"} /\ Answers(w, "unknown")
Begun(w) ==
  /\ UNCHANGED <<slot, gameVars>> /\ Asked(w, {"execute"})
  /\ worker[w].state = "idle" /\ ~worker[w].pending /\ worker[w].box # NoLease
  /\ Moves(w, "submit") /\ worker'[w].box = worker[w].box
Made(w) ==
  /\ UNCHANGED gameVars /\ Asked(w, {"execute"})
  /\ worker[w].state = "idle" /\ ~worker[w].pending /\ worker[w].box = NoLease
  /\ \E l \in Leases : /\ slot[l].state = "absent" /\ slot'[l].state = "idle"
                       /\ \A k \in Leases \ {l} : slot'[k] = slot[k]
                       /\ worker'[w].box = l
  /\ Moves(w, "install")
Entered(w) ==
  /\ Fading /\ Switched /\ worker[w].state = "install"
  /\ Moves(w, "submit") /\ worker'[w].box = worker[w].box
Reserved(w) ==
  /\ UNCHANGED gameVars /\ worker[w].state = "submit" /\ Box(w).state = "idle"
  /\ Only(worker[w].box, "reserving", "unknown", rpc[w].cmd)
  /\ Moves(w, "reserved") /\ worker'[w].box = worker[w].box
Posted(w) ==
  /\ UNCHANGED gameVars /\ worker[w].state = "reserved"
  /\ Only(worker[w].box, "posted", Box(w).outcome, Box(w).cmd)
  /\ Moves(w, "wait") /\ worker'[w].box = worker[w].box
Finished(w) ==
  /\ UNCHANGED gameVars /\ worker[w].state \in {"wait", "late"}
  /\ Box(w).state = "complete" /\ Box(w).outcome \in {"cancelled", "refused", "nil", "gone"}
  /\ Only(worker[w].box, "idle", Box(w).outcome, Box(w).cmd) /\ Loosens(w)
  /\ \E answer \in {"notRun", "nil", "gone"} : Answers(w, answer)
Delivered(w) ==
  /\ UNCHANGED gameVars /\ worker[w].state \in {"wait", "late"}
  /\ Box(w).state = "complete" /\ Box(w).outcome \in Success /\ Fading
  /\ Answers(w, Box(w).outcome) /\ worker'[w].box = worker[w].box /\ worker'[w].pending
Withdrawn(w) ==
  /\ UNCHANGED gameVars /\ worker[w].state = "wait" /\ Box(w).state = "posted"
  /\ Only(worker[w].box, "reserving", Box(w).outcome, Box(w).cmd)
  /\ Moves(w, "cancelling") /\ worker'[w].box = worker[w].box
Lingers(w) ==
  /\ UNCHANGED <<slot, gameVars>> /\ worker[w].state = "wait"
  /\ Moves(w, "late") /\ worker'[w].box = worker[w].box
Cancels(w) ==
  /\ UNCHANGED gameVars /\ worker[w].state = "cancelling"
  /\ Only(worker[w].box, "idle", "cancelled", Box(w).cmd)
  /\ Answers(w, "notRun") /\ Loosens(w)

Event(w) ==
  \/ Ended(w) \/ Served(w) \/ Freed(w) \/ Declined(w) \/ Begun(w) \/ Made(w) \/ Entered(w) \/ Reserved(w)
  \/ Posted(w) \/ Finished(w) \/ Delivered(w) \/ Withdrawn(w) \/ Lingers(w) \/ Cancels(w)

LEMMA ServiceEvents ==
  ASSUME TypeInv, OwnInv, NEW w \in Workers,
         WorkerAttach(w) \/ WorkerDetach(w) \/ WorkerTaint(w) \/ WorkerAcknowledge(w)
  PROVE  TypeInv' /\ Event(w)
<1>. USE DEF TypeInv
<1>. DEFINE r == worker[w]
<1>1. /\ r \in Records /\ Unboxed(r) \in Records /\ Released(r) \in Records
      /\ Unboxed(r).box = NoLease /\ ~Unboxed(r).pending /\ Released(r).box = NoLease /\ ~Released(r).pending
      /\ Tainted(w) \in Records /\ Tainted(w).box = r.box /\ Tainted(w).pending = r.pending
  BY Returning DEF Tainted
<1>2. UNCHANGED gameVars /\ GameTypeOK'
  BY DEF WorkerAttach, WorkerDetach, WorkerTaint, WorkerAcknowledge, gameVars, GameTypeOK
<1>3. worker[w].state = "idle" /\ Asked(w, {"attach", "detach", "taint", "acknowledge"})
  BY DEF WorkerAttach, WorkerDetach, WorkerTaint, WorkerAcknowledge, Requested, Asked
<1>4. ASSUME NEW s \in Records, NEW answer \in {"ok", "failed"}, Reply(w, s, answer),
             \/ s.box = r.box /\ s.pending \in {r.pending, FALSE}
             \/ s.box = NoLease /\ ~s.pending,
             slot' \in {CloseSlot(w), PoisonSlot(w), slot}
      PROVE  TypeInv' /\ Event(w)
  <2>1. WorkerTypeOK' /\ MainTypeOK' /\ Answers(w, answer) /\ worker'[w].box = s.box /\ worker'[w].pending = s.pending
    BY <1>4, ReplyIs DEF Replies
  <2>2. SlotTypeOK' /\ Fading
    BY <1>4, Closings
  <2>3. Loosens(w)
    BY <1>4, <2>1 DEF Loosens
  <2>. QED BY <1>2, <1>3, <2>1, <2>2, <2>3 DEF Event, Served
<1>5. CASE WorkerAttach(w)
  <2>1. CASE Reply(w, r, "ok") /\ UNCHANGED slot
    BY <1>1, <1>4, <2>1
  <2>. DEFINE left == IF r.attached THEN Released(r) ELSE r
              on == [left EXCEPT !.attached = TRUE, !.tainted = FALSE]
  <2>2. left \in Records /\ ((left.box = r.box /\ left.pending = r.pending) \/ (left.box = NoLease /\ ~left.pending))
    <3>1. left = r \/ left = Released(r)
      OBVIOUS
    <3>. HIDE DEF left, r
    <3>. QED BY <1>1, <3>1
  <2>3. on \in Records /\ on.box = left.box /\ on.pending = left.pending
    <3>. HIDE DEF left
    <3>. QED BY <2>2 DEF Records
  <2>4. Released(left) \in Records /\ Released(left).box = NoLease /\ ~Released(left).pending
    <3>. HIDE DEF left
    <3>. QED BY <2>2, Returning
  <2>5. CASE slot' = CloseSlot(w) /\ ((\E answer \in {"ok", "failed"} : Reply(w, on, answer)) \/ Reply(w, Released(left), "failed") \/ Reply(w, left, "failed"))
    <3>. HIDE DEF left, on
    <3>. QED BY <1>4, <2>2, <2>3, <2>4, <2>5
  <2>6. \/ Reply(w, r, "ok") /\ UNCHANGED slot
        \/ slot' = CloseSlot(w) /\ ((\E answer \in {"ok", "failed"} : Reply(w, on, answer)) \/ Reply(w, Released(left), "failed") \/ Reply(w, left, "failed"))
    BY <1>5 DEF WorkerAttach
  <2>. QED BY <2>1, <2>5, <2>6
<1>6. CASE WorkerDetach(w)
  BY <1>1, <1>4, <1>6 DEF WorkerDetach
<1>7. CASE WorkerTaint(w)
  BY <1>1, <1>4, <1>7 DEF WorkerTaint
<1>8. CASE WorkerAcknowledge(w)
  <2>. DEFINE b == r.box
              done == [r EXCEPT !.pending = FALSE]
  <2>1. CASE Reply(w, r, "ok") /\ UNCHANGED slot
    BY <1>1, <1>4, <2>1
  <2>2. CASE slot' = PoisonSlot(w) /\ Reply(w, Tainted(w), "failed")
    BY <1>1, <1>4, <2>2
  <2>3. CASE b # NoLease /\ r.pending /\ CanAck(slot[b]) /\ slot' = [slot EXCEPT ![b] = Ack(@)] /\ Reply(w, done, "ok")
    <3>1. done \in Records /\ done.box = b /\ done.pending = FALSE
      BY Returning
    <3>. HIDE DEF done
    <3>2. WorkerTypeOK' /\ MainTypeOK' /\ Answers(w, "ok") /\ worker'[w].box = b /\ worker'[w].pending = FALSE
      BY <2>3, <3>1, ReplyIs DEF Replies
    <3>3. b \in Leases /\ slot[b] \in Slots
      BY <1>1, <2>3 DEF Records, SlotTypeOK
    <3>4. /\ Ack(slot[b]) \in Slots /\ Ack(slot[b]).state = "idle"
          /\ Ack(slot[b]).cmd = slot[b].cmd /\ Ack(slot[b]).outcome = slot[b].outcome
      BY <3>3, SlotOperations
    <3>5. slot' = [slot EXCEPT ![b] = Ack(slot[b])] /\ slot[b].state = "complete"
      BY <2>3 DEF CanAck
    <3>6. SlotTypeOK' /\ Only(b, "idle", slot[b].outcome, slot[b].cmd)
      BY <3>3, <3>4, <3>5, Exchanged DEF Only
    <3>7. Asked(w, {"acknowledge"})
      BY <1>8 DEF WorkerAcknowledge, Requested, Asked
    <3>. QED BY <1>2, <1>3, <2>3, <3>2, <3>5, <3>6, <3>7 DEF Event, Freed, Loosens, Box
  <2>. QED BY <1>8, <2>1, <2>2, <2>3 DEF WorkerAcknowledge
<1>. QED BY <1>5, <1>6, <1>7, <1>8

LEMMA InstallationEvents ==
  ASSUME TypeInv, OwnInv, NEW w \in Workers, WorkerInstalled(w) \/ WorkerNotInstalled(w)
  PROVE  TypeInv' /\ Event(w)
<1>. USE DEF TypeInv
<1>. DEFINE b == worker[w].box
            r(poison) == Unboxed([worker[w] EXCEPT !.tainted = @ \/ poison])
<1>1. /\ worker[w].state = "install" /\ b \in Leases /\ Asked(w, {"execute"})
      /\ slot \in [Leases -> Slots] /\ active \in Leases \cup {NoLease} /\ lua \in Nat
  BY DEF WorkerInstalled, WorkerNotInstalled, OwnInv, Busy, Asked, WorkerTypeOK, Records, SlotTypeOK, GameTypeOK
<1>2. ASSUME NEW poison \in BOOLEAN
      PROVE  r(poison) \in Records /\ r(poison).box = NoLease /\ ~r(poison).pending
  <2>. DEFINE on == worker[w].tainted \/ poison
  <2>1. [worker[w] EXCEPT !.tainted = on] \in Records
    BY DEF WorkerTypeOK, Records
  <2>. QED BY <2>1, Returning
<1>3. \A k \in Leases, poison \in BOOLEAN : LET t == Invalidate(slot[k], poison) IN
        t \in Slots /\ Fades(slot[k], t)
  BY <1>1, SlotOperations
<1>4. \A k \in Leases : slot[k] \in Slots /\ Fades(slot[k], slot[k])
  BY <1>1 DEF Fades
<1>5. ASSUME NEW s, NEW t \in Slots, Fades(s, t)
      PROVE  [t EXCEPT !.gen = lua] \in Slots /\ Fades(s, [t EXCEPT !.gen = lua])
  BY <1>1, <1>5 DEF Slots, Fades
<1>6. ASSUME NEW poison \in BOOLEAN, Reply(w, r(poison), "notRun"), SlotTypeOK', Fading, Switched, GameTypeOK'
      PROVE  TypeInv' /\ Event(w)
  <2>1. r(poison) \in Records /\ r(poison).box = NoLease /\ ~r(poison).pending
    BY <1>2
  <2>. HIDE DEF r
  <2>2. WorkerTypeOK' /\ MainTypeOK' /\ Answers(w, "notRun") /\ worker'[w].box = NoLease /\ ~worker'[w].pending
    BY <1>6, <2>1, ReplyIs DEF Replies
  <2>. QED BY <1>1, <1>6, <2>2 DEF Event, Declined, Loosens
<1>7. ASSUME NEW new, active' = b, UNCHANGED <<pump, found, tainted, gameUp, lua, booted, ran>>, Boundary,
             Retire(ProducerAlive) = "ok", new \in Slots, Fades(slot[b], new),
             slot' = [k \in Leases |-> IF k = b THEN new
                                       ELSE IF k = active THEN Invalidate(slot[k], FALSE) ELSE slot[k]]
      PROVE  SlotTypeOK' /\ Fading /\ Switched /\ GameTypeOK'
  <2>1. \A k \in Leases : slot'[k] \in Slots /\ Fades(slot[k], slot'[k])
    BY <1>3, <1>4, <1>7
  <2>. QED BY <1>1, <1>7, <2>1 DEF SlotTypeOK, Fading, Switched, GameTypeOK, Boundary
<1>8. CASE WorkerInstalled(w)
  <2>. DEFINE new == [slot[b] EXCEPT !.gen = lua]
  <2>1. new \in Slots /\ Fades(slot[b], new)
    BY <1>1, <1>4, <1>5
  <2>2. /\ active' = b /\ UNCHANGED <<pump, found, tainted, gameUp, lua, booted, ran>> /\ Boundary
        /\ Retire(ProducerAlive) = "ok" /\ Goto(w, "submit")
        /\ slot' = [k \in Leases |-> IF k = b THEN new
                                     ELSE IF k = active THEN Invalidate(slot[k], FALSE) ELSE slot[k]]
    BY <1>8 DEF WorkerInstalled, Install
  <2>. HIDE DEF new
  <2>3. SlotTypeOK' /\ Fading /\ Switched /\ GameTypeOK'
    BY <1>7, <2>1, <2>2
  <2>4. WorkerTypeOK' /\ MainTypeOK' /\ Moves(w, "submit") /\ worker'[w].box = worker[w].box
    BY <2>2, GotoIs DEF Busy
  <2>. QED BY <1>1, <2>3, <2>4 DEF Event, Entered
<1>9. CASE WorkerNotInstalled(w)
  <2>. DEFINE drop(poison) == [slot EXCEPT ![b] = Invalidate(@, poison)]
  <2>1. ASSUME NEW poison \in BOOLEAN
        PROVE  /\ drop(poison) \in [Leases -> Slots]
               /\ \A k \in Leases : Fades(slot[k], drop(poison)[k])
    BY <1>1, <1>3, <1>4
  <2>2. CASE /\ \E unsure \in BOOLEAN : slot' = drop(unsure) /\ Reply(w, r(unsure), "notRun")
             /\ UNCHANGED <<active, tainted>>
    <3>. PICK unsure \in BOOLEAN : slot' = drop(unsure) /\ Reply(w, r(unsure), "notRun")
      BY <2>2
    <3>1. SlotTypeOK' /\ Fading
      BY <2>1 DEF SlotTypeOK, Fading
    <3>2. Switched /\ GameTypeOK'
      BY <1>9, <2>2 DEF WorkerNotInstalled, Switched, GameTypeOK
    <3>. HIDE DEF r, drop
    <3>. QED BY <1>6, <3>1, <3>2
  <2>3. CASE /\ Boundary
             /\ slot' = IF active # NoLease
                        THEN [drop(TRUE) EXCEPT ![active] = IF tainted THEN @ ELSE Invalidate(@, TRUE)]
                        ELSE drop(TRUE)
             /\ tainted' = TRUE /\ UNCHANGED active /\ Reply(w, r(TRUE), "notRun")
    <3>. DEFINE dropped == drop(TRUE)
    <3>1. dropped \in [Leases -> Slots] /\ \A k \in Leases : Fades(slot[k], dropped[k])
      BY <2>1
    <3>2. slot' = IF active # NoLease
                  THEN [dropped EXCEPT ![active] = IF tainted THEN @ ELSE Invalidate(@, TRUE)]
                  ELSE dropped
      BY <2>3
    <3>. HIDE DEF dropped
    <3>3. \A k \in Leases : LET t == Invalidate(dropped[k], TRUE) IN t \in Slots /\ Fades(dropped[k], t)
      BY <3>1, SlotOperations
    <3>4. \A k \in Leases : LET t == Invalidate(dropped[k], TRUE) IN t \in Slots /\ Fades(slot[k], t)
      BY <3>1, <3>3, FadeTwice
    <3>5. SlotTypeOK' /\ Fading
      BY <1>1, <3>1, <3>2, <3>4 DEF SlotTypeOK, Fading
    <3>6. Switched /\ GameTypeOK'
      BY <1>9, <2>3 DEF WorkerNotInstalled, Switched, GameTypeOK, Boundary
    <3>. HIDE DEF r, drop
    <3>. QED BY <1>6, <2>3, <3>5, <3>6
  <2>4. CASE /\ Boundary /\ Retire(ProducerAlive) = "ok" /\ active' = b
             /\ slot' = [k \in Leases |->
                           IF k = b THEN [Invalidate(slot[k], TRUE) EXCEPT !.gen = lua]
                           ELSE IF k = active THEN Invalidate(slot[k], FALSE) ELSE slot[k]]
             /\ Reply(w, r(TRUE), "notRun") /\ UNCHANGED tainted
    <3>. DEFINE new == [Invalidate(slot[b], TRUE) EXCEPT !.gen = lua]
    <3>1. new \in Slots /\ Fades(slot[b], new)
      BY <1>1, <1>3, <1>5
    <3>2. slot' = [k \in Leases |-> IF k = b THEN new
                                    ELSE IF k = active THEN Invalidate(slot[k], FALSE) ELSE slot[k]]
      BY <2>4
    <3>. HIDE DEF new
    <3>3. SlotTypeOK' /\ Fading /\ Switched /\ GameTypeOK'
      BY <1>7, <1>9, <2>4, <3>1, <3>2 DEF WorkerNotInstalled
    <3>. HIDE DEF r, drop
    <3>. QED BY <1>6, <2>4, <3>3
  <2>. QED BY <1>9, <2>2, <2>3, <2>4 DEF WorkerNotInstalled
<1>. QED BY <1>8, <1>9

LEMMA CommandEvents ==
  ASSUME TypeInv, OwnInv, NEW w \in Workers,
         \/ WorkerExecute(w) \/ WorkerReserve(w) \/ WorkerPost(w) \/ WorkerFinish(w)
         \/ WorkerCancel(w) \/ WorkerCancelled(w) \/ WorkerLate(w)
  PROVE  TypeInv' /\ Event(w)
<1>. USE DEF TypeInv
<1>. DEFINE r == worker[w]
            b == r.box
            done == Unboxed(r)
            full == [r EXCEPT !.pending = TRUE]
<1>1. UNCHANGED gameVars /\ GameTypeOK' /\ Switched
  BY DEF WorkerExecute, WorkerReserve, WorkerPost, WorkerFinish, WorkerCancel, WorkerCancelled, WorkerLate,
         gameVars, GameTypeOK, Switched
<1>2. /\ r \in Records /\ b \in Leases \cup {NoLease}
      /\ Tainted(w) \in Records /\ Tainted(w).box = b /\ Tainted(w).pending = r.pending
      /\ done \in Records /\ done.box = NoLease /\ ~done.pending
      /\ full \in Records /\ full.box = b /\ full.pending
  <2>1. r \in Records
    BY Returning
  <2>2. b \in Leases \cup {NoLease}
    BY <2>1 DEF Records
  <2>3. done \in Records /\ done.box = NoLease /\ ~done.pending
    BY <2>1, Returning
  <2>4. full \in Records /\ full.box = b /\ full.pending
    BY <2>1, Returning
  <2>5. Tainted(w) \in Records /\ Tainted(w).box = b /\ Tainted(w).pending = r.pending
    BY <2>1, Returning DEF Tainted
  <2>. QED BY <2>1, <2>2, <2>3, <2>4, <2>5
<1>3. Asked(w, {"execute"})
  BY DEF WorkerExecute, WorkerReserve, WorkerPost, WorkerFinish, WorkerCancel, WorkerCancelled, WorkerLate,
         Requested, Asked, OwnInv, Busy
<1>4. ~WorkerExecute(w) => b \in Leases /\ r.state \in Busy
  BY <1>2 DEF WorkerReserve, WorkerPost, WorkerFinish, WorkerCancel, WorkerCancelled, WorkerLate,
         OwnInv, Busy
<1>5. b \in Leases => slot[b] \in Slots
  BY DEF SlotTypeOK
<1>. HIDE DEF done, full
<1>6. ASSUME SlotTypeOK', Fading, NEW s \in Records, NEW answer \in Replies, Reply(w, s, answer),
             \/ s.box = b /\ s.pending = r.pending
             \/ s.box = NoLease /\ ~s.pending,
             \/ r.state \in {"idle", "install", "submit"} /\ answer = "notRun"
             \/ r.state \in {"submit", "wait", "late"} /\ answer = "unknown"
      PROVE  TypeInv' /\ Event(w)
  <2>1. WorkerTypeOK' /\ MainTypeOK' /\ Answers(w, answer) /\ worker'[w].box = s.box /\ worker'[w].pending = s.pending
    BY <1>6, ReplyIs
  <2>. QED BY <1>1, <1>3, <1>6, <2>1 DEF Event, Declined, Loosens
<1>7. ASSUME NEW state \in Busy, Goto(w, state)
      PROVE  WorkerTypeOK' /\ MainTypeOK' /\ Moves(w, state) /\ worker'[w].box = b
  BY <1>7, GotoIs
<1>8. CASE WorkerExecute(w)
  <2>1. CASE Reply(w, r, "notRun") /\ UNCHANGED slot
    <3>1. SlotTypeOK' /\ Fading /\ r.state = "idle"
      BY <1>8, <2>1, Unchanged DEF WorkerExecute, Requested, SlotTypeOK
    <3>. QED BY <1>2, <1>6, <2>1, <3>1 DEF Replies
  <2>2. CASE ~r.pending /\ b # NoLease /\ Goto(w, "submit") /\ UNCHANGED slot
    <3>1. r.state = "idle" /\ SlotTypeOK'
      BY <1>8, <2>2 DEF WorkerExecute, Requested, SlotTypeOK
    <3>. QED BY <1>1, <1>3, <1>7, <2>2, <3>1 DEF Busy, Event, Begun
  <2>3. ASSUME ~r.pending, b = NoLease, NEW l \in Leases, slot[l].state = "absent",
               slot' = [slot EXCEPT ![l] = NewSlot],
               worker' = [worker EXCEPT ![w].box = l, ![w].state = "install"], UNCHANGED <<rpc, mainVars>>
        PROVE  TypeInv' /\ Event(w)
    <3>. DEFINE now == [r EXCEPT !.box = l, !.state = "install"]
    <3>1. now \in Records /\ now.box = l /\ now.state = "install" /\ now.pending = r.pending
      BY <1>2 DEF Records, Busy
    <3>2. worker' = [worker EXCEPT ![w] = now]
      BY <2>3 DEF WorkerTypeOK
    <3>. HIDE DEF now
    <3>3. worker' \in [Workers -> Records] /\ worker'[w] = now /\ \A v \in Workers \ {w} : worker'[v] = worker[v]
      BY <3>1, <3>2 DEF WorkerTypeOK
    <3>4. SlotTypeOK' /\ slot'[l].state = "idle" /\ \A k \in Leases \ {l} : slot'[k] = slot[k]
      BY <2>3, Standing, Exchanged
    <3>5. WorkerTypeOK' /\ MainTypeOK' /\ Moves(w, "install")
      BY <2>3, <3>1, <3>3 DEF WorkerTypeOK, MainTypeOK, mainVars, Moves, Others
    <3>6. r.state = "idle"
      BY <1>8 DEF WorkerExecute, Requested
    <3>7. Made(w)
      BY <1>1, <1>3, <2>3, <3>1, <3>3, <3>4, <3>5, <3>6 DEF Made
    <3>. QED BY <1>1, <3>4, <3>5, <3>7 DEF Event
  <2>. QED BY <1>8, <2>1, <2>2, <2>3 DEF WorkerExecute
<1>9. CASE WorkerReserve(w)
  <2>1. r.state = "submit" /\ b \in Leases
    BY <1>4, <1>9 DEF WorkerReserve, WorkerExecute, Requested
  <2>2. CASE CanSubmit(slot[b]) /\ slot' = [slot EXCEPT ![b] = Reserve(@, rpc[w].cmd, rpc[w].boot)] /\ Goto(w, "reserved")
    <3>. DEFINE new == Reserve(slot[b], rpc[w].cmd, rpc[w].boot)
    <3>1. new \in Slots /\ new.state = "reserving" /\ new.cmd = rpc[w].cmd /\ new.outcome = "unknown"
      <4>1. slot[b] \in Slots /\ rpc[w].cmd \in Commands \cup {NoCommand} /\ rpc[w].boot \in BOOLEAN
        BY <1>5, <2>1 DEF WorkerTypeOK, Exchanges
      <4>. QED BY <4>1 DEF Reserve, Slots, SlotStates, Outcomes
    <3>2. slot' = [slot EXCEPT ![b] = new] /\ slot[b].state = "idle"
      BY <2>2 DEF CanSubmit
    <3>. HIDE DEF new
    <3>3. SlotTypeOK' /\ Only(b, "reserving", "unknown", rpc[w].cmd)
      BY <2>1, <3>1, <3>2, Exchanged DEF Only
    <3>. QED BY <1>1, <1>7, <2>1, <2>2, <3>2, <3>3 DEF Busy, Event, Reserved, Box
  <2>3. CASE slot' = PoisonSlot(w) /\ Reply(w, Tainted(w), "unknown")
    <3>1. SlotTypeOK' /\ Fading
      BY <2>3, Closings
    <3>. QED BY <1>2, <1>6, <2>1, <2>3, <3>1 DEF Replies
  <2>4. CASE UNCHANGED slot /\ Reply(w, r, "notRun")
    <3>1. SlotTypeOK' /\ Fading
      BY <2>4, Closings
    <3>. QED BY <1>2, <1>6, <2>1, <2>4, <3>1 DEF Replies
  <2>. QED BY <1>9, <2>2, <2>3, <2>4 DEF WorkerReserve
<1>10. CASE WorkerPost(w)
  <2>1. r.state = "reserved" /\ b \in Leases /\ Goto(w, "wait") /\ slot' = [slot EXCEPT ![b] = Post(@)]
    BY <1>4, <1>10 DEF WorkerPost, WorkerExecute, Requested
  <2>2. SlotTypeOK' /\ Only(b, "posted", slot[b].outcome, slot[b].cmd)
    <3>. DEFINE new == Post(slot[b])
    <3>1. new \in Slots /\ new.state = "posted" /\ new.cmd = slot[b].cmd /\ new.outcome = slot[b].outcome
      BY <1>5, <2>1, SlotOperations
    <3>2. slot' = [slot EXCEPT ![b] = new]
      BY <2>1
    <3>. HIDE DEF new
    <3>. QED BY <2>1, <3>1, <3>2, Exchanged DEF Only
  <2>. QED BY <1>1, <1>7, <2>1, <2>2 DEF Busy, Event, Posted, Box
<1>11. CASE WorkerFinish(w)
  <2>1. /\ r.state \in {"wait", "late"} /\ b \in Leases /\ slot[b].state = "complete"
        /\ slot[b] \in Slots /\ Read(slot[b]) \in Slots /\ Fades(slot[b], Read(slot[b]))
    BY <1>4, <1>5, <1>11, SlotOperations DEF WorkerFinish, WorkerExecute, Requested
  <2>2. CASE slot' = [slot EXCEPT ![b] = Invalidate(Read(@), TRUE)] /\ Reply(w, Tainted(w), "unknown")
    <3>. DEFINE new == Invalidate(Read(slot[b]), TRUE)
    <3>1. new \in Slots /\ Fades(slot[b], new)
      BY <2>1, SlotOperations, FadeTwice
    <3>. HIDE DEF new
    <3>2. SlotTypeOK' /\ Fading
      BY <2>1, <2>2, <3>1, Exchanged DEF new
    <3>. QED BY <1>2, <1>6, <2>1, <2>2, <3>2 DEF Replies
  <2>. DEFINE acked == Ack(Read(slot[b]))
  <2>3. acked \in Slots /\ acked.state = "idle" /\ acked.cmd = slot[b].cmd /\ acked.outcome = slot[b].outcome
    <3>. DEFINE seen == Read(slot[b])
    <3>1. seen \in Slots /\ seen.cmd = slot[b].cmd /\ seen.outcome = slot[b].outcome
      BY <2>1 DEF Fades
    <3>. HIDE DEF seen
    <3>2. Ack(seen) \in Slots /\ Ack(seen).state = "idle" /\ Ack(seen).cmd = seen.cmd /\ Ack(seen).outcome = seen.outcome
      BY <3>1, SlotOperations
    <3>. QED BY <3>1, <3>2 DEF seen
  <2>4. ASSUME slot[b].outcome \in {"cancelled", "refused", "nil", "gone"}, NEW new \in Slots,
               slot' = [slot EXCEPT ![b] = new], Fades(acked, new), NEW answer \in {"notRun", "nil", "gone"},
               NEW s \in {r, done}, Reply(w, s, answer)
        PROVE  TypeInv' /\ Event(w)
    <3>. HIDE DEF acked
    <3>1. new.state = "idle" /\ new.cmd = slot[b].cmd /\ new.outcome = slot[b].outcome
      BY <2>3, <2>4 DEF Fades
    <3>2. SlotTypeOK' /\ Only(b, "idle", slot[b].outcome, slot[b].cmd)
      BY <2>1, <2>4, <3>1, Exchanged DEF Only
    <3>3. /\ WorkerTypeOK' /\ MainTypeOK' /\ Answers(w, answer)
          /\ worker'[w].box = s.box /\ worker'[w].pending = s.pending
      BY <1>2, <2>4, ReplyIs DEF Replies
    <3>4. Loosens(w)
      BY <1>2, <2>4, <3>3 DEF Loosens
    <3>. QED BY <1>1, <2>1, <2>4, <3>2, <3>3, <3>4 DEF Event, Finished, Box
  <2>5. CASE /\ slot[b].outcome \in {"cancelled", "refused", "nil"} /\ slot' = [slot EXCEPT ![b] = acked]
             /\ Reply(w, r, IF slot[b].outcome = "nil" THEN "nil" ELSE "notRun")
    <3>. HIDE DEF acked
    <3>1. Fades(acked, acked)
      BY DEF Fades
    <3>. QED BY <2>3, <2>4, <2>5, <3>1
  <2>6. CASE /\ slot[b].outcome = "gone" /\ Reply(w, done, "gone")
             /\ slot' = [slot EXCEPT ![b] = Invalidate(acked, FALSE)]
    <3>. DEFINE new == Invalidate(acked, FALSE)
    <3>1. new \in Slots /\ Fades(acked, new)
      <4>. HIDE DEF acked
      <4>. QED BY <2>3, SlotOperations
    <3>2. slot' = [slot EXCEPT ![b] = new]
      BY <2>6
    <3>. HIDE DEF new, acked
    <3>. QED BY <2>4, <2>6, <3>1, <3>2
  <2>7. CASE slot[b].outcome \in Success /\ slot' = [slot EXCEPT ![b] = Read(@)] /\ Reply(w, full, slot[b].outcome)
    <3>1. SlotTypeOK' /\ Fading
      BY <2>1, <2>7, Exchanged
    <3>2. /\ WorkerTypeOK' /\ MainTypeOK' /\ Answers(w, slot[b].outcome)
          /\ worker'[w].box = b /\ worker'[w].pending
      BY <1>2, <2>7, ReplyIs DEF Replies, Success
    <3>. QED BY <1>1, <2>1, <2>7, <3>1, <3>2 DEF Event, Delivered, Box
  <2>8. [slot EXCEPT ![b] = Ack(Read(@))] = [slot EXCEPT ![b] = acked]
    OBVIOUS
  <2>9. slot[b].outcome = "gone" =>
          [[slot EXCEPT ![b] = Ack(Read(@))] EXCEPT ![b] = Invalidate(@, FALSE)]
            = [slot EXCEPT ![b] = Invalidate(acked, FALSE)]
    BY <2>1 DEF SlotTypeOK
  <2>. QED BY <1>11, <2>2, <2>5, <2>6, <2>7, <2>8, <2>9 DEF WorkerFinish, done, full
<1>12. CASE WorkerCancel(w)
  <2>1. r.state = "wait" /\ b \in Leases
    BY <1>4, <1>12 DEF WorkerCancel, WorkerExecute, Requested
  <2>2. CASE slot[b].state = "posted" /\ slot' = [slot EXCEPT ![b].state = "reserving"] /\ Goto(w, "cancelling")
    <3>. DEFINE new == [slot[b] EXCEPT !.state = "reserving"]
    <3>1. new \in Slots /\ new.state = "reserving" /\ new.cmd = slot[b].cmd /\ new.outcome = slot[b].outcome
      BY <1>5, <2>1 DEF Slots, SlotStates
    <3>2. slot' = [slot EXCEPT ![b] = new]
      BY <2>2
    <3>. HIDE DEF new
    <3>3. SlotTypeOK' /\ Only(b, "reserving", slot[b].outcome, slot[b].cmd)
      BY <2>1, <3>1, <3>2, Exchanged DEF Only
    <3>. QED BY <1>1, <1>7, <2>1, <2>2, <3>3 DEF Busy, Event, Withdrawn, Box
  <2>3. CASE Goto(w, "late") /\ UNCHANGED slot
    BY <1>1, <1>7, <2>1, <2>3 DEF Busy, Event, Lingers, SlotTypeOK
  <2>. QED BY <1>12, <2>2, <2>3 DEF WorkerCancel, CanCancel
<1>13. CASE WorkerCancelled(w)
  <2>. DEFINE ended == Terminal(slot[b], "cancelled")
              new == Ack(Read(ended))
  <2>1. r.state = "cancelling" /\ b \in Leases /\ Reply(w, r, "notRun") /\ slot' = [slot EXCEPT ![b] = new]
    BY <1>4, <1>13 DEF WorkerCancelled, WorkerExecute, Requested
  <2>2. ended \in Slots /\ ended.outcome = "cancelled" /\ ended.cmd = slot[b].cmd
    <3>1. slot[b] \in Slots
      BY <1>5, <2>1
    <3>. QED BY <3>1 DEF Terminal, Slots, SlotStates
  <2>3. new \in Slots /\ new.state = "idle" /\ new.outcome = "cancelled" /\ new.cmd = slot[b].cmd
    <3>. DEFINE seen == Read(ended)
    <3>. HIDE DEF ended
    <3>1. seen \in Slots /\ seen.outcome = ended.outcome /\ seen.cmd = ended.cmd
      BY <2>2 DEF Slots, Read
    <3>. HIDE DEF seen
    <3>2. Ack(seen) \in Slots /\ Ack(seen).state = "idle" /\ Ack(seen).cmd = seen.cmd /\ Ack(seen).outcome = seen.outcome
      BY <3>1, SlotOperations
    <3>. QED BY <2>2, <3>1, <3>2 DEF seen
  <2>. HIDE DEF new
  <2>4. SlotTypeOK' /\ Only(b, "idle", "cancelled", slot[b].cmd)
    BY <2>1, <2>3, Exchanged DEF Only
  <2>5. WorkerTypeOK' /\ MainTypeOK' /\ Answers(w, "notRun") /\ worker'[w].box = b /\ worker'[w].pending = r.pending
    BY <1>2, <2>1, ReplyIs DEF Replies
  <2>. QED BY <1>1, <2>1, <2>4, <2>5 DEF Event, Cancels, Loosens, Box
<1>14. CASE WorkerLate(w)
  <2>1. r.state = "late" /\ slot' = PoisonSlot(w) /\ Reply(w, Tainted(w), "unknown")
    BY <1>14 DEF WorkerLate
  <2>2. SlotTypeOK' /\ Fading
    BY <2>1, Closings
  <2>. QED BY <1>2, <1>6, <2>1, <2>2 DEF Replies
<1>. QED BY <1>8, <1>9, <1>10, <1>11, <1>12, <1>13, <1>14

LEMMA EndEvents ==
  ASSUME TypeInv, OwnInv, NEW w \in Workers, WorkerEnds(w) \/ WorkerInterrupted(w) \/ WorkerKilled(w)
  PROVE  TypeInv' /\ Event(w)
<1>. USE DEF TypeInv
<1>1. slot' \in {CloseSlot(w), PoisonSlot(w), slot} /\ worker' = [worker EXCEPT ![w] = Dead]
  BY DEF WorkerEnds, WorkerInterrupted, WorkerKilled
<1>2. SlotTypeOK' /\ Fading
  BY <1>1, Closings
<1>3. Dead \in Records /\ Dead.state = "dead" /\ Dead.box = NoLease /\ ~Dead.pending
  BY Returning
<1>4. /\ worker' \in [Workers -> Records] /\ worker'[w] = Dead
      /\ \A v \in Workers \ {w} : worker'[v] = worker[v]
  BY <1>1, <1>3 DEF WorkerTypeOK
<1>5. UNCHANGED <<gameVars, rpc, main, call, result, accepted>> /\ losses' \in Nat
  BY DEF WorkerEnds, WorkerInterrupted, WorkerKilled, mainVars, MainTypeOK
<1>6. GameTypeOK' /\ WorkerTypeOK' /\ MainTypeOK'
  BY <1>4, <1>5 DEF GameTypeOK, gameVars, WorkerTypeOK, MainTypeOK
<1>7. Ended(w)
  BY <1>2, <1>3, <1>4, <1>5 DEF Ended, Others
<1>. QED BY <1>2, <1>6, <1>7 DEF Event

LEMMA WorkerEvents ==
  ASSUME TypeInv, OwnInv, NEW w \in Workers, WorkerStep(w) \/ WorkerInterrupted(w) \/ WorkerKilled(w)
  PROVE  TypeInv' /\ Event(w)
BY ServiceEvents, InstallationEvents, CommandEvents, EndEvents DEF WorkerStep

--------------------------------------------------------------------------------
(* The steps of the game.                                                    *)
NotRun      == {"cancelled", "refused", "nil", "gone", "handoff"}
RunOutcomes == {"ok", "unsure", "marker", "unknown"}

Apart == UNCHANGED <<worker, rpc, main, call, result, accepted, active>>
Rests  == Apart /\ Fading /\ UNCHANGED <<pump, found, ran>> /\ (UNCHANGED tainted \/ (pump = "idle" /\ tainted'))
Checks ==
  /\ Apart /\ UNCHANGED <<slot, found, tainted, ran>>
  /\ pump = "idle" /\ pump' = "checked" /\ active # NoLease /\ ~tainted
Claims ==
  /\ Apart /\ UNCHANGED <<found, tainted, ran>> /\ pump = "checked"
  /\ \/ UNCHANGED slot /\ pump' = "idle"
     \/ /\ slot[active].state = "posted" /\ pump' = "claimed"
        /\ Only(active, "executing", slot[active].outcome, slot[active].cmd)
Runs ==
  /\ Apart /\ UNCHANGED <<slot, tainted>> /\ pump = "claimed" /\ pump' = "evaluated"
  /\ \/ found' \in NotRun /\ UNCHANGED ran
     \/ found' \in RunOutcomes /\ ran' = Append(ran, slot[active].cmd)
Finishes ==
  /\ Apart /\ UNCHANGED <<found, ran>> /\ pump = "evaluated" /\ pump' = "idle"
  /\ (tainted \/ found = "unknown") => tainted'
  /\ Only(active, "complete", found, slot[active].cmd)

LEMMA GameEvents ==
  ASSUME TypeInv, Game(ProducerAlive), UNCHANGED <<worker, rpc, mainVars>>
  PROVE  TypeInv' /\ (Rests \/ Checks \/ Claims \/ Runs \/ Finishes)
<1>. USE DEF TypeInv
<1>1. WorkerTypeOK' /\ MainTypeOK' /\ Apart
  BY DEF Game, PumpTaint, PumpCheck, PumpClaim, PumpRun, PumpFinish, LuaReload, GameExit,
         WorkerTypeOK, MainTypeOK, mainVars, Apart
<1>. DEFINE s == slot[active]
<1>2. active # NoLease => active \in Leases /\ s \in Slots
  BY DEF SlotTypeOK, GameTypeOK
<1>3. UNCHANGED slot => SlotTypeOK' /\ Fading
  BY Unchanged DEF SlotTypeOK
<1>4. CASE PumpTaint \/ LuaReload \/ GameExit
  <2>1. UNCHANGED <<slot, pump, found, ran, active>>
    BY <1>4 DEF PumpTaint, LuaReload, GameExit
  <2>2. tainted' = tainted \/ (pump = "idle" /\ tainted' = TRUE)
    BY <1>4 DEF PumpTaint, LuaReload, GameExit
  <2>3. gameUp' \in BOOLEAN /\ booted' \in BOOLEAN
    <3>1. (gameUp' = gameUp \/ gameUp' = FALSE) /\ (booted' = booted \/ booted' = FALSE)
      BY <1>4 DEF PumpTaint, LuaReload, GameExit
    <3>. QED BY <3>1 DEF GameTypeOK
  <2>4. lua' \in Nat
    BY <1>4 DEF PumpTaint, LuaReload, GameExit, GameTypeOK
  <2>5. GameTypeOK'
    BY <2>1, <2>2, <2>3, <2>4 DEF GameTypeOK
  <2>. QED BY <1>1, <1>3, <2>1, <2>2, <2>5 DEF Rests
<1>5. CASE PumpCheck(ProducerAlive)
  <2>1. CASE pump' = "checked" /\ UNCHANGED slot
    BY <1>1, <1>3, <1>5, <2>1 DEF PumpCheck, Serving, GameTypeOK, Checks
  <2>2. CASE slot' = [slot EXCEPT ![active] = Invalidate(@, FALSE)] /\ UNCHANGED pump
    <3>. DEFINE new == Invalidate(s, FALSE)
    <3>1. active \in Leases /\ new \in Slots /\ Fades(s, new)
      BY <1>2, <1>5, SlotOperations DEF PumpCheck, Serving
    <3>2. slot' = [slot EXCEPT ![active] = new]
      BY <2>2
    <3>. HIDE DEF new
    <3>3. SlotTypeOK' /\ Fading
      BY <3>1, <3>2, Exchanged
    <3>. QED BY <1>1, <1>2, <1>5, <2>2, <3>1, <3>3 DEF PumpCheck, Serving, GameTypeOK, Rests
  <2>. QED BY <1>5, <2>1, <2>2 DEF PumpCheck
<1>6. CASE PumpClaim
  <2>1. CASE pump' = "idle" /\ UNCHANGED slot
    BY <1>1, <1>3, <1>6, <2>1 DEF PumpClaim, GameTypeOK, Claims
  <2>2. CASE s.state = "posted" /\ slot' = [slot EXCEPT ![active].state = "executing"] /\ pump' = "claimed"
    <3>. DEFINE new == [s EXCEPT !.state = "executing"]
    <3>1. /\ active \in Leases /\ new \in Slots /\ new.state = "executing"
          /\ new.outcome = s.outcome /\ new.cmd = s.cmd
      BY <1>2, <1>6 DEF PumpClaim, Serving, Slots, SlotStates
    <3>2. slot' = [slot EXCEPT ![active] = new]
      BY <2>2
    <3>. HIDE DEF new
    <3>3. SlotTypeOK' /\ Only(active, "executing", s.outcome, s.cmd)
      BY <3>1, <3>2, Exchanged DEF Only
    <3>. QED BY <1>1, <1>6, <2>2, <3>1, <3>3 DEF PumpClaim, Serving, GameTypeOK, Claims
  <2>. QED BY <1>6, <2>1, <2>2 DEF PumpClaim, CanCancel
<1>7. CASE PumpRun
  <2>1. CASE found' = "gone" /\ UNCHANGED <<ran, booted>>
    BY <1>1, <1>3, <1>7, <2>1 DEF PumpRun, GameTypeOK, Outcomes, NotRun, Runs
  <2>2. ASSUME NEW e \in Effects(s), found' = e[1], ran' = IF e[2] THEN Append(ran, s.cmd) ELSE ran,
               booted' = (booted \/ s.boot)
        PROVE  GameTypeOK' /\ Runs
    <3>1. \/ e[1] \in RunOutcomes /\ e[2] = TRUE
          \/ e[1] \in NotRun /\ e[1] \in Outcomes /\ e[2] = FALSE
      <4>1. \/ \E o \in {"ok", "unsure", "marker", "unknown"} : e = <<o, TRUE>>
            \/ e \in {<<"handoff", FALSE>>, <<"refused", FALSE>>, <<"nil", FALSE>>}
        BY <2>2 DEF Effects
      <4>2. CASE \E o \in {"ok", "unsure", "marker", "unknown"} : e = <<o, TRUE>>
        BY <4>2 DEF RunOutcomes
      <4>3. CASE e \in {<<"handoff", FALSE>>, <<"refused", FALSE>>, <<"nil", FALSE>>}
        <5>1. \E o \in {"handoff", "refused", "nil"} : e = <<o, FALSE>>
          BY <4>3
        <5>. QED BY <5>1 DEF NotRun, Outcomes
      <4>. QED BY <4>1, <4>2, <4>3
    <3>2. ran' \in Seq(Commands \cup {NoCommand}) /\ booted' \in BOOLEAN
      BY <1>2, <1>7, <2>2, <3>1 DEF PumpRun, Serving, GameTypeOK, Slots
    <3>3. found' \in Outcomes
      BY <2>2, <3>1 DEF Outcomes, RunOutcomes
    <3>4. UNCHANGED <<slot, active, tainted, gameUp, lua>> /\ pump = "claimed" /\ pump' = "evaluated"
      BY <1>7 DEF PumpRun
    <3>. QED BY <1>1, <2>2, <3>1, <3>2, <3>3, <3>4 DEF GameTypeOK, Runs
  <2>3. \/ found' = "gone" /\ UNCHANGED <<ran, booted>>
        \/ \E e \in Effects(s) : /\ found' = e[1] /\ ran' = IF e[2] THEN Append(ran, s.cmd) ELSE ran
                                 /\ booted' = (booted \/ s.boot)
    BY <1>7 DEF PumpRun
  <2>4. UNCHANGED slot
    BY <1>7 DEF PumpRun
  <2>. QED BY <1>1, <1>3, <2>1, <2>2, <2>3, <2>4
<1>8. CASE PumpFinish
  <2>. DEFINE t == Terminal(s, found)
              new == IF found = "unknown" THEN Invalidate(t, TRUE)
                     ELSE IF t.gen # lua THEN Invalidate(t, FALSE) ELSE t
  <2>1. active \in Leases /\ s \in Slots
    BY <1>2, <1>8 DEF PumpFinish, Serving
  <2>2. t \in Slots /\ t.state = "complete" /\ t.outcome = found /\ t.cmd = s.cmd
    BY <2>1 DEF Terminal, Slots, SlotStates, GameTypeOK
  <2>3. new \in Slots /\ new.state = "complete" /\ new.outcome = found /\ new.cmd = s.cmd
    <3>. HIDE DEF t
    <3>1. \A poison \in BOOLEAN : Invalidate(t, poison) \in Slots /\ Fades(t, Invalidate(t, poison))
      BY <2>2, SlotOperations
    <3>. QED BY <2>2, <3>1 DEF Fades
  <2>4. slot' = [slot EXCEPT ![active] = new] /\ tainted' = (tainted \/ found = "unknown" \/ t.poisoned)
    BY <1>8 DEF PumpFinish
  <2>5. tainted' \in BOOLEAN /\ ((tainted \/ found = "unknown") => tainted')
    BY <2>4 DEF GameTypeOK
  <2>. HIDE DEF t, new
  <2>6. SlotTypeOK' /\ Only(active, "complete", found, s.cmd)
    BY <2>1, <2>3, <2>4, Exchanged DEF Only
  <2>7. UNCHANGED <<active, found, gameUp, lua, booted, ran>> /\ pump = "evaluated" /\ pump' = "idle"
    BY <1>8 DEF PumpFinish
  <2>8. GameTypeOK'
    BY <2>5, <2>7 DEF GameTypeOK
  <2>. QED BY <1>1, <2>1, <2>5, <2>6, <2>7, <2>8 DEF Finishes, NoLease, Leases
<1>. QED BY <1>4, <1>5, <1>6, <1>7, <1>8 DEF Game

--------------------------------------------------------------------------------
(* The steps of the main process.                                            *)
CallInv ==
  /\ (call.stage = "none") <=> (call.cmd = NoCommand)
  /\ call.stage = "none" => call = NoCall
  /\ call.cmd # NoCommand => result[call.cmd] = "none"
  /\ Waiting =>
       LET method == rpc[main.worker].method IN
       /\ method = "execute" => call.stage = "cross"
       /\ method = "acknowledge" => call.stage \in {"accept", "handoff"}
       /\ method = "taint" => call.stage = "tainting"
       /\ method \in {"attach", "detach"} => call.stage = "none"
  /\ \A w \in Workers : rpc[w].method = "execute" =>
       \/ w = main.worker /\ call.cmd = rpc[w].cmd
       \/ result[rpc[w].cmd] = "unknown" /\ w # main.worker

Steady == UNCHANGED <<slot, gameVars>>
MayLose ==
  \/ UNCHANGED worker
  \/ /\ main.worker \in Workers /\ \A v \in Workers \ {main.worker} : worker'[v] = worker[v]
     /\ worker'[main.worker].state = "dead" /\ worker'[main.worker].box = NoLease /\ ~worker'[main.worker].pending
Answered(c, x) == result'[c] = x /\ (\A d \in Commands \ {c} : result'[d] = result[d]) /\ call' = NoCall
Advances(stage) ==
  UNCHANGED result /\ call'.cmd = call.cmd /\ call'.stage = stage /\ call.stage # "none"

Sends(w, method) ==
  /\ Steady /\ UNCHANGED <<call, result, accepted>> /\ ~Waiting /\ rpc[w].method = "none" /\ main'.worker = w
  /\ rpc'[w].method = method /\ rpc'[w].reply = "none" /\ rpc'[w].cmd = call.cmd
  /\ worker[w].state \in {"idle", "unborn"} /\ worker'[w].state = "idle"
  /\ worker'[w].box = worker[w].box /\ worker'[w].pending = worker[w].pending
  /\ \A v \in Workers \ {w} : rpc'[v] = rpc[v] /\ worker'[v] = worker[v]
  /\ \/ method \in {"attach", "detach"} /\ call = NoCall
     \/ method = "taint" /\ call.stage = "tainting"
     \/ method = "acknowledge" /\ call.stage \in {"accept", "handoff"} /\ w = main.worker
     \/ method = "execute" /\ call.stage = "cross" /\ w = main.worker

ToldNot == rpc[main.worker].method = "execute" /\ rpc[main.worker].reply \in {"notRun", "gone", "nil"}
Receives ==
  /\ Steady /\ Waiting /\ MayLose /\ main'.worker = main.worker /\ main.worker \in Workers
  /\ worker'[main.worker].state = "dead" \/ rpc[main.worker].reply # "none"
  /\ rpc'[main.worker].method = "none" /\ \A v \in Workers \ {main.worker} : rpc'[v] = rpc[v]
  /\ accepted \subseteq accepted'
  /\ \/ UNCHANGED <<call, result>> /\ call.stage = "none"
     \/ \E x \in {"ok", "notRun", "unknown"} :
          /\ call.stage # "none" /\ Answered(call.cmd, x)
          /\ x = "notRun" => ToldNot \/ call.stage = "handoff"
          /\ x = "ok" => call.stage = "accept"
     \/ Advances("cross") /\ (ToldNot \/ call.stage = "handoff")
     \/ /\ Advances("accept") /\ call.stage = "cross" /\ rpc[main.worker].method = "execute"
        /\ rpc[main.worker].reply = "ok" /\ call.cmd \in accepted'
     \/ /\ Advances("handoff") /\ call.stage = "cross" /\ rpc[main.worker].method = "execute"
        /\ rpc[main.worker].reply = "handoff"
     \/ /\ Advances("tainting") /\ call.stage = "cross" /\ rpc[main.worker].method = "execute"
        /\ rpc[main.worker].reply \in Success
Turns ==
  /\ Steady /\ UNCHANGED <<rpc, accepted>> /\ ~Waiting /\ MayLose /\ main'.worker = main.worker
  /\ \/ \E c \in Commands, x \in {"ok", "notRun", "unknown"} :
          /\ Answered(c, x)
          /\ \/ call.stage = "none" /\ result[c] = "none" /\ x # "ok"
             \/ call.stage # "none" /\ c = call.cmd
                /\ (x = "notRun" => call.stage \in {"cross", "handoff"}) /\ (x = "ok" => call.stage = "accept")
     \/ \E c \in Commands : /\ call.stage = "none" /\ result[c] = "none" /\ UNCHANGED result
                            /\ call'.cmd = c /\ call'.stage = "cross"
Dies ==
  /\ Steady /\ UNCHANGED <<rpc, worker, accepted>> /\ main'.worker = NoWorker /\ call' = NoCall
  /\ \A c \in Commands : result'[c] = IF c = call.cmd THEN "unknown" ELSE result[c]

LEMMA SessionKinds ==
  /\ NewMain \in Sessions /\ NewMain.worker = NoWorker
  /\ NoCall \in CallRecords /\ NoCall.cmd = NoCommand /\ NoCall.stage = "none"
  /\ NoRpc \in Exchanges /\ NoRpc.method = "none"
  /\ \A m \in Sessions :
       /\ Broken(m) \in Sessions /\ Broken(m).worker = m.worker
       /\ Attached(m) \in Sessions /\ Attached(m).worker = m.worker
       /\ \A f \in {"none", "restart", "unknown"}, ready \in BOOLEAN, on \in BOOLEAN, w \in Workers :
            /\ [m EXCEPT !.fatal = f] \in Sessions /\ [m EXCEPT !.fatal = f].worker = m.worker
            /\ [m EXCEPT !.fatal = f, !.ready = ready] \in Sessions
            /\ [m EXCEPT !.fatal = f, !.ready = ready].worker = m.worker
            /\ [m EXCEPT !.fatal = f, !.lostAttach = on] \in Sessions
            /\ [m EXCEPT !.fatal = f, !.lostAttach = on].worker = m.worker
            /\ [m EXCEPT !.ready = ready] \in Sessions /\ [m EXCEPT !.ready = ready].worker = m.worker
            /\ [m EXCEPT !.ready = ready, !.tainted = on] \in Sessions
            /\ [m EXCEPT !.ready = ready, !.tainted = on].worker = m.worker
            /\ [m EXCEPT !.worker = w] \in Sessions /\ [m EXCEPT !.worker = w].worker = w
<1>1. NewMain \in Sessions /\ NewMain.worker = NoWorker
  BY DEF NewMain, Sessions
<1>2. /\ NoCall \in CallRecords /\ NoCall.cmd = NoCommand /\ NoCall.stage = "none"
      /\ NoRpc \in Exchanges /\ NoRpc.method = "none"
  BY DEF NoCall, CallRecords, NoRpc, Exchanges
<1>3. ASSUME NEW m \in Sessions
      PROVE  /\ Broken(m) \in Sessions /\ Broken(m).worker = m.worker
             /\ Attached(m) \in Sessions /\ Attached(m).worker = m.worker
  BY DEF Sessions, Broken, Attached
<1>4. ASSUME NEW m \in Sessions, NEW f \in {"none", "restart", "unknown"}, NEW ready \in BOOLEAN, NEW on \in BOOLEAN,
             NEW w \in Workers
      PROVE  /\ [m EXCEPT !.fatal = f] \in Sessions /\ [m EXCEPT !.fatal = f].worker = m.worker
             /\ [m EXCEPT !.fatal = f, !.ready = ready] \in Sessions
             /\ [m EXCEPT !.fatal = f, !.ready = ready].worker = m.worker
             /\ [m EXCEPT !.fatal = f, !.lostAttach = on] \in Sessions
             /\ [m EXCEPT !.fatal = f, !.lostAttach = on].worker = m.worker
             /\ [m EXCEPT !.ready = ready] \in Sessions /\ [m EXCEPT !.ready = ready].worker = m.worker
             /\ [m EXCEPT !.ready = ready, !.tainted = on] \in Sessions
             /\ [m EXCEPT !.ready = ready, !.tainted = on].worker = m.worker
             /\ [m EXCEPT !.worker = w] \in Sessions /\ [m EXCEPT !.worker = w].worker = w
  BY DEF Sessions
<1>. QED BY <1>1, <1>2, <1>3, <1>4

LEMMA Adopting ==
  ASSUME WorkerTypeOK, MainTypeOK, main.worker \in Workers
  PROVE  Adopt(main) \in Sessions /\ Adopt(main).worker = main.worker
BY DEF WorkerTypeOK, MainTypeOK, Sessions, Exchanges, Adopt

LEMMA Sending ==
  ASSUME WorkerTypeOK, MainTypeOK, NEW w \in Workers, NEW boot \in BOOLEAN,
         NEW method \in {"attach", "detach", "taint", "acknowledge", "execute"}, Send(w, method, boot)
  PROVE  /\ rpc' \in [Workers -> Exchanges]
         /\ rpc'[w].method = method /\ rpc'[w].reply = "none" /\ rpc'[w].cmd = call.cmd
         /\ \A v \in Workers \ {w} : rpc'[v] = rpc[v]
<1>. DEFINE new == [NoRpc EXCEPT !.method = method, !.cmd = call.cmd, !.boot = boot]
<1>1. new \in Exchanges /\ new.method = method /\ new.reply = "none" /\ new.cmd = call.cmd
  <2>1. call.cmd \in Commands \cup {NoCommand}
    BY DEF MainTypeOK, CallRecords
  <2>2. NoRpc \in Exchanges /\ NoRpc.reply = "none"
    BY DEF NoRpc, Exchanges
  <2>. QED BY <2>1, <2>2 DEF Exchanges
<1>2. rpc' = [rpc EXCEPT ![w] = new]
  BY DEF Send
<1>. HIDE DEF new
<1>. QED BY <1>1, <1>2 DEF WorkerTypeOK

LEMMA Receiving ==
  ASSUME WorkerTypeOK, main.worker \in Workers, Received
  PROVE  /\ rpc' \in [Workers -> Exchanges] /\ rpc'[main.worker].method = "none"
         /\ \A v \in Workers \ {main.worker} : rpc'[v] = rpc[v]
<1>1. NoRpc \in Exchanges /\ NoRpc.method = "none"
  BY SessionKinds
<1>. QED BY <1>1 DEF WorkerTypeOK, Received

LEMMA Answering ==
  ASSUME MainTypeOK, NEW c \in Commands, NEW x \in {"ok", "notRun", "unknown"}, Answer(c, x)
  PROVE  /\ result' \in [Commands -> {"none", "ok", "notRun", "unknown"}] /\ call' \in CallRecords
         /\ Answered(c, x)
<1>1. NoCall \in CallRecords
  BY SessionKinds
<1>. QED BY <1>1 DEF MainTypeOK, Answer, Answered

LEMMA Terminated ==
  ASSUME WorkerTypeOK, MainTypeOK, worker' \in {worker, [worker EXCEPT ![main.worker] = Dead]}
  PROVE  worker' \in [Workers -> Records] /\ MayLose
<1>1. main.worker \in Workers \cup {NoWorker} /\ Dead \in Records
      /\ Dead.state = "dead" /\ Dead.box = NoLease /\ ~Dead.pending
  BY Returning, PathAssumption DEF MainTypeOK, Sessions, Dead, NewWorker, Records, Busy
<1>2. CASE UNCHANGED worker
  BY <1>2 DEF WorkerTypeOK, MayLose
<1>3. CASE worker' = [worker EXCEPT ![main.worker] = Dead] /\ main.worker \in Workers
  BY <1>1, <1>3 DEF WorkerTypeOK, MayLose
<1>4. CASE worker' = [worker EXCEPT ![main.worker] = Dead] /\ main.worker \notin Workers
  BY <1>4 DEF WorkerTypeOK, MayLose
<1>. QED BY <1>2, <1>3, <1>4

LEMMA Woken ==
  ASSUME TypeInv, OwnInv, NEW m \in Sessions, NEW w \in Workers, Serves(m, w), ~Waiting,
         m.worker \in {main.worker, NoWorker}, worker' = [worker EXCEPT ![w].state = "idle"]
  PROVE  /\ rpc[w].method = "none" /\ worker[w].state \in {"idle", "unborn"}
         /\ worker' \in [Workers -> Records] /\ worker'[w].state = "idle"
         /\ worker'[w].box = worker[w].box /\ worker'[w].pending = worker[w].pending
         /\ \A v \in Workers \ {w} : worker'[v] = worker[v]
<1>. USE DEF TypeInv
<1>1. worker[w] \in Records
  BY DEF WorkerTypeOK
<1>2. rpc[w].method = "none" /\ worker[w].state \in {"idle", "unborn"}
  BY <1>1 DEF Serves, Waiting, OwnInv, Records, Up
<1>. DEFINE now == [worker[w] EXCEPT !.state = "idle"]
<1>3. now \in Records /\ now.state = "idle" /\ now.box = worker[w].box /\ now.pending = worker[w].pending
  BY <1>1 DEF Records
<1>4. worker' = [worker EXCEPT ![w] = now]
  OBVIOUS
<1>. HIDE DEF now
<1>. QED BY <1>2, <1>3, <1>4 DEF WorkerTypeOK

LEMMA Steadily == SlotTypeOK /\ GameTypeOK /\ Steady => SlotTypeOK' /\ GameTypeOK'
BY DEF SlotTypeOK, GameTypeOK, Steady, gameVars

LEMMA SendingEvents ==
  ASSUME TypeInv, OwnInv, CallInv,
         \/ \E method \in {"attach", "detach"}, recover \in BOOLEAN : Request(method, recover)
         \/ (Cross \/ Accept) /\ Available
         \/ Taint /\ main.fatal = "none"
  PROVE  TypeInv' /\ \E w \in Workers, method \in {"attach", "detach", "taint", "acknowledge", "execute"} : Sends(w, method)
<1>. USE DEF TypeInv
<1>1. CASE \E method \in {"attach", "detach"}, recover \in BOOLEAN : Request(method, recover)
  <2>. PICK method \in {"attach", "detach"}, recover \in BOOLEAN : Request(method, recover)
    BY <1>1
  <2>. DEFINE m == Reopened(recover)
  <2>1. m \in {main, NewMain} /\ m \in Sessions /\ m.worker \in {main.worker, NoWorker}
    BY SessionKinds DEF Reopened, MainTypeOK
  <2>2. call = NoCall /\ ~Waiting /\ Steady /\ UNCHANGED <<call, result, accepted, losses>>
    BY DEF Request, Idle, Steady
  <2>. PICK w \in Workers : /\ Serves(m, w) /\ Send(w, method, FALSE) /\ main' = [m EXCEPT !.worker = w]
                            /\ worker' = [worker EXCEPT ![w].state = "idle"]
    BY DEF Request
  <2>3. main' \in Sessions /\ main'.worker = w
    <3>. HIDE DEF m
    <3>. QED BY <2>1, SessionKinds
  <2>4. /\ rpc[w].method = "none" /\ worker[w].state \in {"idle", "unborn"}
        /\ worker' \in [Workers -> Records] /\ worker'[w].state = "idle"
        /\ worker'[w].box = worker[w].box /\ worker'[w].pending = worker[w].pending
        /\ \A v \in Workers \ {w} : worker'[v] = worker[v]
    <3>. HIDE DEF m
    <3>. QED BY <2>1, <2>2, Woken
  <2>5. /\ rpc' \in [Workers -> Exchanges]
        /\ rpc'[w].method = method /\ rpc'[w].reply = "none" /\ rpc'[w].cmd = call.cmd
        /\ \A v \in Workers \ {w} : rpc'[v] = rpc[v]
    BY Sending
  <2>6. TypeInv'
    BY <2>2, <2>3, <2>4, <2>5, Steadily DEF WorkerTypeOK, MainTypeOK
  <2>7. Sends(w, method)
    BY <2>2, <2>3, <2>4, <2>5 DEF Sends
  <2>. QED BY <2>6, <2>7
<1>2. ASSUME Available, ~Waiting, Steady, UNCHANGED <<main, call, result, worker, accepted, losses>>,
             NEW boot \in BOOLEAN, NEW method \in {"acknowledge", "execute"}, Send(main.worker, method, boot),
             \/ method = "acknowledge" /\ call.stage \in {"accept", "handoff"}
             \/ method = "execute" /\ call.stage = "cross"
      PROVE  TypeInv' /\ \E w \in Workers : Sends(w, method)
  <2>. DEFINE w == main.worker
  <2>1. w \in Workers /\ worker[w] \in Records /\ worker[w].state = "idle" /\ rpc[w].method = "none"
    BY <1>2 DEF Available, Up, Waiting, MainTypeOK, Sessions, WorkerTypeOK, Records, OwnInv
  <2>2. /\ rpc' \in [Workers -> Exchanges]
        /\ rpc'[w].method = method /\ rpc'[w].reply = "none" /\ rpc'[w].cmd = call.cmd
        /\ \A v \in Workers \ {w} : rpc'[v] = rpc[v]
    BY <1>2, <2>1, Sending
  <2>3. TypeInv'
    BY <1>2, <2>2, Steadily DEF WorkerTypeOK, MainTypeOK
  <2>4. Sends(w, method)
    BY <1>2, <2>1, <2>2 DEF Sends
  <2>. QED BY <2>1, <2>3, <2>4
<1>3. CASE Cross /\ Available
  <2>1. Send(main.worker, "execute", ~main.ready)
    BY <1>3 DEF Cross
  <2>3. (~main.ready) \in BOOLEAN
    OBVIOUS
  <2>2. /\ UNCHANGED <<main, call, result, worker, accepted, losses>> /\ Steady /\ ~Waiting /\ call.stage = "cross"
    BY <1>3 DEF Cross, Steady
  <2>4. Available
    BY <1>3
  <2>. QED BY <1>2, <2>1, <2>2, <2>3, <2>4
<1>4. CASE Accept /\ Available
  <2>1. Send(main.worker, "acknowledge", FALSE)
    BY <1>4 DEF Accept
  <2>2. /\ UNCHANGED <<main, call, result, worker, accepted, losses>> /\ Steady /\ ~Waiting
        /\ call.stage \in {"accept", "handoff"}
    BY <1>4 DEF Accept, Steady
  <2>. QED BY <1>2, <1>4, <2>1, <2>2
<1>5. CASE Taint /\ main.fatal = "none"
  <2>1. call.stage = "tainting" /\ ~Waiting /\ Steady /\ UNCHANGED <<call, result, accepted, losses>> /\ main \in Sessions
    BY <1>5 DEF Taint, Steady, MainTypeOK
  <2>. PICK w \in Workers : /\ Serves(main, w) /\ Send(w, "taint", FALSE) /\ main' = [main EXCEPT !.worker = w]
                            /\ worker' = [worker EXCEPT ![w].state = "idle"]
    BY <1>5 DEF Taint
  <2>2. main' \in Sessions /\ main'.worker = w
    BY <2>1, SessionKinds
  <2>3. /\ rpc[w].method = "none" /\ worker[w].state \in {"idle", "unborn"}
        /\ worker' \in [Workers -> Records] /\ worker'[w].state = "idle"
        /\ worker'[w].box = worker[w].box /\ worker'[w].pending = worker[w].pending
        /\ \A v \in Workers \ {w} : worker'[v] = worker[v]
    BY <2>1, Woken
  <2>4. /\ rpc' \in [Workers -> Exchanges]
        /\ rpc'[w].method = "taint" /\ rpc'[w].reply = "none" /\ rpc'[w].cmd = call.cmd
        /\ \A v \in Workers \ {w} : rpc'[v] = rpc[v]
    BY Sending
  <2>5. TypeInv'
    BY <2>1, <2>2, <2>3, <2>4, Steadily DEF WorkerTypeOK, MainTypeOK
  <2>6. Sends(w, "taint")
    BY <2>1, <2>2, <2>3, <2>4 DEF Sends
  <2>. QED BY <2>5, <2>6
<1>. QED BY <1>1, <1>3, <1>4, <1>5

LEMMA ReceivingEvents ==
  ASSUME TypeInv, OwnInv, CallInv,
         Connected \/ Refused \/ Decoded \/ Doubtful \/ Handoff \/ Accepted \/ Noted \/ LoseReply
  PROVE  TypeInv' /\ Receives
<1>. USE DEF TypeInv
<1>. DEFINE w == main.worker
            adopted == Adopt(main)
<1>1. Waiting /\ Received /\ Steady /\ UNCHANGED losses
  BY DEF Connected, Refused, Decoded, Doubtful, Handoff, Accepted, Noted, LoseReply, Executed, Steady
<1>2. w \in Workers /\ main \in Sessions /\ adopted \in Sessions /\ adopted.worker = w
  BY <1>1, Adopting DEF MainTypeOK, Sessions, Waiting
<1>3. /\ rpc' \in [Workers -> Exchanges] /\ rpc'[w].method = "none"
      /\ \A v \in Workers \ {w} : rpc'[v] = rpc[v]
  BY <1>1, <1>2, Receiving
<1>4. \A m \in {main, adopted} :
        /\ Broken(m) \in Sessions /\ Broken(m).worker = w /\ Attached(m) \in Sessions /\ Attached(m).worker = w
        /\ \A f \in {"none", "restart", "unknown"}, ready \in BOOLEAN, on \in BOOLEAN :
             /\ [m EXCEPT !.fatal = f] \in Sessions /\ [m EXCEPT !.fatal = f].worker = w
             /\ [m EXCEPT !.fatal = f, !.ready = ready] \in Sessions
             /\ [m EXCEPT !.fatal = f, !.ready = ready].worker = w
             /\ [m EXCEPT !.fatal = f, !.lostAttach = on] \in Sessions
             /\ [m EXCEPT !.fatal = f, !.lostAttach = on].worker = w
             /\ [m EXCEPT !.ready = ready] \in Sessions /\ [m EXCEPT !.ready = ready].worker = w
             /\ [m EXCEPT !.ready = ready, !.tainted = on] \in Sessions
             /\ [m EXCEPT !.ready = ready, !.tainted = on].worker = w
  <2>1. ASSUME NEW m \in Sessions, m.worker = w
        PROVE  /\ Broken(m) \in Sessions /\ Broken(m).worker = w
               /\ Attached(m) \in Sessions /\ Attached(m).worker = w
    BY <2>1, SessionKinds
  <2>2. ASSUME NEW m \in Sessions, m.worker = w, NEW f \in {"none", "restart", "unknown"}, NEW ready \in BOOLEAN,
               NEW on \in BOOLEAN
        PROVE  /\ [m EXCEPT !.fatal = f] \in Sessions /\ [m EXCEPT !.fatal = f].worker = w
               /\ [m EXCEPT !.fatal = f, !.ready = ready] \in Sessions
               /\ [m EXCEPT !.fatal = f, !.ready = ready].worker = w
               /\ [m EXCEPT !.fatal = f, !.lostAttach = on] \in Sessions
               /\ [m EXCEPT !.fatal = f, !.lostAttach = on].worker = w
               /\ [m EXCEPT !.ready = ready] \in Sessions /\ [m EXCEPT !.ready = ready].worker = w
               /\ [m EXCEPT !.ready = ready, !.tainted = on] \in Sessions
               /\ [m EXCEPT !.ready = ready, !.tainted = on].worker = w
    BY <2>2 DEF Sessions
  <2>. HIDE DEF adopted
  <2>. QED BY <1>2, <2>1, <2>2
<1>5. call \in CallRecords /\ (call.stage # "none" => call.cmd \in Commands)
  BY DEF CallInv, MainTypeOK, CallRecords
<1>6. ASSUME NEW stage \in {"cross", "accept", "handoff", "tainting"}
      PROVE  /\ [call EXCEPT !.stage = stage] \in CallRecords /\ [call EXCEPT !.stage = stage].cmd = call.cmd
             /\ [call EXCEPT !.stage = stage].stage = stage
             /\ [call EXCEPT !.retried = TRUE] \in CallRecords /\ [call EXCEPT !.retried = TRUE].cmd = call.cmd
             /\ [call EXCEPT !.retried = TRUE].stage = call.stage
             /\ [call EXCEPT !.stage = stage, !.handoffs = @ + 1] \in CallRecords
             /\ [call EXCEPT !.stage = stage, !.handoffs = @ + 1].cmd = call.cmd
             /\ [call EXCEPT !.stage = stage, !.handoffs = @ + 1].stage = stage
  <2>. call.handoffs + 1 \in Nat
    BY DEF MainTypeOK, CallRecords
  <2>. QED BY DEF MainTypeOK, CallRecords
<1>. HIDE DEF adopted
<1>a. worker'[w].state = "dead" \/ rpc[w].reply # "none"
  <2>1. rpc[w].reply # "none" \/ worker' = [worker EXCEPT ![w] = Dead]
    BY DEF Connected, Refused, Decoded, Doubtful, Handoff, Accepted, Noted, LoseReply, Executed
  <2>. QED BY <1>2, <2>1 DEF WorkerTypeOK, Dead, NewWorker
<1>7. ASSUME MainTypeOK', worker' \in {worker, [worker EXCEPT ![w] = Dead]}, main'.worker = w, accepted \subseteq accepted',
             \/ UNCHANGED <<call, result>> /\ call.stage = "none"
             \/ \E x \in {"ok", "notRun", "unknown"} :
                  /\ call.stage # "none" /\ Answered(call.cmd, x)
                  /\ x = "notRun" => ToldNot \/ call.stage = "handoff"
                  /\ x = "ok" => call.stage = "accept"
             \/ Advances("cross") /\ (ToldNot \/ call.stage = "handoff")
             \/ /\ Advances("accept") /\ call.stage = "cross" /\ rpc[w].method = "execute"
                /\ rpc[w].reply = "ok" /\ call.cmd \in accepted'
             \/ /\ Advances("handoff") /\ call.stage = "cross" /\ rpc[w].method = "execute" /\ rpc[w].reply = "handoff"
             \/ /\ Advances("tainting") /\ call.stage = "cross" /\ rpc[w].method = "execute" /\ rpc[w].reply \in Success
      PROVE  TypeInv' /\ Receives
  <2>1. worker' \in [Workers -> Records] /\ MayLose
    BY <1>7, Terminated
  <2>2. TypeInv'
    BY <1>1, <1>3, <1>7, <2>1, Steadily DEF WorkerTypeOK
  <2>. QED BY <1>1, <1>2, <1>3, <1>7, <1>a, <2>1, <2>2 DEF Receives
<1>8. ASSUME main' \in Sessions, main'.worker = w, worker' \in {worker, [worker EXCEPT ![w] = Dead]}, UNCHANGED accepted,
             call.stage # "none", NEW x \in {"ok", "notRun", "unknown"}, Answer(call.cmd, x),
             x = "notRun" => ToldNot \/ call.stage = "handoff",
             x = "ok" => call.stage = "accept"
      PROVE  TypeInv' /\ Receives
  <2>1. /\ result' \in [Commands -> {"none", "ok", "notRun", "unknown"}] /\ call' \in CallRecords
        /\ Answered(call.cmd, x)
    <3>1. call.cmd \in Commands
      BY <1>5, <1>8
    <3>. QED BY <1>8, <3>1, Answering
  <2>2. MainTypeOK'
    BY <1>1, <1>8, <2>1 DEF MainTypeOK
  <2>. QED BY <1>7, <1>8, <2>1, <2>2
<1>9. Executed => /\ call.stage = "cross" /\ rpc[w].method = "execute" /\ call.stage # "none"
  BY <1>1, <1>2 DEF Executed, CallInv, Waiting, WorkerTypeOK, Exchanges
<1>10. CASE Connected
  <2>1. call = NoCall /\ UNCHANGED <<worker, call, result, accepted>> /\ main' \in {adopted, Attached(adopted)}
    BY <1>10 DEF Connected, adopted
  <2>2. call.stage = "none" /\ main' \in Sessions /\ main'.worker = w
    BY <1>2, <1>4, <2>1, SessionKinds
  <2>3. MainTypeOK'
    BY <1>1, <2>1, <2>2 DEF MainTypeOK
  <2>. QED BY <1>7, <2>1, <2>2, <2>3
<1>11. CASE Refused
  <2>. DEFINE r == rpc[w].reply
              f == IF r = "unknown" THEN "unknown" ELSE adopted.fatal
              ready == adopted.ready /\ r \notin {"gone", "nil"}
  <2>1. call.stage = "cross" /\ rpc[w].method = "execute" /\ r \in {"notRun", "unknown", "gone", "nil"}
    BY <1>9, <1>11 DEF Refused
  <2>2. main' = [adopted EXCEPT !.fatal = f, !.ready = ready]
    BY <1>2, <1>11 DEF Refused, adopted, Sessions
  <2>3. f \in {"none", "restart", "unknown"} /\ ready \in BOOLEAN
    BY <1>2 DEF Sessions
  <2>4. main' \in Sessions /\ main'.worker = w
    <3>. HIDE DEF f, ready
    <3>. QED BY <1>4, <2>2, <2>3
  <2>5. UNCHANGED <<worker, accepted>>
    BY <1>11 DEF Refused
  <2>6. CASE r \in {"gone", "nil"} /\ call' = [call EXCEPT !.retried = TRUE] /\ UNCHANGED result
    <3>1. call' \in CallRecords /\ Advances("cross") /\ ToldNot
      BY <1>6, <2>1, <2>6 DEF Advances, ToldNot
    <3>2. MainTypeOK'
      BY <1>1, <2>4, <2>5, <2>6, <3>1 DEF MainTypeOK
    <3>. QED BY <1>7, <2>4, <2>5, <3>1, <3>2
  <2>7. CASE Answer(call.cmd, IF r = "unknown" THEN "unknown" ELSE "notRun")
    BY <1>8, <2>1, <2>4, <2>5, <2>7 DEF ToldNot
  <2>. QED BY <1>11, <2>6, <2>7 DEF Refused
<1>12. CASE Decoded
  <2>1. /\ call.stage = "cross" /\ rpc[w].method = "execute" /\ rpc[w].reply = "ok" /\ UNCHANGED <<worker, result>>
        /\ call' = [call EXCEPT !.stage = "accept"] /\ main' = [adopted EXCEPT !.ready = TRUE]
        /\ accepted' = accepted \cup {call.cmd}
    BY <1>9, <1>12 DEF Decoded, adopted
  <2>2. /\ call' \in CallRecords /\ Advances("accept") /\ main' \in Sessions /\ main'.worker = w
        /\ call.cmd \in accepted'
    BY <1>4, <1>6, <2>1 DEF Advances
  <2>3. MainTypeOK'
    BY <1>1, <1>5, <2>1, <2>2 DEF MainTypeOK
  <2>. QED BY <1>7, <2>1, <2>2, <2>3
<1>13. CASE Doubtful
  <2>1. /\ call.stage = "cross" /\ rpc[w].method = "execute" /\ rpc[w].reply \in Success
        /\ UNCHANGED <<worker, result, accepted>> /\ call' = [call EXCEPT !.stage = "tainting"]
    BY <1>9, <1>13 DEF Doubtful
  <2>. PICK decoded \in BOOLEAN : main' = [adopted EXCEPT !.ready = @ \/ decoded, !.tainted = TRUE]
    BY <1>13 DEF Doubtful, adopted
  <2>. DEFINE ready == adopted.ready \/ decoded
  <2>2. ready \in BOOLEAN /\ main' = [adopted EXCEPT !.ready = ready, !.tainted = TRUE]
    BY <1>2 DEF Sessions
  <2>3. main' \in Sessions /\ main'.worker = w
    <3>. HIDE DEF ready
    <3>. QED BY <1>4, <2>2
  <2>4. call' \in CallRecords /\ Advances("tainting")
    BY <1>6, <2>1 DEF Advances
  <2>5. MainTypeOK'
    BY <1>1, <2>1, <2>3, <2>4 DEF MainTypeOK
  <2>. QED BY <1>7, <2>1, <2>3, <2>4, <2>5
<1>14. CASE Handoff
  <2>1. /\ call.stage = "cross" /\ rpc[w].method = "execute" /\ rpc[w].reply = "handoff"
        /\ UNCHANGED <<worker, result, accepted>> /\ call' = [call EXCEPT !.stage = "handoff"] /\ main' = adopted
    BY <1>9, <1>14 DEF Handoff, adopted
  <2>2. call' \in CallRecords /\ Advances("handoff") /\ main' \in Sessions /\ main'.worker = w
    BY <1>2, <1>6, <2>1 DEF Advances
  <2>3. MainTypeOK'
    BY <1>1, <2>1, <2>2 DEF MainTypeOK
  <2>. QED BY <1>7, <2>1, <2>2, <2>3
<1>15. CASE Accepted
  <2>1. call.stage \in {"accept", "handoff"} /\ UNCHANGED accepted
    BY <1>15 DEF Accepted
  <2>2. CASE main' = adopted /\ UNCHANGED worker /\ call.stage = "accept" /\ Answer(call.cmd, "ok")
    BY <1>2, <1>8, <2>1, <2>2
  <2>3. CASE main' = adopted /\ UNCHANGED worker /\ call.stage = "handoff" /\ HandedOff
    <3>1. CASE Answer(call.cmd, "notRun")
      BY <1>2, <1>8, <2>1, <2>3, <3>1
    <3>2. CASE call' = [call EXCEPT !.stage = "cross", !.handoffs = @ + 1] /\ UNCHANGED result
      <4>1. call' \in CallRecords /\ Advances("cross")
        BY <1>6, <2>1, <3>2 DEF Advances
      <4>2. MainTypeOK'
        BY <1>1, <1>2, <2>1, <2>3, <3>2, <4>1 DEF MainTypeOK
      <4>. QED BY <1>2, <1>7, <2>1, <2>3, <4>1, <4>2
    <3>. QED BY <2>3, <3>1, <3>2 DEF HandedOff
  <2>4. CASE Unaccepted
    BY <1>4, <1>8, <2>1, <2>4 DEF Unaccepted
  <2>. QED BY <1>15, <2>1, <2>2, <2>3, <2>4 DEF Accepted, adopted
<1>16. CASE Noted
  BY <1>2, <1>8, <1>16 DEF Noted, adopted
<1>17. CASE LoseReply
  <2>. DEFINE method == rpc[w].method
  <2>1. worker' = [worker EXCEPT ![w] = Dead] /\ UNCHANGED accepted
    BY <1>17 DEF LoseReply
  <2>2. CASE method = "execute" /\ Answer(call.cmd, "unknown") /\ main' = [main EXCEPT !.fatal = "unknown"]
    BY <1>1, <1>4, <1>8, <2>1, <2>2 DEF CallInv
  <2>3. CASE method = "acknowledge" /\ main' = Broken(main) /\ Answer(call.cmd, IF call.stage = "accept" THEN "ok" ELSE "notRun")
    BY <1>1, <1>4, <1>8, <2>1, <2>3 DEF CallInv
  <2>4. CASE method = "taint" /\ Answer(call.cmd, "unknown") /\ main' = [main EXCEPT !.fatal = "restart"]
    BY <1>1, <1>4, <1>8, <2>1, <2>4 DEF CallInv
  <2>5. CASE /\ method \in {"attach", "detach"} /\ UNCHANGED <<call, result>>
             /\ main' = [main EXCEPT !.fatal = "restart", !.lostAttach = @ \/ method = "attach"]
    <3>. DEFINE on == main.lostAttach \/ method = "attach"
    <3>1. on \in BOOLEAN /\ main' = [main EXCEPT !.fatal = "restart", !.lostAttach = on]
      BY <1>2, <2>5 DEF Sessions
    <3>2. main' \in Sessions /\ main'.worker = w
      <4>. HIDE DEF on
      <4>. QED BY <1>4, <3>1
    <3>3. call.stage = "none"
      BY <1>1, <2>5 DEF CallInv
    <3>4. MainTypeOK'
      BY <1>1, <2>1, <2>5, <3>2 DEF MainTypeOK
    <3>. QED BY <1>7, <2>1, <2>5, <3>2, <3>3, <3>4
  <2>. QED BY <1>17, <2>2, <2>3, <2>4, <2>5 DEF LoseReply
<1>. QED BY <1>10, <1>11, <1>12, <1>13, <1>14, <1>15, <1>16, <1>17

LEMMA TurnEvents ==
  ASSUME TypeInv, OwnInv, CallInv,
         \/ \E c \in Commands : Start(c)
         \/ (Cross \/ Accept) /\ ~Available
         \/ Taint /\ main.fatal # "none"
  PROVE  TypeInv' /\ Turns
<1>. USE DEF TypeInv
<1>1. /\ Steady /\ UNCHANGED <<rpc, accepted, losses>> /\ ~Waiting /\ main \in Sessions
      /\ call.stage # "none" => call.cmd \in Commands
  BY DEF Start, Cross, Accept, Taint, Idle, Steady, MainTypeOK, CallInv, CallRecords, Unaccepted
<1>2. ASSUME main' \in Sessions, main'.worker = main.worker, worker' \in {worker, [worker EXCEPT ![main.worker] = Dead]},
             NEW c \in Commands, NEW x \in {"ok", "notRun", "unknown"}, Answer(c, x),
             \/ call.stage = "none" /\ result[c] = "none" /\ x # "ok"
             \/ call.stage # "none" /\ c = call.cmd
                /\ (x = "notRun" => call.stage \in {"cross", "handoff"}) /\ (x = "ok" => call.stage = "accept")
      PROVE  TypeInv' /\ Turns
  <2>1. /\ result' \in [Commands -> {"none", "ok", "notRun", "unknown"}] /\ call' \in CallRecords
        /\ Answered(c, x)
    BY <1>2, Answering
  <2>2. worker' \in [Workers -> Records] /\ MayLose
    BY <1>2, Terminated
  <2>3. TypeInv'
    BY <1>1, <1>2, <2>1, <2>2, Steadily DEF MainTypeOK, WorkerTypeOK
  <2>. QED BY <1>1, <1>2, <2>1, <2>2, <2>3 DEF Turns
<1>3. ASSUME NEW c \in Commands, Start(c)
      PROVE  TypeInv' /\ Turns
  <2>1. call = NoCall /\ call.stage = "none" /\ result[c] = "none" /\ UNCHANGED <<main, worker>> /\ main' \in Sessions
    BY <1>1, <1>3, SessionKinds DEF Start, Idle
  <2>2. CASE \E x \in {"notRun", "unknown"} : Answer(c, x)
    BY <1>2, <2>1, <2>2
  <2>3. CASE call' = [NoCall EXCEPT !.cmd = c, !.stage = "cross"] /\ UNCHANGED result
    <3>1. call' \in CallRecords /\ call'.cmd = c /\ call'.stage = "cross"
      BY <2>3, SessionKinds DEF CallRecords
    <3>2. TypeInv'
      BY <1>1, <2>1, <2>3, <3>1, Steadily DEF MainTypeOK, WorkerTypeOK
    <3>. QED BY <1>1, <2>1, <2>3, <3>1, <3>2 DEF Turns, MayLose
  <2>. QED BY <1>3, <2>2, <2>3 DEF Start
<1>4. CASE Cross /\ ~Available
  <2>1. call.stage = "cross" /\ Answer(call.cmd, "notRun") /\ UNCHANGED worker
    BY <1>4 DEF Cross
  <2>2. main' \in Sessions /\ main'.worker = main.worker
    <3>. PICK f \in {main.fatal, "restart"} : main' = [main EXCEPT !.fatal = f]
      BY <1>4 DEF Cross
    <3>. QED BY <1>1 DEF Sessions
  <2>. QED BY <1>1, <1>2, <2>1, <2>2
<1>5. CASE Accept /\ ~Available
  <2>1. call.stage \in {"accept", "handoff"} /\ Unaccepted
    BY <1>5 DEF Accept
  <2>2. Broken(main) \in Sessions /\ Broken(main).worker = main.worker
    BY <1>1, SessionKinds
  <2>. QED BY <1>1, <1>2, <2>1, <2>2 DEF Unaccepted
<1>6. CASE Taint /\ main.fatal # "none"
  BY <1>1, <1>2, <1>6 DEF Taint
<1>. QED BY <1>3, <1>4, <1>5, <1>6

LEMMA DyingEvents ==
  ASSUME TypeInv, MainDies
  PROVE  TypeInv' /\ Dies
<1>. USE DEF TypeInv
<1>1. Steady /\ main' = NewMain /\ call' = NoCall /\ UNCHANGED <<worker, rpc, accepted>> /\ losses' \in Nat
  BY DEF MainDies, Steady, MainTypeOK
<1>2. /\ result' \in [Commands -> {"none", "ok", "notRun", "unknown"}]
      /\ \A c \in Commands : result'[c] = IF c = call.cmd THEN "unknown" ELSE result[c]
  BY DEF MainDies, MainTypeOK
<1>. QED BY <1>1, <1>2, Steadily, SessionKinds DEF MainTypeOK, WorkerTypeOK, Dies

(* Every step of the path is one of the steps above.                         *)
MainEvent ==
  \/ \E w \in Workers, method \in {"attach", "detach", "taint", "acknowledge", "execute"} : Sends(w, method)
  \/ Receives \/ Turns \/ Dies
GameEvent == Rests \/ Checks \/ Claims \/ Runs \/ Finishes

LEMMA PathEvents ==
  ASSUME TypeInv, OwnInv, CallInv, Next
  PROVE  TypeInv' /\ ((\E w \in Workers : Event(w)) \/ GameEvent \/ MainEvent)
<1>1. CASE \E w \in Workers : WorkerStep(w) \/ WorkerInterrupted(w) \/ WorkerKilled(w)
  BY <1>1, WorkerEvents
<1>2. CASE Game(ProducerAlive) /\ UNCHANGED <<worker, rpc, mainVars>>
  BY <1>2, GameEvents DEF GameEvent
<1>3. CASE MainStep
  BY <1>3, SendingEvents, ReceivingEvents, TurnEvents DEF MainStep, MainEvent
<1>4. CASE (\E method \in {"attach", "detach"}, recover \in BOOLEAN : Request(method, recover)) \/ (\E c \in Commands : Start(c))
  BY <1>4, SendingEvents, TurnEvents DEF MainEvent
<1>5. CASE MainDies
  BY <1>5, DyingEvents DEF MainEvent
<1>. QED BY <1>1, <1>2, <1>3, <1>4, <1>5 DEF Next

--------------------------------------------------------------------------------
(* The invariants, and the steps that keep them.                             *)

(* A step of a worker touches its own mailbox, and others only fade.         *)
LEMMA WorkerFrame ==
  ASSUME TypeInv, OwnInv, NEW w \in Workers, Event(w)
  PROVE  /\ \A v \in Workers \ {w} : worker'[v] = worker[v] /\ rpc'[v] = rpc[v]
         /\ rpc'[w].method = rpc[w].method /\ rpc'[w].cmd = rpc[w].cmd
         /\ UNCHANGED <<main, call, result, accepted, ran, pump, found>>
         /\ \A b \in Leases : \/ Fades(slot[b], slot'[b])
                              \/ /\ {slot[b].state, slot'[b].state} \cap {"executing"} = {}
                                 /\ b = worker[w].box \/ slot[b].state = "absent"
                                 /\ slot'[b].state # "absent"
<1>. USE DEF gameVars, Others
<1>1. CASE Ended(w) \/ Entered(w)
  BY <1>1 DEF Ended, Entered, Fading, Moves, Switched
<1>2. CASE Served(w) \/ Declined(w) \/ Delivered(w)
  BY <1>2 DEF Served, Declined, Delivered, Fading, Answers, Switched
<1>3. CASE Begun(w) \/ Lingers(w)
  BY <1>3, Unchanged DEF Begun, Lingers, Moves, Fading
<1>4. CASE Made(w)
  BY <1>4 DEF Made, Moves, Fades
<1>. DEFINE Mine == /\ {slot[worker[w].box].state, slot'[worker[w].box].state} \cap {"executing", "absent"} = {}
                    /\ \A k \in Leases \ {worker[w].box} : slot'[k] = slot[k]
<1>5. Mine => \A b \in Leases : \/ Fades(slot[b], slot'[b])
                                \/ /\ {slot[b].state, slot'[b].state} \cap {"executing"} = {}
                                   /\ b = worker[w].box \/ slot[b].state = "absent"
                                   /\ slot'[b].state # "absent"
  BY DEF Fades
<1>6. CASE Freed(w)
  <2>1. Mine
    BY <1>6 DEF Freed, Only, Box
  <2>. QED BY <1>5, <1>6, <2>1 DEF Freed, Answers
<1>7. CASE Finished(w)
  <2>1. Mine
    BY <1>7 DEF Finished, Only, Box
  <2>. QED BY <1>5, <1>7, <2>1 DEF Finished, Answers
<1>8. CASE Cancels(w)
  <2>1. Mine
    BY <1>8 DEF Cancels, Only, Box, OwnInv
  <2>. QED BY <1>5, <1>8, <2>1 DEF Cancels, Answers
<1>9. CASE Reserved(w) \/ Posted(w) \/ Withdrawn(w)
  <2>1. Mine
    BY <1>9 DEF Reserved, Posted, Withdrawn, Only, Box, OwnInv
  <2>. QED BY <1>5, <1>9, <2>1 DEF Reserved, Posted, Withdrawn, Moves
<1>. QED BY <1>1, <1>2, <1>3, <1>4, <1>6, <1>7, <1>8, <1>9 DEF Event

LEMMA WorkerOwns ==
  ASSUME TypeInv, OwnInv, TypeInv', NEW w \in Workers, Event(w)
  PROVE  OwnInv'
<1>. DEFINE Mine(v) ==
       /\ worker[v].state \in {"unborn", "dead"} => worker[v].box = NoLease /\ ~worker[v].pending
       /\ worker[v].state = "unborn" => rpc[v].method = "none"
       /\ worker[v].state \in Busy =>
            worker[v].box # NoLease /\ rpc[v].method = "execute" /\ rpc[v].reply = "none"
       /\ worker[v].pending => worker[v].box # NoLease /\ worker[v].state = "idle"
       /\ worker[v].box # NoLease => slot[worker[v].box].state # "absent"
       /\ rpc[v].method = "execute" => rpc[v].cmd \in Commands
       /\ worker[v].state \in {"reserved", "cancelling"} =>
            slot[worker[v].box].state = "reserving" /\ slot[worker[v].box].cmd = rpc[v].cmd
       /\ worker[v].state \in {"wait", "late"} =>
            /\ slot[worker[v].box].state \in {"posted", "executing", "complete"}
            /\ slot[worker[v].box].cmd = rpc[v].cmd
<1>1. ASSUME NEW v \in Workers \ {w}
      PROVE  Mine(v)' /\ (worker'[v].box # NoLease => worker'[v].box # worker'[w].box)
  <2>1. worker'[v] = worker[v] /\ rpc'[v] = rpc[v] /\ Mine(v)
    BY WorkerFrame DEF OwnInv
  <2>2. CASE worker[v].box = NoLease
    BY <2>1, <2>2 DEF Busy
  <2>3. CASE worker[v].box \in Leases
    <3>1. slot[worker[v].box].state # "absent" /\ worker[v].box # worker[w].box
      BY <2>3 DEF OwnInv, NoLease, Leases
    <3>2. Fades(slot[worker[v].box], slot'[worker[v].box])
      BY <2>3, <3>1, WorkerFrame
    <3>3. worker'[w].box \in {worker[w].box, NoLease} \/ slot[worker'[w].box].state = "absent"
      BY DEF Event, Ended, Served, Freed, Declined, Begun, Made, Entered, Reserved, Posted, Finished,
             Delivered, Withdrawn, Lingers, Cancels, Loosens
    <3>. QED BY <2>1, <2>3, <3>1, <3>2, <3>3 DEF Fades, Busy, NoLease, Leases
  <2>. QED BY <2>1, <2>2, <2>3 DEF TypeInv, WorkerTypeOK, Records
<1>. USE DEF OwnInv, Busy, Others
<1>2. worker[w].box # NoLease => worker[w].box \in Leases
  BY DEF TypeInv, WorkerTypeOK, Records
<1>3. Mine(w)'
  <2>1. CASE Ended(w)
    BY <2>1 DEF Ended
  <2>2. CASE Served(w) \/ Declined(w)
    <3>1. /\ worker'[w].state = "idle" /\ rpc'[w].method = rpc[w].method /\ rpc'[w].cmd = rpc[w].cmd
          /\ \A b \in Leases : slot[b].state # "absent" => slot'[b].state # "absent"
      BY <2>2 DEF Served, Declined, Answers, Fading, Fades
    <3>2. \/ worker'[w].box = worker[w].box /\ (worker'[w].pending => worker[w].pending)
          \/ worker'[w].box = NoLease /\ ~worker'[w].pending
      BY <2>2 DEF Served, Declined, Loosens
    <3>. QED BY <1>2, <3>1, <3>2
  <2>3. CASE Freed(w) \/ Finished(w) \/ Cancels(w)
    <3>1. /\ worker'[w].state = "idle" /\ rpc'[w].method = rpc[w].method /\ rpc'[w].cmd = rpc[w].cmd
          /\ slot'[worker[w].box].state = "idle"
      BY <2>3 DEF Freed, Finished, Cancels, Answers, Only
    <3>2. \/ worker'[w].box = worker[w].box /\ (worker'[w].pending => worker[w].pending)
          \/ worker'[w].box = NoLease /\ ~worker'[w].pending
      BY <2>3 DEF Freed, Finished, Cancels, Loosens
    <3>. QED BY <1>2, <3>1, <3>2
  <2>4. CASE Begun(w) \/ Lingers(w)
    BY <1>2, <2>4 DEF Begun, Lingers, Moves, Asked
  <2>5. CASE Made(w)
    BY <1>2, <2>5 DEF Made, Moves, Asked, NoLease, Leases
  <2>6. CASE Entered(w)
    BY <1>2, <2>6 DEF Entered, Moves, Fading, Fades
  <2>7. CASE Reserved(w) \/ Posted(w) \/ Withdrawn(w)
    <3>1. CASE Reserved(w)
      BY <1>2, <3>1 DEF Reserved, Moves, Only
    <3>2. CASE Posted(w)
      BY <1>2, <3>2 DEF Posted, Moves, Only, Box
    <3>3. CASE Withdrawn(w)
      BY <1>2, <3>3 DEF Withdrawn, Moves, Only, Box
    <3>. QED BY <2>7, <3>1, <3>2, <3>3
  <2>8. CASE Delivered(w)
    BY <1>2, <2>8 DEF Delivered, Answers, Fading, Fades, Box
  <2>. QED BY <2>1, <2>2, <2>3, <2>4, <2>5, <2>6, <2>7, <2>8 DEF Event
<1>4. \A v \in Workers : Mine(v)'
  BY <1>1, <1>3
<1>5. \A u, v \in Workers : worker'[u].box = worker'[v].box /\ worker'[u].box # NoLease => v = u
  <2>1. ASSUME NEW u \in Workers \ {w}, NEW v \in Workers \ {w}, worker'[u].box = worker'[v].box, worker'[u].box # NoLease
        PROVE  v = u
    BY <2>1, WorkerFrame
  <2>. QED BY <1>1, <2>1
<1>. QED BY <1>4, <1>5

(* What the pump of the game has in hand.                                    *)
PumpInv ==
  /\ pump # "idle" => active # NoLease /\ ~tainted
  /\ pump \in {"claimed", "evaluated"} => slot[active].state = "executing"
  /\ \A b \in Leases : slot[b].state = "executing" => b = active /\ pump \in {"claimed", "evaluated"}

LEMMA GameFrame ==
  ASSUME TypeInv, PumpInv, GameEvent
  PROVE  /\ Apart /\ (active # NoLease => active \in Leases)
         /\ \A b \in Leases : \/ Fades(slot[b], slot'[b])
                              \/ /\ b = active /\ slot[b].state \in {"posted", "executing"}
                                 /\ slot'[b].state \in {"executing", "complete"} /\ slot'[b].cmd = slot[b].cmd
<1>1. Apart /\ (active # NoLease => active \in Leases)
  BY DEF TypeInv, GameTypeOK, GameEvent, Rests, Checks, Claims, Runs, Finishes
<1>2. CASE Rests
  BY <1>1, <1>2 DEF Rests, Fading
<1>3. CASE Checks \/ Runs
  BY <1>1, <1>3 DEF Checks, Runs, Fades
<1>4. CASE Claims
  BY <1>1, <1>4 DEF Claims, Fades, Only
<1>5. CASE Finishes
  BY <1>1, <1>5 DEF Finishes, Fades, Only, PumpInv
<1>. QED BY <1>1, <1>2, <1>3, <1>4, <1>5 DEF GameEvent

LEMMA GameOwns ==
  ASSUME TypeInv, OwnInv, PumpInv, GameEvent
  PROVE  OwnInv'
<1>1. /\ UNCHANGED <<worker, rpc>>
      /\ \A b \in Leases : \/ Fades(slot[b], slot'[b])
                           \/ /\ slot[b].state \in {"posted", "executing"}
                              /\ slot'[b].state \in {"executing", "complete"} /\ slot'[b].cmd = slot[b].cmd
  BY GameFrame DEF Apart
<1>2. \A w \in Workers : worker[w].box # NoLease => worker[w].box \in Leases
  BY DEF TypeInv, WorkerTypeOK, Records
<1>. QED BY <1>1, <1>2 DEF OwnInv, Fades, Busy

LEMMA MainOwns ==
  ASSUME TypeInv, OwnInv, CallInv, MainEvent
  PROVE  OwnInv'
<1>1. CASE \E w \in Workers, method \in {"attach", "detach", "taint", "acknowledge", "execute"} : Sends(w, method)
  <2>. PICK w \in Workers, method \in {"attach", "detach", "taint", "acknowledge", "execute"} : Sends(w, method)
    BY <1>1
  <2>1. method = "execute" => call.cmd \in Commands
    BY DEF Sends, CallInv, TypeInv, MainTypeOK, CallRecords
  <2>2. /\ UNCHANGED slot /\ rpc[w].method = "none" /\ worker[w].state \in {"idle", "unborn"} /\ worker'[w].state = "idle"
        /\ worker'[w].box = worker[w].box /\ worker'[w].pending = worker[w].pending
        /\ rpc'[w].method = method /\ rpc'[w].cmd = call.cmd
        /\ \A v \in Workers \ {w} : rpc'[v] = rpc[v] /\ worker'[v] = worker[v]
    BY DEF Sends, Steady
  <2>. QED BY <2>1, <2>2 DEF OwnInv, Busy
<1>2. CASE Receives \/ Turns
  <2>1. UNCHANGED slot /\ MayLose
    BY <1>2 DEF Receives, Turns, Steady
  <2>2. \A v \in Workers : \/ rpc'[v] = rpc[v]
                           \/ v = main.worker /\ rpc'[v].method = "none"
    BY <1>2 DEF Receives, Turns
  <2>3. \A v \in Workers : \/ worker'[v] = worker[v]
                           \/ worker'[v].state = "dead" /\ worker'[v].box = NoLease /\ ~worker'[v].pending
    BY <2>1 DEF MayLose
  <2>4. \A v \in Workers : rpc'[v] # rpc[v] => worker'[v].state \notin Busy
    BY <1>2, <2>2, <2>3 DEF Receives, Turns, OwnInv, Busy
  <2>. QED BY <2>1, <2>2, <2>3, <2>4 DEF OwnInv, Busy
<1>3. CASE Dies
  BY <1>3 DEF Dies, Steady, OwnInv
<1>. QED BY <1>1, <1>2, <1>3 DEF MainEvent

LEMMA WorkerSwitches ==
  ASSUME NEW w \in Workers, Event(w)
  PROVE  Switched
BY DEF Event, Ended, Served, Freed, Declined, Begun, Made, Entered, Reserved, Posted, Finished,
       Delivered, Withdrawn, Lingers, Cancels, Switched, gameVars

LEMMA PumpKept ==
  ASSUME TypeInv, OwnInv, PumpInv, (\E w \in Workers : Event(w)) \/ GameEvent \/ MainEvent
  PROVE  PumpInv'
<1>1. CASE \E w \in Workers : Event(w)
  <2>. PICK w \in Workers : Event(w)
    BY <1>1
  <2>1. /\ \A b \in Leases : slot[b].state = "executing" <=> slot'[b].state = "executing"
        /\ UNCHANGED pump
    BY WorkerFrame DEF Fades
  <2>2. UNCHANGED <<active, tainted>> \/ (pump = "idle" /\ active' \in {active} \cup Leases)
    BY WorkerSwitches DEF Switched
  <2>3. active # NoLease => active \in Leases
    BY DEF TypeInv, GameTypeOK
  <2>. QED BY <2>1, <2>2, <2>3 DEF PumpInv
<1>2. CASE GameEvent
  <2>1. active' = active /\ (active # NoLease => active \in Leases)
    BY <1>2, GameFrame DEF Apart
  <2>2. CASE Rests
    <3>1. \A b \in Leases : slot[b].state = "executing" <=> slot'[b].state = "executing"
      BY <2>2 DEF Rests, Fading, Fades
    <3>. QED BY <2>1, <2>2, <3>1 DEF Rests, PumpInv
  <2>3. CASE Checks
    BY <2>1, <2>3 DEF Checks, PumpInv
  <2>4. CASE Claims
    BY <2>1, <2>4 DEF Claims, Only, PumpInv
  <2>5. CASE Runs
    BY <2>1, <2>5 DEF Runs, PumpInv
  <2>6. CASE Finishes
    BY <2>1, <2>6 DEF Finishes, Only, PumpInv
  <2>. QED BY <1>2, <2>2, <2>3, <2>4, <2>5, <2>6 DEF GameEvent
<1>3. CASE MainEvent
  <2>1. Steady
    BY <1>3 DEF MainEvent, Sends, Receives, Turns, Dies
  <2>. QED BY <2>1 DEF Steady, gameVars, PumpInv
<1>. QED BY <1>1, <1>2, <1>3

LEMMA CallKept ==
  ASSUME TypeInv, OwnInv, PumpInv, CallInv, (\E w \in Workers : Event(w)) \/ GameEvent \/ MainEvent
  PROVE  CallInv'
<1>. USE DEF TypeInv
<1>1. /\ main.worker \in Workers \cup {NoWorker} /\ NoWorker \notin Workers
      /\ \A w \in Workers : rpc[w].method = "execute" => rpc[w].cmd \in Commands /\ rpc[w].cmd # NoCommand
      /\ call.stage # "none" => call.cmd \in Commands
  BY MailboxAssumption DEF MainTypeOK, Sessions, CallRecords, Workers, NoWorker, OwnInv, CallInv
<1>2. CASE \E w \in Workers : Event(w)
  <2>. PICK w \in Workers : Event(w)
    BY <1>2
  <2>1. /\ \A v \in Workers : rpc'[v].method = rpc[v].method /\ rpc'[v].cmd = rpc[v].cmd
        /\ UNCHANGED <<main, call, result>>
    BY WorkerFrame
  <2>. QED BY <1>1, <2>1 DEF CallInv, Waiting
<1>3. CASE GameEvent
  BY <1>3, GameFrame DEF Apart, CallInv, Waiting
<1>. DEFINE Executions == \A v \in Workers : rpc[v].method = "execute" =>
                            \/ v = main.worker /\ call.cmd = rpc[v].cmd
                            \/ result[rpc[v].cmd] = "unknown" /\ v # main.worker
            Named == /\ (call.stage = "none") <=> (call.cmd = NoCommand)
                     /\ call.stage = "none" => call = NoCall
                     /\ call.cmd # NoCommand => result[call.cmd] = "none"
<1>4. CASE \E w \in Workers, method \in {"attach", "detach", "taint", "acknowledge", "execute"} : Sends(w, method)
  <2>. PICK w \in Workers, method \in {"attach", "detach", "taint", "acknowledge", "execute"} : Sends(w, method)
    BY <1>4
  <2>1. /\ UNCHANGED <<call, result>> /\ ~Waiting /\ main'.worker = w
        /\ rpc'[w].method = method /\ rpc'[w].cmd = call.cmd
        /\ \A v \in Workers \ {w} : rpc'[v] = rpc[v]
        /\ \/ method \in {"attach", "detach"} /\ call = NoCall
           \/ method = "taint" /\ call.stage = "tainting"
           \/ method = "acknowledge" /\ call.stage \in {"accept", "handoff"}
           \/ method = "execute" /\ call.stage = "cross"
    BY DEF Sends
  <2>2. \A v \in Workers : rpc[v].method = "execute" => v # main.worker /\ result[rpc[v].cmd] = "unknown"
    BY <1>1, <2>1 DEF CallInv, Waiting
  <2>3. Executions'
    BY <1>1, <2>1, <2>2
  <2>4. Named'
    BY <2>1 DEF CallInv
  <2>5. rpc'[main'.worker].method = method /\ (call = NoCall => call.stage = "none")
    BY <2>1, SessionKinds
  <2>6. Waiting' => /\ method = "execute" => call'.stage = "cross"
                    /\ method = "acknowledge" => call'.stage \in {"accept", "handoff"}
                    /\ method = "taint" => call'.stage = "tainting"
                    /\ method \in {"attach", "detach"} => call'.stage = "none"
    BY <2>1, <2>5
  <2>. QED BY <2>3, <2>4, <2>5, <2>6 DEF CallInv
<1>5. CASE Receives
  <2>1. ~Waiting' /\ main'.worker = main.worker /\ \A v \in Workers \ {main.worker} : rpc'[v] = rpc[v]
    BY <1>5 DEF Receives, Waiting
  <2>2. \/ UNCHANGED <<call, result>>
        \/ call.stage # "none" /\ \E x \in {"ok", "notRun", "unknown"} : Answered(call.cmd, x)
        \/ call.stage # "none" /\ UNCHANGED result /\ call'.cmd = call.cmd /\ call'.stage # "none"
    BY <1>5 DEF Receives, Advances
  <2>3. \A c \in Commands : c # call.cmd => result'[c] = result[c]
    BY <1>1, <2>2 DEF Answered
  <2>4. Named'
    BY <1>1, <2>2, MailboxAssumption, SessionKinds DEF CallInv, Answered
  <2>5. Executions'
    <3>1. ASSUME NEW v \in Workers, rpc'[v].method = "execute"
          PROVE  v # main.worker /\ result'[rpc'[v].cmd] = "unknown"
      <4>1. v # main.worker /\ rpc'[v] = rpc[v]
        BY <2>1, <3>1, <1>5 DEF Receives
      <4>2. rpc[v].cmd \in Commands /\ result[rpc[v].cmd] = "unknown"
        BY <1>1, <3>1, <4>1 DEF CallInv
      <4>3. rpc[v].cmd = call.cmd => FALSE
        BY <1>1, <3>1, <4>1, <4>2 DEF CallInv
      <4>. QED BY <2>3, <4>1, <4>2, <4>3
    <3>. QED BY <2>1, <3>1
  <2>. QED BY <2>1, <2>4, <2>5 DEF CallInv
<1>6. CASE Turns
  <2>1. ~Waiting /\ ~Waiting' /\ main'.worker = main.worker /\ UNCHANGED rpc
    BY <1>6 DEF Turns, Waiting
  <2>2. \E c \in Commands : /\ result[c] = "none" /\ \A d \in Commands \ {c} : result'[d] = result[d]
                            /\ \/ call' = NoCall
                               \/ UNCHANGED result /\ call'.cmd = c /\ call'.stage = "cross"
    BY <1>1, <1>6, MailboxAssumption DEF Turns, Answered, CallInv
  <2>3. Named'
    BY <2>2, MailboxAssumption, SessionKinds
  <2>4. Executions'
    BY <1>1, <2>1, <2>2 DEF CallInv, Waiting
  <2>. QED BY <2>1, <2>3, <2>4 DEF CallInv
<1>7. CASE Dies
  <2>1. ~Waiting' /\ main'.worker = NoWorker /\ UNCHANGED rpc /\ call' = NoCall
    BY <1>7 DEF Dies, Waiting
  <2>2. Named'
    BY <2>1, SessionKinds
  <2>3. Executions'
    BY <1>1, <1>7, <2>1 DEF CallInv, Dies
  <2>. QED BY <2>1, <2>2, <2>3 DEF CallInv
<1>. QED BY <1>2, <1>3, <1>4, <1>5, <1>6, <1>7 DEF MainEvent

(* What every proof below starts from.                                       *)
BaseInv == TypeInv /\ OwnInv /\ PumpInv /\ CallInv
Step == (\E w \in Workers : Event(w)) \/ GameEvent \/ MainEvent

LEMMA BaseInit == Init => BaseInv
<1>. SUFFICES ASSUME Init PROVE BaseInv
  OBVIOUS
<1>. USE MailboxAssumption, PathAssumption DEF Init, MailboxInit
<1>1. SlotTypeOK
  <2>1. [NewSlot EXCEPT !.state = "absent"] \in Slots
    BY DEF NewSlot, Slots, SlotStates, Outcomes
  <2>. QED BY <2>1 DEF SlotTypeOK
<1>2. GameTypeOK
  <2>1. ran \in Seq(Commands \cup {NoCommand}) /\ found \in Outcomes /\ lua \in Nat
    BY DEF Outcomes
  <2>. QED BY <2>1 DEF GameTypeOK
<1>3. WorkerTypeOK /\ \A w \in Workers : worker[w].state = "unborn" /\ worker[w].box = NoLease /\ ~worker[w].pending
  <2>. DEFINE r == [NewWorker EXCEPT !.state = "unborn"]
  <2>1. r \in Records /\ r.state = "unborn" /\ r.box = NoLease /\ ~r.pending
    BY DEF NewWorker, Records
  <2>. HIDE DEF r
  <2>. QED BY <2>1, SessionKinds DEF WorkerTypeOK, r
<1>4. MainTypeOK
  BY SessionKinds DEF MainTypeOK
<1>5. OwnInv
  BY <1>3, SessionKinds DEF OwnInv, Busy
<1>6. PumpInv
  <2>1. \A b \in Leases : slot[b].state = "absent"
    BY DEF NewSlot
  <2>. QED BY <2>1 DEF PumpInv
<1>7. CallInv
  BY SessionKinds DEF CallInv, Waiting
<1>. QED BY <1>1, <1>2, <1>3, <1>4, <1>5, <1>6, <1>7 DEF BaseInv, TypeInv

LEMMA BaseStep ==
  ASSUME BaseInv, [Next]_vars
  PROVE  BaseInv' /\ (Step \/ UNCHANGED vars)
<1>. USE DEF BaseInv
<1>1. CASE UNCHANGED vars
  BY <1>1 DEF vars, gameVars, mainVars, TypeInv, SlotTypeOK, GameTypeOK, WorkerTypeOK, MainTypeOK, OwnInv, PumpInv,
              CallInv, Waiting
<1>2. CASE Next
  <2>1. TypeInv' /\ Step
    BY <1>2, PathEvents DEF Step
  <2>2. OwnInv'
    BY <2>1, WorkerOwns, GameOwns, MainOwns DEF Step
  <2>. QED BY <2>1, <2>2, PumpKept, CallKept DEF Step
<1>. QED BY <1>1, <1>2

LEMMA BaseAlways == Spec => []BaseInv
BY BaseInit, BaseStep, PTL DEF Spec

(* Type correctness of the game, the mailboxes, the workers and the session  *)
(* (CommandMailbox.c, mailbox.py, transport.py, resident_session.py).        *)
THEOREM Types == Spec => []TypeInv
<1>1. BaseInv => TypeInv
  BY DEF BaseInv
<1>. QED BY <1>1, BaseAlways, PTL

--------------------------------------------------------------------------------
(* A command's one chance to run: an attempt that is not published yet, then *)
(* a request that is posted or being executed.                               *)
Attempt(w, c) ==
  /\ rpc[w].method = "execute" /\ rpc[w].cmd = c /\ rpc[w].reply = "none"
  /\ worker[w].state \in {"idle", "install", "submit", "reserved"}
Hot(b, c) == slot[b].cmd = c /\ slot[b].state \in {"posted", "executing"}
Ran(c)    == \E i \in DOMAIN ran : ran[i] = c
Over(c)   == (\A w \in Workers : ~Attempt(w, c)) /\ (\A b \in Leases : ~Hot(b, c))
Clean(c)  == ~Ran(c) /\ Over(c)

OneChance ==
  /\ \A b \in Leases : slot[b].state \in {"posted", "executing"} => slot[b].cmd \in Commands
  /\ \A i, j \in DOMAIN ran : ran[i] = ran[j] => i = j
  /\ \A c \in Commands :
       /\ \A w \in Workers : Attempt(w, c) => /\ ~Ran(c) /\ (\A b \in Leases : ~Hot(b, c))
                                              /\ \A v \in Workers : Attempt(v, c) => v = w
       /\ \A b, d \in Leases : Hot(b, c) /\ Hot(d, c) => b = d
       /\ \A b \in Leases : Hot(b, c) /\ Ran(c) => b = active /\ pump = "evaluated" /\ found \in RunOutcomes

(* Attempts begin where the session sends the command ...                    *)
LEMMA AttemptsFade ==
  ASSUME BaseInv, Step, NEW v \in Workers, NEW c, Attempt(v, c)'
  PROVE  Attempt(v, c) \/ (Sends(v, "execute") /\ c = call.cmd)
<1>. USE DEF BaseInv, Attempt
<1>1. CASE \E w \in Workers : Event(w)
  <2>. PICK w \in Workers : Event(w)
    BY <1>1
  <2>1. CASE v # w
    BY <2>1, WorkerFrame
  <2>2. CASE v = w
    <3>1. CASE Ended(w) \/ Served(w) \/ Freed(w) \/ Declined(w) \/ Finished(w) \/ Delivered(w) \/ Cancels(w)
      BY <2>2, <3>1 DEF Ended, Served, Freed, Declined, Finished, Delivered, Cancels, Answers, Success
    <3>2. CASE Begun(w) \/ Made(w) \/ Entered(w) \/ Reserved(w) \/ Posted(w) \/ Withdrawn(w) \/ Lingers(w)
      BY <2>2, <3>2 DEF Begun, Made, Entered, Reserved, Posted, Withdrawn, Lingers, Moves, Asked, OwnInv, Busy
    <3>. QED BY <3>1, <3>2 DEF Event
  <2>. QED BY <2>1, <2>2
<1>2. CASE GameEvent
  BY <1>2, GameFrame DEF Apart
<1>3. CASE \E w \in Workers, method \in {"attach", "detach", "taint", "acknowledge", "execute"} : Sends(w, method)
  BY <1>3 DEF Sends
<1>4. CASE Receives
  BY <1>4 DEF Receives, MayLose
<1>5. CASE Turns
  BY <1>5 DEF Turns, MayLose
<1>6. CASE Dies
  BY <1>6 DEF Dies
<1>. QED BY <1>1, <1>2, <1>3, <1>4, <1>5, <1>6 DEF Step, MainEvent

(* ... requests, where the worker posts its attempt ...                      *)
LEMMA HotFades ==
  ASSUME BaseInv, Step, NEW b \in Leases, NEW c, Hot(b, c)'
  PROVE  Hot(b, c) \/ \E w \in Workers : Posted(w) /\ Attempt(w, c) /\ b = worker[w].box /\ c = rpc[w].cmd
<1>. USE DEF BaseInv, Hot
<1>1. CASE \E w \in Workers : Event(w)
  <2>. PICK w \in Workers : Event(w)
    BY <1>1
  <2>1. CASE Fades(slot[b], slot'[b])
    BY <2>1 DEF Fades
  <2>2. CASE ~Fades(slot[b], slot'[b])
    <3>1. CASE Posted(w)
      BY <2>2, <3>1 DEF Posted, Only, Box, OwnInv, Busy, Attempt, Fades
    <3>2. CASE Freed(w) \/ Finished(w) \/ Cancels(w) \/ Reserved(w) \/ Withdrawn(w) \/ Made(w)
      BY <2>2, <3>2 DEF Freed, Finished, Cancels, Reserved, Withdrawn, Made, Only, Fades
    <3>3. CASE Ended(w) \/ Served(w) \/ Declined(w) \/ Entered(w) \/ Delivered(w) \/ Begun(w) \/ Lingers(w)
      BY <2>2, <3>3, Unchanged DEF Ended, Served, Declined, Entered, Delivered, Begun, Lingers, Fading
    <3>. QED BY <3>1, <3>2, <3>3 DEF Event
  <2>. QED BY <2>1, <2>2
<1>2. CASE GameEvent
  BY <1>2, GameFrame DEF Fades
<1>3. CASE MainEvent
  BY <1>3 DEF MainEvent, Sends, Receives, Turns, Dies, Steady
<1>. QED BY <1>1, <1>2, <1>3 DEF Step

(* ... and a command runs where the game executes its request.               *)
LEMMA RunsFrame ==
  ASSUME BaseInv, Step
  PROVE  \/ UNCHANGED ran
         \/ /\ Runs /\ ran' = Append(ran, slot[active].cmd) /\ found' \in RunOutcomes
            /\ active \in Leases /\ Hot(active, slot[active].cmd)
<1>1. CASE \E w \in Workers : Event(w)
  BY <1>1, WorkerFrame DEF BaseInv
<1>2. CASE MainEvent
  BY <1>2 DEF MainEvent, Sends, Receives, Turns, Dies, Steady, gameVars
<1>3. CASE GameEvent
  <2>1. active # NoLease => active \in Leases
    BY <1>3, GameFrame DEF BaseInv
  <2>2. Runs => slot[active].state = "executing" /\ active # NoLease
    BY DEF Runs, BaseInv, PumpInv
  <2>. QED BY <1>3, <2>1, <2>2 DEF GameEvent, Rests, Checks, Claims, Runs, Finishes, Hot
<1>. QED BY <1>1, <1>2, <1>3 DEF Step

LEMMA RanGrows ==
  ASSUME BaseInv, Step, NEW c
  PROVE  /\ Ran(c) => Ran(c)'
         /\ Ran(c)' => Ran(c) \/ (Runs /\ active \in Leases /\ Hot(active, c) /\ found' \in RunOutcomes)
<1>1. CASE UNCHANGED ran
  BY <1>1 DEF Ran
<1>2. CASE ran' = Append(ran, slot[active].cmd) /\ Runs /\ active \in Leases /\ Hot(active, slot[active].cmd) /\ found' \in RunOutcomes
  <2>1. ran \in Seq(Commands \cup {NoCommand}) /\ slot[active].cmd \in Commands \cup {NoCommand}
    BY <1>2 DEF BaseInv, TypeInv, GameTypeOK, SlotTypeOK, Slots
  <2>2. /\ DOMAIN ran' = 1..(Len(ran) + 1) /\ DOMAIN ran = 1..Len(ran) /\ Len(ran) \in Nat
        /\ \A i \in 1..Len(ran) : ran'[i] = ran[i]
        /\ ran'[Len(ran) + 1] = slot[active].cmd
    BY <1>2, <2>1
  <2>3. \A i \in 1..(Len(ran) + 1) : i \in 1..Len(ran) \/ i = Len(ran) + 1
    BY <2>2
  <2>. QED BY <1>2, <2>2, <2>3 DEF Ran
<1>. QED BY <1>1, <1>2, RunsFrame

(* What is over stays over until the session sends the command again.        *)
LEMMA StaysOver ==
  ASSUME BaseInv, Step, NEW c, Over(c), ~(call.cmd = c /\ \E w \in Workers : Sends(w, "execute"))
  PROVE  Over(c)' /\ (Clean(c) => Clean(c)')
<1>1. \A w \in Workers : ~Attempt(w, c)'
  BY AttemptsFade DEF Over
<1>2. \A b \in Leases : ~Hot(b, c)'
  BY HotFades DEF Over
<1>3. ~Ran(c) => ~Ran(c)'
  BY RanGrows DEF Over
<1>. QED BY <1>1, <1>2, <1>3 DEF Over, Clean

(* A request that ends leaves its command no further chance ...              *)
LEMMA Spent ==
  ASSUME BaseInv, OneChance, Step, NEW b \in Leases, NEW c \in Commands, Hot(b, c), ~Hot(b, c)'
  PROVE  Over(c)'
<1>1. ~\E w \in Workers : Sends(w, "execute")
  BY DEF Sends, Steady, Hot
<1>2. \A w \in Workers : ~Attempt(w, c)'
  BY <1>1, AttemptsFade DEF OneChance
<1>3. \A d \in Leases : ~Hot(d, c)'
  BY HotFades DEF OneChance
<1>. QED BY <1>2, <1>3 DEF Over

(* ... and so does an attempt that ends without a request.                   *)
LEMMA Abandoned ==
  ASSUME BaseInv, OneChance, NEW w \in Workers, Event(w), ~Posted(w), NEW c \in Commands, Attempt(w, c), ~Attempt(w, c)'
  PROVE  Clean(c)'
<1>1. Step
  BY DEF Step
<1>2. \A v \in Workers : ~Attempt(v, c)'
  <2>1. ~Sends(w, "execute")
    BY DEF Sends, Attempt
  <2>2. \A v \in Workers : Sends(v, "execute") => v = w
    BY WorkerFrame DEF Sends, BaseInv
  <2>. QED BY <1>1, <2>1, <2>2, AttemptsFade DEF OneChance
<1>3. \A b \in Leases : ~Hot(b, c)'
  <2>1. \A v \in Workers : Posted(v) => v = w
    BY WorkerFrame DEF Posted, Moves, BaseInv
  <2>. QED BY <1>1, <2>1, HotFades DEF OneChance
<1>4. ~Ran(c)'
  BY <1>1, RanGrows DEF OneChance
<1>. QED BY <1>2, <1>3, <1>4 DEF Clean, Over

LEMMA OneChanceKept ==
  ASSUME BaseInv, OneChance, Step, \A w \in Workers : Sends(w, "execute") => Clean(call.cmd)
  PROVE  OneChance'
<1>1. ASSUME NEW b \in Leases, slot'[b].state \in {"posted", "executing"}
      PROVE  slot'[b].cmd \in Commands
  <2>1. ASSUME NEW c, Hot(b, c)'
        PROVE  c \in Commands
    <3>1. Hot(b, c) \/ \E w \in Workers : Attempt(w, c)
      BY <2>1, HotFades
    <3>. QED BY <3>1 DEF Hot, Attempt, OneChance, BaseInv, OwnInv
  <2>. QED BY <1>1, <2>1 DEF Hot
<1>2. \A i, j \in DOMAIN ran' : ran'[i] = ran'[j] => i = j
  <2>1. CASE UNCHANGED ran
    BY <2>1 DEF OneChance
  <2>. DEFINE c == slot[active].cmd
  <2>2. CASE Runs /\ ran' = Append(ran, c) /\ active \in Leases /\ Hot(active, c)
    <3>1. ~Ran(c)
      BY <2>2 DEF OneChance, Runs, Hot
    <3>2. ran \in Seq(Commands \cup {NoCommand}) /\ c \in Commands \cup {NoCommand}
      BY <2>2 DEF BaseInv, TypeInv, GameTypeOK, SlotTypeOK, Slots
    <3>. HIDE DEF c
    <3>3. /\ DOMAIN ran' = 1..(Len(ran) + 1) /\ DOMAIN ran = 1..Len(ran) /\ Len(ran) \in Nat
          /\ \A i \in 1..Len(ran) : ran'[i] = ran[i]
          /\ ran'[Len(ran) + 1] = c
      BY <2>2, <3>2
    <3>4. \A i \in 1..(Len(ran) + 1) : i \in 1..Len(ran) \/ i = Len(ran) + 1
      BY <3>3
    <3>. QED BY <3>1, <3>3, <3>4 DEF OneChance, Ran
  <2>. QED BY <2>1, <2>2, RunsFrame
<1>3. ASSUME NEW c \in Commands, NEW w \in Workers, Attempt(w, c)'
      PROVE  ~Ran(c)' /\ (\A b \in Leases : ~Hot(b, c)') /\ \A v \in Workers : Attempt(v, c)' => v = w
  <2>1. CASE Sends(w, "execute") /\ c = call.cmd
    <3>1. Clean(c)
      BY <2>1
    <3>2. ~Ran(c)' /\ \A b \in Leases : ~Hot(b, c)'
      BY <3>1, RanGrows, HotFades DEF Clean, Over
    <3>3. \A v \in Workers : Attempt(v, c)' => v = w
      BY <2>1, <3>1, AttemptsFade DEF Clean, Over, Sends
    <3>. QED BY <3>2, <3>3
  <2>2. CASE Attempt(w, c)
    <3>1. ~Ran(c)'
      BY <2>2, RanGrows DEF OneChance
    <3>2. ASSUME NEW b \in Leases, Hot(b, c)'
          PROVE  FALSE
      <4>1. PICK v \in Workers : Posted(v) /\ Attempt(v, c)
        BY <2>2, <3>2, HotFades DEF OneChance
      <4>2. v = w
        BY <2>2, <4>1 DEF OneChance
      <4>. QED BY <1>3, <4>1, <4>2 DEF Posted, Moves, Attempt
    <3>3. \A v \in Workers : Attempt(v, c)' => v = w
      BY <2>2, AttemptsFade DEF OneChance, Clean, Over
    <3>. QED BY <3>1, <3>2, <3>3
  <2>. QED BY <1>3, <2>1, <2>2, AttemptsFade
<1>4. ASSUME NEW c \in Commands, NEW b \in Leases, NEW d \in Leases, Hot(b, c)', Hot(d, c)'
      PROVE  b = d
  <2>1. \A k \in Leases : Hot(k, c)' => Hot(k, c) \/ \E w \in Workers : Attempt(w, c) /\ k = worker[w].box
    BY HotFades
  <2>. QED BY <1>4, <2>1 DEF OneChance
<1>5. ASSUME NEW c \in Commands, NEW b \in Leases, Hot(b, c)', Ran(c)'
      PROVE  b = active' /\ pump' = "evaluated" /\ found' \in RunOutcomes
  <2>1. Hot(b, c)
    BY <1>5, HotFades, RanGrows DEF OneChance
  <2>2. CASE Runs /\ active \in Leases /\ Hot(active, c) /\ found' \in RunOutcomes
    BY <2>1, <2>2 DEF OneChance, Runs, Apart
  <2>3. CASE Ran(c)
    <3>1. b = active /\ pump = "evaluated" /\ found \in RunOutcomes
      BY <2>1, <2>3 DEF OneChance
    <3>2. CASE \E w \in Workers : Event(w)
      BY <3>1, <3>2, WorkerSwitches DEF Switched
    <3>3. CASE GameEvent
      BY <1>5, <3>1, <3>3 DEF GameEvent, Rests, Checks, Claims, Runs, Finishes, Apart, Only, Hot
    <3>4. CASE MainEvent
      BY <3>1, <3>4 DEF MainEvent, Sends, Receives, Turns, Dies, Steady, gameVars
    <3>. QED BY <3>2, <3>3, <3>4 DEF Step
  <2>. QED BY <1>5, <2>2, <2>3, RanGrows
<1>. QED BY <1>1, <1>2, <1>3, <1>4, <1>5 DEF OneChance

(* What an answer says of its command, wherever the answer is.               *)
Tells(answer, c) ==
  /\ answer \in NotRun \cup {"notRun"} => Clean(c)
  /\ answer \in {"ok", "unsure"} => Ran(c) /\ Over(c)

PumpTells == pump = "evaluated" => (Ran(slot[active].cmd) <=> found \in RunOutcomes)
WorkersTell ==
  \A w \in Workers, c \in Commands : rpc[w].method = "execute" /\ rpc[w].cmd = c =>
    /\ worker[w].state \in {"wait", "late"} /\ slot[worker[w].box].state = "complete"
         => Tells(slot[worker[w].box].outcome, c)
    /\ worker[w].state = "cancelling" => Clean(c)
    /\ Tells(rpc[w].reply, c)
SessionTells ==
  \A c \in Commands :
    /\ result[c] = "none" /\ call.cmd # c => Clean(c)
    /\ Tells(result[c], c)
    /\ call.cmd = c => /\ call.stage = "cross" /\ ~Waiting => Clean(c)
                       /\ call.stage = "handoff" => Clean(c)
                       /\ call.stage = "accept" => Ran(c) /\ Over(c)
TellsInv == PumpTells /\ WorkersTell /\ SessionTells

LEMMA SendsClean ==
  ASSUME BaseInv, SessionTells, NEW w \in Workers, Sends(w, "execute")
  PROVE  Clean(call.cmd)
<1>1. call.stage = "cross" /\ ~Waiting
  BY DEF Sends
<1>2. call.cmd \in Commands
  BY <1>1 DEF BaseInv, TypeInv, MainTypeOK, CallRecords, CallInv
<1>. QED BY <1>1, <1>2 DEF SessionTells

LEMMA PumpTellsKept ==
  ASSUME BaseInv, OneChance, PumpTells, Step
  PROVE  PumpTells'
<1>. USE DEF BaseInv
<1>1. CASE \E w \in Workers : Event(w)
  <2>. PICK w \in Workers : Event(w)
    BY <1>1
  <2>1. UNCHANGED <<pump, found, ran>> /\ (pump # "idle" => active' = active)
    BY WorkerFrame, WorkerSwitches DEF Switched
  <2>2. pump # "idle" => active \in Leases
    BY DEF PumpInv, TypeInv, GameTypeOK
  <2>3. pump = "evaluated" => slot'[active].cmd = slot[active].cmd
    BY <2>2, WorkerFrame DEF Fades, PumpInv
  <2>. QED BY <2>1, <2>3 DEF PumpTells, Ran
<1>2. CASE Runs
  <2>. DEFINE c == slot[active].cmd
  <2>1. active \in Leases /\ Hot(active, c) /\ pump = "claimed" /\ c \in Commands /\ UNCHANGED <<slot, active>>
    BY <1>2 DEF Runs, PumpInv, TypeInv, GameTypeOK, Hot, OneChance, Apart
  <2>2. ~Ran(c)
    BY <2>1 DEF OneChance
  <2>3. CASE found' \in NotRun /\ UNCHANGED ran
    BY <2>1, <2>2, <2>3 DEF PumpTells, Ran, NotRun, RunOutcomes
  <2>4. CASE found' \in RunOutcomes /\ ran' = Append(ran, c)
    <3>1. ran \in Seq(Commands \cup {NoCommand})
      BY DEF TypeInv, GameTypeOK
    <3>. HIDE DEF c
    <3>2. Len(ran) + 1 \in DOMAIN ran' /\ ran'[Len(ran) + 1] = c
      BY <2>1, <2>4, <3>1
    <3>. QED BY <2>1, <2>4, <3>2 DEF PumpTells, Ran, c
  <2>. QED BY <1>2, <2>3, <2>4 DEF Runs
<1>3. CASE Rests
  <2>1. UNCHANGED <<pump, found, ran, active>> /\ (pump # "idle" => active \in Leases)
    BY <1>3 DEF Rests, Apart, PumpInv, TypeInv, GameTypeOK
  <2>2. pump # "idle" => slot'[active].cmd = slot[active].cmd
    BY <1>3, <2>1 DEF Rests, Fading, Fades
  <2>. QED BY <2>1, <2>2 DEF PumpTells, Ran
<1>4. CASE Checks \/ Claims \/ Finishes
  BY <1>4 DEF Checks, Claims, Finishes, PumpTells
<1>5. CASE MainEvent
  BY <1>5 DEF MainEvent, Sends, Receives, Turns, Dies, Steady, gameVars, PumpTells, Ran
<1>. QED BY <1>1, <1>2, <1>3, <1>4, <1>5 DEF Step, GameEvent

LEMMA StaysTold ==
  ASSUME BaseInv, Step, NEW a, NEW c, Tells(a, c), ~(call.cmd = c /\ \E w \in Workers : Sends(w, "execute"))
  PROVE  Tells(a, c)'
<1>1. Over(c) => Over(c)' /\ (Clean(c) => Clean(c)')
  BY StaysOver
<1>2. Ran(c) => Ran(c)'
  BY RanGrows
<1>. QED BY <1>1, <1>2 DEF Tells, Clean

LEMMA NotSentAgain ==
  ASSUME BaseInv, NEW v \in Workers, rpc[v].method = "execute", call.cmd = rpc[v].cmd, NEW w \in Workers, Sends(w, "execute")
  PROVE  FALSE
<1>1. ~Waiting /\ call.stage = "cross"
  BY DEF Sends
<1>2. result[call.cmd] = "none"
  BY <1>1 DEF BaseInv, CallInv
<1>3. v = main.worker /\ NoWorker \notin Workers
  BY <1>2 DEF BaseInv, CallInv, Workers, NoWorker
<1>. QED BY <1>1, <1>3 DEF Waiting

(* A request that is cancelled before its claim did not run.                 *)
LEMMA CancelsTell ==
  ASSUME BaseInv, OneChance, Step, NEW b \in Leases, NEW c \in Commands, Hot(b, c), slot[b].state = "posted",
         slot'[b].state \notin {"posted", "executing"}
  PROVE  Clean(c)'
<1>1. Over(c)'
  BY Spent DEF Hot
<1>2. ~Ran(c)
  BY DEF OneChance, BaseInv, PumpInv
<1>3. ~Runs
  BY DEF Runs
<1>. QED BY <1>1, <1>2, <1>3, RanGrows DEF Clean

LEMMA WorkersTellKept ==
  ASSUME BaseInv, OneChance, PumpTells, WorkersTell, Step
  PROVE  WorkersTell'
<1>. USE DEF BaseInv
<1>. SUFFICES ASSUME NEW v \in Workers, NEW c \in Commands, rpc'[v].method = "execute", rpc'[v].cmd = c
              PROVE  /\ \A a : /\ worker'[v].state \in {"wait", "late"} /\ slot'[worker'[v].box].state = "complete"
                              /\ slot'[worker'[v].box].outcome = a
                              => Tells(a, c)'
                     /\ worker'[v].state = "cancelling" => Clean(c)'
                     /\ \A a : rpc'[v].reply = a => Tells(a, c)'
  BY DEF WorkersTell, Tells
<1>. DEFINE Told == /\ \A a : /\ worker'[v].state \in {"wait", "late"} /\ slot'[worker'[v].box].state = "complete"
                             /\ slot'[worker'[v].box].outcome = a
                             => Tells(a, c)'
                    /\ worker'[v].state = "cancelling" => Clean(c)'
                    /\ \A a : rpc'[v].reply = a => Tells(a, c)'
            b == worker[v].box
            Same == rpc'[v] = rpc[v] /\ worker'[v] = worker[v]
<1>1. ASSUME rpc[v].method = "execute", rpc[v].cmd = c
      PROVE  /\ \A a : Tells(a, c) => Tells(a, c)'
             /\ Clean(c) => Clean(c)'
  <2>1. ~(call.cmd = c /\ \E w \in Workers : Sends(w, "execute"))
    BY <1>1, NotSentAgain
  <2>. QED BY <2>1, StaysTold, StaysOver DEF Clean
<1>2. worker[v].state \in Busy => b \in Leases
  BY DEF OwnInv, TypeInv, WorkerTypeOK, Records
<1>3. ASSUME Same, worker[v].state \in Busy => Fades(slot[b], slot'[b])
      PROVE  Told
  <2>1. rpc[v].method = "execute" /\ rpc[v].cmd = c
    BY <1>3
  <2>2. ASSUME worker[v].state \in {"wait", "late"}, slot'[b].state = "complete", slot[b].state = "posted", slot'[b].outcome = "cancelled"
        PROVE  Clean(c)'
    <3>1. Hot(b, c) /\ b \in Leases
      BY <1>2, <2>1, <2>2 DEF OwnInv, Hot, Busy
    <3>. QED BY <2>2, <3>1, CancelsTell
  <2>3. ASSUME worker[v].state \in {"wait", "late"}, slot'[b].state = "complete"
        PROVE  \A a : slot'[b].outcome = a => Tells(a, c)'
    <3>1. CASE slot[b].state = "posted" /\ slot'[b].outcome = "cancelled"
      BY <2>2, <2>3, <3>1 DEF Tells
    <3>2. CASE slot[b].state = "complete" /\ slot'[b].outcome = slot[b].outcome
      BY <1>1, <2>1, <2>3, <3>2 DEF WorkersTell
    <3>. QED BY <1>3, <2>3, <3>1, <3>2 DEF Fades, Busy
  <2>4. worker[v].state = "cancelling" => Clean(c)'
    BY <1>1, <2>1 DEF WorkersTell
  <2>5. \A a : rpc'[v].reply = a => Tells(a, c)'
    BY <1>1, <1>3, <2>1 DEF WorkersTell
  <2>. QED BY <1>3, <2>3, <2>4, <2>5
<1>4. ASSUME rpc'[v].reply = "none", worker'[v].state \notin {"wait", "late", "cancelling"}
      PROVE  Told
  BY <1>4 DEF Tells, NotRun
<1>5. ASSUME NEW w \in Workers, Event(w)
      PROVE  Told
  <2>1. rpc[v].method = "execute" /\ rpc[v].cmd = c
    BY <1>5, WorkerFrame
  <2>2. CASE v # w
    <3>1. Same /\ (worker[v].state \in Busy => slot[b].state # "absent" /\ b # worker[w].box)
      BY <1>2, <1>5, <2>2, WorkerFrame DEF OwnInv, NoLease, Leases
    <3>. QED BY <1>2, <1>3, <1>5, <3>1, WorkerFrame
  <2>3. CASE v = w
    <3>1. CASE Ended(w)
      BY <1>1, <2>1, <2>3, <3>1 DEF Ended, WorkersTell
    <3>2. CASE Served(w) \/ Freed(w)
      BY <2>1, <2>3, <3>2 DEF Served, Freed, Asked
    <3>3. CASE Declined(w)
      <4>1. CASE rpc'[w].reply = "unknown" /\ worker'[w].state = "idle"
        BY <2>3, <4>1 DEF Tells, NotRun
      <4>2. CASE worker[w].state \in {"idle", "install", "submit"} /\ Answers(w, "notRun")
        <5>1. Attempt(w, c) /\ ~Attempt(w, c)' /\ ~Posted(w) /\ worker'[w].state = "idle"
          BY <2>1, <2>3, <3>3, <4>2 DEF Attempt, Declined, Asked, Answers, Posted
        <5>2. Clean(c)'
          BY <1>5, <5>1, Abandoned
        <5>. QED BY <2>3, <4>2, <5>1, <5>2 DEF Tells, Answers
      <4>. QED BY <3>3, <4>1, <4>2 DEF Declined, Answers
    <3>4. CASE Begun(w) \/ Made(w) \/ Entered(w) \/ Reserved(w)
      BY <1>4, <2>3, <3>4 DEF Begun, Made, Entered, Reserved, Moves, Asked, OwnInv, Busy
    <3>5. CASE Posted(w)
      BY <2>3, <3>5 DEF Posted, Moves, Only, OwnInv, Busy, Tells, NotRun
    <3>6. CASE Finished(w)
      <4>1. Clean(c)
        BY <2>1, <2>3, <3>6 DEF Finished, Box, WorkersTell, Tells, NotRun
      <4>. QED BY <1>1, <2>1, <2>3, <3>6, <4>1 DEF Finished, Answers, Tells
    <3>7. CASE Delivered(w)
      <4>1. Tells(slot[b].outcome, c)
        BY <2>1, <2>3, <3>7 DEF Delivered, Box, WorkersTell
      <4>. QED BY <1>1, <2>1, <2>3, <3>7, <4>1 DEF Delivered, Answers, Box
    <3>8. CASE Withdrawn(w)
      <4>1. Hot(b, c) /\ b \in Leases /\ slot[b].state = "posted" /\ slot'[b].state = "reserving"
        BY <1>2, <2>1, <2>3, <3>8 DEF Withdrawn, Box, Only, Hot, OwnInv, Busy
      <4>2. Clean(c)'
        BY <4>1, CancelsTell
      <4>. QED BY <2>3, <3>8, <4>2 DEF Withdrawn, Moves, OwnInv, Busy, Tells, NotRun
    <3>9. CASE Lingers(w)
      BY <1>1, <2>1, <2>3, <3>9 DEF Lingers, Moves, WorkersTell
    <3>10. CASE Cancels(w)
      <4>1. Clean(c)
        BY <2>1, <2>3, <3>10 DEF Cancels, WorkersTell
      <4>. QED BY <1>1, <2>1, <2>3, <3>10, <4>1 DEF Cancels, Answers, Tells
    <3>. QED BY <1>5, <3>1, <3>2, <3>3, <3>4, <3>5, <3>6, <3>7, <3>8, <3>9, <3>10 DEF Event
  <2>. QED BY <2>2, <2>3
<1>6. CASE GameEvent
  <2>1. Same
    BY <1>6, GameFrame DEF Apart
  <2>2. CASE worker[v].state \in Busy => Fades(slot[b], slot'[b])
    BY <1>3, <2>1, <2>2
  <2>3. CASE worker[v].state \in Busy /\ ~Fades(slot[b], slot'[b])
    <3>1. b = active /\ b \in Leases /\ slot'[b].state \in {"executing", "complete"}
      BY <1>2, <1>6, <2>3, GameFrame
    <3>2. CASE slot'[b].state = "executing"
      BY <1>1, <2>1, <3>2 DEF WorkersTell
    <3>3. CASE slot'[b].state = "complete" /\ Finishes
      <4>1. pump = "evaluated" /\ slot'[b].outcome = found /\ slot[b].state = "executing" /\ UNCHANGED ran
        BY <3>1, <3>3 DEF Finishes, Only, PumpInv
      <4>2. worker[v].state \in {"wait", "late"} => Hot(b, c) /\ slot[b].cmd = c
        BY <2>1, <4>1 DEF Hot, OwnInv, Busy
      <4>3. Hot(b, c) => Over(c)'
        BY <3>1, <3>3, Spent DEF Hot
      <4>4. slot[b].cmd = c => (Ran(c) <=> found \in RunOutcomes)
        BY <3>1, <4>1 DEF PumpTells
      <4>5. worker[v].state \in {"wait", "late"} => (Ran(c)' <=> found \in RunOutcomes) /\ Over(c)'
        BY <4>1, <4>2, <4>3, <4>4 DEF Ran
      <4>6. \A a : worker[v].state \in {"wait", "late"} /\ a = found => Tells(a, c)'
        BY <3>3, <4>5 DEF Tells, Clean, NotRun, RunOutcomes
      <4>. QED BY <1>1, <2>1, <4>1, <4>6 DEF WorkersTell, Busy
    <3>4. slot'[b].state = "complete" => Finishes
      BY <1>6, <2>3, <3>1 DEF GameEvent, Rests, Checks, Claims, Runs, Fading, Only, Fades
    <3>. QED BY <3>1, <3>2, <3>3, <3>4
  <2>. QED BY <2>2, <2>3
<1>7. CASE MainEvent
  <2>1. UNCHANGED slot
    BY <1>7 DEF MainEvent, Sends, Receives, Turns, Dies, Steady
  <2>2. \/ rpc'[v].reply = "none" /\ worker'[v].state = "idle"
        \/ rpc'[v] = rpc[v] /\ (worker'[v] = worker[v] \/ worker'[v].state = "dead")
    BY <1>7 DEF MainEvent, Sends, Receives, Turns, Dies, MayLose
  <2>3. CASE rpc'[v].reply = "none" /\ worker'[v].state = "idle"
    BY <1>4, <2>3
  <2>4. CASE Same
    BY <1>3, <2>1, <2>4 DEF Fades
  <2>5. CASE rpc'[v] = rpc[v] /\ worker'[v].state = "dead"
    BY <1>1, <2>5 DEF WorkersTell
  <2>. QED BY <2>2, <2>3, <2>4, <2>5
<1>. QED BY <1>5, <1>6, <1>7 DEF Step

LEMMA SessionTellsKept ==
  ASSUME BaseInv, OneChance, WorkersTell, SessionTells, Step
  PROVE  SessionTells'
<1>. USE DEF BaseInv
<1>. SUFFICES ASSUME NEW c \in Commands
              PROVE  /\ result'[c] = "none" /\ call'.cmd # c => Clean(c)'
                     /\ \A a : result'[c] = a => Tells(a, c)'
                     /\ call'.cmd = c => /\ call'.stage = "cross" /\ ~Waiting' => Clean(c)'
                                         /\ call'.stage = "handoff" => Clean(c)'
                                         /\ call'.stage = "accept" => Ran(c)' /\ Over(c)'
  BY DEF SessionTells, Tells
<1>. DEFINE Told == /\ result'[c] = "none" /\ call'.cmd # c => Clean(c)'
                    /\ \A a : result'[c] = a => Tells(a, c)'
                    /\ call'.cmd = c => /\ call'.stage = "cross" /\ ~Waiting' => Clean(c)'
                                        /\ call'.stage = "handoff" => Clean(c)'
                                        /\ call'.stage = "accept" => Ran(c)' /\ Over(c)'
<1>1. /\ c # NoCommand /\ NoCall.cmd # c /\ (call.stage = "none" => call.cmd # c)
      /\ call.stage # "none" => call.cmd \in Commands
  <2>1. c # NoCommand /\ NoCall.cmd # c
    BY MailboxAssumption, SessionKinds
  <2>2. call \in CallRecords /\ ((call.stage = "none") <=> (call.cmd = NoCommand))
    BY DEF CallInv, TypeInv, MainTypeOK
  <2>. QED BY <2>1, <2>2 DEF CallRecords
<1>2. CASE call.cmd = c /\ \E w \in Workers : Sends(w, "execute")
  <2>1. UNCHANGED <<call, result>> /\ call.stage = "cross" /\ Waiting'
    BY <1>2 DEF Sends, Waiting, NoWorker, Workers
  <2>2. result'[c] = "none"
    BY <1>1, <1>2, <2>1 DEF CallInv
  <2>. QED BY <1>2, <2>1, <2>2 DEF Tells, NotRun
<1>3. CASE ~(call.cmd = c /\ \E w \in Workers : Sends(w, "execute"))
  <2>1. /\ \A a : Tells(a, c) => Tells(a, c)'
        /\ Clean(c) => Clean(c)'
        /\ Ran(c) /\ Over(c) => Ran(c)' /\ Over(c)'
    BY <1>3, StaysTold, StaysOver, RanGrows DEF Clean
  <2>2. CASE UNCHANGED <<call, result>> /\ (call.cmd = c /\ call.stage = "cross" /\ ~Waiting' => ~Waiting)
    BY <2>1, <2>2 DEF SessionTells
  <2>3. CASE (\E w \in Workers : Event(w)) \/ GameEvent
    <3>1. UNCHANGED <<call, result, main>> /\ \A v \in Workers : rpc'[v].method = rpc[v].method
      BY <2>3, WorkerFrame, GameFrame DEF Apart
    <3>2. Waiting => Waiting'
      BY <3>1 DEF Waiting, TypeInv, MainTypeOK, Sessions
    <3>. QED BY <2>2, <3>1, <3>2
  <2>4. CASE \E w \in Workers, method \in {"attach", "detach", "taint", "acknowledge", "execute"} : Sends(w, method)
    BY <2>2, <2>4 DEF Sends
  <2>5. ASSUME NEW d, NEW x, x # "none", Answered(d, x), d = c => Tells(x, c), call.cmd = c => d = c
        PROVE  Told
    <3>1. call'.cmd # c /\ (c # d => result'[c] = result[c]) /\ (c = d => result'[c] = x)
      BY <1>1, <2>5 DEF Answered
    <3>2. CASE c = d
      BY <2>1, <2>5, <3>1, <3>2 DEF Tells, NotRun, Clean
    <3>3. CASE c # d
      BY <2>1, <2>5, <3>1, <3>3 DEF SessionTells
    <3>. QED BY <3>2, <3>3
  <2>6. CASE Receives
    <3>. DEFINE r == rpc[main.worker].reply
    <3>1. rpc[main.worker].method = "execute" /\ call.cmd = c => Tells(r, c)
      <4>1. main.worker \in Workers
        BY <2>6 DEF Receives
      <4>2. rpc[main.worker].method = "execute" => rpc[main.worker].cmd = call.cmd
        BY <4>1 DEF CallInv
      <4>. QED BY <4>1, <4>2 DEF WorkersTell
    <3>. HIDE DEF r
    <3>2. ToldNot \/ call.stage = "handoff" => (call.cmd = c => Clean(c))
      BY <3>1 DEF ToldNot, r, Tells, NotRun, SessionTells
    <3>3. CASE UNCHANGED <<call, result>> /\ call.stage = "none"
      BY <1>1, <2>2, <3>3
    <3>4. ASSUME NEW x \in {"ok", "notRun", "unknown"}, call.stage # "none", Answered(call.cmd, x),
                 x = "notRun" => ToldNot \/ call.stage = "handoff", x = "ok" => call.stage = "accept"
          PROVE  Told
      <4>1. call.cmd = c => Tells(x, c)
        BY <3>2, <3>4 DEF Tells, NotRun, SessionTells
      <4>. QED BY <2>5, <3>4, <4>1
    <3>5. CASE Advances("cross") /\ (ToldNot \/ call.stage = "handoff")
      BY <2>1, <3>2, <3>5 DEF Advances, SessionTells
    <3>6. CASE Advances("accept") /\ rpc[main.worker].method = "execute" /\ rpc[main.worker].reply = "ok"
      BY <2>1, <3>1, <3>6 DEF r, Advances, SessionTells, Tells
    <3>7. CASE Advances("handoff") /\ rpc[main.worker].method = "execute" /\ rpc[main.worker].reply = "handoff"
      BY <2>1, <3>1, <3>7 DEF r, Advances, SessionTells, Tells, NotRun
    <3>8. CASE Advances("tainting")
      BY <2>1, <3>8 DEF Advances, SessionTells
    <3>. QED BY <2>6, <3>3, <3>4, <3>5, <3>6, <3>7, <3>8 DEF Receives
  <2>7. CASE Turns
    <3>1. ~Waiting
      BY <2>7 DEF Turns
    <3>2. ASSUME NEW d \in Commands, NEW x \in {"ok", "notRun", "unknown"}, Answered(d, x),
                 \/ call.stage = "none" /\ result[d] = "none" /\ x # "ok"
                 \/ call.stage # "none" /\ d = call.cmd
                    /\ (x = "notRun" => call.stage \in {"cross", "handoff"}) /\ (x = "ok" => call.stage = "accept")
          PROVE  Told
      <4>1. d = c => Tells(x, c)
        BY <1>1, <3>1, <3>2 DEF Tells, NotRun, SessionTells
      <4>2. call.cmd = c => d = c
        BY <1>1, <3>2
      <4>. QED BY <2>5, <3>2, <4>1, <4>2
    <3>3. ASSUME NEW d \in Commands, call.stage = "none", result[d] = "none", UNCHANGED result,
                 call'.cmd = d, call'.stage = "cross"
          PROVE  Told
      BY <1>1, <2>1, <3>3 DEF SessionTells
    <3>. QED BY <2>7, <3>2, <3>3 DEF Turns
  <2>8. CASE Dies
    BY <1>1, <2>1, <2>8 DEF Dies, SessionTells, Tells, NotRun
  <2>. QED BY <2>3, <2>4, <2>6, <2>7, <2>8 DEF Step, MainEvent
<1>. QED BY <1>2, <1>3

--------------------------------------------------------------------------------
TruthInv == BaseInv /\ OneChance /\ TellsInv

LEMMA TruthInit == Init => TruthInv
<1>. SUFFICES ASSUME Init PROVE TruthInv
  OBVIOUS
<1>1. BaseInv
  BY BaseInit
<1>2. /\ \A b \in Leases : slot[b].state = "absent"
      /\ \A w \in Workers : rpc[w].method = "none" /\ worker[w].state = "unborn"
      /\ ran = <<>> /\ pump = "idle" /\ \A c \in Commands : result[c] = "none"
      /\ call.stage = "none" /\ call.cmd \notin Commands
  BY SessionKinds, MailboxAssumption DEF Init, MailboxInit, NewSlot, NewWorker
<1>3. DOMAIN ran = {}
  BY <1>2
<1>4. \A c : Clean(c)
  BY <1>2, <1>3 DEF Clean, Over, Ran, Attempt, Hot
<1>5. OneChance
  BY <1>2, <1>3 DEF OneChance, Attempt, Hot
<1>6. TellsInv
  BY <1>2, <1>4 DEF TellsInv, PumpTells, WorkersTell, SessionTells, Tells, NotRun
<1>. QED BY <1>1, <1>5, <1>6 DEF TruthInv

LEMMA TruthStep ==
  ASSUME TruthInv, [Next]_vars
  PROVE  TruthInv'
<1>. USE DEF TruthInv, TellsInv
<1>1. BaseInv' /\ (Step \/ UNCHANGED vars)
  BY BaseStep
<1>2. CASE UNCHANGED vars
  <2>1. UNCHANGED <<slot, worker, rpc, main, call, result, ran, pump, found, active>>
    BY <1>2 DEF vars, gameVars, mainVars
  <2>2. OneChance'
    BY <2>1 DEF OneChance, Attempt, Hot, Ran
  <2>3. PumpTells'
    BY <2>1 DEF PumpTells, Ran
  <2>4. WorkersTell'
    BY <2>1 DEF WorkersTell, Tells, Clean, Over, Attempt, Hot, Ran
  <2>5. SessionTells'
    BY <2>1 DEF SessionTells, Tells, Clean, Over, Attempt, Hot, Ran, Waiting
  <2>. QED BY <1>1, <2>2, <2>3, <2>4, <2>5
<1>3. CASE Step
  BY <1>1, <1>3, SendsClean, OneChanceKept, PumpTellsKept, WorkersTellKept, SessionTellsKept
<1>. QED BY <1>1, <1>2, <1>3

LEMMA TruthAlways == Spec => []TruthInv
BY TruthInit, TruthStep, PTL DEF Spec

(* A command that was answered as not executed never ran, and never will:    *)
(* whichever of the worker's and the session's error paths said so           *)
(* (Hades2ResidentSession._execute, Hades2LuaTransport._execute_mailbox).    *)
THEOREM NotRunTrueAlways == Spec => []NotRunTrue
<1>1. TruthInv => NotRunTrue
  BY DEF TruthInv, TellsInv, SessionTells, Tells, Clean, Ran, NotRunTrue
<1>. QED BY <1>1, TruthAlways, PTL

(* A command changes the game at most once, and one that is answered did:    *)
(* statuses are sent again, mutations cross again after a handoff, workers   *)
(* are replaced, but each attempt is published and claimed at most once      *)
(* (mgt_mailbox_claim, Hades2ResidentSession._execute).                      *)
THEOREM OnceOnlyAlways == Spec => []OnceOnly
<1>1. TruthInv => OnceOnly
  BY DEF TruthInv, TellsInv, SessionTells, OneChance, Tells, Ran, OnceOnly
<1>. QED BY <1>1, TruthAlways, PTL

--------------------------------------------------------------------------------
(* The last command that ran is accepted, or its receipt is still to be read,*)
(* or the game process is tainted: no later command runs before it is.       *)
AllAccepted == \A i \in DOMAIN ran : ran[i] \in accepted
Evidence ==
  /\ ran # <<>> /\ active # NoLease /\ slot[active].cmd = ran[Len(ran)]
  /\ \/ pump = "evaluated" /\ found \in RunOutcomes
     \/ slot[active].state = "complete" /\ slot[active].outcome \in RunOutcomes
Settles(s) == s.outcome = "handoff" \/ s.cmd \in accepted

EvidenceInv ==
  /\ AllAccepted \/ tainted \/ Evidence
  /\ pump = "claimed" => AllAccepted
  /\ UncertaintyKept
(* A success that is not acknowledged: what it says, and that an acceptance  *)
(* is sent only for a result that settles it.                                *)
PendingInv ==
  \A w \in Workers : worker[w].pending =>
    LET s == slot[worker[w].box] IN
    /\ s.state = "complete" /\ s.outcome \in Success
    /\ rpc[w].method = "execute" /\ rpc[w].reply \in Success => s.outcome = rpc[w].reply /\ s.cmd = rpc[w].cmd
    /\ rpc[w].method = "acknowledge" => Settles(s)
    /\ w = main.worker => /\ call.stage = "accept" => Settles(s)
                          /\ call.stage = "handoff" => s.outcome = "handoff"

LEMMA AcceptedGrows == BaseInv /\ Step => accepted \subseteq accepted'
<1>. SUFFICES ASSUME BaseInv, Step PROVE accepted \subseteq accepted'
  OBVIOUS
<1>1. CASE (\E w \in Workers : Event(w)) \/ GameEvent
  BY <1>1, WorkerFrame, GameFrame DEF BaseInv, Apart
<1>2. CASE MainEvent
  BY <1>2 DEF MainEvent, Sends, Receives, Turns, Dies
<1>. QED BY <1>1, <1>2 DEF Step

LEMMA PendingKept ==
  ASSUME BaseInv, PendingInv, Step
  PROVE  PendingInv'
<1>. USE DEF BaseInv
<1>. SUFFICES ASSUME NEW v \in Workers, worker'[v].pending
              PROVE  LET s == slot'[worker'[v].box] IN
                     /\ s.state = "complete" /\ s.outcome \in Success
                     /\ rpc'[v].method = "execute" /\ rpc'[v].reply \in Success
                          => s.outcome = rpc'[v].reply /\ s.cmd = rpc'[v].cmd
                     /\ rpc'[v].method = "acknowledge" => s.outcome = "handoff" \/ s.cmd \in accepted'
                     /\ v = main'.worker => /\ call'.stage = "accept" => s.outcome = "handoff" \/ s.cmd \in accepted'
                                            /\ call'.stage = "handoff" => s.outcome = "handoff"
  BY DEF PendingInv, Settles
<1>. DEFINE b == worker[v].box
            s == slot[b]
            t == slot'[b]
<1>1. worker[v].pending => /\ b \in Leases /\ worker[v].state = "idle" /\ s.state = "complete" /\ s.outcome \in Success
  BY DEF PendingInv, OwnInv, TypeInv, WorkerTypeOK, Records
<1>2. accepted \subseteq accepted'
  BY AcceptedGrows
<1>3. ASSUME worker[v].pending, worker'[v].box = b, Fades(s, t)
      PROVE  t.state = "complete" /\ t.outcome = s.outcome /\ t.cmd = s.cmd
  BY <1>1, <1>3 DEF Fades
<1>4. CASE \E w \in Workers : Event(w)
  <2>. PICK w \in Workers : Event(w)
    BY <1>4
  <2>1. UNCHANGED <<main, call, accepted>> /\ rpc'[v].method = rpc[v].method /\ rpc'[v].cmd = rpc[v].cmd
    BY WorkerFrame
  <2>2. CASE v # w
    <3>1. worker'[v] = worker[v] /\ rpc'[v] = rpc[v]
      BY <2>2, WorkerFrame
    <3>2. Fades(s, t)
      BY <1>1, <2>2, <3>1, WorkerFrame DEF OwnInv, NoLease, Leases
    <3>. QED BY <1>1, <1>3, <2>1, <3>1, <3>2 DEF PendingInv, Settles
  <2>3. CASE v = w
    <3>1. CASE Ended(w) \/ Freed(w)
      BY <2>3, <3>1 DEF Ended, Freed
    <3>2. CASE Begun(w) \/ Made(w) \/ Entered(w) \/ Reserved(w) \/ Posted(w) \/ Withdrawn(w) \/ Lingers(w)
      BY <2>3, <3>2 DEF Begun, Made, Entered, Reserved, Posted, Withdrawn, Lingers, Moves, OwnInv
    <3>3. CASE Finished(w) \/ Cancels(w)
      BY <2>3, <3>3 DEF Finished, Cancels, Loosens, OwnInv
    <3>4. CASE Served(w) \/ Declined(w)
      <4>1. worker[v].pending /\ worker'[v].box = b /\ Fading
        BY <2>3, <3>4 DEF Served, Declined, Loosens
      <4>2. rpc[v].method # "execute" \/ rpc'[v].reply \notin Success
        BY <2>3, <3>4 DEF Served, Declined, Answers, Asked, Success
      <4>3. Fades(s, t)
        BY <1>1, <4>1 DEF Fading
      <4>. QED BY <1>1, <1>3, <2>1, <4>1, <4>2, <4>3 DEF PendingInv, Settles
    <3>5. CASE Delivered(w)
      <4>1. /\ b \in Leases /\ rpc[v].method = "execute" /\ s.state = "complete" /\ s.outcome \in Success
            /\ s.cmd = rpc[v].cmd /\ worker'[v].box = b /\ rpc'[v].reply = s.outcome
        BY <2>3, <3>5 DEF Delivered, Answers, Box, OwnInv, Busy, TypeInv, WorkerTypeOK, Records
      <4>2. t.state = "complete" /\ t.outcome = s.outcome /\ t.cmd = s.cmd
        BY <3>5, <4>1 DEF Delivered, Fading, Fades
      <4>3. v = main.worker => call.stage = "cross"
        BY <4>1 DEF CallInv, Waiting, Workers, NoWorker
      <4>. QED BY <2>1, <4>1, <4>2, <4>3
    <3>. QED BY <3>1, <3>2, <3>3, <3>4, <3>5 DEF Event
  <2>. QED BY <2>2, <2>3
<1>5. CASE GameEvent
  <2>1. UNCHANGED <<worker, rpc, main, call, accepted>>
    BY <1>5, GameFrame DEF Apart
  <2>2. Fades(s, t)
    BY <1>1, <1>5, <2>1, GameFrame
  <2>. QED BY <1>1, <1>3, <2>1, <2>2 DEF PendingInv, Settles
<1>6. ASSUME Steady, worker[v].pending, worker'[v].box = b, rpc'[v] = rpc[v], v = main'.worker => v = main.worker,
             v = main.worker => call'.stage \notin {"accept", "handoff"} \/ call'.stage = call.stage
      PROVE  LET u == slot'[worker'[v].box] IN
             /\ u.state = "complete" /\ u.outcome \in Success
             /\ rpc'[v].method = "execute" /\ rpc'[v].reply \in Success
                  => u.outcome = rpc'[v].reply /\ u.cmd = rpc'[v].cmd
             /\ rpc'[v].method = "acknowledge" => u.outcome = "handoff" \/ u.cmd \in accepted'
             /\ v = main'.worker => /\ call'.stage = "accept" => u.outcome = "handoff" \/ u.cmd \in accepted'
                                    /\ call'.stage = "handoff" => u.outcome = "handoff"
  BY <1>1, <1>2, <1>6 DEF Steady, PendingInv, Settles
<1>7. CASE \E w \in Workers, method \in {"attach", "detach", "taint", "acknowledge", "execute"} : Sends(w, method)
  <2>. PICK w \in Workers, method \in {"attach", "detach", "taint", "acknowledge", "execute"} : Sends(w, method)
    BY <1>7
  <2>1. CASE v # w
    BY <1>6, <2>1 DEF Sends
  <2>2. CASE v = w
    <3>1. /\ Steady /\ UNCHANGED <<call, accepted>> /\ worker[v].pending /\ worker'[v].box = b
          /\ rpc'[v].method = method /\ rpc'[v].reply = "none"
          /\ \/ method \in {"attach", "detach"} /\ call.stage = "none"
             \/ method = "taint" /\ call.stage = "tainting"
             \/ method = "acknowledge" /\ call.stage \in {"accept", "handoff"} /\ w = main.worker
             \/ method = "execute" /\ call.stage = "cross"
      BY <2>2, SessionKinds DEF Sends
    <3>. QED BY <1>1, <2>2, <3>1 DEF Steady, PendingInv, Settles, Success
  <2>. QED BY <2>1, <2>2
<1>8. CASE Turns
  <2>1. Steady /\ UNCHANGED rpc /\ main'.worker = main.worker /\ worker'[v] = worker[v]
    BY <1>8 DEF Turns, MayLose
  <2>2. call'.stage \notin {"accept", "handoff"}
    BY <1>8, SessionKinds DEF Turns, Answered
  <2>. QED BY <1>6, <2>1, <2>2
<1>9. CASE Dies
  <2>1. Steady /\ worker'[v] = worker[v] /\ rpc'[v] = rpc[v] /\ v # main'.worker
    BY <1>9 DEF Dies, Workers, NoWorker
  <2>2. call'.stage = "none"
    BY <1>9, SessionKinds DEF Dies
  <2>. QED BY <1>6, <2>1, <2>2
<1>10. CASE Receives
  <2>1. Steady /\ main'.worker = main.worker /\ worker'[v] = worker[v]
    BY <1>10 DEF Receives, MayLose
  <2>2. CASE v # main.worker
    BY <1>6, <1>10, <2>1, <2>2 DEF Receives
  <2>3. CASE v = main.worker
    <3>1. rpc'[v].method = "none" /\ worker[v].pending
      BY <1>10, <2>1, <2>3 DEF Receives
    <3>2. t = s
      BY <2>1 DEF Steady
    <3>3. rpc[v].method = "execute" => rpc[v].cmd = call.cmd
      BY <2>3 DEF CallInv
    <3>4. /\ call'.stage = "accept" => rpc[v].method = "execute" /\ rpc[v].reply = "ok" /\ call.cmd \in accepted'
          /\ call'.stage = "handoff" => rpc[v].method = "execute" /\ rpc[v].reply = "handoff"
      BY <1>10, <2>3, SessionKinds DEF Receives, Answered, Advances
    <3>5. /\ call'.stage = "accept" => s.cmd \in accepted'
          /\ call'.stage = "handoff" => s.outcome = "handoff"
      BY <3>1, <3>3, <3>4 DEF PendingInv, Success
    <3>. QED BY <1>1, <2>1, <3>1, <3>2, <3>5
  <2>. QED BY <2>2, <2>3
<1>. QED BY <1>4, <1>5, <1>7, <1>8, <1>9, <1>10 DEF Step, MainEvent

LEMMA AllSettled ==
  ASSUME BaseInv, UncertaintyKept, ran # <<>>, ran[Len(ran)] \in accepted
  PROVE  AllAccepted
<1>1. ran \in Seq(Commands \cup {NoCommand}) /\ Len(ran) \in Nat /\ DOMAIN ran = 1..Len(ran)
  BY DEF BaseInv, TypeInv, GameTypeOK
<1>2. \A i \in DOMAIN ran : i \in 1..(Len(ran) - 1) \/ i = Len(ran)
  BY <1>1
<1>. QED BY <1>2 DEF AllAccepted, UncertaintyKept

LEMMA EvidenceKept ==
  ASSUME BaseInv, EvidenceInv, PendingInv, Step
  PROVE  EvidenceInv'
<1>. USE DEF BaseInv
<1>1. accepted \subseteq accepted' /\ (active # NoLease => active \in Leases)
  BY AcceptedGrows DEF TypeInv, GameTypeOK
<1>2. CASE \E w \in Workers : Event(w)
  <2>. PICK w \in Workers : Event(w)
    BY <1>2
  <2>1. UNCHANGED <<ran, pump, found, accepted>> /\ (tainted => tainted')
    BY WorkerFrame, WorkerSwitches DEF Switched
  <2>2. UncertaintyKept' /\ (AllAccepted => AllAccepted')
    BY <2>1 DEF EvidenceInv, UncertaintyKept, AllAccepted
  <2>3. ASSUME Evidence
        PROVE  AllAccepted' \/ Evidence'
    <3>1. active' = active /\ active \in Leases
      BY <1>1, <2>3, WorkerSwitches DEF Switched, Evidence, Retire, RunOutcomes
    <3>2. CASE Fades(slot[active], slot'[active])
      BY <2>1, <2>3, <3>1, <3>2 DEF Evidence, Fades
    <3>3. CASE ~Fades(slot[active], slot'[active])
      <4>1. /\ active = worker[w].box /\ slot[active].state = "complete" /\ slot[active].outcome \in RunOutcomes
        BY <2>3, <3>1, <3>3, WorkerFrame DEF Evidence, PumpInv
      <4>2. Freed(w)
        <5>1. ~(Ended(w) \/ Served(w) \/ Declined(w) \/ Entered(w) \/ Delivered(w) \/ Begun(w) \/ Lingers(w))
          BY <3>1, <3>3, Unchanged DEF Ended, Served, Declined, Entered, Delivered, Begun, Lingers, Fading
        <5>2. ~(Cancels(w) \/ Reserved(w) \/ Posted(w) \/ Withdrawn(w) \/ Finished(w))
          BY <4>1 DEF Cancels, Reserved, Posted, Withdrawn, Finished, Box, OwnInv, RunOutcomes
        <5>3. ~Made(w)
          BY <3>1, <3>3, <4>1 DEF Made, Fades
        <5>. QED BY <5>1, <5>2, <5>3 DEF Event
      <4>3. Settles(slot[active])
        BY <4>1, <4>2 DEF Freed, Asked, PendingInv
      <4>4. ran[Len(ran)] \in accepted
        BY <2>3, <4>1, <4>3 DEF Settles, Evidence, RunOutcomes
      <4>. QED BY <2>2, <2>3, <4>4, AllSettled DEF EvidenceInv, Evidence
    <3>. QED BY <3>2, <3>3
  <2>. QED BY <2>1, <2>2, <2>3 DEF EvidenceInv
<1>3. CASE MainEvent
  <2>1. Steady
    BY <1>3 DEF MainEvent, Sends, Receives, Turns, Dies
  <2>2. UNCHANGED <<slot, active, pump, found, tainted, ran>>
    BY <2>1 DEF Steady, gameVars
  <2>. QED BY <1>1, <2>2 DEF EvidenceInv, AllAccepted, Evidence, UncertaintyKept
<1>4. CASE GameEvent
  <2>1. UNCHANGED <<active, accepted>>
    BY <1>4, GameFrame DEF Apart
  <2>2. UNCHANGED ran => UncertaintyKept' /\ (AllAccepted => AllAccepted')
    BY <2>1 DEF EvidenceInv, UncertaintyKept, AllAccepted
  <2>3. CASE Rests
    <3>1. Evidence => Evidence'
      BY <1>1, <2>1, <2>3 DEF Rests, Evidence, Fading, Fades
    <3>. QED BY <2>2, <2>3, <3>1 DEF Rests, EvidenceInv
  <2>4. CASE Checks
    <3>1. Evidence => Evidence'
      BY <2>1, <2>4 DEF Checks, Evidence
    <3>. QED BY <2>2, <2>4, <3>1 DEF Checks, EvidenceInv
  <2>5. CASE Claims
    <3>1. Evidence /\ pump' # "claimed" => Evidence'
      BY <2>1, <2>5 DEF Claims, Evidence
    <3>2. pump' = "claimed" => AllAccepted
      BY <2>5 DEF Claims, EvidenceInv, Evidence, PumpInv
    <3>. QED BY <2>2, <2>5, <3>1, <3>2 DEF Claims, EvidenceInv
  <2>6. CASE Finishes
    <3>1. Evidence => Evidence'
      BY <1>1, <2>1, <2>6 DEF Finishes, Only, Evidence, PumpInv
    <3>. QED BY <2>2, <2>6, <3>1 DEF Finishes, EvidenceInv
  <2>7. CASE Runs
    <3>1. AllAccepted /\ pump' = "evaluated"
      BY <2>7 DEF Runs, EvidenceInv
    <3>2. CASE UNCHANGED ran
      BY <2>2, <3>1, <3>2 DEF EvidenceInv
    <3>3. CASE ran' = Append(ran, slot[active].cmd) /\ active \in Leases /\ found' \in RunOutcomes
      <4>. DEFINE c == slot[active].cmd
      <4>1. ran \in Seq(Commands \cup {NoCommand}) /\ c \in Commands \cup {NoCommand}
        BY <3>3 DEF TypeInv, GameTypeOK, SlotTypeOK, Slots
      <4>. HIDE DEF c
      <4>2. /\ ran' # <<>> /\ Len(ran) \in Nat /\ Len(ran') = Len(ran) + 1 /\ ran'[Len(ran')] = c /\ DOMAIN ran = 1..Len(ran)
            /\ \A i \in 1..Len(ran) : ran'[i] = ran[i]
        BY <3>3, <4>1 DEF c
      <4>3. UncertaintyKept'
        BY <2>1, <3>1, <4>2 DEF UncertaintyKept, AllAccepted
      <4>4. UNCHANGED slot /\ active # NoLease
        BY <2>7, <3>3 DEF Runs, Leases, NoLease
      <4>5. Evidence'
        BY <2>1, <3>1, <3>3, <4>2, <4>4 DEF Evidence, c
      <4>. QED BY <3>1, <4>3, <4>5 DEF EvidenceInv
    <3>. QED BY <3>2, <3>3, RunsFrame
  <2>. QED BY <1>4, <2>3, <2>4, <2>5, <2>6, <2>7 DEF GameEvent
<1>. QED BY <1>2, <1>3, <1>4 DEF Step

(* A command that changed the game while no session accepted its result is   *)
(* the last one the game process runs: its receipt stays the evidence that   *)
(* canRetireLease finds, or the process is tainted (CommandMailbox.c).       *)
THEOREM UncertaintyKeptAlways == Spec => []UncertaintyKept
<1>1. Init => BaseInv /\ EvidenceInv /\ PendingInv
  <2>. SUFFICES ASSUME Init PROVE BaseInv /\ EvidenceInv /\ PendingInv
    OBVIOUS
  <2>1. ran = <<>> /\ pump = "idle" /\ \A w \in Workers : ~worker[w].pending
    BY DEF Init, MailboxInit, NewWorker
  <2>2. DOMAIN ran = {} /\ Len(ran) = 0
    BY <2>1
  <2>3. UncertaintyKept /\ AllAccepted
    BY <2>2 DEF UncertaintyKept, AllAccepted
  <2>. QED BY <2>1, <2>3, BaseInit DEF EvidenceInv, PendingInv
<1>2. BaseInv /\ EvidenceInv /\ PendingInv /\ [Next]_vars => (BaseInv /\ EvidenceInv /\ PendingInv)'
  <2>. SUFFICES ASSUME BaseInv, EvidenceInv, PendingInv, [Next]_vars PROVE (BaseInv /\ EvidenceInv /\ PendingInv)'
    OBVIOUS
  <2>1. BaseInv' /\ (Step \/ UNCHANGED vars)
    BY BaseStep
  <2>2. CASE UNCHANGED vars
    <3>1. UNCHANGED <<slot, worker, rpc, main, call, accepted, ran, pump, found, active, tainted>>
      BY <2>2 DEF vars, gameVars, mainVars
    <3>. QED BY <2>1, <3>1 DEF EvidenceInv, PendingInv, AllAccepted, Evidence, Settles, UncertaintyKept
  <2>. QED BY <2>1, <2>2, EvidenceKept, PendingKept
<1>3. EvidenceInv => UncertaintyKept
  BY DEF EvidenceInv
<1>. QED BY <1>1, <1>2, <1>3, PTL DEF Spec

================================================================================
