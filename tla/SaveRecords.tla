---------------------------- MODULE SaveRecords ----------------------------
(***************************************************************************)
(* The other planners of the Hades II save editor: resource balances and   *)
(* counters (save_workspace.py, save_long_term.py, save_history.py), the   *)
(* narrative records (save_narrative.py), the gift quantities              *)
(* (save_relationships.py), the offline grant of a quest reward            *)
(* (save_quest_rewards.py) and the raw typed edit of one cell              *)
(* (save_advanced.py).                                                     *)
(*                                                                         *)
(* The after of a narrative or raw action is an optional value: Absent     *)
(* takes the record away.                                                  *)
(***************************************************************************)
EXTENDS SaveCells, SequencesExt

CONSTANTS
  Resources,       \* supported resources (RESOURCE_IDS)
  Quests,          \* supported quests (QUEST_IDS), in the order of their names
  Lines,           \* dialogue lines the game may reset (STORY_RESET_TEXT_IDS)
  People           \* people gifts are recorded for

(***************************************************************************)
(* The cell an entry names (the path of its descriptor).                   *)
(***************************************************************************)
PathOwner(kind) ==
  CASE kind = "resource"       -> "Resources"
    [] kind = "interaction"    -> "NPCInteractions"
    [] kind = "objective"      -> "ObjectivesCompleted"
    [] kind = "history"        -> "History"
    [] kind = "flag"           -> "Flags"
    [] kind \in {"dialogue", "dialogueReset"} -> "TextLinesRecord"
    [] kind = "dialogueChoice" -> "TextLinesChoiceRecord"
    [] kind \in {"quest", "questClaim"} -> "QuestStatus"
    [] kind = "questObservation" -> "QuestsCompleted"

RecordKinds == {"resource", "interaction", "objective", "history", "flag", "dialogue",
                "dialogueReset", "dialogueChoice", "quest", "questClaim", "questObservation",
                "advanced", "gift"}

Target(id) ==
  CASE id[1] = "advanced" -> id[2]
    [] id[1] = "gift"     -> <<"GiftRecord", id[2], id[3]>>
    [] OTHER              -> <<PathOwner(id[1]), id[2], 0>>

GiftIds  == {<<"gift", p, r>> : p \in People, r \in Resources}
IsGift(id)  == id[1] = "gift"
IsClaim(id) == id[1] = "questClaim"
IsRaw(id)   == id[1] = "advanced"

Completed(q)    == <<"QuestsCompleted", q, 0>>
GiftTotal(r)    == <<"GiftResourceRecord", r, 0>>
LastGainCell    == <<"UnviewedLastResourceGained", "", 0>>
RewardCells(r)  == {<<"Resources", r, 0>>, <<"LifetimeResourcesGained", r, 0>>,
                    <<"ResourcesGained", r, 0>>}

\* where a played line leaves traces besides its own record
Companions(line) ==
  {<<"TextLinesChoiceRecord", line, 0>>, <<"RunTextLinesRecord", line, 0>>,
   <<"HubTextLinesRecord", line, 0>>, <<"RunTextLinesChoiceRecord", line, 0>>,
   <<"RoomTextLinesRecord", line, 0>>}

GiftLinked(line) == <<"GiftTextLines", line, 0>>

(***************************************************************************)
(* before: the value of the descriptor of an entry.                        *)
(***************************************************************************)
RecordValue(doc, id) ==
  IF id[1] \in {"resource", "interaction", "objective", "history", "gift"}
    THEN Number(doc, Target(id))
  ELSE IF IsClaim(id) THEN Value(doc, Target(id)) = <<"CashedOut">>
  ELSE Value(doc, Target(id))

RecordPresent(doc, id) ==
  id[1] \in {"resource", "history"} => Target(id) \in Cells(doc)

CompletedAfter(after) ==
  IF after \in {<<"Complete">>, <<"CashedOut">>} THEN <<TRUE>> ELSE Absent

\* is_noop: a quest also compares its completion record
RecordNoOp(doc, id, after) ==
  /\ RecordValue(doc, id) = after
  /\ id[1] = "quest" => Value(doc, Completed(id[2])) = CompletedAfter(after)

(***************************************************************************)
(* Authority: a reset needs a played line that no gift is linked to.       *)
(***************************************************************************)
Resettable(doc, line) ==
  /\ line \in Lines
  /\ Flag(doc, <<"TextLinesRecord", line, 0>>)
  /\ ~Flag(doc, GiftLinked(line))

\* A claim is only ever staged to grant, a counter never below zero, and only a
\* reset, a quest or a raw edit takes a record away.
RecordWritable(doc, id, after) ==
  CASE id[1] = "dialogueReset" -> after = Absent /\ Resettable(doc, id[2])
    [] id[1] \in {"flag", "dialogue", "dialogueChoice", "questObservation"} -> after # Absent
    [] id[1] \in {"resource", "interaction", "objective", "history"} -> after >= 0
    [] IsClaim(id) -> after
    [] IsGift(id)  -> Target(id) \in DOMAIN doc.num /\ after >= 0
    [] OTHER       -> TRUE

(***************************************************************************)
(* apply_intent of one record.                                             *)
(***************************************************************************)
ApplyNarrative(doc, id, after) ==
  CASE id[1] = "quest" ->
         Put(Put(doc, Completed(id[2]), CompletedAfter(after)), Target(id), after)
    [] id[1] = "dialogueReset" -> Drop(doc, {Target(id)} \cup Companions(id[2]))
    [] OTHER -> Put(doc, Target(id), after)

\* a counter of zero is taken away, a balance of zero is kept
ApplyCounter(doc, id, after) ==
  IF after = 0 /\ id[1] \in {"interaction", "objective"}
    THEN Drop(doc, {Target(id)}) ELSE PutNumber(doc, Target(id), after)

ApplyRecord(doc, id, after) ==
  CASE id[1] \in {"interaction", "objective", "resource", "history"} -> ApplyCounter(doc, id, after)
    [] IsRaw(id) -> Put(doc, Target(id), after)
    [] OTHER -> ApplyNarrative(doc, id, after)

(***************************************************************************)
(* Gifts: the quantities of a basket and the total of each resource, which *)
(* moves by what the quantities move, or is rebuilt when it is missing.    *)
(***************************************************************************)
Reconstructed(doc, r) ==
  FoldSet(LAMBDA p, sum : Number(doc, <<"GiftRecord", p, r>>) + sum, 0, People)

GiftDelta(source, gifts, after, r) ==
  FoldSet(LAMBDA id, sum : after[id] - Number(source, Target(id)) + sum, 0,
          {id \in gifts : id[3] = r})

GiftsPossible(source, gifts, after) ==
  \A id \in gifts : LET total == GiftTotal(id[3])
                    IN  total \in DOMAIN source.num =>
                          source.num[total] + GiftDelta(source, gifts, after, id[3]) >= 0

ApplyGifts(doc, source, gifts, after) ==
  LET counted == FoldSet(LAMBDA id, d : PutNumber(d, Target(id), after[id]), doc, gifts)
      total(r, d) ==
        LET cell == GiftTotal(r)
        IN  PutNumber(d, cell, IF cell \in DOMAIN d.num
                                 THEN d.num[cell] + GiftDelta(source, gifts, after, r)
                                 ELSE Reconstructed(d, r))
  IN  FoldSet(total, counted, {id[3] : id \in gifts})

(***************************************************************************)
(* Claims: what the native reward of a quest adds.  evidence is the reward *)
(* a claim was staged with: [resource, amount, ignoreLast].                *)
(***************************************************************************)
Grant(doc, q, reward) ==
  LET paid == FoldSet(LAMBDA c, d : PutNumber(d, c, Number(d, c) + reward.amount),
                      doc, RewardCells(reward.resource))
      seen == IF reward.ignoreLast THEN paid ELSE PutText(paid, LastGainCell, reward.resource)
  IN  SwitchOn(PutText(seen, <<"QuestStatus", q, 0>>, "CashedOut"), {Completed(q)})

ApplyClaims(doc, claims, evidence) ==
  LET grant(d, q) == IF <<"questClaim", q>> \in claims
                       THEN Grant(d, q, evidence[<<"questClaim", q>>]) ELSE d
  IN  FoldLeft(grant, doc, Quests)

ClaimsPossible(doc, claims) == \A id \in claims : ~RecordValue(doc, id)

(***************************************************************************)
(* The cells a gift or a claim answers for, and the actions that would     *)
(* write one of them behind its back.  touched is what the other actions   *)
(* of the basket change together.                                          *)
(***************************************************************************)
GiftCells(gifts) == {Target(id) : id \in gifts} \cup {GiftTotal(id[3]) : id \in gifts}

ClaimCells(claims, evidence) ==
  UNION {RewardCells(evidence[id].resource) \cup {Target(id), Completed(id[2])}
           \cup (IF evidence[id].ignoreLast THEN {} ELSE {LastGainCell}) : id \in claims}

\* overlaps_pending_gift, overlaps_pending_claim: the entry lies in such a cell
OverlapsPending(id, pending, evidence) ==
  \/ Target(id) \in GiftCells({g \in pending : IsGift(g)} \ {id})
  \/ Target(id) \in ClaimCells({c \in pending : IsClaim(c)} \ {id}, evidence)

Clear(owned, others, source, projected) ==
  owned \cap ({Target(id) : id \in {x \in others : x[1] \in RecordKinds}}
               \cup ChangedCells(source, projected)) = {}

\* a missing total must not be rebuilt from quantities another action moves
SameRebuild(source, projected, gifts) ==
  \A id \in gifts : GiftTotal(id[3]) \notin DOMAIN source.num =>
                      Reconstructed(source, id[3]) = Reconstructed(projected, id[3])

(***************************************************************************)
(* validate_batch of the narrative records: each holds in the candidate.   *)
(***************************************************************************)
NarrativeKinds == {"flag", "dialogue", "dialogueReset", "dialogueChoice", "quest",
                   "questObservation"}

RecordValid(candidate, id, after) ==
  id[1] \in NarrativeKinds =>
    /\ Value(candidate, Target(id)) = after
    /\ id[1] = "quest" => Value(candidate, Completed(id[2])) = CompletedAfter(after)

(***************************************************************************)
(* linked_changes: the cells an action changes besides its own.            *)
(***************************************************************************)
Moved(before, after, cells) ==
  [c \in {x \in cells : Value(before, x) # Value(after, x)} |->
     <<Value(before, c), Value(after, c)>>]

LinkedNarrative(doc, ids, after) ==
  LET completions == {Completed(id[2]) : id \in {i \in ids :
                        i[1] = "quest" /\ <<"questObservation", i[2]>> \notin ids}}
      quests == FoldSet(LAMBDA id, d : ApplyRecord(d, id, after[id]), doc,
                        {i \in ids : i[1] = "quest"})
      traces == UNION {Companions(id[2]) : id \in {i \in ids : i[1] = "dialogueReset"}}
  IN  Moved(doc, Drop(quests, traces), completions \cup traces)

LinkedGifts(doc, gifts, after) ==
  Moved(doc, ApplyGifts(doc, doc, gifts, after), {GiftTotal(id[3]) : id \in gifts})

LinkedClaims(doc, claims, evidence) ==
  Moved(doc, ApplyClaims(doc, claims, evidence),
        ClaimCells(claims, evidence) \ {Target(id) : id \in claims})
=============================================================================
