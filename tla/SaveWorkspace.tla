--------------------------- MODULE SaveWorkspace ---------------------------
(***************************************************************************)
(* One save workspace of the Hades II editor                               *)
(* (Backend/games/hades2/save_workspace.py, save_container.py): a pinned   *)
(* source document and a basket of staged actions.                         *)
(*                                                                         *)
(* The source never changes under a basket.  Every staging, removal and    *)
(* Apply derives the candidate document again from the source and the      *)
(* whole basket, in an order that does not depend on the order of staging, *)
(* and refuses the basket when an action does not hold in the result.      *)
(***************************************************************************)
EXTENDS SaveEquipment, SaveArcana, SaveRecords

CONSTANT
  EntryOrder   \* the entries, in the order of their identities (intent_sort_key)

(***************************************************************************)
(* A basket: the ids in the order they were staged, what each asks for,    *)
(* and the reward every claim was staged with.                             *)
(***************************************************************************)
EmptyBasket == [order |-> << >>, after |-> << >>, evidence |-> << >>]

Ids(basket) == ToSet(basket.order)

IsEquipment(id) == id \in EquipmentIds
IsCard(id)      == id[1] = "card"

Semantic(ids) == {id \in ids : ~IsRaw(id)}
CardsOf(ids)  == {id \in ids : IsCard(id)}
GiftsOf(ids)  == {id \in ids : IsGift(id)}
ClaimsOf(ids) == {id \in ids : IsClaim(id)}

EntryValue(doc, id) ==
  IF IsEquipment(id) THEN EquipmentValue(doc, id)
  ELSE IF IsCard(id) THEN CardValue(doc, id) ELSE RecordValue(doc, id)

ApplyEntry(doc, id, after) ==
  IF IsEquipment(id) THEN ApplyEquipment(doc, id, after)
  ELSE IF IsCard(id) THEN ApplyCard(doc, id, after) ELSE ApplyRecord(doc, id, after)

(***************************************************************************)
(* _apply_intent_batch and _project_intent_batch_root: the plain actions   *)
(* in canonical order, then the gifts, the claims and the loadout.         *)
(***************************************************************************)
Canonical(ids) == SelectSeq(EntryOrder, LAMBDA id : id \in ids)

Plain(ids) == {id \in ids : ~IsGift(id) /\ ~IsClaim(id)}

ApplyPlain(source, ids, basket) ==
  FoldLeft(LAMBDA doc, id : ApplyEntry(doc, id, basket.after[id]), source, Canonical(Plain(ids)))

ApplyIntents(plain, source, ids, basket) ==
  ApplyClaims(ApplyGifts(plain, source, GiftsOf(ids), basket.after), ClaimsOf(ids), basket.evidence)

Project(source, ids, basket) ==
  FinalizeArcana(ApplyIntents(ApplyPlain(source, ids, basket), source, ids, basket),
                 CardsOf(ids), basket.after, source)

\* no planner refuses its part of the batch
Projectable(source, ids, basket) ==
  LET before(id) == {other \in Plain(ids) : \E i, k \in 1 .. Len(EntryOrder) :
                       EntryOrder[i] = other /\ EntryOrder[k] = id /\ i < k}
      possible(plain) ==
        /\ ClaimsPossible(plain, ClaimsOf(ids))
        /\ ArcanaPossible(ApplyIntents(plain, source, ids, basket), CardsOf(ids), basket.after, source)
  IN  /\ \A id \in ids : id[1] = "dialogueReset" =>
           Resettable(ApplyPlain(source, before(id), basket), id[2])
      /\ GiftsPossible(source, GiftsOf(ids), basket.after)
      /\ possible(ApplyPlain(source, ids, basket))

(***************************************************************************)
(* _apply_and_validate_intents.                                            *)
(***************************************************************************)
\* native is the reward every quest has in the installed game now
\* mutant: the evidence of a claim is never compared with the reward again
EvidenceAssumed(ids, basket, native) == TRUE

EvidenceCurrent(ids, basket, native) ==
  \A id \in ClaimsOf(ids) : basket.evidence[id] = native[id[2]]

\* The raw actions, the claims and the gifts of a basket answer for cells that
\* its other actions, projected on the source without them, must not touch.
Exclusive == {"raw", "claims", "gifts"}

Part(kind, ids) ==
  CASE kind = "raw"    -> ids \ Semantic(ids)
    [] kind = "claims" -> ClaimsOf(ids)
    [] kind = "gifts"  -> GiftsOf(ids)

Untouched(kind, part, others, basket, source, projected) ==
  CASE kind = "raw"    -> {Target(id) : id \in part} \cap ChangedCells(source, projected) = {}
    [] kind = "claims" -> Clear(ClaimCells(part, basket.evidence), others, source, projected)
    [] kind = "gifts"  -> /\ SameRebuild(source, projected, part)
                          /\ Clear(GiftCells(part), others, source, projected)

PartsClear(source, ids, basket) ==
  \A kind \in Exclusive :
    LET part   == Part(kind, ids)
        others == ids \ part
    IN  part # {} => /\ Projectable(source, others, basket)
                     /\ Untouched(kind, part, others, basket, source,
                                  Project(source, others, basket))

Holds(candidate, ids, basket) ==
  /\ \A id \in Semantic(ids) : RecordValid(candidate, id, basket.after[id])
  /\ ArcanaValid(candidate, CardsOf(ids), basket.after)
  /\ EquipmentValid(candidate, SelectSeq(Canonical(ids), IsEquipment), basket.after)

Accepted(source, basket, native) ==
  LET ids == Ids(basket)
  IN  /\ EvidenceCurrent(ids, basket, native)
      /\ Projectable(source, ids, basket)
      /\ PartsClear(source, ids, basket)
      /\ Holds(Project(source, ids, basket), ids, basket)

(***************************************************************************)
(* stage: an action that asks for what the source already has leaves the   *)
(* basket, unless a pending gift or claim answers for its cell.  An action *)
(* staged again keeps its place.                                           *)
(***************************************************************************)
NoChange(source, id, after) ==
  IF IsEquipment(id) \/ IsCard(id) THEN EntryValue(source, id) = after
  ELSE IF IsRaw(id) THEN RecordValue(source, id) = after
  ELSE RecordNoOp(source, id, after) /\ RecordPresent(source, id)

Overlapped(id, basket) ==
  ~IsEquipment(id) /\ ~IsCard(id)
    /\ OverlapsPending(id, Ids(basket), basket.evidence)

Without(basket, id) ==
  LET kept == Ids(basket) \ {id}
  IN  [order    |-> SelectSeq(basket.order, LAMBDA x : x # id),
       after    |-> Restrict(basket.after, kept),
       evidence |-> Restrict(basket.evidence, ClaimsOf(kept))]

With(basket, id, after, native) ==
  [order    |-> IF id \in Ids(basket) THEN basket.order ELSE Append(basket.order, id),
   after    |-> (id :> after) @@ basket.after,
   evidence |-> IF IsClaim(id) THEN (id :> native[id[2]]) @@ basket.evidence
                               ELSE basket.evidence]

Writable(source, id, after) ==
  IF IsEquipment(id) THEN after \in EquipmentRange(id)
  ELSE IF IsCard(id) THEN after \in CardRange(id) ELSE RecordWritable(source, id, after)

Staged(source, basket, id, after, native) ==
  IF NoChange(source, id, after) /\ ~Overlapped(id, basket)
    THEN Without(basket, id) ELSE With(basket, id, after, native)

(***************************************************************************)
(* review: the edited entries, and the linked changes of every planner,    *)
(* each as a pair of the value before and the value after.  Except for the *)
(* gifts and the claims the planners see the actions of a kind together.   *)
(***************************************************************************)
LinkedRows(source, basket) ==
  LET ids   == Ids(basket)
      after == basket.after
  IN  [equipment |-> LinkedEquipment(source, SelectSeq(basket.order, IsEquipment), after),
       arcana    |-> LinkedArcana(source, CardsOf(ids), after),
       cells     |-> LinkedNarrative(source, Semantic(ids), after)
                       @@ LinkedGifts(source, GiftsOf(ids), after)
                       @@ LinkedClaims(source, ClaimsOf(ids), basket.evidence)]

Review(source, basket) ==
  [direct |-> [id \in Ids(basket) |-> <<EntryValue(source, id), basket.after[id]>>]]
    @@ LinkedRows(source, basket)
=============================================================================
