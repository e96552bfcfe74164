----------------------------- MODULE SaveArcana -----------------------------
(***************************************************************************)
(* The Arcana planner of the Hades II save editor                          *)
(* (Backend/games/hades2/save_arcana.py).                                  *)
(*                                                                         *)
(* A card is unlocked, has a level and may be equipped; the equipped cards *)
(* cost Grasp and must fit its capacity.  Some cards are never chosen by   *)
(* hand: the game equips them when the chosen ones satisfy a rule.  The    *)
(* planner therefore cannot just write the field the user edits: it looks  *)
(* for the nearest choice of manual cards under which every edited field   *)
(* comes out as asked, raises the Grasp level when the choice needs it and *)
(* rebuilds the caches the game derives from the cards.                    *)
(***************************************************************************)
EXTENDS SaveCells, SequencesExt

CONSTANTS
  Layout,      \* rows of cards, top row first (LAYOUT)
  Cost,        \* [card -> its Grasp cost] (CARDS)
  Rule,        \* [card -> its automatic rule, "manual" without one] (CARDS)
  CostKinds,   \* the costs the rule costs1to5 asks for (1 .. 5)
  MinZoom,     \* rows and columns the board shows at least (3)
  GraspLevels  \* purchasable Grasp levels (15)

Cards     == DOMAIN Cost
Manual    == {c \in Cards : Rule[c] = "manual"}
Automatic == Cards \ Manual
Side      == Len(Layout)

UnlockedCell(c) == <<"CardUnlocked", c, 0>>
EquippedCell(c) == <<"CardEquipped", c, 0>>
LevelCell(c)    == <<"CardLevel", c, 0>>
BonusCell(c)    == <<"CardBonus", c, 0>>       \* AdjacencyBonuses.CustomMultiplier
CacheCell(key)  == <<"ArcanaCache", key, 0>>

CacheKeys == {"MetaUpgradeLimitLevel", "MaxMetaUpgradeCostCache", "MetaUpgradeCostCache",
              "MetaUpgradeUnlockedCountCache", "MetaUpgradeMaxLevelCountCache"}

Level(doc, c) == IF LevelCell(c) \in DOMAIN doc.num /\ doc.num[LevelCell(c)] >= 1
                   THEN doc.num[LevelCell(c)] ELSE 1

TotalCost(cards) == FoldSet(LAMBDA c, sum : Cost[c] + sum, 0, cards)

Capacity(level) ==
  LET low  == IF level < 5 THEN level ELSE 5
      high == IF level < 15 THEN level ELSE 15
  IN  10 + 2 * low + (IF high > 5 THEN high - 5 ELSE 0)

(***************************************************************************)
(* The entries <<"card", name, field>>.                                    *)
(***************************************************************************)
CardIds == {<<"card", c, f>> : c \in Cards, f \in {"Unlocked", "Level", "Equipped"}}

CardValue(doc, id) ==
  CASE id[3] = "Unlocked" -> Flag(doc, UnlockedCell(id[2]))
    [] id[3] = "Equipped" -> Flag(doc, EquippedCell(id[2]))
    [] id[3] = "Level"    -> Level(doc, id[2])

\* validate of save_long_term.py
CardRange(id) == IF id[3] = "Level" THEN 1 .. 3 ELSE BOOLEAN

WithLevel(doc, c) ==
  IF LevelCell(c) \in DOMAIN doc.num THEN doc ELSE PutNumber(doc, LevelCell(c), 1)

\* apply_intent: the edited field, and the fields it cannot do without
ApplyCard(doc, id, after) ==
  LET c == id[2]
      unlocked == UnlockedCell(c)
      equipped == EquippedCell(c)
  IN  CASE id[3] = "Level" ->
             LET levelled == PutNumber(doc, LevelCell(c), after)
             IN  IF after > 1 THEN SwitchOn(levelled, {unlocked}) ELSE levelled
        [] id[3] = "Unlocked" /\ ~after ->
             PutNumber(Drop(doc, {unlocked, equipped}), LevelCell(c), 1)
        [] id[3] = "Unlocked" /\ after -> WithLevel(SwitchOn(doc, {unlocked}), c)
        [] id[3] = "Equipped" /\ after -> WithLevel(SwitchOn(doc, {unlocked, equipped}), c)
        [] id[3] = "Equipped" /\ ~after -> WithLevel(Drop(doc, {equipped}), c)

(***************************************************************************)
(* _automatic: the cards the game equips for a choice of manual ones.  It  *)
(* takes a snapshot of the eligible cards and assigns it, twice.           *)
(***************************************************************************)
At(r, k) == Layout[r][k]
Place(c) == CHOOSE p \in (1 .. Side) \X (1 .. Side) : At(p[1], p[2]) = c

Neighbours(c) ==
  LET p == Place(c)
  IN  {At(r, k) : r \in {p[1] - 1, p[1], p[1] + 1} \cap (1 .. Side),
                  k \in {p[2] - 1, p[2], p[2] + 1} \cap (1 .. Side)} \ {c}

\* the rows and columns in view reach one past the furthest unlocked card
Zoom(unlocked) ==
  LET reach == {1 + k : k \in UNION {{Place(c)[1], Place(c)[2]} : c \in unlocked}}
  IN  Min({Side, Max({MinZoom} \cup reach)})

\* a full row or column in view, other than those of the card's place p
Spanned(p, zoom, equipped) ==
  \/ \E r \in (1 .. zoom) \ {p[1]} : \A k \in 1 .. zoom : At(r, k) \in equipped
  \/ \E k \in (1 .. zoom) \ {p[2]} : \A r \in 1 .. zoom : At(r, k) \in equipped

Eligible(c, manual, unlocked, equipped) ==
  LET costing(n) == Cardinality({m \in manual : Cost[m] = n})
      costs == {Cost[m] : m \in manual}
  IN  CASE Rule[c] = "costs1to5"    -> CostKinds \subseteq costs
        [] Rule[c] = "duplicates2"  -> manual # {} /\ \A n \in costs : costing(n) <= 2
        [] Rule[c] = "oneToThree"   -> Cardinality(manual) \in 1 .. 3
        [] Rule[c] = "neighbor"     -> Neighbours(c) \cap equipped # {}
        [] Rule[c] = "allNeighbors" -> Neighbours(c) \subseteq equipped
        [] Rule[c] = "otherRowOrColumn" -> Spanned(Place(c), Zoom(unlocked), equipped)

Equip(doc, manual) ==
  LET unlocked == manual \cup {c \in Cards : Flag(doc, UnlockedCell(c))}
      pass(equipped) ==
        {c \in equipped : c \in Manual \/ c \notin unlocked}
          \cup {c \in Automatic \cap unlocked : Eligible(c, manual, unlocked, equipped)}
  IN  pass(pass(manual \cup {c \in Automatic : Flag(doc, EquippedCell(c))}))

(***************************************************************************)
(* _choose_manual: the nearest choice under which the edited cards come    *)
(* out as asked.  Nearest is fewest flipped cards, then fewest new unlocks,*)
(* then lowest cost, then the order of the layout.  The set is empty when  *)
(* there is no such choice.                                                *)
(***************************************************************************)
Order(c) == LET p == Place(c) IN p[1] * Side + p[2]

Earlier(a, b) ==
  LET apart == (a \ b) \cup (b \ a)
  IN  \E c \in a \ b : \A d \in apart : Order(c) <= Order(d)

Lower(r, s) == \E i \in 1 .. 3 : r[i] < s[i] /\ \A j \in 1 .. i - 1 : r[j] = s[j]

NearestChoice(doc, own, after) ==
  LET asked(c, field) == <<"card", c, field>> \in own
      value(c, field) == after[<<"card", c, field>>]
      locked  == {c \in Cards : asked(c, "Unlocked") /\ ~value(c, "Unlocked")}
      on      == {c \in Cards : asked(c, "Equipped") /\ value(c, "Equipped")}
      off     == {c \in Cards : asked(c, "Equipped") /\ ~value(c, "Equipped")}
      now     == {c \in Manual : Flag(doc, EquippedCell(c))}
      fixed   == Manual \cap (on \cup off \cup locked)
      initial == (now \ fixed) \cup (Manual \cap on)
      chosen(flips) == (initial \ flips) \cup (flips \ initial)
      fits(manual) ==
        /\ TotalCost(manual) <= Capacity(GraspLevels)
        /\ Equip(doc, manual) \cap Automatic \cap (on \cup off) = Automatic \cap on
      rank(flips) == <<Cardinality(flips),
                       Cardinality({c \in chosen(flips) : ~Flag(doc, UnlockedCell(c))}),
                       TotalCost(chosen(flips))>>
      before(a, b) ==
        Lower(rank(a), rank(b)) \/ (rank(a) = rank(b) /\ Earlier(a, b))
      nearest(possible) == {a \in possible : \A b \in possible \ {a} : before(a, b)}
      rules == {Rule[c] : c \in on}
  IN  IF locked \cap on # {} \/ {"costs1to5", "oneToThree"} \subseteq rules THEN {}
      ELSE {chosen(a) : a \in nearest({flips \in SUBSET (Manual \ fixed) : fits(chosen(flips))})}

(***************************************************************************)
(* finalize_batch.  Levels alone leave the loadout as it is, unless one    *)
(* unlocks a card that source had locked.                                  *)
(***************************************************************************)
LoadoutChange(source, own, after) ==
  \E id \in own : \/ id[3] # "Level"
                  \/ after[id] > 1 /\ ~Flag(source, UnlockedCell(id[2]))

ArcanaPossible(doc, own, after, source) ==
  LoadoutChange(source, own, after) => NearestChoice(doc, own, after) # {}

WithLoadout(doc, manual, equipped) ==
  LET opened   == SwitchOn(doc, {UnlockedCell(c) : c \in manual} \cup {EquippedCell(c) : c \in equipped})
      levelled == FoldSet(LAMBDA c, d : WithLevel(d, c), opened, manual)
  IN  Drop(levelled, {EquippedCell(c) : c \in Cards \ equipped} \cup {BonusCell(c) : c \in Cards})

WithCaches(doc, cost, level) ==
  LET count(S)   == Cardinality(S)
      limit      == CacheCell("MetaUpgradeLimitLevel")
      limited    == IF level > 0 \/ limit \in DOMAIN doc.num THEN PutNumber(doc, limit, level) ELSE doc
      capped     == PutNumber(limited, CacheCell("MaxMetaUpgradeCostCache"), Capacity(level))
      costed     == PutNumber(capped, CacheCell("MetaUpgradeCostCache"), cost)
      counted    == PutNumber(costed, CacheCell("MetaUpgradeUnlockedCountCache"),
                              count({c \in Cards : Flag(doc, UnlockedCell(c))}))
  IN  PutNumber(counted, CacheCell("MetaUpgradeMaxLevelCountCache"),
                count({c \in Cards : Level(doc, c) >= 3}))

FinalizeArcana(doc, own, after, source) ==
  LET now          == Number(doc, CacheCell("MetaUpgradeLimitLevel"))
      enough(cost) == Min({t \in now .. GraspLevels : Capacity(t) >= cost})
      loaded(manual, equipped) ==
        WithCaches(WithLoadout(doc, manual, equipped),
                   TotalCost(equipped), enough(TotalCost(equipped)))
      chosen(manual) == loaded(manual, Equip(doc, manual))
  IN  IF own = {} THEN doc
      ELSE IF LoadoutChange(source, own, after)
        THEN chosen(CHOOSE m \in NearestChoice(doc, own, after) : TRUE)
        ELSE WithCaches(doc, TotalCost({c \in Cards : Flag(doc, EquippedCell(c))}), now)

ArcanaValid(candidate, own, after) ==
  \A id \in own : CardValue(candidate, id) = after[id]

(***************************************************************************)
(* linked_changes: what the edited cards change besides themselves.  The   *)
(* cards are applied in the order of their identities, by field name.      *)
(***************************************************************************)
FieldOrder == <<"Equipped", "Level", "Unlocked">>

ApplyCards(doc, own, after) ==
  LET field(d, f) == FoldSet(LAMBDA id, e : ApplyCard(e, id, after[id]), d,
                             {id \in own : id[3] = f})
  IN  FoldLeft(field, doc, FieldOrder)

\* the fields, the bonuses and the caches two documents disagree on
ArcanaRows(before, after, except) ==
  LET fields == CardIds \ except
      shown(doc, id) == CASE id[1] = "card"        -> CardValue(doc, id)
                          [] id[1] = "bonus"       -> Value(doc, BonusCell(id[2]))
                          [] id[1] = "arcanaCache" -> Value(doc, CacheCell(id[2]))
      all == fields \cup {<<"bonus", c>> : c \in Cards} \cup {<<"arcanaCache", k>> : k \in CacheKeys}
  IN  [id \in {x \in all : shown(before, x) # shown(after, x)} |-> <<shown(before, id), shown(after, id)>>]

\* mutant: the review shows what each edit changes, not what the batch does
UnfinishedArcana(doc, own, after) == ArcanaRows(doc, ApplyCards(doc, own, after), own)

LinkedArcana(doc, own, after) ==
  ArcanaRows(doc, FinalizeArcana(ApplyCards(doc, own, after), own, after, doc), own)
=============================================================================
