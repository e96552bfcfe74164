--------------------------- MODULE SaveEquipment ---------------------------
(***************************************************************************)
(* The equipment planner of the Hades II save editor                       *)
(* (Backend/games/hades2/save_equipment.py): weapons, aspects, tools and   *)
(* familiars.                                                              *)
(*                                                                         *)
(* A purchase is recorded three times in a save: as the current ownership  *)
(* (WeaponsUnlocked), as the world upgrade that was bought (WorldUpgrades) *)
(* and as the history of all purchases ever made (WorldUpgradesAdded).     *)
(* One entry of the editor is one record the user sees; writing it rewrites*)
(* every mirror, and often another entry: revoking a weapon revokes its    *)
(* aspects and forgets the selected one.                                   *)
(***************************************************************************)
EXTENDS SaveCells, SequencesExt

CONSTANTS
  Aspects,          \* [weapon -> its set of aspects] (_WEAPONS)
  DefaultAspect,    \* [weapon -> the aspect it comes with]
  Starter,          \* the weapon the game gives without a purchase
  TopTier,          \* tiers of an aspect (5)
  Tools,
  Upgrades,         \* [familiar -> its set of upgrades] (_FAMILIAR_UPGRADES)
  TopUpgrade        \* tiers of a familiar upgrade (3)

Weapons   == DOMAIN Aspects
Familiars == DOMAIN Upgrades
Defaults  == {DefaultAspect[w] : w \in Weapons}

WeaponOf(aspect)    == CHOOSE w \in Weapons : aspect \in Aspects[w]
FamiliarOf(upgrade) == CHOOSE f \in Familiars : upgrade \in Upgrades[f]

(***************************************************************************)
(* The cells.  A mark is a pair <<key, tier>>, tier 1 being the plain key. *)
(***************************************************************************)
Current(mark)   == <<"WeaponsUnlocked", mark[1], mark[2]>>
World(mark)     == <<"WorldUpgrades", mark[1], mark[2]>>
History(mark)   == <<"WorldUpgradesAdded", mark[1], mark[2]>>
Bought(mark)    == <<"FamiliarUpgrades", mark[1], mark[2]>>
Unlocked(f)     == <<"FamiliarsUnlocked", f, 0>>
SelectedCell(w) == <<"LastWeaponUpgradeName", w, 0>>
CarriedCell     == <<"EquippedFamiliar", "", 0>>

Text(doc, cell) == IF cell \in DOMAIN doc.text THEN doc.text[cell] ELSE ""

\* the marks the game gives without a purchase
Free == {<<a, 1>> : a \in Defaults} \cup {<<Starter, 1>>}

AspectMarks(aspect) == {<<aspect, t>> : t \in 1 .. TopTier}

(***************************************************************************)
(* Ownership and ranks (_owned, _set_owned, _rank, _set_rank).             *)
(***************************************************************************)
Owned(doc, mark) == Flag(doc, Current(mark))

\* Revocation takes the current marks and leaves the history of a purchase.
SetOwned(doc, marks, owned) ==
  LET mirrors   == {Current(m) : m \in marks} \cup {World(m) : m \in marks}
      purchased == {m \in marks : \/ owned
                                  \/ Flag(doc, World(m))
                                  \/ Owned(doc, m) /\ m \notin Free}
  IN  SwitchOn(IF owned THEN SwitchOn(doc, mirrors) ELSE Drop(doc, mirrors),
               {History(m) : m \in purchased})

\* a tier above the first counts when its key is there, whatever it stores
Rank(doc, aspect) ==
  LET extra == Cardinality({t \in 2 .. TopTier : Current(<<aspect, t>>) \in Cells(doc)})
      first == IF aspect \in Defaults THEN <<WeaponOf(aspect), 1>> ELSE <<aspect, 1>>
  IN  IF Owned(doc, first) \/ extra > 0 THEN 1 + extra ELSE 0

\* The free aspect has an unlock bit of its own, set only above rank 1.
SetRank(doc, aspect, level) ==
  LET marks  == AspectMarks(aspect) \ Free
      free   == <<aspect, 1>>
      raised == SetOwned(doc, {m \in marks : m[2] <= level}, TRUE)
      withFree(ranked) ==
        IF aspect \notin Defaults THEN ranked
        ELSE IF level = 0 THEN SetOwned(ranked, {free}, FALSE)
        ELSE IF level > 1 THEN SwitchOn(ranked, {Current(free)})
        ELSE ranked
  IN  withFree(SetOwned(raised, {m \in marks : m[2] > level}, FALSE))

ToolLevel(doc, tool) ==
  IF Owned(doc, <<tool, 2>>) THEN 2 ELSE IF Owned(doc, <<tool, 1>>) THEN 1 ELSE 0

FamiliarRank(doc, upgrade) ==
  Cardinality({t \in 1 .. TopUpgrade : Flag(doc, Bought(<<upgrade, t>>))})

SetFamiliarRank(doc, upgrade, rank) ==
  LET marks == {<<upgrade, t>> : t \in 1 .. TopUpgrade}
      taken == {m \in marks : m[2] <= rank}
      ever  == {m \in marks : m \in taken \/ Flag(doc, Bought(m)) \/ Flag(doc, World(m))}
      both(ms) == {Bought(m) : m \in ms} \cup {World(m) : m \in ms}
      unlocked == IF rank = 0 THEN {} ELSE {Unlocked(FamiliarOf(upgrade))}
  IN  SwitchOn(Drop(doc, both(marks \ taken)),
               both(taken) \cup {History(m) : m \in ever} \cup unlocked)

RevokeWeapon(doc, w) ==
  Drop(SetOwned(doc, {<<w, 1>>} \cup UNION {AspectMarks(a) : a \in Aspects[w]}, FALSE),
         {SelectedCell(w)})

(***************************************************************************)
(* The entries: an id is <<kind, key>>.  The rows also tell which owner is *)
(* malformed or ambiguous and block its entry; no such owner is in a       *)
(* document here (SaveCells), so every entry may be edited.                *)
(***************************************************************************)
WeaponIds ==
  {<<"weapon", w>> : w \in Weapons}
    \cup {<<"aspectSelection", w>> : w \in Weapons}
    \cup {<<"aspect", a>> : a \in UNION {Aspects[w] : w \in Weapons}}

FamiliarIds ==
  {<<"familiar", f>> : f \in Familiars}
    \cup {<<"familiarSelected", f>> : f \in Familiars}
    \cup {<<"familiarUpgrade", u>> : u \in UNION {Upgrades[f] : f \in Familiars}}
    \cup {<<"familiarSelection", "">>}

EquipmentIds == WeaponIds \cup {<<"tool", t>> : t \in Tools} \cup FamiliarIds

\* validate: the values an entry takes
EquipmentRange(id) ==
  CASE id[1] \in {"weapon", "familiar", "familiarSelected"} -> BOOLEAN
    [] id[1] = "aspect"            -> 0 .. TopTier
    [] id[1] = "aspectSelection"   -> {""} \cup Aspects[id[2]]
    [] id[1] = "tool"              -> 0 .. 2
    [] id[1] = "familiarUpgrade"   -> 0 .. TopUpgrade
    [] id[1] = "familiarSelection" -> {""} \cup Familiars

\* _semantic_values and the value of each row
EquipmentValue(doc, id) ==
  CASE id[1] = "weapon"            -> Owned(doc, <<id[2], 1>>)
    [] id[1] = "aspect"            -> Rank(doc, id[2])
    [] id[1] = "aspectSelection"   -> Text(doc, SelectedCell(id[2]))
    [] id[1] = "tool"              -> ToolLevel(doc, id[2])
    [] id[1] = "familiar"          -> Flag(doc, Unlocked(id[2]))
    [] id[1] = "familiarSelected"  -> Text(doc, CarriedCell) = id[2]
    [] id[1] = "familiarSelection" -> Text(doc, CarriedCell)
    [] id[1] = "familiarUpgrade"   -> FamiliarRank(doc, id[2])

(***************************************************************************)
(* apply_intent, one operator per kind of entry.                           *)
(***************************************************************************)
ApplyWeapon(doc, w, after) ==
  IF after THEN SetOwned(doc, {<<w, 1>>}, TRUE) ELSE RevokeWeapon(doc, w)

WithWeapon(doc, w) ==
  IF Owned(doc, <<w, 1>>) THEN doc ELSE SetOwned(doc, {<<w, 1>>}, TRUE)

ApplyAspect(doc, aspect, after) ==
  LET w == WeaponOf(aspect)
      selected == IF Text(doc, SelectedCell(w)) = aspect THEN {SelectedCell(w)} ELSE {}
  IN  IF after > 0 THEN SetRank(WithWeapon(doc, w), aspect, after)
      ELSE IF aspect \in Defaults THEN RevokeWeapon(doc, w)
      ELSE Drop(SetRank(doc, aspect, 0), selected)

ApplyAspectSelection(doc, w, after) ==
  LET ranked(ready) == SetRank(ready, after, Max({1, Rank(ready, after)}))
  IN  IF after = "" THEN Drop(doc, {SelectedCell(w)})
      ELSE PutText(ranked(WithWeapon(doc, w)), SelectedCell(w), after)

ApplyTool(doc, tool, after) ==
  SetOwned(SetOwned(doc, {<<tool, 1>>}, after >= 1), {<<tool, 2>>}, after = 2)

Carry(doc, f) ==
  IF f = "" THEN Drop(doc, {CarriedCell})
            ELSE PutText(SwitchOn(doc, {Unlocked(f)}), CarriedCell, f)

PutDown(doc, f) == IF Text(doc, CarriedCell) = f THEN Carry(doc, "") ELSE doc

\* mutant: locking a familiar leaves its upgrades bought
LockFamiliar(doc, f, after) ==
  IF after THEN SwitchOn(doc, {Unlocked(f)}) ELSE Drop(PutDown(doc, f), {Unlocked(f)})

ApplyFamiliar(doc, f, after) ==
  IF after THEN SwitchOn(doc, {Unlocked(f)})
  ELSE LET locked == Drop(PutDown(doc, f), {Unlocked(f)})
       IN  IF \E c \in Cells(doc) : c[1] = "FamiliarUpgrades"
             THEN FoldSet(LAMBDA u, d : SetFamiliarRank(d, u, 0), locked, Upgrades[f])
             ELSE locked

ApplyEquipment(doc, id, after) ==
  CASE id[1] = "weapon"            -> ApplyWeapon(doc, id[2], after)
    [] id[1] = "aspect"            -> ApplyAspect(doc, id[2], after)
    [] id[1] = "aspectSelection"   -> ApplyAspectSelection(doc, id[2], after)
    [] id[1] = "tool"              -> ApplyTool(doc, id[2], after)
    [] id[1] = "familiar"          -> ApplyFamiliar(doc, id[2], after)
    [] id[1] = "familiarUpgrade"   -> SetFamiliarRank(doc, id[2], after)
    [] id[1] = "familiarSelected"  -> IF after THEN Carry(doc, id[2]) ELSE PutDown(doc, id[2])
    [] id[1] = "familiarSelection" -> Carry(doc, after)

(***************************************************************************)
(* linked_changes: what the equipment actions of a basket change besides   *)
(* themselves.  They are projected in the order they were staged; the two  *)
(* spellings of the carried familiar hide one another.                     *)
(***************************************************************************)
LinkedEquipment(doc, own, after) ==
  LET edited == ToSet(own)
      hidden == IF \E id \in edited : id[1] = "familiarSelected"
                  THEN "familiarSelection" ELSE "familiarSelected"
      visible == {id \in EquipmentIds \ edited : id[1] # hidden}
      rows(projected) ==
        [id \in {x \in visible : EquipmentValue(doc, x) # EquipmentValue(projected, x)} |->
           <<EquipmentValue(doc, id), EquipmentValue(projected, id)>>]
  IN  rows(FoldLeft(LAMBDA d, id : ApplyEquipment(d, id, after[id]), doc, own))

(***************************************************************************)
(* validate_batch: every action holds in the candidate, and the ownership  *)
(* the candidate ends with is possible.                                    *)
(***************************************************************************)
WeaponOfId(id) == CASE id[1] \in {"weapon", "aspectSelection"} -> {id[2]}
                    [] id[1] = "aspect" -> {WeaponOf(id[2])}
                    [] OTHER -> {}

WeaponSound(doc, w) ==
  LET owned    == Owned(doc, <<w, 1>>)
      selected == Text(doc, SelectedCell(w))
  IN  /\ \A a \in Aspects[w] : Rank(doc, a) > 0 => owned
      /\ owned => Rank(doc, DefaultAspect[w]) >= 1
      /\ selected # "" => owned /\ Rank(doc, selected) > 0

FamiliarSound(doc) ==
  LET f == Text(doc, CarriedCell) IN f # "" => Flag(doc, Unlocked(f))

EquipmentValid(candidate, own, after) ==
  /\ \A id \in ToSet(own) : EquipmentValue(candidate, id) = after[id]
  /\ \A id \in ToSet(own) : \A w \in WeaponOfId(id) : WeaponSound(candidate, w)
  /\ (\E id \in ToSet(own) : id[1] \in {"familiar", "familiarSelected",
                                         "familiarUpgrade", "familiarSelection"})
       => FamiliarSound(candidate)
=============================================================================
