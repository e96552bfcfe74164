--------------------------- MODULE CommandContract ---------------------------
(***************************************************************************)
(* What the commands of the Hades II contract take: the validators of      *)
(* games/hades2/command_contract.py with the rules of schema.py and the    *)
(* lists of save_workspace.py. A value of a JSON request keeps its type, a *)
(* number's size, a text's length and, where the contract looks at it, the *)
(* text (of an entry's identity: its prefix).                              *)
(***************************************************************************)
EXTENDS Integers

Null             == [null |-> TRUE]
Flag(b)          == [flag |-> b]
Whole(n)         == [int |-> n]
Real(n)          == [float |-> n]
Infinite         == [infinite |-> TRUE]                    \* 1e999 is read as a float
Text(name, size) == [text |-> name, length |-> size]
Keys(size, sound, container) == [keys |-> size, sound |-> sound, container |-> container]
Items(values)    == [items |-> values]
Object(fields)   == [object |-> fields]

Value(p, name)   == IF name \in DOMAIN p THEN p[name] ELSE Null

IsFlag(v)                 == "flag" \in DOMAIN v
IsText(v)                 == "text" \in DOMAIN v
Filled(v)                 == IsText(v) /\ v.length > 0
Sized(v, least, most)     == IsText(v) /\ v.length \in least..most
Named(v, names)           == IsText(v) /\ v.text \in names
Integer(v, least, most)   == "int" \in DOMAIN v /\ v.int \in least..most
AtLeast(v, least)         == "int" \in DOMAIN v /\ v.int >= least
Number(v, least, most)    == Integer(v, least, most) \/ ("float" \in DOMAIN v /\ v.float \in least..most)
Positive(v)               == AtLeast(v, 0) \/ ("float" \in DOMAIN v /\ v.float >= 0)

-----------------------------------------------------------------------------
(* schema.py.                                                              *)
MAX_AMOUNT == 999999

Vitals    == {"health", "mana", "armor"}
Elements  == {"Fire", "Water", "Earth", "Air", "Aether"}
Rarities  == {"Common", "Rare", "Epic", "Heroic"}
Families  == {"flora", "mining", "digging", "shades", "fishing"}

Toggles ==
  {"invincibility", "infiniteHealth", "infiniteMana", "infiniteMoney", "infiniteRerolls",
   "damageEnabled", "instantCastCooldown", "hexAlwaysReady", "infiniteAmmo", "autoMiniGames",
   "boonRarityEnabled", "forceEnableRerolls", "moneyMultiplierEnabled", "resourceMultiplierEnabled"}

Multipliers == {"damageMultiplier", "moneyMultiplier", "resourceMultiplier", "gameSpeed"}

Stats ==
  {"grasp", "dodge", "crit", "chargeSpeed", "moveSpeed", "sprintSpeed", "dashSpeed",
   "attackSpeed", "manaRegen", "enemyDamage", "enemyHealth"}

InRule(stat, v) ==
  CASE stat = "grasp"                        -> Integer(v, 0, 999)
    [] stat \in {"dodge", "crit"}            -> Number(v, 0, 100)
    [] stat \in {"manaRegen", "enemyDamage"} -> Number(v, 0, 1000)
    [] OTHER                                 -> Number(v, 10, 1000)

Chance(v) == v = Null \/ Number(v, 0, 100)

DesiredValue(feature, v) ==
  \/ Named(feature, Toggles) /\ IsFlag(v)
  \/ Named(feature, {"gameSpeed"}) /\ Number(v, 0, 10)
  \/ Named(feature, Multipliers \ {"gameSpeed"}) /\ Number(v, 1, 100)

-----------------------------------------------------------------------------
(* The connection, the wishes and the generators.                          *)
Connect(p) == \A name \in {"probeRuntime", "recoverLostAttach"} \cap DOMAIN p : IsFlag(p[name])

Gathering(p) ==
  "probability" \in DOMAIN p /\ Named(Value(p, "family"), Families) /\ Chance(p["probability"])

ChaosGate(p) == "probability" \in DOMAIN p /\ Chance(p["probability"])

Scoped(p) == Sized(Value(p, "scopeToken"), 1, 128)

BoonRarity(p) ==
  /\ Named(Value(p, "target"), Rarities)
  /\ Number(Value(p, "multiplier"), 0, 1000)
  /\ IsFlag(Value(p, "forceLegendary")) /\ IsFlag(Value(p, "forceDuo"))

NextRoomReward(p) == Value(p, "reward") = Null \/ Sized(Value(p, "reward"), 0, 128)

NextOccurrence(p) == Value(p, "target") = Null \/ Sized(Value(p, "target"), 1, 128)

-----------------------------------------------------------------------------
(* Amounts, locks and choices of the run.                                  *)
Vital(p) ==
  /\ Named(Value(p, "vital"), Vitals) /\ Named(Value(p, "field"), {"current", "max"})
  /\ Named(Value(p, "vital"), {"armor"}) => Named(Value(p, "field"), {"current"})
  /\ Number(Value(p, "value"), IF Named(Value(p, "vital"), {"health"}) THEN 1 ELSE 0, MAX_AMOUNT)

Counter(p) == Named(Value(p, "counter"), {"spellCharge"}) /\ Number(Value(p, "value"), 0, MAX_AMOUNT)

Locked(p) == IsFlag(Value(p, "locked"))

Amount(p) == Integer(Value(p, "amount"), 0, MAX_AMOUNT)

Stat(p) ==
  /\ Named(Value(p, "stat"), Stats) /\ Locked(p)
  /\ p["locked"].flag => InRule(p["stat"].text, Value(p, "value"))

Element(p)  == Named(Value(p, "element"), Elements)
Resource(p) == Filled(Value(p, "resource"))

ChaosPair(p) == Filled(Value(p, "blessing")) /\ Filled(Value(p, "curse"))

(* A trait is named with what the host saw of it.                          *)
Trait(command, p) ==
  /\ \A name \in {"generationId", "runId", "instanceId", "trait", "family"} : Filled(Value(p, name))
  /\ AtLeast(Value(p, "expectedLevel"), 1) /\ AtLeast(Value(p, "expectedSameNameCount"), 1)
  /\ IsText(Value(p, "expectedRarity"))
  /\ \/ Positive(Value(p, "expectedRemainingUses"))
     \/ /\ Value(p, "expectedRemainingUses") = Null
        /\ command \notin {"set_trait_remaining_uses", "expire_trait"}
  /\ command = "set_trait_level" =>
       Integer(Value(p, "targetLevel"), p["expectedLevel"].int + 1, 999999)
  /\ command = "set_trait_rarity" => Named(Value(p, "rarity"), Rarities)
  /\ command = "set_trait_remaining_uses" => Integer(Value(p, "targetRemainingUses"), 1, 999999)

-----------------------------------------------------------------------------
(* The save editor.                                                        *)
Domains ==
  {"entities", "overview", "discover", "resources", "playerStats", "progression", "quests", "arcana",
   "investigate", "dialogue", "flags", "relationships", "weapons", "advanced"}

Scopes        == {"all", "story", "growth", "resources", "records"}
MutationKinds == {"set", "unset", "addMembership", "removeMembership", "setEnum", "setCounter"}
StateFilters  ==
  {"all", "recorded", "notRecorded", "ambiguous", "unknown", "observed", "absent", "editable",
   "readOnly", "unsupported"}

MaxDepth == 130     \* _MAX_LUABINS_DEPTH + 2

OfFile(v) ==
  /\ "object" \in DOMAIN v /\ DOMAIN v.object = {"rootId", "relativePath"}
  /\ \A name \in DOMAIN v.object : Sized(v.object[name], 1, 1024)

Selection(p) ==
  /\ "snapshotId" \in DOMAIN p => Sized(p["snapshotId"], 1, 128)
  /\ \A name \in {"source", "target"} \cap DOMAIN p : OfFile(p[name])

Target(p) == Selection(p) /\ "target" \in DOMAIN p /\ {"snapshotId", "source"} \cap DOMAIN p = {}

Language(p) == "language" \in DOMAIN p => Named(p["language"], {"en", "zh-CN"})

(* A path of Lua keys; one into the container is for "advanced" only.      *)
Path(domain, v) ==
  "keys" \in DOMAIN v /\ v.keys <= MaxDepth /\ v.sound /\ (v.container => Named(domain, {"advanced"}))

Query(p) ==
  /\ Named(Value(p, "domain"), Domains) /\ Language(p)
  /\ "stateFilter" \in DOMAIN p => Named(p["stateFilter"], StateFilters)
  /\ "scope" \in DOMAIN p => Named(p["scope"], Scopes)
  /\ "search" \in DOMAIN p => Sized(p["search"], 0, 256)
  /\ "offset" \in DOMAIN p => AtLeast(p["offset"], 0)
  /\ "limit" \in DOMAIN p => Integer(p["limit"], 1, 200)
  /\ "path" \in DOMAIN p => Path(Value(p, "domain"), p["path"])

Detail(p) ==
  /\ Named(Value(p, "entryId"), {"investigate:", "advanced:", "save-container:"})
  /\ p["entryId"].length > 9 /\ Language(p)

(* Only an entry named by its path may have a long identity.               *)
Entry(p) ==
  /\ Filled(Value(p, "entryId")) /\ Language(p)
  /\ p["entryId"].length <= 512 \/ Named(p["entryId"], {"advanced:", "save-container:"})

Stage(p) == Entry(p) /\ Named(Value(p, "operation"), MutationKinds)

Drafts(p) ==
  "draftEntryIds" \in DOMAIN p =>
    "items" \in DOMAIN p["draftEntryIds"] /\ \A v \in p["draftEntryIds"].items : Filled(v)

-----------------------------------------------------------------------------
(* spec.validate(params): every other command takes what it gets.          *)
Takes(command, p) ==
  CASE command = "connect"                      -> Connect(p)
    [] command = "set_desired"                  -> DesiredValue(Value(p, "feature"), Value(p, "value"))
    [] command = "set_gathering_desired"        -> Gathering(p)
    [] command = "set_chaos_gate_desired"       -> ChaosGate(p)
    [] command = "generate_gathering"           -> Named(Value(p, "family"), Families) /\ Scoped(p)
    [] command = "mature_garden"                -> Scoped(p)
    [] command = "set_boon_rarity_desired"      -> BoonRarity(p)
    [] command = "set_next_room_reward_desired" -> NextRoomReward(p)
    [] command = "set_next_occurrence_desired"  -> NextOccurrence(p)
    [] command = "set_vital"                    -> Vital(p)
    [] command = "set_counter"                  -> Counter(p)
    [] command = "lock_vital"                   -> Named(Value(p, "vital"), Vitals) /\ Locked(p)
    [] command = "set_stat"                     -> Stat(p)
    [] command = "set_element"                  -> Element(p) /\ Amount(p)
    [] command = "lock_element"                 -> Element(p) /\ Locked(p)
    [] command = "set_resource"                 -> Resource(p) /\ Amount(p)
    [] command = "lock_resource"                -> Resource(p) /\ Locked(p)
    [] command = "set_rerolls"                  -> Amount(p)
    [] command = "lock_rerolls"                 -> Locked(p)
    [] command = "spawn_reward"                 -> Filled(Value(p, "reward"))
    [] command = "acquire_chaos_pair"           -> ChaosPair(p)
    [] command = "open_special_choice"          -> Filled(Value(p, "source"))
    [] command \in {"set_trait_level", "set_trait_rarity", "set_trait_remaining_uses",
                    "expire_trait", "remove_trait", "advance_trait_lifecycle"} -> Trait(command, p)
    [] command \in {"save_editor_inventory", "save_editor_open"}  -> Selection(p)
    [] command = "save_editor_target"           -> Target(p)
    [] command = "save_editor_query"            -> Query(p)
    [] command = "save_editor_detail"           -> Detail(p)
    [] command = "save_editor_stage"            -> Stage(p)
    [] command = "save_editor_unstage"          -> Entry(p)
    [] command \in {"save_editor_review", "save_editor_cancel"}   -> Language(p)
    [] command = "save_editor_apply"            -> Drafts(p)
    [] OTHER                                    -> TRUE
=============================================================================
