--------------------------- MODULE MCRequestRouter ---------------------------
(* A small instance of RequestRouter: every kind of reply and of line, a   *)
(* cache too small for the identities, requests the contract takes and     *)
(* refuses, and enough lines to forget a request and write it again.       *)
EXTENDS RequestRouter, TLC

CONSTANTS a, b, low, high

MCIds == {a, b}
MCValues == {low, high}
Symmetric == Permutations(MCIds) \cup Permutations(MCValues)

NoParams == [name \in {} |-> Null]
Ask(command, params) == [command |-> command, params |-> params]

Health(amount) == [vital |-> Text("health", 6), field |-> Text("current", 7), value |-> amount]
Set(size)      == [entryId |-> Text("resource:", size), operation |-> Text("set", 3), value |-> Whole(1)]

MCRequests ==
  {Ask("hello", NoParams), Ask("status", NoParams), Ask("core.save.restore", NoParams),
   Ask("set_vital", Health(Whole(1))), Ask("set_vital", Health(Whole(0))),
   Ask("save_editor_stage", Set(20)), Ask("save_editor_stage", Set(513))}

-----------------------------------------------------------------------------
(* Requests at the edges of what the contract takes, some for each of its  *)
(* validators.                                                             *)
Word(name) == Text(name, 8)
Seen(level, uses) ==
  [generationId |-> Word("g"), runId |-> Word("r"), instanceId |-> Word("i"), trait |-> Word("t"),
   family |-> Word("f"), expectedLevel |-> Whole(level), expectedSameNameCount |-> Whole(1),
   expectedRarity |-> Word("Common"), expectedRemainingUses |-> uses,
   targetLevel |-> Whole(2), targetRemainingUses |-> Whole(999999), rarity |-> Word("Epic")]
File(size) == Object([rootId |-> Word("saves"), relativePath |-> Text("Profile1.sav", size)])

Taken ==
  {Ask("connect", NoParams), Ask("connect", [probeRuntime |-> Flag(FALSE)]),
   Ask("set_desired", [feature |-> Word("gameSpeed"), value |-> Whole(0)]),
   Ask("set_gathering_desired", [family |-> Word("flora"), probability |-> Null]),
   Ask("set_chaos_gate_desired", [probability |-> Real(100)]),
   Ask("generate_gathering", [family |-> Word("fishing"), scopeToken |-> Text("room", 128)]),
   Ask("set_boon_rarity_desired", [target |-> Word("Heroic"), multiplier |-> Whole(1000),
                                   forceLegendary |-> Flag(TRUE), forceDuo |-> Flag(FALSE)]),
   Ask("set_next_room_reward_desired", [reward |-> Text("", 0)]), Ask("set_next_occurrence_desired", NoParams),
   Ask("set_vital", [vital |-> Word("armor"), field |-> Word("current"), value |-> Whole(0)]),
   Ask("set_stat", [stat |-> Word("grasp"), locked |-> Flag(FALSE), value |-> Real(1)]),
   Ask("set_stat", [stat |-> Word("dashSpeed"), locked |-> Flag(TRUE), value |-> Real(10)]),
   Ask("set_element", [element |-> Word("Aether"), amount |-> Whole(MAX_AMOUNT)]),
   Ask("lock_resource", [resource |-> Word("r"), locked |-> Flag(TRUE)]),
   Ask("set_trait_level", Seen(1, Null)), Ask("set_trait_rarity", Seen(3, Null)),
   Ask("set_trait_remaining_uses", Seen(3, Real(0))), Ask("remove_trait", Seen(3, Null)),
   Ask("save_editor_open", [source |-> File(1024), target |-> File(8)]),
   Ask("save_editor_target", [target |-> File(8)]),
   Ask("save_editor_query", [domain |-> Word("advanced"), path |-> Keys(2, TRUE, TRUE), limit |-> Whole(200)]),
   Ask("save_editor_detail", [entryId |-> Text("advanced:", 10)]),
   Ask("save_editor_unstage", [entryId |-> Text("save-container:", 513)]),
   Ask("save_editor_apply", [draftEntryIds |-> Items({})]), Ask("save_editor_close", [language |-> Null])}

NotTaken ==
  {Ask("connect", [probeRuntime |-> Null]), Ask("connect", [recoverLostAttach |-> Whole(1)]),
   Ask("set_desired", [feature |-> Word("moneyMultiplier"), value |-> Whole(0)]),
   Ask("set_desired", [feature |-> Word("infiniteMana"), value |-> Whole(1)]),
   Ask("set_gathering_desired", [family |-> Word("flora")]),
   Ask("set_chaos_gate_desired", [probability |-> Infinite]),
   Ask("mature_garden", [scopeToken |-> Text("room", 129)]),
   Ask("set_boon_rarity_desired", [target |-> Word("Legendary"), multiplier |-> Whole(1),
                                   forceLegendary |-> Flag(TRUE), forceDuo |-> Flag(FALSE)]),
   Ask("set_next_occurrence_desired", [target |-> Text("", 0)]),
   Ask("set_vital", [vital |-> Word("armor"), field |-> Word("max"), value |-> Whole(1)]),
   Ask("set_counter", [counter |-> Word("spellCharge"), value |-> Flag(TRUE)]),
   Ask("set_stat", [stat |-> Word("grasp"), locked |-> Flag(TRUE), value |-> Real(1)]),
   Ask("set_stat", [stat |-> Word("dashSpeed"), locked |-> Flag(TRUE), value |-> Whole(9)]),
   Ask("set_rerolls", [amount |-> Whole(MAX_AMOUNT + 1)]), Ask("lock_rerolls", NoParams),
   Ask("spawn_reward", [reward |-> Text("", 0)]), Ask("acquire_chaos_pair", [blessing |-> Word("b")]),
   Ask("set_trait_level", Seen(2, Null)), Ask("expire_trait", Seen(1, Null)),
   Ask("save_editor_open", [snapshotId |-> Text("s", 129)]),
   Ask("save_editor_inventory", [source |-> Object([rootId |-> Word("saves")])]),
   Ask("save_editor_target", [target |-> File(8), source |-> File(8)]),
   Ask("save_editor_query", [domain |-> Word("weapons"), path |-> Keys(2, TRUE, TRUE)]),
   Ask("save_editor_query", [domain |-> Word("weapons"), offset |-> Whole(-1)]),
   Ask("save_editor_detail", [entryId |-> Text("advanced:", 9)]),
   Ask("save_editor_stage", [entryId |-> Word("e"), operation |-> Word("erase")]),
   Ask("save_editor_review", [language |-> Word("de")]),
   Ask("save_editor_apply", [draftEntryIds |-> Items({Text("", 0)})])}

ASSUME ContractSamples ==
  (\A request \in Taken : Valid(request)) /\ (\A request \in NotTaken : ~Valid(request))
=============================================================================
