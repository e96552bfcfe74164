--------------------------- MODULE MCHadesWorkspace ---------------------------
(* Two resources, a cache, a mode and a list with an array part, and actions on  *)
(* all of them that meet in one entry, in one table, or in what they stand for. *)
EXTENDS HadesWorkspace

MCNames == <<"GameState", "Resources", "Gems", "Keys", "Gold", "CompletedRunsCache", "Flags",
             "HardMode", "WeaponUnlocks", "LastWeaponUpgradeData", "LastInteractedWeaponUpgrade",
             "WeaponName", "ItemIndex", "Index", "Sword", "MetaUpgradesUnlocked", "Left", "Right",
             "completed_runs", "hard_mode", "List", "a", "b", "c">>

Is(name, value) == Entry(String(name), value)

Header == [completed_runs |-> 3, hard_mode |-> 0]

\* The tokens of the entries: GameState 0/1 with Resources 0/1/1, the cache 0/1/3
\* and the flags 0/1/5; the list 0/3.
Saved(caches) ==
  [header |-> Header,
   root |-> Table(0, <<
     Is("GameState", Table(0, <<
        Is("Resources", Table(0, <<Is("Gems", Number(5)), Is("Keys", Number(2))>>))>> \o caches \o <<
        Is("Flags", Table(0, <<Is("HardMode", Bool(FALSE))>>))>>)),
     Is("List", Table(2, <<Is("a", Number(1)), Is("b", Number(2)), Is("c", Number(3))>>))>>)]

Cache(n) == Is("CompletedRunsCache", Number(n))

MCDocuments == {Saved(<<Cache(3)>>)}
Ambiguous   == {Saved(<<Cache(3), Cache(4)>>)}

Asked(id, op, key, value) == [id |-> id, op |-> op, key |-> key, value |-> value]
Set(id, value) == Asked(id, "set", Nil, value)
Unset(path)    == Asked(Physical(path), "unset", Nil, Nil)

MCIntents ==
  {Set(Physical(<<0, 1, 1, 1>>), Number(7)),  Set(Resource("Gems"), Number(7)),
   Unset(<<0, 1, 1, 1>>),                     Set(Resource("Gold"), Number(6)),
   Set(Physical(<<0, 1, 1, 2>>), String("Gold")),
   Asked(Physical(<<0, 1, 1>>), "append", String("Gold"), Number(8)),
   Set(Physical(<<0, 1, 3>>), Number(4)),     Set(Physical(<<0, 1, 3>>), Number(3)),
   Set(HeaderField("completed_runs"), Number(4)), Set(HeaderField("completed_runs"), Number(9)),
   Set(Physical(<<0, 1, 5>>), Table(0, <<Is("HardMode", Bool(TRUE))>>)),
   Set(Physical(<<0, 1, 5, 1>>), Bool(TRUE)), Set(HeaderField("hard_mode"), Number(1)),
   Set(Rank("Sword", 2), Number(1)), Set(Rank("Sword", 2), Number(0)),
   Set(Selection("Sword"), Number(2)), Set(Selection("Sword"), Number(1)),
   Set(MirrorRow(1), Bool(TRUE)),
   Unset(<<0, 3, 1>>), Unset(<<0, 3, 3>>), Unset(<<0, 3, 2>>),
   Set(Physical(<<0, 3, 5>>), Number(9)), Set(Physical(<<0, 3, 4>>), String("a")),
   Asked(Physical(<<0, 3>>), "append", String("Gold"), Table(0, <<Is("a", Empty)>>))}

CacheIntents == {Unset(<<0, 1, 3>>), Set(Physical(<<0, 1, 3>>), Number(9)), Unset(<<0, 3, 1>>)}

MCRows    == << <<"Left", "Right">> >>
MCAspects == [w \in {"Sword"} |-> <<[startsUnlocked |-> TRUE, maxRank |-> 5],
                                    [startsUnlocked |-> FALSE, maxRank |-> 5]>>]
================================================================================
