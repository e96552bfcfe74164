---------------------------- MODULE MCSaveEditor ----------------------------
(***************************************************************************)
(* Small saves for SaveEditor.  Each scene is one corner of the planners:  *)
(* a document, the actions its user picks from, the rewards an update of   *)
(* the game moves between and what the game itself writes.                 *)
(***************************************************************************)
EXTENDS SaveEditor

MCNumberOwners ==
  {"Resources", "LifetimeResourcesGained", "ResourcesGained", "GiftRecord", "GiftResourceRecord",
   "CardLevel", "CardBonus", "ArcanaCache", "NPCInteractions", "ObjectivesCompleted", "History"}
MCTextOwners ==
  {"LastWeaponUpgradeName", "EquippedFamiliar", "QuestStatus", "TextLinesChoiceRecord",
   "RunTextLinesChoiceRecord", "UnviewedLastResourceGained"}

MCAspects       == [staff |-> {"staffA"}, dagger |-> {"dagA", "dagB"}]
MCDefaultAspect == [staff |-> "staffA", dagger |-> "dagA"]
MCUpgrades      == [frog |-> {"frogUp"}, cat |-> {"catUp"}]

\* every automatic rule once; A, B, C are chosen by hand
MCLayout == << <<"A", "B", "near">>, <<"C", "all", "costs">>, <<"dup", "few", "line">> >>
MCRule == [A |-> "manual", B |-> "manual", C |-> "manual", near |-> "neighbor",
           all |-> "allNeighbors", costs |-> "costs1to5", dup |-> "duplicates2",
           few |-> "oneToThree", line |-> "otherRowOrColumn"]
MCCost == [A |-> 9, B |-> 6, C |-> 12, near |-> 0, all |-> 0, costs |-> 0,
           dup |-> 0, few |-> 0, line |-> 0]
MCCostKinds == {6, 9}

MCResources == {"bones"}
MCQuests    == <<"q1", "q2">>
MCLines     == {"chat"}
MCPeople    == {"ann", "bob"}

Doc(on, num, text) == [on |-> on, off |-> {}, num |-> num, text |-> text]
Everywhere(mark) == {Current(mark), World(mark), History(mark)}

Pay(n) == [resource |-> "bones", amount |-> n, ignoreLast |-> FALSE]
Rewards == [q1 |-> Pay(2), q2 |-> [Pay(5) EXCEPT !.ignoreLast = TRUE]]

\* basket bounds the actions staged together, baselines the documents opened and
\* installed: with three a second basket is installed after the first
Scene(basket, baselines, doc, actions) ==
  [live |-> doc, backups |-> {}, actions |-> actions, rewards |-> {Rewards}, writes |-> {},
   basket |-> basket, baselines |-> baselines]

(***************************************************************************)
(* A bought dagger with its second aspect selected.                        *)
(***************************************************************************)
Armed ==
  Doc({Current(<<"staff", 1>>)} \cup Everywhere(<<"dagger", 1>>) \cup Everywhere(<<"dagB", 1>>),
      << >>, SelectedCell("dagger") :> "dagB")

WeaponScene ==
  Scene(3, 2, Armed, {<<<<"weapon", "dagger">>, FALSE>>, <<<<"weapon", "staff">>, FALSE>>,
                <<<<"aspect", "dagA">>, 2>>, <<<<"aspect", "dagB">>, 0>>, <<<<"aspect", "dagB">>, 2>>,
                <<<<"aspectSelection", "dagger">>, "dagA">>,
                <<<<"aspectSelection", "dagger">>, "">>, <<<<"tool", "pick">>, 2>>})

(***************************************************************************)
(* A carried frog with one of its upgrades.                                *)
(***************************************************************************)
Accompanied ==
  Doc({Unlocked("frog"), Bought(<<"frogUp", 1>>), World(<<"frogUp", 1>>), History(<<"frogUp", 1>>)},
      << >>, CarriedCell :> "frog")

FamiliarScene ==
  Scene(3, 3, Accompanied, {<<<<"familiar", "frog">>, FALSE>>, <<<<"familiar", "cat">>, TRUE>>,
                      <<<<"familiarSelected", "frog">>, FALSE>>, <<<<"familiarSelected", "cat">>, TRUE>>,
                      <<<<"familiarSelection", "">>, "">>, <<<<"familiarSelection", "">>, "cat">>,
                      <<<<"familiarUpgrade", "frogUp">>, 0>>, <<<<"familiarUpgrade", "catUp">>, 2>>})

(***************************************************************************)
(* Two cards unlocked, the cheaper equipped, at the lowest Grasp.          *)
(***************************************************************************)
Dealt ==
  Doc({UnlockedCell("A"), UnlockedCell("B"), EquippedCell("B"), UnlockedCell("dup")},
      LevelCell("A") :> 2 @@ LevelCell("B") :> 1 @@ BonusCell("A") :> 1
        @@ CacheCell("MetaUpgradeCostCache") :> 6 @@ CacheCell("MaxMetaUpgradeCostCache") :> 10, << >>)

CardScene ==
  Scene(3, 2, Dealt, {<<<<"card", "A", "Equipped">>, TRUE>>, <<<<"card", "C", "Equipped">>, TRUE>>,
                <<<<"card", "near", "Equipped">>, TRUE>>, <<<<"card", "few", "Equipped">>, FALSE>>,
                <<<<"card", "costs", "Equipped">>, TRUE>>, <<<<"card", "A", "Unlocked">>, FALSE>>,
                <<<<"card", "B", "Level">>, 3>>, <<<<"card", "C", "Level">>, 2>>,
                <<<<"card", "C", "Level">>, 4>>})

(***************************************************************************)
(* Two quests of one resource, gifts of it, and a played line.  The game   *)
(* earns more of it, and an update changes what a quest pays.  A backup    *)
(* holds the save from before the gifts.                                   *)
(***************************************************************************)
Played ==
  Doc({<<"TextLinesRecord", "chat", 0>>, <<"RunTextLinesRecord", "chat", 0>>, Completed("q2")},
      <<"Resources", "bones", 0>> :> 1 @@ <<"GiftRecord", "ann", "bones">> :> 1
        @@ <<"GiftRecord", "bob", "bones">> :> 2,
      <<"TextLinesChoiceRecord", "chat", 0>> :> "yes" @@ <<"RunTextLinesChoiceRecord", "chat", 0>> :> "yes"
        @@ <<"QuestStatus", "q2", 0>> :> "Complete")

BeforeGifts == [Played EXCEPT !.num = <<"Resources", "bones", 0>> :> 6]

LedgerScene ==
  [live    |-> Played,
   backups |-> {BeforeGifts},
   actions |-> {<<<<"questClaim", "q1">>, TRUE>>, <<<<"questClaim", "q2">>, TRUE>>,
                <<<<"resource", "bones">>, 4>>, <<<<"quest", "q1">>, <<"CashedOut">>>>,
                <<<<"gift", "ann", "bones">>, 0>>, <<<<"gift", "bob", "bones">>, 3>>},
   rewards |-> {Rewards, [Rewards EXCEPT !.q1.amount = 3]},
   writes  |-> {<<<<"Resources", "bones", 0>>, <<7>>>>},
   basket  |-> 2, baselines |-> 3]

StoryScene ==
  Scene(2, 3, Played, {<<<<"quest", "q2">>, Absent>>, <<<<"quest", "q1">>, <<"Complete">>>>,
                 <<<<"questObservation", "q1">>, <<TRUE>>>>, <<<<"questObservation", "q2">>, <<FALSE>>>>,
                 <<<<"dialogueReset", "chat">>, Absent>>, <<<<"dialogueChoice", "chat">>, <<"no">>>>,
                 <<<<"dialogue", "chat">>, <<FALSE>>>>, <<<<"flag", "met">>, <<TRUE>>>>,
                 <<<<"interaction", "ann">>, 2>>})

(***************************************************************************)
(* All planners at once, with Advanced edits of cells they read or write.  *)
(***************************************************************************)
Merged(a, b) == [on |-> a.on \cup b.on, off |-> {}, num |-> a.num @@ b.num, text |-> a.text @@ b.text]

MixedScene ==
  Scene(2, 3, Merged(Merged(Armed, Accompanied), Merged(Dealt, Played)),
        {<<<<"advanced", World(<<"dagB", 1>>)>>, Absent>>, <<<<"advanced", <<"Flags", "met", 0>>>>, <<FALSE>>>>,
         <<<<"advanced", <<"Resources", "bones", 0>>>>, <<9>>>>,
         <<<<"questClaim", "q1">>, TRUE>>, <<<<"weapon", "dagger">>, FALSE>>,
         <<<<"familiar", "frog">>, FALSE>>, <<<<"card", "A", "Equipped">>, TRUE>>,
         <<<<"gift", "ann", "bones">>, 3>>})

\* Once an Apply left the disk in doubt, actions are taken out of the basket, or
\* all of it is applied again, but nothing more is staged.
Bounded == workspace # Absent /\ Asked("stage") => ~workspace[1].inDoubt

MCScenes == {WeaponScene, FamiliarScene, CardScene, LedgerScene, StoryScene, MixedScene}

\* "advanced" < "aspect" < ... as the identities sort
MCEntryOrder ==
  << <<"advanced", Current(<<"dagger", 1>>)>>, <<"advanced", World(<<"dagB", 1>>)>>,
     <<"advanced", <<"Flags", "met", 0>>>>, <<"advanced", <<"Resources", "bones", 0>>>>,
     <<"aspect", "dagA">>, <<"aspect", "dagB">>, <<"aspectSelection", "dagger">>,
     <<"card", "A", "Equipped">>, <<"card", "A", "Unlocked">>, <<"card", "B", "Level">>,
     <<"card", "C", "Equipped">>, <<"card", "C", "Level">>, <<"card", "costs", "Equipped">>,
     <<"card", "few", "Equipped">>, <<"card", "near", "Equipped">>,
     <<"dialogue", "chat">>, <<"dialogueChoice", "chat">>, <<"dialogueReset", "chat">>,
     <<"familiar", "cat">>, <<"familiar", "frog">>, <<"familiarSelected", "cat">>,
     <<"familiarSelected", "frog">>, <<"familiarSelection", "">>, <<"familiarUpgrade", "catUp">>,
     <<"familiarUpgrade", "frogUp">>, <<"flag", "met">>, <<"gift", "ann", "bones">>,
     <<"gift", "bob", "bones">>, <<"interaction", "ann">>, <<"quest", "q1">>, <<"quest", "q2">>,
     <<"questClaim", "q1">>, <<"questClaim", "q2">>, <<"questObservation", "q1">>,
     <<"questObservation", "q2">>, <<"resource", "bones">>, <<"tool", "pick">>,
     <<"weapon", "dagger">>, <<"weapon", "staff">> >>
=============================================================================
