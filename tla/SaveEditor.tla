---------------------------- MODULE SaveEditor ----------------------------
(***************************************************************************)
(* The structured save editor of Hades II end to end: the window           *)
(* (Hades2SaveEditorModel.swift), the workspace in the worker process      *)
(* (save_workspace.py over Core's structured_save_edit.py) and the save on *)
(* disk, which the game itself may write at any time.                      *)
(*                                                                         *)
(* The window sends one request at a time and shows the review of the last *)
(* acknowledged one.  Between a request, its handling and the reply the    *)
(* game may write the save, an update may change the rewards of the        *)
(* installed game, and the worker may end.                                 *)
(***************************************************************************)
EXTENDS SaveWorkspace

CONSTANTS
  Scenes  \* starting points: [live, backups, actions, rewards, writes, basket,
          \* baselines]; basket bounds the actions staged together, baselines
          \* the documents the window is handed (opens and applies)

VARIABLES
  scene,      \* what the user, an update and the game may do
  live,       \* the document in the target file
  native,     \* the reward of every quest in the installed game
  generation, \* baselines handed out so far
  workspace,  \* the worker's open workspace, if any
  host        \* the window: the document it holds, what it shows, its request

vars == <<scene, live, native, generation, workspace, host>>

NoReview == Review([on |-> {}, off |-> {}, num |-> << >>, text |-> << >>], EmptyBasket)

IdleHost == [held |-> 0, target |-> FALSE, shown |-> NoReview, asked |-> Absent, reply |-> Absent]

(***************************************************************************)
(* workspace: the baseline generation, the pinned source, whether the file *)
(* to write is chosen, the basket, the rewards the Apply under way was     *)
(* validated with, if it was, whether unresolved recovery evidence locks   *)
(* Apply, and (of the model only) whether an Apply of it left the disk in  *)
(* doubt.                                                                  *)
(***************************************************************************)
Workspace(baseline, source, target) ==
  [baseline |-> baseline, source |-> source, target |-> target, basket |-> EmptyBasket,
   checked |-> Absent, locked |-> FALSE, inDoubt |-> FALSE]

Init ==
  /\ scene \in Scenes
  /\ live = scene.live
  /\ native \in scene.rewards
  /\ generation = 0
  /\ workspace = Absent
  /\ host = IdleHost

(***************************************************************************)
(* The window asks.  Every input is disabled while a request is pending.   *)
(***************************************************************************)
Quiet == host.asked = Absent /\ host.reply = Absent

Ask(request) == host' = [host EXCEPT !.asked = <<request>>]

\* The source is the file, which is then the target too, or the copy of it in a
\* managed backup.
AskOpen ==
  /\ Quiet
  /\ generation < scene.baselines
  /\ \/ Ask(<<"open", Absent, TRUE>>)
     \/ \E backup \in scene.backups, target \in BOOLEAN : Ask(<<"open", <<backup>>, target>>)
  /\ UNCHANGED <<generation, scene, live, native, workspace>>

AskTarget ==
  /\ Quiet /\ host.held > 0 /\ ~host.target
  /\ Ask(<<"target">>)
  /\ UNCHANGED <<generation, scene, live, native, workspace>>

AskStage ==
  /\ Quiet /\ host.held > 0
  /\ \E action \in scene.actions :
       /\ \/ Cardinality(DOMAIN host.shown.direct) < scene.basket
          \/ action[1] \in DOMAIN host.shown.direct
       /\ Ask(<<"stage", action[1], action[2]>>)
  /\ UNCHANGED <<generation, scene, live, native, workspace>>

AskUnstage ==
  /\ Quiet /\ host.held > 0
  /\ \E id \in DOMAIN host.shown.direct : Ask(<<"unstage", id>>)
  /\ UNCHANGED <<generation, scene, live, native, workspace>>

AskCancel ==
  /\ Quiet /\ host.held > 0
  /\ Ask(<<"cancel">>)
  /\ UNCHANGED <<generation, scene, live, native, workspace>>

AskApply ==
  /\ Quiet /\ host.held > 0 /\ host.target
  /\ DOMAIN host.shown.direct # {}
  /\ generation < scene.baselines
  /\ Ask(<<"apply">>)
  /\ UNCHANGED <<generation, scene, live, native, workspace>>

(***************************************************************************)
(* The worker handles the request (dispatch and the workspace's methods).  *)
(***************************************************************************)
Asked(kind) == host.asked # Absent /\ host.asked[1][1] = kind /\ host.reply = Absent

Reply(answer) == host' = [host EXCEPT !.reply = <<answer>>]

\* require_baseline: the request names the workspace as the window knows it.
\* The window sends none of a worker that has ended (owns), so no request meets
\* another workspace.
Held == workspace # Absent /\ workspace[1].baseline = host.held

Set(basket) == workspace' = <<[workspace[1] EXCEPT !.basket = basket]>>

\* the bytes of the file now, or the verified ones of the backup
Source(origin) == IF origin = Absent THEN live ELSE origin[1]

HandleOpen ==
  /\ Asked("open")
  /\ generation' = generation + 1
  /\ workspace' = <<Workspace(generation', Source(host.asked[1][2]), host.asked[1][3])>>
  /\ Reply(<<"opened", generation', host.asked[1][3]>>)
  /\ UNCHANGED <<scene, live, native>>

\* a source or a target that is missing, ambiguous or no profile's save, or an
\* unreadable one; what was open stays open
Unresolved ==
  /\ Asked("open") \/ Asked("target")
  /\ Reply(<<"refused">>)
  /\ UNCHANGED <<generation, scene, live, native, workspace>>

HandleTarget ==
  /\ Asked("target") /\ Held
  /\ workspace' = <<[workspace[1] EXCEPT !.target = TRUE]>>
  /\ Reply(<<"target">>)
  /\ UNCHANGED <<generation, scene, live, native>>

\* a rejected preview must not leave an invisible pending action
Propose(basket, authorized) ==
  LET w == workspace[1]
  IN  IF authorized /\ Accepted(w.source, basket, native)
        THEN Set(basket) /\ Reply(<<"review", Review(w.source, basket)>>)
        ELSE UNCHANGED workspace /\ Reply(<<"refused">>)

HandleStage ==
  /\ Asked("stage") /\ Held
  /\ LET w == workspace[1]
         id == host.asked[1][2]
         after == host.asked[1][3]
     IN  Propose(Staged(w.source, w.basket, id, after, native), Writable(w.source, id, after))
  /\ UNCHANGED <<generation, scene, live, native>>

HandleUnstage ==
  /\ Asked("unstage") /\ Held
  /\ LET w == workspace[1]
         id == host.asked[1][2]
     IN  Propose(Without(w.basket, id), id \in Ids(w.basket))
  /\ UNCHANGED <<generation, scene, live, native>>

HandleCancel ==
  /\ Asked("cancel") /\ Held
  /\ Set(EmptyBasket)
  /\ Reply(<<"review", Review(workspace[1].source, EmptyBasket)>>)
  /\ UNCHANGED <<generation, scene, live, native>>

(***************************************************************************)
(* apply: the candidate is validated once more, the evidence of its claims *)
(* included, and handed to Core, whose transaction (SaveTransaction)       *)
(* installs it, puts the old save back, or leaves recovery evidence        *)
(* behind.  The source is pinned, so a save the game wrote meanwhile is    *)
(* replaced.                                                               *)
(***************************************************************************)
Candidate(w) == Project(w.source, Ids(w.basket), w.basket)

Ready(w) ==
  /\ w.basket.order # << >>
  /\ Accepted(w.source, w.basket, native)
  /\ ~w.locked
  /\ w.target
  /\ Candidate(w) # w.source

\* mutant: Apply projects the basket on the save as it is on disk now
InstallRebased ==
  /\ generation' = generation + 1
  /\ live' = Project(live, Ids(workspace[1].basket), workspace[1].basket)
  /\ workspace' = <<Workspace(generation', live', TRUE)>>
  /\ Reply(<<"applied", generation', TRUE>>)
  /\ UNCHANGED <<scene, native>>

Install ==
  /\ generation' = generation + 1
  /\ live' = Candidate(workspace[1])
  /\ workspace' = <<Workspace(generation', live', TRUE)>>
  /\ Reply(<<"applied", generation', TRUE>>)
  /\ UNCHANGED <<scene, native>>

RollBack ==
  /\ workspace' = <<[workspace[1] EXCEPT !.checked = Absent]>>
  /\ Reply(<<"refused">>)
  /\ UNCHANGED <<generation, scene, live, native>>

\* the failure names a recovery path, new recovery paths are found, or the
\* recovery area cannot be inspected (_capture_recovery_after_failure)
LeaveInDoubt ==
  /\ live' \in {live, Candidate(workspace[1])}
  /\ workspace' = <<[workspace[1] EXCEPT !.checked = Absent, !.locked = TRUE,
                                           !.inDoubt = TRUE]>>
  /\ Reply(<<"refused">>)
  /\ UNCHANGED <<generation, scene, native>>

\* the worker ends with the candidate installed, before it replied
EndInstalled ==
  /\ live' = Candidate(workspace[1])
  /\ workspace' = Absent
  /\ host' = IdleHost
  /\ UNCHANGED <<generation, scene, native>>

RefuseApply ==
  /\ Reply(<<"refused">>)
  /\ UNCHANGED <<generation, scene, live, native, workspace>>

HandleApply ==
  /\ Asked("apply") /\ Held /\ workspace[1].checked = Absent
  /\ IF Ready(workspace[1])
       THEN /\ workspace' = <<[workspace[1] EXCEPT !.checked = <<native>>]>>
            /\ UNCHANGED <<generation, scene, live, native, host>>
       ELSE RefuseApply

Commit ==
  /\ workspace # Absent /\ workspace[1].checked # Absent
  /\ Install \/ RollBack \/ LeaveInDoubt \/ EndInstalled

(***************************************************************************)
(* The window takes the reply.                                             *)
(***************************************************************************)
Receive ==
  /\ host.reply # Absent
  /\ LET answer == host.reply[1]
         fresh  == answer[1] \in {"opened", "applied"}
     IN  host' = [held   |-> IF fresh THEN answer[2] ELSE host.held,
                  target |-> IF fresh THEN answer[3] ELSE host.target \/ answer[1] = "target",
                  shown  |-> CASE fresh                -> NoReview
                               [] answer[1] = "review" -> answer[2]
                               [] OTHER                -> host.shown,
                  asked  |-> Absent,
                  reply  |-> Absent]
  /\ UNCHANGED <<generation, scene, live, native, workspace>>

(***************************************************************************)
(* The worker ends, with nothing of what it was working on installed       *)
(* (EndInstalled is the other case); the window learns of the new lifetime *)
(* and lets the document go.                                               *)
(***************************************************************************)
\* The window closes only when nothing is pending; it awaits no answer to the
\* release of its workspace.
Close ==
  /\ Quiet /\ Held
  /\ workspace' = Absent
  /\ host' = IdleHost
  /\ UNCHANGED <<generation, scene, live, native>>

WorkerEnds ==
  /\ workspace # Absent
  /\ workspace' = Absent
  /\ host' = IdleHost
  /\ UNCHANGED <<generation, scene, live, native>>

GameWrites ==
  /\ \E write \in scene.writes : live' = Put(live, write[1], write[2])
  /\ UNCHANGED <<generation, scene, native, workspace, host>>

GameUpdated ==
  /\ native' \in scene.rewards \ {native}
  /\ UNCHANGED <<generation, scene, live, workspace, host>>

Next ==
  \/ AskOpen \/ AskTarget \/ AskStage \/ AskUnstage \/ AskCancel \/ AskApply
  \/ HandleOpen \/ HandleTarget \/ Unresolved \/ HandleStage \/ HandleUnstage \/ HandleCancel
  \/ HandleApply \/ Commit
  \/ Receive \/ Close \/ WorkerEnds \/ GameWrites \/ GameUpdated

Spec == Init /\ [][Next]_vars

-----------------------------------------------------------------------------
(***************************************************************************)
(* Properties.                                                             *)
(***************************************************************************)
RawFree(ids) == \A id \in ids : ~IsRaw(id)

\* Cells the review shows as a cell: the records' own and what they link to.
\* What equipment and cards store is shown as the values of their entries.
RecordCells(before, after) ==
  {c \in ChangedCells(before, after) :
     c[1] \notin {"WeaponsUnlocked", "WorldUpgrades", "WorldUpgradesAdded", "FamiliarUpgrades",
                  "FamiliarsUnlocked", "LastWeaponUpgradeName", "EquippedFamiliar",
                  "CardUnlocked", "CardEquipped", "CardLevel", "CardBonus", "ArcanaCache"}}

\* Every entry, and every derived value of the board, that two documents
\* disagree on; the spellings of the carried familiar count as one.
Entries(before, after, except) ==
  {id \in (EquipmentIds \cup CardIds) \ except :
     /\ id[1] = "familiarSelected" => \E x \in except : x[1] = "familiarSelected"
     /\ id[1] = "familiarSelection" => \A x \in except : x[1] # "familiarSelected"
     /\ EntryValue(before, id) # EntryValue(after, id)}

Derived(before, after) ==
  {<<"bonus", c>> : c \in {x \in Cards : Value(before, BonusCell(x)) # Value(after, BonusCell(x))}}
    \cup {<<"arcanaCache", k>> : k \in {x \in CacheKeys :
                                 Value(before, CacheCell(x)) # Value(after, CacheCell(x))}}

\* shown is the difference between before and after, no less and no more
Shows(shown, before, after) ==
  LET edited == DOMAIN shown.direct
      linked == shown.equipment @@ shown.arcana
  IN  /\ \A id \in edited : shown.direct[id] = <<EntryValue(before, id), EntryValue(after, id)>>
      /\ Entries(before, after, edited) \cup Derived(before, after)
           \subseteq DOMAIN linked
      /\ \A id \in DOMAIN linked \cap (EquipmentIds \cup CardIds) :
           linked[id] = <<EntryValue(before, id), EntryValue(after, id)>>
      /\ DOMAIN shown.arcana \ CardIds = Derived(before, after)
      /\ RecordCells(before, after) \ {Target(id) : id \in {x \in edited : ~IsEquipment(x) /\ ~IsCard(x)}}
           = DOMAIN shown.cells
      /\ \A c \in DOMAIN shown.cells : shown.cells[c] = <<Value(before, c), Value(after, c)>>

(* While the window waits for nothing, the review it shows is exactly what *)
(* Apply would do to the pinned source: every edited entry with the value  *)
(* it gets, and every other entry, cache and linked record that moves with *)
(* it.  The linked rows are computed per planner, on the source and in the *)
(* order of staging (_linked_change_rows); Apply runs all planners together*)
(* in canonical order.                                                     *)
ReviewTrue ==
  LET w == workspace[1]
  IN  workspace # Absent /\ Quiet /\ Held /\ RawFree(Ids(w.basket)) =>
        /\ DOMAIN host.shown.direct = Ids(w.basket)
        /\ Shows(host.shown, w.source, Candidate(w))

Installs ==
  /\ Asked("apply") /\ workspace # Absent /\ workspace' # Absent
  /\ workspace'[1].baseline # workspace[1].baseline

(* What Apply installs is what the window showed against the document the  *)
(* user opened, whatever the game wrote to the save since, in the target   *)
(* the window shows; and a workspace whose earlier Apply may have touched  *)
(* the disk installs nothing more (apply, _capture_recovery_after_failure).*)
InstalledAsShown ==
  [][Installs => /\ ~workspace[1].inDoubt /\ host.target
                 /\ RawFree(DOMAIN host.shown.direct) =>
                      Shows(host.shown, workspace[1].source, live')]_vars

\* the amount the claims of a basket owe in one resource, as the game pays
Owed(ids, pays, r) ==
  FoldSet(LAMBDA id, sum : pays[id[2]].amount + sum, 0,
          {id \in ClaimsOf(ids) : pays[id[2]].resource = r})

(* Applying claims pays each one, once, the reward the game had when Apply *)
(* validated it, whatever it was when the claim was staged: all three      *)
(* counters of the resource rise by it, and a quest that was not cashed    *)
(* out before ends cashed out and completed, in the first basket of a      *)
(* workspace and in the next.  Applying gifts leaves the total of the      *)
(* resource equal to the gifts on record where it was equal before, or     *)
(* missing (save_quest_rewards.apply_batch,                                *)
(* save_relationships.apply_batch).                                        *)
LedgersTrue ==
  [][Installs /\ RawFree(Ids(workspace[1].basket)) =>
       LET source  == workspace[1].source
           ids     == Ids(workspace[1].basket)
           owed(r) == Owed(ids, workspace[1].checked[1], r)
       IN  /\ \A r \in Resources : owed(r) > 0 => \A c \in RewardCells(r) :
                Number(live', c) = Number(source, c) + owed(r)
           /\ \A id \in ClaimsOf(ids) :
                /\ Value(source, Target(id)) # <<"CashedOut">>
                /\ Value(live', Target(id)) = <<"CashedOut">>
                /\ Flag(live', Completed(id[2]))
           /\ \A r \in {id[3] : id \in GiftsOf(ids)} :
                Value(source, GiftTotal(r)) \in {Absent, <<Reconstructed(source, r)>>} =>
                  Value(live', GiftTotal(r)) = <<Reconstructed(live', r)>>]_vars

\* A save the game could have written, as far as the planners' records go:
\* every bought mark is in the history, nothing is owned, selected, carried
\* or equipped without what it needs, and the caches of the board are right.
Coherent(doc) ==
  /\ \A w \in Weapons : WeaponSound(doc, w)
  /\ FamiliarSound(doc)
  /\ \A c \in doc.on : c[1] = "WorldUpgrades" => History(<<c[2], c[3]>>) \in doc.on
  /\ \A f \in Familiars : \A u \in Upgrades[f] :
       FamiliarRank(doc, u) > 0 => Flag(doc, Unlocked(f))
  /\ \A c \in Cards : Flag(doc, EquippedCell(c)) \/ Level(doc, c) > 1 => Flag(doc, UnlockedCell(c))
  /\ LET cost == TotalCost({c \in Cards : Flag(doc, EquippedCell(c))})
     IN  /\ Number(doc, CacheCell("MetaUpgradeCostCache")) = cost
         /\ cost <= Capacity(Number(doc, CacheCell("MetaUpgradeLimitLevel")))

(* Applying actions of the planners to a coherent save leaves it coherent, *)
(* whatever entries they mix: a revoked weapon takes its aspects and the   *)
(* selected one, a locked familiar its upgrades, an equipped card has its  *)
(* unlock and its Grasp (save_equipment, save_arcana).                     *)
CoherentKept ==
  [][Installs /\ RawFree(Ids(workspace[1].basket)) /\ Coherent(workspace[1].source)
       => Coherent(live')]_vars

=============================================================================
