---------------------------- MODULE HadesWorkspace ----------------------------
(***************************************************************************)
(* The save editor of the first game (Backend/games/hades/                 *)
(* save_workspace.py over save_edit.py): a pinned document, a basket of    *)
(* staged actions, and one Apply that installs the document they make.     *)
(*                                                                         *)
(* An action names an entry by its physical place in the document          *)
(* (Advanced), by a field of the header, or by what it means: a resource,  *)
(* a row of the Mirror, the rank or the choice of a weapon's aspect.       *)
(* Actions are planned against the pinned document only; whether they may  *)
(* be combined is a question of the places they write.                     *)
(***************************************************************************)
EXTENDS HadesDocument

CONSTANTS
  Documents,   \* what the editor may be opened on: [header, root]
  Intents,     \* what the user may ask: [id, op, key, value]
  Rows,        \* the pair of talents of each row of the Mirror
  Aspects,     \* for each weapon its aspects: [startsUnlocked, maxRank]
  MaxStages,   \* bound on the actions staged
  MaxApplies   \* bound on the successful Applies

ASSUME BoundsAssumption == MaxStages \in Nat /\ MaxApplies \in Nat

VARIABLES
  document,    \* of the session
  file,        \* the save that the session last read or installed
  locked,      \* recovery_unresolved
  pending,     \* the basket, in the order of staging
  generation,  \* baseline_generation
  views,       \* history: the documents shown so far, with their generations
  stages

vars == <<document, file, locked, pending, generation, views, stages>>

Content(doc) == [header |-> doc.header, root |-> doc.root]

--------------------------------------------------------------------------------
(* Identities of entries, and the rows behind them. *)

Identity(kind, path, name, index) ==
  [kind |-> kind, path |-> path, name |-> name, index |-> index]
Physical(path)     == Identity("p", path, "", 0)
HeaderField(name)  == Identity("h", <<>>, name, 0)
Resource(name)     == Identity("resource", <<>>, name, 0)
MirrorRow(i)       == Identity("mirror", <<>>, "", i)
Selection(weapon)  == Identity("select", <<>>, weapon, 0)
Rank(weapon, i)    == Identity("rank", <<>>, weapon, i)

Keys(names) == [i \in DOMAIN names |-> String(names[i])]
GameState(name) == Keys(<<"GameState", name>>)

\* An owner that is missing may still get entries, if there is a GameState.
OwnerRow(root, name) ==
  LET Usable(owner) ==
        CASE IsTable(owner) -> owner
          [] owner = Nil /\ Logical(root, Keys(<<"GameState">>), Nil) # Nil -> Empty
          [] OTHER -> Refused
  IN Usable(Logical(root, GameState(name), Nil))

GetIn(owner, key, default) == IF IsTable(owner) THEN Get(owner, key, default) ELSE Refused
GetIfTable(node, key, default) ==
  CASE IsTable(node) -> Get(node, key, default) [] node = Refused -> Refused [] OTHER -> default

NumberOr(node) == IF node.tag = "number" THEN node ELSE Refused

ResourceValue(root, name) ==
  NumberOr(GetIn(Logical(root, GameState("Resources"), Empty), String(name), Number(0)))

MirrorValue(root, i) ==
  LET Pair(left, right) ==
        CASE left = Refused     -> Refused
          [] left # Bool(TRUE)  -> Bool(FALSE)
          [] right = Refused    -> Refused
          [] OTHER              -> Bool(right = Bool(TRUE))
      Row(owner) == Pair(GetIn(owner, String(Rows[i][1]), Nil), GetIn(owner, String(Rows[i][2]), Nil))
  IN Row(OwnerRow(root, "MetaUpgradesUnlocked"))

SelectionValue(root, weapon) ==
  GetIfTable(GetIn(OwnerRow(root, "LastWeaponUpgradeData"), String(weapon), Nil),
             String("Index"), Number(1))

RankValue(root, weapon, i) ==
  NumberOr(GetIfTable(GetIn(Logical(root, GameState("WeaponUnlocks"), Empty), String(weapon), Empty),
                      Number(i), Number(0)))

\* detail: the value of the row, Refused when there is no such row.
RowValue(doc, id) ==
  CASE id.kind = "p"        -> Resolve(doc.root, id.path)
    [] id.kind = "h"        -> Number(doc.header[id.name])
    [] id.kind = "resource" -> ResourceValue(doc.root, id.name)
    [] id.kind = "mirror"   -> MirrorValue(doc.root, id.index)
    [] id.kind = "select"   -> SelectionValue(doc.root, id.name)
    [] id.kind = "rank"     -> RankValue(doc.root, id.name, id.index)

Operations(doc, id) ==
  LET Of(value) ==
        IF value = Refused THEN {}
        ELSE {"set"} \cup (IF id.kind = "p" /\ id.path # <<0>> THEN {"unset"} ELSE {})
                     \cup (IF id.kind = "p" /\ IsTable(value) THEN {"append"} ELSE {})
  IN Of(RowValue(doc, id))

--------------------------------------------------------------------------------
(* The writes of an action. *)

\* Physical places have tokens from 0; a key that is to be made, and a header
\* field, have negative ones.
NewToken(key) == IF key.tag = "string" THEN -Code(key.str) ELSE -(1000 + key.num)
HeaderAddress(field) == <<-1, -Code(field)>>

\* _address
Address(root, keys) ==
  LET New(path) == [i \in 1 .. Len(keys) - Len(path) + 1 |-> NewToken(keys[Len(path) - 1 + i])]
      Reached(w) == IF w.got = "node" THEN w.path ELSE w.path \o New(w.path)
  IN Reached(Walk(root, keys))

RECURSIVE KeysAlong(_, _)
KeysAlong(node, path) ==
  IF path = <<>> THEN <<>>
  ELSE LET entry == node.entries[Index(Head(path))]
       IN <<entry.key>> \o KeysAlong(IF IsValueOf(Head(path)) THEN entry.value ELSE entry.key,
                                     Tail(path))

\* _logical_keys
LogicalKeys(root, path) == KeysAlong(root, Tail(path))

Write(intent, via, address, keys, field, after) ==
  [action |-> intent.id, via |-> via, op |-> intent.op, address |-> address,
   path |-> intent.id.path, keys |-> keys, field |-> field, key |-> intent.key, after |-> after]

\* An address the code refuses to build is refused with the action.
Linkable(root, keys) == Walk(root, keys).got # "bad"

Linked(root, intent, keys, after) ==
  IF Logical(root, keys, Nil) = after THEN <<>>
  ELSE <<Write(intent, "logical", Address(root, keys), keys, "", after)>>

HeaderWrite(doc, intent, field, after) ==
  IF Number(doc.header[field]) = after THEN <<>>
  ELSE <<Write(intent, "header", HeaderAddress(field), <<>>, field, after)>>

\* _HEADER_PROJECTIONS and the mode: what the header repeats of the body.
CacheKeys == GameState("CompletedRunsCache")
ModeKeys  == Keys(<<"GameState", "Flags", "HardMode">>)
Projections == <<[keys |-> CacheKeys, field |-> "completed_runs", tag |-> "number"],
                 [keys |-> ModeKeys, field |-> "hard_mode", tag |-> "bool"]>>

PathWrites(doc, intent) ==
  LET path == intent.id.path
      keys == LogicalKeys(doc.root, path)
  IN IF intent.op = "set" /\ Resolve(doc.root, path) = intent.value THEN <<>>
     ELSE <<Write(intent, "path", path, keys, "", intent.value)>>
            \o (IF intent.op = "set" /\ IsValueOf(Last(path)) /\ keys = CacheKeys
                     /\ intent.value.tag = "number"
                THEN HeaderWrite(doc, intent, "completed_runs", intent.value) ELSE <<>>)

\* The choice of an aspect, which its first rank brings with it.
Chosen(weapon, i) ==
  <<[keys |-> GameState("LastWeaponUpgradeData") \o Keys(<<weapon, "Index">>), after |-> Number(i)],
    [keys |-> GameState("LastInteractedWeaponUpgrade") \o Keys(<<"WeaponName">>),
     after |-> String(weapon)],
    [keys |-> GameState("LastInteractedWeaponUpgrade") \o Keys(<<"ItemIndex">>), after |-> Number(i)]>>

RankKeys(weapon, i) == GameState("WeaponUnlocks") \o <<String(weapon), Number(i)>>

\* What an action that is not physical sets.
Links(root, intent) ==
  LET id == intent.id
  IN CASE id.kind = "resource" ->
            <<[keys |-> GameState("Resources") \o Keys(<<id.name>>), after |-> intent.value]>>
       [] id.kind = "mirror" ->
            [j \in 1 .. 2 |-> [keys |-> GameState("MetaUpgradesUnlocked") \o Keys(<<Rows[id.index][j]>>),
                               after |-> intent.value]]
       [] id.kind = "select" -> Chosen(id.name, intent.value.num)
       [] id.kind = "rank" ->
            <<[keys |-> RankKeys(id.name, id.index), after |-> intent.value]>>
              \o (IF Logical(root, RankKeys(id.name, id.index), Nil) = Nil /\ intent.value.num > 0
                  THEN Chosen(id.name, id.index) ELSE <<>>)

\* What the code accepts as the value of such an action.
Legal(intent) ==
  LET id == intent.id
  IN CASE id.kind \in {"h", "resource"} -> intent.value.tag = "number"
       [] id.kind = "mirror" -> intent.value.tag = "bool"
       [] id.kind = "select" -> intent.value.tag = "number" /\ intent.value.num \in DOMAIN Aspects[id.name]
       [] id.kind = "rank" -> intent.value.tag = "number" /\ intent.value.num <= Aspects[id.name][id.index].maxRank
       [] OTHER -> TRUE

Semantic(intent) == intent.id.kind \notin {"p", "h"}

Acceptable(doc, intent) ==
  /\ intent.op \in Operations(doc, intent.id) /\ Legal(intent)
  /\ Semantic(intent) => LET links == Links(doc.root, intent)
                         IN \A i \in DOMAIN links : Linkable(doc.root, links[i].keys)

WritesOf(doc, intent) ==
  CASE intent.id.kind = "p" -> PathWrites(doc, intent)
    [] intent.id.kind = "h" -> HeaderWrite(doc, intent, intent.id.name, intent.value)
    [] OTHER -> LET links == Links(doc.root, intent)
                IN FlattenSeq([i \in DOMAIN links |->
                                 Linked(doc.root, intent, links[i].keys, links[i].after)])

--------------------------------------------------------------------------------
(* _plan *)

\* The key and the value of one entry are one owner.
SameEntry(shorter, longer) ==
  LET n == Len(shorter)
  IN /\ n > 1 /\ Front(shorter) = SubSeq(longer, 1, n - 1)
     /\ shorter[n] >= 0 /\ longer[n] >= 0 /\ Index(shorter[n]) = Index(longer[n])

\* Only places inside each other.
OverlapsNested(left, right) == IsPrefix(left, right) \/ IsPrefix(right, left)
Overlaps(left, right) ==
  \/ IsPrefix(left, right) \/ IsPrefix(right, left)
  \/ SameEntry(IF Len(left) <= Len(right) THEN left ELSE right,
               IF Len(left) <= Len(right) THEN right ELSE left)

SameWrite(w, v) == w.address = v.address /\ w.op = "set" /\ v.op = "set" /\ w.after = v.after

\* One write after the others: two actions may meet in a place only to set it alike.
Merge(merged, w) ==
  LET met == {i \in DOMAIN merged.writes :
                merged.writes[i].action # w.action /\ Overlaps(merged.writes[i].address, w.address)}
  IN IF met = {} THEN [merged EXCEPT !.writes = Append(@, w)]
     ELSE [merged EXCEPT !.ok = @ /\ SameWrite(merged.writes[CHOOSE i \in met : \A j \in met : i <= j], w)]

Merged(writes) == FoldLeft(Merge, [ok |-> TRUE, writes |-> <<>>], writes)

\* The order of Python's tuples.
Precedes(p, q) ==
  \/ IsStrictPrefix(p, q)
  \/ \E i \in DOMAIN p \cap DOMAIN q : SubSeq(p, 1, i - 1) = SubSeq(q, 1, i - 1) /\ p[i] < q[i]

\* Physical writes start at the end of the document, so that the entries that
\* go do not move those that are still to be written.
LastEntriesFirst(writes) == SortSeq(writes, LAMBDA w, v : Precedes(v.path, w.path))

Via(writes, via) == SelectSeq(writes, LAMBDA w : w.via = via)

EditedPaths(root, writes) ==
  FoldLeft(LAMBDA r, w : Mutate(r, w.path, w.op, w.key, w.after),
           root, LastEntriesFirst(Via(writes, "path")))

\* A renamed key may have become ambiguous, which refuses the basket.
SetByName(edited, w) ==
  IF edited.ok /\ Linkable(edited.root, w.keys)
  THEN [ok |-> TRUE, root |-> LogicalSet(edited.root, w.keys, w.after)]
  ELSE [edited EXCEPT !.ok = FALSE]

Edited(root, writes) ==
  FoldLeft(SetByName, [ok |-> TRUE, root |-> EditedPaths(root, writes)], Via(writes, "logical"))

EditedHeader(header, writes) ==
  FoldLeft(LAMBDA h, w : [h EXCEPT ![w.field] = w.after.num], header, Via(writes, "header"))

\* An aspect may be chosen that is unlocked, or ranked in the same basket.
Choosable(root, intent) ==
  LET i == intent.value.num
      Ranked(rank) == rank.tag = "number" /\ rank.num > 0
  IN intent.id.kind = "select" =>
       \/ Aspects[intent.id.name][i].startsUnlocked
       \/ Ranked(Logical(root, RankKeys(intent.id.name, i), Number(0)))

\* A missing or unreadable value is None before, and is passed over after.
Readable(root, keys) ==
  LET Known(node) == IF node = Refused THEN Nil ELSE node
  IN Known(Logical(root, keys, Nil))

\* The writes in whose hands a change of these keys is.
OwnersInPlace(writes, address) == SelectSeq(writes, LAMBDA w : w.via # "header" /\ w.address = address)
Owners(writes, address) ==
  SelectSeq(writes, LAMBDA w : w.via # "header" /\ (IsPrefix(address, w.address) \/ IsPrefix(w.address, address)))

\* The effect that the review shows for it.
ToldNothing(plan, field) == plan.told
Told(plan, field) == plan.told \cup {field}

\* A changed value of the body goes to the header too, unless the basket says
\* otherwise there; the review of the first owner tells so.
Project(doc, plan, projection) ==
  LET before  == Readable(doc.root, projection.keys)
      owners  == Owners(plan.writes, Address(doc.root, projection.keys))
      staged  == SelectSeq(plan.writes, LAMBDA w : w.via = "header" /\ w.field = projection.field)
      Projected(after) ==
        IF after = before \/ after.tag # projection.tag THEN plan
        ELSE IF ~Linkable(doc.root, projection.keys) THEN [plan EXCEPT !.ok = FALSE]
        ELSE IF owners = <<>> THEN plan
        ELSE IF staged # <<>> THEN [plan EXCEPT !.ok = @ /\ staged[1].after.num = after.num]
        ELSE [plan EXCEPT !.header[projection.field] = after.num,
                          !.told = Told(plan, projection.field)]
  IN Projected(Readable(plan.root, projection.keys))

\* The actions that write something, each shown with all that it writes.
Actions(doc, intents) == SelectSeq(intents, LAMBDA i : WritesOf(doc, i) # <<>>)

NoPlan(doc) == [ok |-> FALSE, root |-> doc.root, header |-> doc.header, writes |-> <<>>, told |-> {}]

Planned(doc, intents) ==
  LET Carried(edited, writes) ==
        [ok |-> edited.ok, root |-> edited.root, header |-> EditedHeader(doc.header, writes),
         writes |-> writes, told |-> {}]
      Base(merged) == IF merged.ok THEN Carried(Edited(doc.root, merged.writes), merged.writes)
                                   ELSE NoPlan(doc)
      Checked(plan) == [plan EXCEPT
        !.ok = @ /\ (\A i \in DOMAIN intents : Choosable(plan.root, intents[i]))
                 /\ IsTable(plan.root) /\ Encodable(plan.root, 0)]
      writes == FlattenSeq([i \in DOMAIN intents |-> WritesOf(doc, intents[i])])
  IN Checked(FoldLeft(LAMBDA p, projection : Project(doc, p, projection),
                      Base(Merged(writes)), Projections))

Plan(doc, intents) ==
  IF \A i \in DOMAIN intents : Acceptable(doc, intents[i]) THEN Planned(doc, intents) ELSE NoPlan(doc)

--------------------------------------------------------------------------------
(* The requests of the window. *)

Opened(gen) == [gen |-> gen, doc |-> Content(document)]

\* open: the session of one pinned save.
Init ==
  /\ \E d \in Documents : file = GameFile(d.header, d.root)
  /\ document = FromBytes(file)
  /\ locked = FALSE /\ pending = <<>> /\ generation = 1 /\ stages = 0
  /\ views = <<Opened(1)>>

\* pending[id] = intent
Staged(intent) ==
  IF \E i \in DOMAIN pending : pending[i].id = intent.id
  THEN [i \in DOMAIN pending |-> IF pending[i].id = intent.id THEN intent ELSE pending[i]]
  ELSE Append(pending, intent)

\* What writes nothing leaves the basket, and so does a value that is there.
Settled(intent, intents) ==
  SelectSeq(Actions(document, intents),
            LAMBDA i : ~(i.id = intent.id /\ i.op = "set" /\ i.value = RowValue(document, i.id)))

\* stage, from a control of any window that was ever shown.
Stage(asked, view) ==
  LET intent == [id |-> asked.id, op |-> asked.op, key |-> asked.key, value |-> asked.value,
                 seen |-> RowValue(view.doc, asked.id)]
  IN /\ stages < MaxStages /\ stages' = stages + 1
     /\ asked.op \in Operations(view.doc, asked.id)
     /\ view.gen = generation
     /\ Plan(document, Staged(intent)).ok
     /\ pending' = Settled(intent, Staged(intent))
     /\ UNCHANGED <<document, file, locked, generation, views>>

Unstage(i) ==
  /\ Plan(document, RemoveAt(pending, i)).ok
  /\ pending' = RemoveAt(pending, i)
  /\ UNCHANGED <<document, file, locked, generation, views, stages>>

Cancel ==
  /\ pending # <<>> /\ pending' = <<>>
  /\ UNCHANGED <<document, file, locked, generation, views, stages>>

\* What Apply installs: the clone of the document, edited.
Candidate ==
  LET Edit(plan, clone) ==
        Document(plan.header, plan.root, clone.originalLua, clone.originalCompressed)
  IN Edit(Plan(document, pending), Clone(document))

Applicable ==
  /\ ~locked /\ pending # <<>> /\ generation <= MaxApplies
  /\ Plan(document, pending).ok /\ ToBytes(Candidate) # file

\* Controls of the document before are dead from here.
KeepGeneration == generation
NextGeneration == generation + 1

Apply ==
  /\ Applicable
  /\ document' = Candidate /\ file' = ToBytes(Candidate)
  /\ pending' = <<>> /\ generation' = NextGeneration
  /\ views' = Append(views, [gen |-> generation', doc |-> Content(document')])
  /\ UNCHANGED <<locked, stages>>

\* The replacement failed and could not be undone: the document and the basket
\* stay, and nothing is applied before the recovery.
ApplyLost ==
  /\ Applicable
  /\ locked' = TRUE
  /\ file' \in {file, ToBytes(Candidate)}
  /\ UNCHANGED <<document, pending, generation, views, stages>>

Next ==
  \/ \E asked \in Intents, i \in DOMAIN views : Stage(asked, views[i])
  \/ \E i \in DOMAIN pending : Unstage(i)
  \/ Cancel \/ Apply \/ ApplyLost

Spec == Init /\ [][Next]_vars

--------------------------------------------------------------------------------
(* Properties *)

\* Every action of the basket edits the entry that the user saw when the action
\* was staged, however many Applies have moved the entries since the control
\* was shown.
SeenTrue == \A i \in DOMAIN pending : pending[i].seen = RowValue(document, pending[i].id)

\* What a basket means, read off the pinned document all at once: each entry
\* replaced, renamed, dropped or kept in its place, and the new ones at the end.
RECURSIVE Image(_, _, _)
Image(node, path, writes) ==
  LET set == {i \in DOMAIN writes : writes[i].op = "set" /\ writes[i].path = path}
      Dropped(i) == \E j \in DOMAIN writes :
                      writes[j].op = "unset"
                        /\ writes[j].path \in {Append(path, ValueToken(i)), Append(path, KeyToken(i))}
      kept == {i \in DOMAIN node.entries : ~Dropped(i)}
      new  == SelectSeq(writes, LAMBDA w : w.op = "append" /\ w.path = path)
      order == SetToSortSeq(kept, <)
  IN IF set # {} THEN writes[CHOOSE i \in set : TRUE].after
     ELSE IF ~IsTable(node) THEN node
     ELSE Table(Cardinality(kept \cap (1 .. node.array)),
                [j \in DOMAIN order |->
                   Entry(Image(node.entries[order[j]].key, Append(path, KeyToken(order[j])), writes),
                         Image(node.entries[order[j]].value, Append(path, ValueToken(order[j])), writes))]
                  \o [j \in DOMAIN new |-> Entry(new[j].key, new[j].after)])

\* Edits of a basket do not disturb each other: whatever it removes, renames,
\* replaces and adds, in one table or in nested ones, each edit lands on the
\* entry it names and every other entry, its place and the counts of its table
\* stay; and what an action sets by name is so afterwards.
Undisturbed(plan) ==
  LET links == Via(plan.writes, "logical")
  IN /\ plan.ok
     /\ plan.root = FoldLeft(LAMBDA r, w : LogicalSet(r, w.keys, w.after),
                             Image(document.root, <<0>>, Via(plan.writes, "path")), links)
     /\ \A i \in DOMAIN links : Logical(plan.root, links[i].keys, Nil) = links[i].after

BatchTrue == Undisturbed(Plan(document, pending))

\* The scalars below a node, with the keys on the way.
RECURSIVE Leaves(_, _)
Leaves(node, keys) ==
  IF ~IsTable(node) THEN <<[keys |-> keys, node |-> node]>>
  ELSE FlattenSeq([i \in DOMAIN node.entries |->
                     Leaves(node.entries[i].value, Append(keys, node.entries[i].key))])

ValuesAt(leaves, keys) == SelectSeq(leaves, LAMBDA l : l.keys = keys)

IsKeyOf(path) == Len(path) > 1 /\ ~IsValueOf(Last(path))

\* The keys an action of the review names: its entry, what it is renamed to, what is added.
NamedBy(w) ==
  {w.keys} \cup (CASE w.op = "append" -> {Append(w.keys, w.key)}
                   [] w.via = "path" /\ IsKeyOf(w.path) -> {Append(Front(w.keys), w.after)}
                   [] OTHER -> {})

\* The review tells the whole truth: a value of the body or a field of the
\* header that differs in the planned document is named by an action or an
\* effect of the review, linked records and header projections included.
AllTold(plan) ==
  LET writes == {plan.writes[i] : i \in DOMAIN plan.writes}
      named  == UNION {NamedBy(w) : w \in {v \in writes : v.via # "header"}}
      fields == plan.told \cup {w.field : w \in {v \in writes : v.via = "header"}}
      old    == Leaves(document.root, <<>>)
      new    == Leaves(plan.root, <<>>)
  IN /\ \A f \in DOMAIN plan.header : plan.header[f] # document.header[f] => f \in fields
     /\ \A keys \in {old[i].keys : i \in DOMAIN old} \cup {new[i].keys : i \in DOMAIN new} :
          ValuesAt(old, keys) # ValuesAt(new, keys) => \E n \in named : IsPrefix(n, keys)

ReviewTrue == AllTold(Plan(document, pending))

\* The header repeats a cache or a mode that the basket changes in the body,
\* whether in place, by replacing a subtree above it or by adding it.  A
\* renamed entry is not followed.
Follows(plan) ==
  \A i \in DOMAIN Projections :
    LET keys  == Projections[i].keys
        after == Readable(plan.root, keys)
    IN after # Readable(document.root, keys) /\ after.tag = Projections[i].tag
         /\ (\A j \in DOMAIN plan.writes :
               ~(plan.writes[j].via = "path" /\ IsKeyOf(plan.writes[j].path)))
       => plan.header[Projections[i].field] = after.num

HeaderFollows == Follows(Plan(document, pending))

\* What is installed reads back as the document of the editor, and the body of
\* a save whose globals did not change keeps every byte of the compression the
\* game chose; after an Apply that was lost nothing is written any more.
FileTrue ==
  [][file' # file =>
       /\ ~locked
       /\ ~locked' =>
            /\ Content(FromBytes(file')) = Content(document')
            /\ Encode(document'.root) = Encode(document.root) => file'.body = file.body]_vars

\* An occurrence of a key that is there twice can be removed in Advanced.
AmbiguityRepairable ==
  \A asked \in Intents :
    asked.op = "unset" /\ "unset" \in Operations(document, asked.id)
      => Plan(document, <<[id |-> asked.id, op |-> "unset", key |-> Nil, value |-> Nil]>>).ok
================================================================================
