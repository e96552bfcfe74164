------------------------------ MODULE SaveCells ------------------------------
(***************************************************************************)
(* The decoded Lua state of a Hades II save, as the planners of the save   *)
(* editor see it: scalar cells, each named by its owner table and its key. *)
(* A cell is a triple <<owner, name, part>>; part tells the tiers of an    *)
(* upgrade or the resource of a gift apart and is 0 where there is none.   *)
(*                                                                         *)
(* A document keeps the cells by the Lua type they store: the booleans     *)
(* stored true and stored false (an absent one is neither), the numbers    *)
(* and the strings.  Every owner is well formed and unique: a malformed or *)
(* ambiguous owner has no writable entry and is left out.                  *)
(***************************************************************************)
EXTENDS Integers, Sequences, FiniteSets, Functions

CONSTANTS
  NumberOwners,   \* owner tables whose cells hold numbers
  TextOwners      \* owner tables whose cells hold strings

ASSUME OwnersAssumption == NumberOwners \cap TextOwners = {}

(***************************************************************************)
(* A value that may be missing is a sequence of at most one element.       *)
(***************************************************************************)
Absent == << >>

IsNumber(cell) == cell[1] \in NumberOwners
IsText(cell)   == cell[1] \in TextOwners

\* resolve_path with KeyError read as absent (read, _read)
Value(doc, cell) ==
  IF IsNumber(cell)
    THEN IF cell \in DOMAIN doc.num THEN <<doc.num[cell]>> ELSE Absent
  ELSE IF IsText(cell)
    THEN IF cell \in DOMAIN doc.text THEN <<doc.text[cell]>> ELSE Absent
  ELSE IF cell \in doc.on THEN <<TRUE>>
  ELSE IF cell \in doc.off THEN <<FALSE>> ELSE Absent

\* Lua truth of a boolean cell (_flag)
Flag(doc, cell) == cell \in doc.on

Number(doc, cell) == IF cell \in DOMAIN doc.num THEN doc.num[cell] ELSE 0

(***************************************************************************)
(* Writing cells: switching booleans on, storing one value, and removing.  *)
(***************************************************************************)
SwitchOn(doc, cells) ==
  [doc EXCEPT !.on = @ \cup cells, !.off = @ \ cells]

Drop(doc, cells) ==
  [on   |-> doc.on \ cells,
   off  |-> doc.off \ cells,
   num  |-> Restrict(doc.num, DOMAIN doc.num \ cells),
   text |-> Restrict(doc.text, DOMAIN doc.text \ cells)]

PutNumber(doc, cell, n) ==
  [doc EXCEPT !.num = [c \in DOMAIN @ \cup {cell} |-> IF c = cell THEN n ELSE @[c]]]

PutText(doc, cell, s) ==
  [doc EXCEPT !.text = [c \in DOMAIN @ \cup {cell} |-> IF c = cell THEN s ELSE @[c]]]

\* value is Absent or <<v>>
Put(doc, cell, value) ==
  IF value = Absent THEN Drop(doc, {cell})
  ELSE IF IsNumber(cell) THEN PutNumber(doc, cell, value[1])
  ELSE IF IsText(cell) THEN PutText(doc, cell, value[1])
  ELSE IF value[1] THEN SwitchOn(doc, {cell})
  ELSE [doc EXCEPT !.on = @ \ {cell}, !.off = @ \cup {cell}]

Cells(doc) == doc.on \cup doc.off \cup DOMAIN doc.num \cup DOMAIN doc.text

\* changed_paths: the cells two documents disagree on
ChangedCells(before, after) ==
  {c \in Cells(before) \cup Cells(after) : Value(before, c) # Value(after, c)}
==============================================================================
