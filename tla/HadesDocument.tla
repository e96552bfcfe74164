---------------------------- MODULE HadesDocument ----------------------------
(***************************************************************************)
(* A saved document of the first game (Backend/games/hades/                *)
(* save_document.py, save_values.py): a header and a tree of Lua values    *)
(* that keeps every physical entry, its order and the counts of each       *)
(* table, encoded as luabins in an LZ4 block.                              *)
(*                                                                         *)
(* A string and the eight bytes of a number are one byte of the encoding   *)
(* each.  Of the saved globals there is one, the root table.  An operator  *)
(* returns Refused where the code raises.                                  *)
(***************************************************************************)
EXTENDS Lz4Block, FiniteSets

CONSTANTS
  Names,     \* the strings that occur, a sequence: their codes
  MaxDepth   \* MAX_TABLE_DEPTH

ASSUME NamesAssumption == IsInjective(Names)
ASSUME DepthAssumption == MaxDepth \in Nat

Node(tag, num, str, array, entries) ==
  [tag |-> tag, num |-> num, str |-> str, array |-> array, entries |-> entries]

Nil       == Node("nil", 0, "", 0, <<>>)
Bool(b)   == Node("bool", IF b THEN 1 ELSE 0, "", 0, <<>>)
Number(n) == Node("number", n, "", 0, <<>>)
String(s) == Node("string", 0, s, 0, <<>>)
Table(array, entries) == Node("table", 0, "", array, entries)
Empty     == Table(0, <<>>)
Refused   == Node("refused", 0, "", 0, <<>>)

IsTable(node) == node.tag = "table"
Entry(key, value) == [key |-> key, value |-> value]

--------------------------------------------------------------------------------
(* Keys: LuaTable._index, and the walks logical and physical along them. *)

\* same_key: a table is the same key as itself only.
SameKey(left, right) == left = right /\ ~IsTable(left)

Occurrences(table, key) == {i \in DOMAIN table.entries : SameKey(table.entries[i].key, key)}

\* Where a walk ends: at a node, at a key that is missing, or at a scalar or
\* an ambiguous key, which the code refuses.
Arrival(got, path, node) == [got |-> got, path |-> path, node |-> node]

\* The token of the value or of the key of the i-th entry.
ValueToken(i) == 2 * (i - 1) + 1
KeyToken(i)   == 2 * (i - 1)

RECURSIVE Follow(_, _, _)
Follow(node, path, keys) ==
  IF keys = <<>> THEN Arrival("node", path, node)
  ELSE IF ~IsTable(node) THEN Arrival("bad", path, node)
  ELSE LET found == Occurrences(node, Head(keys))
       IN CASE found = {}              -> Arrival("missing", path, node)
            [] Cardinality(found) > 1  -> Arrival("bad", path, node)
            [] OTHER -> LET i == CHOOSE j \in found : TRUE
                        IN Follow(node.entries[i].value, Append(path, ValueToken(i)), Tail(keys))

Walk(root, keys) == Follow(root, <<0>>, keys)

\* logical, with what stands for a missing node.
Found(arrival, default) ==
  CASE arrival.got = "node" -> arrival.node [] arrival.got = "missing" -> default [] OTHER -> Refused

Logical(root, keys, default) == Found(Walk(root, keys), default)

\* table.get(key, default)
Get(table, key, default) == Logical(table, <<key>>, default)

--------------------------------------------------------------------------------
(* Physical paths: save_values.resolve and mutate. *)

Index(token)   == token \div 2 + 1
IsValueOf(token) == token % 2 = 1

\* The node at a path, Refused where an entry does not exist.
RECURSIVE At(_, _)
At(node, path) ==
  IF path = <<>> THEN node
  ELSE IF ~IsTable(node) \/ Index(Head(path)) \notin DOMAIN node.entries THEN Refused
  ELSE LET entry == node.entries[Index(Head(path))]
       IN At(IF IsValueOf(Head(path)) THEN entry.value ELSE entry.key, Tail(path))

Resolve(root, path) == At(root, Tail(path))

\* The same with new in its place.
RECURSIVE Put(_, _, _)
Put(node, path, new) ==
  IF path = <<>> THEN new
  ELSE LET i == Index(Head(path))
       IN IF IsValueOf(Head(path))
          THEN [node EXCEPT !.entries[i].value = Put(@, Tail(path), new)]
          ELSE [node EXCEPT !.entries[i].key = Put(@, Tail(path), new)]

\* A new entry joins the hash part; one that goes leaves the part it was in.
AppendEntry(table, key, value) == [table EXCEPT !.entries = Append(@, Entry(key, value))]

RemoveEntry(table, i) ==
  [table EXCEPT !.entries = RemoveAt(@, i), !.array = IF i <= @ THEN @ - 1 ELSE @]

Mutate(root, path, op, key, value) ==
  CASE op = "append" -> Put(root, Tail(path), AppendEntry(Resolve(root, path), key, value))
    [] op = "set"    -> Put(root, Tail(path), value)
    [] op = "unset"  -> Put(root, Tail(Front(path)),
                            RemoveEntry(Resolve(root, Front(path)), Index(Last(path))))

\* _logical_set: tables on the way are made.
RECURSIVE LogicalSet(_, _, _)
LogicalSet(node, keys, value) ==
  IF keys = <<>> THEN value
  ELSE LET found == Occurrences(node, Head(keys))
       IN IF found = {} THEN AppendEntry(node, Head(keys), LogicalSet(Empty, Tail(keys), value))
          ELSE LET i == CHOOSE j \in found : TRUE
               IN [node EXCEPT !.entries[i].value = LogicalSet(@, Tail(keys), value)]

--------------------------------------------------------------------------------
(* encode_lua and decode_lua *)

Code(name) == CHOOSE i \in DOMAIN Names : Names[i] = name

RECURSIVE Encode(_), EncodeEntries(_)
Encode(node) ==
  CASE node.tag = "nil"    -> <<45>>
    [] node.tag = "bool"   -> <<48 + node.num>>
    [] node.tag = "number" -> <<78, node.num>>
    [] node.tag = "string" -> <<83, Code(node.str)>>
    [] node.tag = "table"  -> <<84, node.array, Len(node.entries) - node.array>>
                                \o EncodeEntries(node.entries)
EncodeEntries(entries) ==
  IF entries = <<>> THEN <<>>
  ELSE Encode(Head(entries).key) \o Encode(Head(entries).value) \o EncodeEntries(Tail(entries))

\* A node and the position behind it.
RECURSIVE Decode(_, _), DecodeEntries(_, _, _)
Decode(data, pos) ==
  LET tag == ByteAt(data, pos)
  IN CASE tag = 45         -> <<Nil, pos + 1>>
       [] tag \in {48, 49} -> <<Bool(tag = 49), pos + 1>>
       [] tag = 78         -> <<Number(ByteAt(data, pos + 1)), pos + 2>>
       [] tag = 83         -> <<String(Names[ByteAt(data, pos + 1)]), pos + 2>>
       [] tag = 84 ->
            LET array == ByteAt(data, pos + 1)
                rest  == DecodeEntries(data, pos + 3, array + ByteAt(data, pos + 2))
            IN <<Table(array, rest[1]), rest[2]>>
DecodeEntries(data, pos, total) ==
  IF total = 0 THEN << <<>>, pos >>
  ELSE LET key   == Decode(data, pos)
           value == Decode(data, key[2])
           rest  == DecodeEntries(data, value[2], total - 1)
       IN << <<Entry(key[1], value[1])>> \o rest[1], rest[2] >>

\* What neither the encoder nor the decoder refuses: keys that are values, and
\* tables that are not nested too deep.
RECURSIVE Encodable(_, _)
Encodable(node, depth) ==
  IsTable(node) =>
    /\ depth <= MaxDepth
    /\ \A i \in DOMAIN node.entries :
         /\ node.entries[i].key # Nil
         /\ Encodable(node.entries[i].key, depth + 1)
         /\ Encodable(node.entries[i].value, depth + 1)

--------------------------------------------------------------------------------
(* Documents and files.  A document remembers the body it was read from.  *)

Document(header, root, lua, body) ==
  [header |-> header, root |-> root, originalLua |-> lua, originalCompressed |-> body]

\* The body is always compressed again.
ToBytesAnew(doc) == [header |-> doc.header, body |-> Compress(Encode(doc.root))]
ToBytes(doc) ==
  LET Body(lua) == IF lua = doc.originalLua THEN doc.originalCompressed ELSE Compress(lua)
  IN [header |-> doc.header, body |-> Body(Encode(doc.root))]

FromBytes(file) ==
  LET Read(lua) == Document(file.header, Decode(lua, 0)[1], lua, file.body)
  IN Read(Decompress(file.body))

Clone(doc) == FromBytes(ToBytes(doc))

\* A file as the game writes it: here, one run of literals.
GameFile(header, root) ==
  LET Literals(lua) == Emit(lua, 0, Len(lua), 0, 0)
  IN [header |-> header, body |-> Literals(Encode(root))]
==============================================================================
