------------------------------ MODULE Lz4Block ------------------------------
(***************************************************************************)
(* Raw LZ4 blocks (Backend/core/lz4_block.py): a greedy compressor with    *)
(* one candidate per hash slot, and the decompressor.  Bytes are numbers;  *)
(* positions are counted from 0, as in the code.                           *)
(***************************************************************************)
EXTENDS Integers, Sequences, SequencesExt

\* payload[from:to] and payload[at]
Slice(payload, from, to) == SubSeq(payload, from + 1, to)
ByteAt(payload, at) == payload[at + 1]

Lesser(a, b)  == IF a < b THEN a ELSE b
Copies(n, b)  == [i \in 1 .. n |-> b]

--------------------------------------------------------------------------------
(* compress *)

\* write_extension
Extension(length) == Append(Copies(length \div 255, 255), length % 255)

Extended(length) == IF length >= 15 THEN Extension(length - 15) ELSE <<>>

\* emit: a run of literals and, unless it is the last one, a match.
Emit(payload, anchor, start, matched, offset) ==
  LET literals == start - anchor
      code     == IF matched = 0 THEN 0 ELSE matched - 4
  IN <<16 * Lesser(literals, 15) + Lesser(code, 15)>>
       \o Extended(literals) \o Slice(payload, anchor, start)
       \o (IF matched = 0 THEN <<>>
           ELSE <<offset % 256, offset \div 256>> \o Extended(code))

\* hash_at spreads four bytes over the slots of the table; two quadruples may
\* share a slot.
Slots == 0 .. 15
HashAt(payload, at) ==
  (ByteAt(payload, at) + 3 * ByteAt(payload, at + 1)
     + 5 * ByteAt(payload, at + 2) + 7 * ByteAt(payload, at + 3)) % 16

\* The table after the positions from .. to were entered.
Entered(payload, last, from, to) ==
  FoldLeft(LAMBDA table, i : [table EXCEPT ![HashAt(payload, from + i - 1)] = from + i - 1],
           last, [i \in 1 .. to - from + 1 |-> i])

\* The match may not reach into the last five bytes, which are literals.
MatchLimit(payload) == Len(payload) - 5

RECURSIVE MatchLength(_, _, _, _)
MatchLength(payload, candidate, pos, matched) ==
  IF matched < MatchLimit(payload) - pos
       /\ ByteAt(payload, candidate + matched) = ByteAt(payload, pos + matched)
  THEN MatchLength(payload, candidate, pos, matched + 1)
  ELSE matched

Matches(payload, candidate, pos) ==
  /\ candidate >= 0 /\ pos - candidate <= 65535
  /\ Slice(payload, candidate, candidate + 4) = Slice(payload, pos, pos + 4)

RECURSIVE Greedy(_, _, _, _)
Greedy(payload, anchor, pos, last) ==
  IF pos > Len(payload) - 12 THEN Emit(payload, anchor, Len(payload), 0, 0)
  ELSE LET candidate == last[HashAt(payload, pos)]
       IN IF ~Matches(payload, candidate, pos)
          THEN Greedy(payload, anchor, pos + 1, Entered(payload, last, pos, pos))
          ELSE LET matched == MatchLength(payload, candidate, pos, 4)
                   end     == pos + matched
               IN Emit(payload, anchor, pos, matched, pos - candidate)
                    \o Greedy(payload, end, end, Entered(payload, last, pos, end - 4))

Compress(payload) ==
  IF Len(payload) < 13 THEN Emit(payload, 0, Len(payload), 0, 0)
  ELSE Greedy(payload, 0, 0, [s \in Slots |-> -1])

--------------------------------------------------------------------------------
(* decompress: none of the code's refusals; a block that is not well formed *)
(* has no value.                                                            *)

\* read_extension: the sum and the position behind it.
RECURSIVE ReadExtension(_, _)
ReadExtension(source, pos) ==
  LET b == ByteAt(source, pos)
      r == ReadExtension(source, pos + 1)
  IN IF b = 255 THEN <<255 + r[1], r[2]>> ELSE <<b, pos + 1>>

ReadLength(source, nibble, pos) ==
  IF nibble < 15 THEN <<nibble, pos>>
  ELSE LET r == ReadExtension(source, pos) IN <<15 + r[1], r[2]>>

\* The match may overlap what it produces: the last offset bytes, repeated.
Periodic(output, offset, length) ==
  [i \in 1 .. length |-> ByteAt(output, Len(output) - offset + ((i - 1) % offset))]

RECURSIVE Unpack(_, _, _)
Unpack(source, pos, output) ==
  IF pos >= Len(source) THEN output
  ELSE LET token    == ByteAt(source, pos)
           literals == ReadLength(source, token \div 16, pos + 1)
           at       == literals[2] + literals[1]
           plain    == output \o Slice(source, literals[2], at)
       IN IF at = Len(source) THEN plain
          ELSE LET offset == ByteAt(source, at) + 256 * ByteAt(source, at + 1)
                   match  == ReadLength(source, token % 16, at + 2)
               IN Unpack(source, match[2], plain \o Periodic(plain, offset, match[1] + 4))

Decompress(source) == Unpack(source, 0, <<>>)
==============================================================================
