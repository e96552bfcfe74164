--------------------------- MODULE MCDesiredState ---------------------------
(* A document with both a held amount and Infinite Gold, as an editor may    *)
(* have left it, with an earlier version's profile that asks for a faster    *)
(* clock and a reward; and documents and profiles that cannot be used.       *)
EXTENDS DesiredState

Edited  == [infinite |-> TRUE, lock |-> 2, token |-> 0, speed |-> 1]
Shelf   == [infinite |-> FALSE, lock |-> 2, token |-> 1, speed |-> 2]
Pair(file, profile) == [file |-> file, profile |-> profile]

MCFound ==
  {Pair(Document(Edited), Earlier([Shelf EXCEPT !.infinite = TRUE])),
   Pair(Damaged, Later), Pair(Later, Damaged), Pair(Later, Ancient)}
====
