--------------------------- MODULE MCSaveTransaction ---------------------------
(* Two declared files, so that one can be mutated and the other not yet. *)
EXTENDS SaveTransaction

MCKeys  == {"profile", "temp"}
MCBytes == {"old", "new", "game"}

Files(profile, temp) == [k \in MCKeys |-> IF k = "profile" THEN profile ELSE temp]

Restore(target, preserve) ==
  [kind |-> "restore", target |-> target, owned |-> MCKeys, preserve |-> preserve,
   pinned |-> TRUE, expected |-> NoFiles]

Replacement(pinned) ==
  [kind |-> "replace", target |-> Files("new", Absent), owned |-> {"profile"},
   preserve |-> TRUE, pinned |-> pinned, expected |-> Files("old", Absent)]

\* A snapshot that lacks a file, and the two editors' Apply.
MCRequests == {Restore(Files("new", Absent), FALSE), Replacement(TRUE), Replacement(FALSE)}
================================================================================
