----------------------------- MODULE MCHadesRuntime -----------------------------
(* A document with a held amount, a rarity of its own and a faster clock, and  *)
(* a profile with Infinite Gold.                                               *)
EXTENDS HadesRuntime

MCStored   == {[guard |-> FALSE, lock |-> 1, rarity |-> Natural, speed |-> 2]}
MCProfiles == {[guard |-> TRUE, lock |-> NoLock, rarity |-> Heroic, speed |-> 1]}
=============================================================================
