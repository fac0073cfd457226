----------------------------- MODULE MCLogStore -----------------------------
(* LogStore for TLC: the configuration gives every constant its value.    *)
EXTENDS LogStore, TLC

\* Slots and places are interchangeable.
Alike == Permutations(Slots) \cup Permutations(Places)
=============================================================================
