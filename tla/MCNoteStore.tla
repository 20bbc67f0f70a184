----------------------------- MODULE MCNoteStore ------------------------------
(* A small instance of NoteStore for TLC: two notes related in both directions. *)
EXTENDS NoteStore, TLC

CONSTANTS b1, b2, s1, s2, t1, t2, r1, r2

MCPairs == {<<1, 2>>, <<2, 1>>}
MCBodies == {b1, b2}
MCStyles == {s1, s2}
MCTypes == {t1, t2}
MCRelTypes == {r1, r2}

Symmetric ==
  Permutations(MCBodies) \cup Permutations(MCTypes) \cup Permutations(MCStyles) \cup Permutations(MCRelTypes)
===============================================================================
