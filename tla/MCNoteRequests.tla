---------------------------- MODULE MCNoteRequests ----------------------------
(* A small instance of NoteRequests for TLC: two notes, related either way. *)
EXTENDS NoteRequests

MCPairs == {<<1, 2>>, <<2, 1>>}
===============================================================================
