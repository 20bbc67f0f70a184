---------------------------- MODULE KnowledgeGraph ----------------------------
(***************************************************************************)
(* What the note store promises its readers: one user's notes and          *)
(* relationships form a graph.  Its nodes are the notes that are not       *)
(* deleted, its edges the relationships that are not deleted.  An edge     *)
(* always joins two nodes, removing a node removes its edges in the same   *)
(* step, and a node that was removed never comes back under its id.        *)
(* Versions, tombstones, hashes, the search table and the purge are below  *)
(* this level; NoteStore implements it.                                    *)
(***************************************************************************)
EXTENDS Functions

CONSTANTS Nodes,       \* every id a node may get
          Contents,    \* what a node shows
          EdgeTypes

VARIABLES content,     \* the nodes of the graph, each with what it shows
          edges,       \* the edges, by ordered pair of nodes, each with its type
          retired      \* ids that were used once and are no node any more

graph == <<content, edges, retired>>

Put(table, key, row) ==
  [k \in DOMAIN table \cup {key} |-> IF k = key THEN row ELSE table[k]]

Empty == [k \in {} |-> k]

Unused == Nodes \ (DOMAIN content \cup retired)

GraphInit ==
  /\ content = Empty
  /\ edges = Empty
  /\ retired = {}

AddNode(n, c) ==
  /\ n \in Unused
  /\ content' = Put(content, n, c)
  /\ UNCHANGED <<edges, retired>>

\* A client may deliver a note it has already deleted: its id is used up at once.
DiscardNode(n) ==
  /\ n \in Unused
  /\ retired' = retired \cup {n}
  /\ UNCHANGED <<content, edges>>

EditNode(n, c) ==
  /\ n \in DOMAIN content
  /\ content' = [content EXCEPT ![n] = c]
  /\ UNCHANGED <<edges, retired>>

RemoveNode(n) ==
  /\ n \in DOMAIN content
  /\ content' = Restrict(content, DOMAIN content \ {n})
  /\ edges' = Restrict(edges, {e \in DOMAIN edges : e[1] # n /\ e[2] # n})
  /\ retired' = retired \cup {n}

\* Adds an edge or changes the type of one that is there.
PutEdge(a, b, t) ==
  /\ {a, b} \subseteq DOMAIN content
  /\ edges' = Put(edges, <<a, b>>, t)
  /\ UNCHANGED <<content, retired>>

RemoveEdge(e) ==
  /\ e \in DOMAIN edges
  /\ edges' = Restrict(edges, DOMAIN edges \ {e})
  /\ UNCHANGED <<content, retired>>

GraphNext ==
  \/ \E n \in Nodes : DiscardNode(n) \/ RemoveNode(n)
  \/ \E n \in Nodes, c \in Contents : AddNode(n, c) \/ EditNode(n, c)
  \/ \E a, b \in Nodes, t \in EdgeTypes : PutEdge(a, b, t)
  \/ \E a, b \in Nodes : RemoveEdge(<<a, b>>)

GraphSpec == GraphInit /\ [][GraphNext]_graph
===============================================================================
