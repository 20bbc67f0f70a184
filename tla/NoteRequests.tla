----------------------------- MODULE NoteRequests -----------------------------
(***************************************************************************)
(* The requests of NoteStore taken apart.  Each request runs in a database *)
(* session of its own and one transaction, under PostgreSQL's default READ *)
(* COMMITTED: its SELECTs see what others committed before, its UPDATEs    *)
(* take row locks that it holds until it commits, and nothing it wrote is  *)
(* seen by others before that.  No row is read FOR UPDATE and no version   *)
(* column is checked by the ORM, so what a request read may be stale by    *)
(* the time it writes.                                                     *)
(*                                                                         *)
(* The notes exist when the model starts (an insert meets no other request *)
(* before it commits) and are not purged (the purge runs weeks later).  A  *)
(* request that answers without writing (404, rejected, unchanged) is not  *)
(* a step.                                                                 *)
(***************************************************************************)
EXTENDS Naturals, FiniteSets, Functions

CONSTANTS Requests,    \* requests; each is served once
          Script,      \* the repair script, run again and again
          NoteIds,
          Titles,
          Contents,
          Pairs,       \* the ordered pairs of notes that requests relate
          Versions     \* bound: the versions a device pushes

Processes == Requests \cup {Script}

ASSUME ScriptAssumption == Script \notin Requests
ASSUME NoteIdsAssumption == NoteIds \subseteq Nat /\ Pairs \subseteq NoteIds \X NoteIds
ASSUME VersionsAssumption == Versions \subseteq Nat \ {0}
ASSUME TextsAssumption == Titles # {} /\ Contents # {}

VARIABLES notes,          \* what is committed: note id -> row
          search,         \* note id -> {} or {the body its search row indexes}
          relationships,  \* pair -> row
          todo,           \* process -> what its transaction has yet to write
          written,        \* process -> what it wrote and did not commit, under locks
          running,        \* processes inside a transaction
          served,         \* requests that were answered
          overlapped      \* history: notes that two processes worked on at once

tables == <<notes, search, relationships>>
vars == <<notes, search, relationships, todo, written, running, served, overlapped>>

-------------------------------------------------------------------------------
(* Rows.  A change is a row restricted to the columns it sets. *)
Hash(title, content) == <<title, content>>
Body(row) == <<row.title, row.content>>

\* Mutant: the UPDATE sets every column to the value in memory.
ChangedAll(loaded, row) == row

\* The ORM's UPDATE sets the columns whose value differs from the one it loaded.
Changed(loaded, row) == Restrict(row, {c \in DOMAIN loaded : row[c] # loaded[c]})

Overwrite(row, change) ==
  [c \in DOMAIN row |-> IF c \in DOMAIN change THEN change[c] ELSE row[c]]

Edited(row, title, content, version) ==
  [row EXCEPT !.title = title, !.content = content,
              !.hash = Hash(title, content), !.version = version]

Deleted(row, version) == [row EXCEPT !.is_deleted = TRUE, !.version = version]

(***************************************************************************)
(* What a transaction has yet to write: columns of note rows, the note's   *)
(* search row, the relationships of the notes in `cascade` (still to be    *)
(* selected), and columns of relationship rows.                            *)
(***************************************************************************)
Nothing == [x \in {} |-> x]
Only(key, value) == [x \in {key} |-> value]

Idle == [touches |-> {}, notes |-> Nothing, search |-> Nothing,
         cascade |-> {}, relationships |-> Nothing, inserts |-> {}]

\* An UPDATE is issued only if a column changed.
Update(table, key, row) ==
  LET change == Changed(table[key], row)
  IN  IF DOMAIN change = {} THEN Nothing ELSE Only(key, change)

\* Mutant: only the title is compared.
IndexChangeByTitle(n, row) ==
  IF row.title # notes[n].title THEN Only(n, {Body(row)}) ELSE Nothing

IndexChange(n, row) ==
  IF Body(row) # Body(notes[n]) THEN Only(n, {Body(row)}) ELSE Nothing

WritingNote(n, row) ==
  [Idle EXCEPT !.touches = {n}, !.notes = Update(notes, n, row),
               !.search = IndexChange(n, row)]

\* Mutant: the relationships are not soft-deleted.
DeletingNoteAlone(n, version) ==
  [Idle EXCEPT !.touches = {n}, !.notes = Update(notes, n, Deleted(notes[n], version)),
               !.search = Only(n, {})]

DeletingNote(n, version) ==
  [Idle EXCEPT !.touches = {n}, !.notes = Update(notes, n, Deleted(notes[n], version)),
               !.search = Only(n, {}), !.cascade = {n}]

UpdatingRelationship(p, row) ==
  [Idle EXCEPT !.touches = {p[1], p[2]},
               !.relationships = Update(relationships, p, row)]

InsertingRelationship(p, row) ==
  [Idle EXCEPT !.touches = {p[1], p[2]}, !.relationships = Only(p, row),
               !.inserts = {p}]

Live(n) == ~notes[n].is_deleted
LiveRelationships == {p \in DOMAIN relationships : ~relationships[p].is_deleted}
\* Mutant: the script looks at the first end only.
DanglingFirst == {p \in LiveRelationships : ~Live(p[1])}

Dangling == {p \in LiveRelationships : ~Live(p[1]) \/ ~Live(p[2])}

TombstoneOf(p) == Deleted(relationships[p], relationships[p].version + 1)

\* Soft-deletions of the relationships in `stale`, with the versions read now.
Tombstones(stale) ==
  [p \in stale |-> Changed(relationships[p], TombstoneOf(p))]

NewRelationship(version, deleted) == [version |-> version, is_deleted |-> deleted]

\* Which title and content the notes start with makes no difference.
FirstNote ==
  LET t == CHOOSE t \in Titles : TRUE
      c == CHOOSE c \in Contents : TRUE
  IN  [title |-> t, content |-> c, hash |-> Hash(t, c), version |-> 1, is_deleted |-> FALSE]

Init ==
  /\ notes = [n \in NoteIds |-> FirstNote]
  /\ search = [n \in NoteIds |-> {Body(FirstNote)}]
  /\ \E related \in SUBSET Pairs :
       relationships = [p \in related |-> NewRelationship(1, FALSE)]
  /\ todo = [r \in Processes |-> Idle]
  /\ written = [r \in Processes |-> Idle]
  /\ running = {}
  /\ served = {}
  /\ overlapped = {}

-------------------------------------------------------------------------------
(***************************************************************************)
(* The first step of a request: what it reads, and what it decides to      *)
(* write on the strength of that.                                          *)
(***************************************************************************)
Begin(r, plan) ==
  /\ r \notin running \cup served
  /\ running' = running \cup {r}
  /\ todo' = [todo EXCEPT ![r] = plan]
  /\ overlapped' = overlapped \cup
       (plan.touches \cap UNION {todo[q].touches : q \in running})
  /\ UNCHANGED <<notes, search, relationships, written, served>>

EditNote(r, n, title, content) ==
  /\ Live(n)
  /\ Hash(title, content) # notes[n].hash
  /\ Begin(r, WritingNote(n, Edited(notes[n], title, content, notes[n].version + 1)))

DeleteNote(r, n) == Begin(r, DeletingNote(n, notes[n].version + 1))

PushNote(r, n, title, content, v) ==
  \/ /\ v > notes[n].version
     /\ Begin(r, WritingNote(n, Edited(notes[n], title, content, v)))
  \/ /\ v = notes[n].version
     /\ Hash(title, content) # notes[n].hash
     /\ Begin(r, WritingNote(n, Edited(notes[n], title, content, v + 1)))

PushDeletedNote(r, n, v) ==
  /\ v >= notes[n].version
  /\ Begin(r, DeletingNote(n, v))

\* The row is inserted later; a row that is there by then is a conflict.
CreateRelationship(r, p) ==
  /\ Live(p[1]) /\ Live(p[2])
  /\ Begin(r, InsertingRelationship(p, NewRelationship(1, FALSE)))

DeleteRelationship(r, p) ==
  /\ p \in DOMAIN relationships
  /\ Begin(r, UpdatingRelationship(p, TombstoneOf(p)))

PushRelationship(r, p, v, deleted) ==
  /\ Live(p[1]) /\ Live(p[2])
  /\ \/ /\ p \notin DOMAIN relationships
        /\ Begin(r, InsertingRelationship(p, NewRelationship(v, deleted)))
     \/ /\ p \in DOMAIN relationships
        /\ v >= relationships[p].version
        /\ Begin(r, UpdatingRelationship(p,
             [relationships[p] EXCEPT !.version = v, !.is_deleted = @ \/ deleted]))

\* scripts/repair_stale_relationships.py
BeginRepair ==
  Begin(Script, [Idle EXCEPT !.touches = NoteIds,
                             !.relationships = Tombstones(Dangling)])

\* The transaction is over; the script may run again, a request may not.
End(r) ==
  /\ todo' = [todo EXCEPT ![r] = Idle]
  /\ written' = [written EXCEPT ![r] = Idle]
  /\ running' = running \ {r}
  /\ served' = served \cup ({r} \cap Requests)
  /\ UNCHANGED overlapped

-------------------------------------------------------------------------------
(***************************************************************************)
(* The statements that follow, in the code's order: the note row, its      *)
(* search row, then the relationships, one row at a time in key order.     *)
(* What is written moves from `todo` to `written`, which is the lock on it. *)
(***************************************************************************)
Moved(r, part, key) ==
  /\ todo' = [todo EXCEPT ![r][part] = Restrict(@, DOMAIN @ \ {key})]
  /\ written' = [written EXCEPT ![r][part] =
       [k \in DOMAIN @ \cup {key} |-> IF k = key THEN todo[r][part][k] ELSE @[k]]]
  /\ UNCHANGED <<tables, running, served, overlapped>>

Unlocked(r, part, key) == \A q \in Processes \ {r} : key \notin DOMAIN written[q][part]

UpdateNoteRow(r, n) ==
  /\ n \in DOMAIN todo[r].notes
  /\ Unlocked(r, "notes", n)
  /\ Moved(r, "notes", n)

\* The upsert, or the DELETE, of a search row.
UpdateSearchRow(r, n) ==
  /\ todo[r].notes = Nothing
  /\ n \in DOMAIN todo[r].search
  /\ Unlocked(r, "search", n)
  /\ Moved(r, "search", n)

\* soft_delete_relationships_for_note selects only once the search row is deleted.
SelectCascade(r) ==
  /\ todo[r].search = Nothing
  /\ todo[r].cascade # {}
  /\ todo' = [todo EXCEPT
       ![r].cascade = {},
       ![r].relationships =
          Tombstones({p \in LiveRelationships : {p[1], p[2]} \cap todo[r].cascade # {}})]
  /\ UNCHANGED <<tables, written, running, served, overlapped>>

Before(p, q) == p[1] < q[1] \/ (p[1] = q[1] /\ p[2] < q[2])

\* Mutant: the rows are updated in whatever order the SELECT returned them.
UpdateRelationshipRowUnsorted(r, p) ==
  /\ p \in DOMAIN todo[r].relationships
  /\ p \in todo[r].inserts => p \notin DOMAIN relationships
  /\ Unlocked(r, "relationships", p)
  /\ Moved(r, "relationships", p)

UpdateRelationshipRow(r, p) ==
  /\ p \in DOMAIN todo[r].relationships
  /\ \A q \in DOMAIN todo[r].relationships : ~Before(q, p)
  /\ p \in todo[r].inserts => p \notin DOMAIN relationships
  /\ Unlocked(r, "relationships", p)
  /\ Moved(r, "relationships", p)

\* Mutant: the session is neither rolled back nor closed.
RelationshipConflictLeftOpen(r, p) ==
  /\ p \in DOMAIN todo[r].relationships
  /\ p \in todo[r].inserts \cap DOMAIN relationships
  /\ running' = running \ {r} /\ served' = served \cup ({r} \cap Requests)
  /\ UNCHANGED <<tables, todo, written, overlapped>>

\* Someone inserted the row since the request looked: IntegrityError, rolled back.
RelationshipConflict(r, p) ==
  /\ p \in DOMAIN todo[r].relationships
  /\ p \in todo[r].inserts \cap DOMAIN relationships
  /\ End(r)
  /\ UNCHANGED tables

Applied(table, changes) ==
  [k \in DOMAIN table \cup DOMAIN changes |->
     IF k \notin DOMAIN changes THEN table[k]
     ELSE IF k \in DOMAIN table THEN Overwrite(table[k], changes[k])
     ELSE changes[k]]

Commit(r) ==
  /\ r \in running
  /\ todo[r].notes = Nothing /\ todo[r].search = Nothing
  /\ todo[r].cascade = {} /\ todo[r].relationships = Nothing
  /\ notes' = Applied(notes, written[r].notes)
  /\ search' = [n \in NoteIds |-> IF n \in DOMAIN written[r].search
                                   THEN written[r].search[n] ELSE search[n]]
  /\ relationships' = Applied(relationships, written[r].relationships)
  /\ End(r)

-------------------------------------------------------------------------------
Ask(r) ==
  \/ \E n \in NoteIds, t \in Titles, c \in Contents : EditNote(r, n, t, c)
  \/ \E n \in NoteIds : DeleteNote(r, n)
  \/ \E n \in NoteIds, t \in Titles, c \in Contents, v \in Versions : PushNote(r, n, t, c, v)
  \/ \E n \in NoteIds, v \in Versions : PushDeletedNote(r, n, v)
  \/ \E p \in Pairs : CreateRelationship(r, p)
  \/ \E p \in Pairs : DeleteRelationship(r, p)
  \/ \E p \in Pairs, v \in Versions, d \in BOOLEAN : PushRelationship(r, p, v, d)

Proceed(r) ==
  \/ \E n \in NoteIds : UpdateNoteRow(r, n)
  \/ \E n \in NoteIds : UpdateSearchRow(r, n)
  \/ SelectCascade(r)
  \/ \E p \in Pairs : UpdateRelationshipRow(r, p)
  \/ \E p \in Pairs : RelationshipConflict(r, p)
  \/ Commit(r)

Next ==
  \/ \E r \in Requests : Ask(r)
  \/ BeginRepair
  \/ \E r \in Processes : Proceed(r)

(***************************************************************************)
(* The server keeps executing the statements of a request it has begun,    *)
(* and the database grants a row lock that is released.  Nobody is obliged *)
(* to send a request; the operator keeps running the repair script.        *)
(***************************************************************************)
Fairness ==
  /\ \A r \in Processes : WF_vars(Proceed(r))
  /\ WF_vars(BeginRepair)

Spec == Init /\ [][Next]_vars /\ Fairness

-------------------------------------------------------------------------------
(***************************************************************************)
(* Properties.                                                             *)
(***************************************************************************)
NoteRow == [title : Titles, content : Contents, hash : Titles \X Contents,
            version : Nat \ {0}, is_deleted : BOOLEAN]
RelationshipRow == [version : Nat \ {0}, is_deleted : BOOLEAN]

\* Rows are well-formed, and a request that is over, by a commit or by a conflict, has left
\* neither a lock nor a change behind in its session.
TypeOK ==
  /\ notes \in [NoteIds -> NoteRow]
  /\ \A n \in NoteIds : \E t \in Titles, c \in Contents : search[n] \in {{}, {<<t, c>>}}
  /\ DOMAIN relationships \subseteq Pairs
  /\ relationships \in [DOMAIN relationships -> RelationshipRow]
  /\ running \subseteq Processes /\ served \subseteq Requests /\ overlapped \subseteq NoteIds
  /\ \A r \in Processes \ running : todo[r] = Idle /\ written[r] = Idle

\* Search row and hash fail to match a live note only if two requests worked on
\* it at the same time: each request alone keeps all three together.
SearchFollowsUnlessOverlapped ==
  \A n \in NoteIds \ overlapped :
    Live(n) => /\ search[n] = {Body(notes[n])}
               /\ notes[n].hash = Hash(notes[n].title, notes[n].content)

\* A live relationship at a deleted note is left behind only if a request on the
\* relationship, or on the note, overlapped with the one that deleted the note.
RelationshipsFollowUnlessOverlapped ==
  \A p \in LiveRelationships : {n \in {p[1], p[2]} : ~Live(n)} \subseteq overlapped

\* However requests overlap, search never loses a note that is not deleted.
LiveNotesHaveSearchRow == \A n \in NoteIds : Live(n) => search[n] # {}

\* Every request that begins is answered: no two wait for each other's rows.
EveryRequestIsServed == \A r \in Requests : r \in running ~> r \in served

\* A relationship that overlapping requests left at a deleted note is deleted by a
\* later run of the repair script, however often they do it again.
StaleRelationshipsRepaired ==
  \A p \in Pairs :
    (p \in LiveRelationships /\ ~(Live(p[1]) /\ Live(p[2]))) ~> p \notin LiveRelationships

\* service/note_persistence.py:3 says that all note writes go through that layer
\* "so notesearch stays in sync".  Of two overlapping edits of one note, the later
\* indexes the other's columns as it read them before they changed.
SearchStaysInSync == \A n \in NoteIds : Live(n) => search[n] = {Body(notes[n])}

===============================================================================
