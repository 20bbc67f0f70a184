------------------------------ MODULE NoteStore -------------------------------
(***************************************************************************)
(* One user's notes: the tables `notes`, `notesearch` and `relationships`, *)
(* and every operation on them that the REST routes, the MCP tools, the    *)
(* device-sync routes and the purge script perform.  Here each request is  *)
(* one step, as if requests ran one after another; NoteRequests splits     *)
(* them into the statements that interleave.                               *)
(*                                                                         *)
(* A table is a function from the primary keys of its rows to the rows.    *)
(* A request that the code answers without changing a row (a rejected      *)
(* push, a 404, an update that changes nothing) is a stuttering step.      *)
(***************************************************************************)
EXTENDS Naturals, Functions

CONSTANTS Bodies,      \* title and content of a note, taken together
          Styles,      \* pinned and color, taken together
          NoteTypes,
          RelTypes,
          Pairs,       \* the ordered pairs of note ids that clients relate
          MaxNotes,    \* bound: note ids handed out
          MaxVersion   \* bound: the highest version a client or an edit gives

NoteIds == 1..MaxNotes
Versions == 1..MaxVersion

ASSUME BoundsAssumption == MaxNotes \in Nat /\ MaxVersion \in Nat \ {0}
ASSUME PairsAssumption == Pairs \subseteq NoteIds \X NoteIds

VARIABLES notes,          \* table notes
          notesearch,     \* table notesearch: note id -> the body it indexes
          relationships,  \* table relationships, keyed by (note_a_id, note_b_id)
          serial          \* the next id the database hands out; ids are not reused

vars == <<notes, notesearch, relationships, serial>>

(***************************************************************************)
(* Rows.  `expired` says that the row is deleted and its updated_at older  *)
(* than the retention window of the purge.                                 *)
(***************************************************************************)
\* SHA-256 over title, content, pinned and color: equal exactly when they are.
StateHash(body, style) == <<body, style>>

NoteRow ==
  [body : Bodies, style : Styles, type : NoteTypes,
   state_hash : Bodies \X Styles,
   version : Versions, is_deleted : BOOLEAN, expired : BOOLEAN]

\* A cascade or a delete may take a relationship one past MaxVersion.
RelationshipRow ==
  [type : RelTypes, version : 1..(MaxVersion + 1),
   is_deleted : BOOLEAN, expired : BOOLEAN]

NewNote(b, s, t, version, deleted) ==
  [body |-> b, style |-> s, type |-> t, state_hash |-> StateHash(b, s),
   version |-> version, is_deleted |-> deleted, expired |-> FALSE]

NewRelationship(t, version, deleted) ==
  [type |-> t, version |-> version, is_deleted |-> deleted, expired |-> FALSE]

Put(table, key, row) ==
  [k \in DOMAIN table \cup {key} |-> IF k = key THEN row ELSE table[k]]

\* Without the rows whose keys are in `keys`.
Without(table, keys) == Restrict(table, DOMAIN table \ keys)

\* The ORM issues no UPDATE, and so leaves updated_at alone, when no column changed.
Flush(row, new) == IF new = row THEN row ELSE [new EXCEPT !.expired = FALSE]

LiveNotes == {n \in DOMAIN notes : ~notes[n].is_deleted}
LiveRelationships == {p \in DOMAIN relationships : ~relationships[p].is_deleted}
Incident(p, n) == p[1] = n \/ p[2] = n

Init ==
  /\ notes = [n \in {} |-> n]
  /\ notesearch = [n \in {} |-> n]
  /\ relationships = [p \in {} |-> p]
  /\ serial = 1

(***************************************************************************)
(* The persistence layer: the only code that writes notes and notesearch.  *)
(***************************************************************************)
\* Insert a note and upsert its search row, whether or not it is deleted.
InsertNote(row) ==
  /\ serial <= MaxNotes
  /\ notes' = Put(notes, serial, row)
  /\ notesearch' = Put(notesearch, serial, row.body)
  /\ serial' = serial + 1

\* Mutant: the body is compared after the new one was assigned, so never differs.
WriteNoteUnindexed(n, row) ==
  /\ notes' = Put(notes, n, Flush(notes[n], row))
  /\ UNCHANGED notesearch

\* Write an edited note; the search row is upserted only when the body changed.
WriteNote(n, row) ==
  /\ notes' = Put(notes, n, Flush(notes[n], row))
  /\ notesearch' = IF row.body # notes[n].body
                     THEN Put(notesearch, n, row.body)
                     ELSE notesearch

\* Mutant: the pushed is_deleted = false is written as well.
EditedRevived(row, b, s, t, version) ==
  [row EXCEPT !.body = b, !.style = s, !.type = t,
              !.state_hash = StateHash(b, s), !.version = version,
              !.is_deleted = FALSE]

Edited(row, b, s, t, version) ==
  [row EXCEPT !.body = b, !.style = s, !.type = t,
              !.state_hash = StateHash(b, s), !.version = version]

SoftDeletedNote(n, version) ==
  Flush(notes[n], [notes[n] EXCEPT !.is_deleted = TRUE, !.version = version])

\* Mutant: the version stays, so that no device is told.
TombstoneUnversioned(rel) ==
  [rel EXCEPT !.is_deleted = TRUE, !.expired = FALSE]

Tombstone(rel) ==
  [rel EXCEPT !.is_deleted = TRUE, !.version = @ + 1, !.expired = FALSE]

\* soft_delete_relationships_for_note
CascadeFrom(n) ==
  [p \in DOMAIN relationships |->
     IF Incident(p, n) /\ p \in LiveRelationships
       THEN Tombstone(relationships[p])
       ELSE relationships[p]]

\* Soft-delete a note, hard-delete its search row, soft-delete its relationships.
SoftDelete(n, version) ==
  /\ notes' = Put(notes, n, SoftDeletedNote(n, version))
  /\ notesearch' = Without(notesearch, {n})
  /\ relationships' = CascadeFrom(n)
  /\ UNCHANGED serial

\* What an update must change not to be dropped as a no-op: the hash or the type.
Differs(n, b, s, t) ==
  \/ StateHash(b, s) # notes[n].state_hash
  \/ t # notes[n].type

(***************************************************************************)
(* Notes over REST and MCP.                                                *)
(***************************************************************************)
CreateNote(b, s, t) ==
  /\ InsertNote(NewNote(b, s, t, 1, FALSE))
  /\ UNCHANGED relationships

\* The payload's unset fields are resolved from the row, so any mix of old and
\* new values may arrive here.
UpdateNote(n, b, s, t) ==
  /\ n \in LiveNotes
  /\ Differs(n, b, s, t)
  /\ notes[n].version < MaxVersion
  /\ WriteNote(n, Edited(notes[n], b, s, t, notes[n].version + 1))
  /\ UNCHANGED <<relationships, serial>>

\* Finds the note whether or not it is deleted already.
DeleteNote(n) ==
  /\ n \in DOMAIN notes
  /\ notes[n].version < MaxVersion
  /\ SoftDelete(n, notes[n].version + 1)

(***************************************************************************)
(* Notes pushed by a device.  A push below the stored version is rejected. *)
(***************************************************************************)
PushNewNote(b, s, t, v, deleted) ==
  /\ InsertNote(NewNote(b, s, t, v, deleted))
  /\ UNCHANGED relationships

\* A newer or equal version of a note the device has deleted.
PushDeletedNote(n, v) ==
  /\ n \in DOMAIN notes
  /\ v >= notes[n].version
  /\ SoftDelete(n, v)

\* A newer version replaces the note; is_deleted is not written.
PushNewerNote(n, b, s, t, v) ==
  /\ n \in DOMAIN notes
  /\ v > notes[n].version
  /\ WriteNote(n, Edited(notes[n], b, s, t, v))
  /\ UNCHANGED <<relationships, serial>>

\* An equal version is applied, and the server's version bumped, if it differs.
PushSameNote(n, b, s, t) ==
  /\ n \in DOMAIN notes
  /\ Differs(n, b, s, t)
  /\ notes[n].version < MaxVersion
  /\ WriteNote(n, Edited(notes[n], b, s, t, notes[n].version + 1))
  /\ UNCHANGED <<relationships, serial>>

(***************************************************************************)
(* Relationships.                                                          *)
(***************************************************************************)
\* A row for the pair, even a deleted one, makes this a conflict.
CreateRelationship(a, b, t) ==
  /\ a # b
  /\ {a, b} \subseteq LiveNotes
  /\ <<a, b>> \notin DOMAIN relationships
  /\ relationships' = Put(relationships, <<a, b>>, NewRelationship(t, 1, FALSE))
  /\ UNCHANGED <<notes, notesearch, serial>>

\* Bumps the version of a relationship that is deleted already, too.
DeleteRelationship(p) ==
  /\ p \in DOMAIN relationships
  /\ relationships[p].version <= MaxVersion
  /\ relationships' = [relationships EXCEPT ![p] = Tombstone(@)]
  /\ UNCHANGED <<notes, notesearch, serial>>

\* Mutant: the ends' notes are only required to exist.
PushNewRelationshipUnchecked(a, b, t, v, deleted) ==
  /\ {a, b} \subseteq DOMAIN notes
  /\ <<a, b>> \notin DOMAIN relationships
  /\ relationships' = Put(relationships, <<a, b>>, NewRelationship(t, v, deleted))
  /\ UNCHANGED <<notes, notesearch, serial>>

\* A pushed pair may join a note to itself: only the REST schema refuses that.
PushNewRelationship(a, b, t, v, deleted) ==
  /\ {a, b} \subseteq LiveNotes
  /\ <<a, b>> \notin DOMAIN relationships
  /\ relationships' = Put(relationships, <<a, b>>, NewRelationship(t, v, deleted))
  /\ UNCHANGED <<notes, notesearch, serial>>

PushedRelationship(rel, t, v, deleted) ==
  Flush(rel, [rel EXCEPT !.type = t, !.version = v,
                         !.is_deleted = @ \/ deleted])

\* Newer and equal versions are both taken as they are.
PushRelationship(a, b, t, v, deleted) ==
  /\ {a, b} \subseteq LiveNotes
  /\ <<a, b>> \in DOMAIN relationships
  /\ v >= relationships[<<a, b>>].version
  /\ relationships' = [relationships EXCEPT
                         ![<<a, b>>] = PushedRelationship(@, t, v, deleted)]
  /\ UNCHANGED <<notes, notesearch, serial>>

(***************************************************************************)
(* The purge script, one transaction.  notesearch.note_id references notes *)
(* with no ON DELETE, so one search row left on a purged note fails the    *)
(* DELETE and the whole purge with it; relationships cascade.              *)
(***************************************************************************)
ExpiredNotes == {n \in DOMAIN notes : notes[n].expired}

\* Mutant: the foreign keys to notes do not cascade.
PurgedByFlag(p) == relationships[p].expired

Purged(p) ==
  \/ {p[1], p[2]} \cap ExpiredNotes # {}
  \/ relationships[p].expired

Purge ==
  /\ ExpiredNotes \cap DOMAIN notesearch = {}
  /\ notes' = Without(notes, ExpiredNotes)
  /\ relationships' = Without(relationships, {p \in DOMAIN relationships : Purged(p)})
  /\ UNCHANGED <<notesearch, serial>>

\* The retention window passes: every tombstone written before is older than it.
Aged(row) == [row EXCEPT !.expired = row.is_deleted]

RetentionElapses ==
  /\ notes' = [n \in DOMAIN notes |-> Aged(notes[n])]
  /\ relationships' = [p \in DOMAIN relationships |-> Aged(relationships[p])]
  /\ UNCHANGED <<notesearch, serial>>

-------------------------------------------------------------------------------
RestStep ==
  \/ \E b \in Bodies, s \in Styles, t \in NoteTypes : CreateNote(b, s, t)
  \/ \E n \in NoteIds, b \in Bodies, s \in Styles, t \in NoteTypes :
       UpdateNote(n, b, s, t)
  \/ \E n \in NoteIds : DeleteNote(n)
  \/ \E p \in Pairs, t \in RelTypes : CreateRelationship(p[1], p[2], t)
  \/ \E p \in Pairs : DeleteRelationship(p)

SyncStep ==
  \/ \E b \in Bodies, s \in Styles, t \in NoteTypes, v \in Versions, d \in BOOLEAN :
       PushNewNote(b, s, t, v, d)
  \/ \E n \in NoteIds, v \in Versions : PushDeletedNote(n, v)
  \/ \E n \in NoteIds, b \in Bodies, s \in Styles, t \in NoteTypes, v \in Versions :
       PushNewerNote(n, b, s, t, v)
  \/ \E n \in NoteIds, b \in Bodies, s \in Styles, t \in NoteTypes :
       PushSameNote(n, b, s, t)
  \/ \E p \in Pairs, t \in RelTypes, v \in Versions, d \in BOOLEAN :
       PushNewRelationship(p[1], p[2], t, v, d)
  \/ \E p \in Pairs, t \in RelTypes, v \in Versions, d \in BOOLEAN :
       PushRelationship(p[1], p[2], t, v, d)

Next == RestStep \/ SyncStep \/ Purge \/ RetentionElapses

Spec == Init /\ [][Next]_vars

-------------------------------------------------------------------------------
(***************************************************************************)
(* Properties.                                                             *)
(***************************************************************************)
IsTable(table, keys, rows) ==
  /\ DOMAIN table \subseteq keys
  /\ table \in [DOMAIN table -> rows]

\* The tables hold well-formed rows, and only for ids that were handed out.
TypeOK ==
  /\ serial \in 1..(MaxNotes + 1)
  /\ IsTable(notes, 1..(serial - 1), NoteRow)
  /\ IsTable(notesearch, DOMAIN notes, Bodies)
  /\ IsTable(relationships, Pairs, RelationshipRow)
  /\ \A p \in DOMAIN relationships : {p[1], p[2]} \subseteq DOMAIN notes
  /\ \A p \in LiveRelationships : relationships[p].version \in Versions

\* A relationship that is not deleted joins two notes that are not deleted: every
\* path that deletes a note (REST, MCP, a device's push at a newer or an equal
\* version) also deletes its relationships, in both directions, and no path adds
\* or revives one at a deleted note.
NoDanglingRelationship ==
  \A p \in LiveRelationships : {p[1], p[2]} \subseteq LiveNotes

\* Full-text search sees every live note under its current body, although the
\* search row is written only when the body is found to have changed.
LiveNotesIndexed ==
  \A n \in LiveNotes :
    n \in DOMAIN notesearch /\ notesearch[n] = notes[n].body

\* The stored hash is that of the stored fields, deleted notes included, so an
\* update is dropped as a no-op only if it would change nothing.
StateHashMatches ==
  \A n \in DOMAIN notes :
    notes[n].state_hash = StateHash(notes[n].body, notes[n].style)

\* What is kept beside a note's fields follows them.
DerivedDataFollows == LiveNotesIndexed /\ StateHashMatches

Shown(row) == [body |-> row.body, style |-> row.style, type |-> row.type]

\* A note's version never falls and its deletion stands; what it shows changes only under a
\* higher version, and over REST and MCP a deletion comes with one as well.
NotesGoForward ==
  \A n \in DOMAIN notes \cap DOMAIN notes' :
    LET old == notes[n]  new == notes'[n] IN
    /\ new.version >= old.version
    /\ old.is_deleted => new.is_deleted
    /\ new.version = old.version =>
         /\ Shown(new) = Shown(old)
         /\ new.is_deleted # old.is_deleted => ~RestStep

\* The same of relationships, except that a push of the relationship itself, which changes
\* nothing else, is taken as it is at an equal version.
RelationshipsGoForward ==
  \A p \in DOMAIN relationships \cap DOMAIN relationships' :
    LET old == relationships[p]  new == relationships'[p] IN
    /\ new.version >= old.version
    /\ old.is_deleted => new.is_deleted
    /\ /\ new.version = old.version
       /\ new.type # old.type \/ new.is_deleted # old.is_deleted
       => ~RestStep /\ notes' = notes

\* What a device finds by comparing versions: every change that the user makes over REST
\* and MCP and every relationship that goes with a deleted note, also one a push has deleted.
\* Not so are a deletion pushed at the note's own version and a relationship pushed at its own.
ChangesRaiseVersions ==
  [][NotesGoForward /\ RelationshipsGoForward]_vars

ErasesTombstones ==
  /\ \A n \in DOMAIN notes \ DOMAIN notes' : notes[n].is_deleted
  /\ \A p \in DOMAIN relationships \ DOMAIN relationships' : relationships[p].is_deleted

\* Rows leave the database only as tombstones: the purge deletes by flag and age,
\* and the foreign-key cascade it sets off takes no relationship a user still has.
OnlyTombstonesAreErased == [][ErasesTombstones]_vars

\* What becomes of a row: its version never falls, its deletion is never undone, what changes
\* raises its version but for the two pushes named above, and only deleted rows go.
RowsOnlyGoForward == ChangesRaiseVersions /\ OnlyTombstonesAreErased

\* models/notesearch.py:10 says a note's search row is "hard-deleted when note is
\* soft-deleted".  A newer version pushed without the deleted flag, and a note
\* first pushed as deleted, write the search row of a deleted note.
DeletedNotesNotIndexed ==
  DOMAIN notesearch \subseteq LiveNotes

\* What the live rows show is the graph of KnowledgeGraph, changed one operation
\* at a time: deleted notes stay deleted, ids are not reused, and a note and its
\* relationships leave together.
Graph == INSTANCE KnowledgeGraph WITH
  Nodes <- NoteIds,
  Contents <- [body : Bodies, style : Styles, type : NoteTypes],
  EdgeTypes <- RelTypes,
  content <- [n \in LiveNotes |-> Shown(notes[n])],
  edges <- [p \in LiveRelationships |-> relationships[p].type],
  retired <- (1..(serial - 1)) \ LiveNotes

ImplementsGraph == Graph!GraphSpec
===============================================================================
