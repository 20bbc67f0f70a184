--------------------------- MODULE NoteStoreProofs ----------------------------
(***************************************************************************)
(* Theorems about NoteStore, for every set of bodies, styles and types,    *)
(* every number of notes and every bound on versions: type correctness and *)
(* the safety invariants, what no step does, and that NoteStore implements *)
(* KnowledgeGraph.                                                         *)
(***************************************************************************)
EXTENDS NoteStore, DeviceSync, TLAPS

(***************************************************************************)
(* Tables: what Put and Without do to a table of rows.                     *)
(***************************************************************************)

\* Writing a row under a key of the table's key set gives a table again.
LEMMA PutTable ==
  ASSUME NEW keys, NEW rows, NEW table, IsTable(table, keys, rows),
         NEW key \in keys, NEW row \in rows
  PROVE  /\ IsTable(Put(table, key, row), keys, rows)
         /\ DOMAIN Put(table, key, row) = DOMAIN table \cup {key}
         /\ Put(table, key, row)[key] = row
         /\ \A k \in DOMAIN table \ {key} : Put(table, key, row)[k] = table[k]
BY DEF IsTable, Put

\* Erasing rows gives a table again and changes no other row.
LEMMA WithoutTable ==
  ASSUME NEW keys, NEW rows, NEW table, IsTable(table, keys, rows), NEW gone
  PROVE  /\ IsTable(Without(table, gone), keys, rows)
         /\ DOMAIN Without(table, gone) = DOMAIN table \ gone
         /\ \A k \in DOMAIN table \ gone : Without(table, gone)[k] = table[k]
BY DEF IsTable, Without, Restrict

\* A note row the persistence layer builds is well formed.
LEMMA NewNoteRow ==
  ASSUME NEW b \in Bodies, NEW s \in Styles, NEW t \in NoteTypes,
         NEW v \in Versions, NEW d \in BOOLEAN
  PROVE  NewNote(b, s, t, v, d) \in NoteRow
BY DEF NoteRow, NewNote, StateHash

\* An edited row has the edited fields, their hash, and the flag it had.
LEMMA EditedRow ==
  ASSUME NEW b \in Bodies, NEW s \in Styles, NEW t \in NoteTypes,
         NEW v \in Versions, NEW row \in NoteRow
  PROVE  LET new == Flush(row, Edited(row, b, s, t, v))
         IN  /\ new \in NoteRow
             /\ new.body = b /\ new.style = s /\ new.type = t
             /\ new.state_hash = StateHash(b, s)
             /\ new.version = v
             /\ new.is_deleted = row.is_deleted
<1>1. Edited(row, b, s, t, v) \in NoteRow
  BY DEF NoteRow, Edited, StateHash
<1>2. QED
  BY <1>1 DEF NoteRow, Edited, Flush, StateHash

\* Soft-deleting a note changes its flag, its version and its age, nothing else.
LEMMA SoftDeletedRow ==
  ASSUME NEW n \in DOMAIN notes, notes[n] \in NoteRow, NEW v \in Versions
  PROVE  /\ SoftDeletedNote(n, v) \in NoteRow
         /\ SoftDeletedNote(n, v).body = notes[n].body
         /\ SoftDeletedNote(n, v).style = notes[n].style
         /\ SoftDeletedNote(n, v).state_hash = notes[n].state_hash
         /\ SoftDeletedNote(n, v).version = v
         /\ SoftDeletedNote(n, v).is_deleted
BY DEF NoteRow, SoftDeletedNote, Flush

\* A tombstone is a well-formed row, one version up.
LEMMA TombstoneRow ==
  ASSUME NEW rel \in RelationshipRow, rel.version <= MaxVersion
  PROVE  /\ Tombstone(rel) \in RelationshipRow
         /\ Tombstone(rel).version = rel.version + 1
         /\ Tombstone(rel).is_deleted
<1>1. rel.version + 1 \in 1..(MaxVersion + 1)
  BY BoundsAssumption DEF RelationshipRow
<1>2. QED
  BY <1>1, Zenon DEF RelationshipRow, Tombstone

\* A pushed version of a relationship keeps a deletion and may add one.
LEMMA PushedRow ==
  ASSUME NEW rel \in RelationshipRow, NEW t \in RelTypes, NEW v \in Versions,
         NEW d \in BOOLEAN
  PROVE  /\ PushedRelationship(rel, t, v, d) \in RelationshipRow
         /\ PushedRelationship(rel, t, v, d).version = v
         /\ PushedRelationship(rel, t, v, d).is_deleted = (rel.is_deleted \/ d)
<1>1. v \in 1..(MaxVersion + 1)
  BY BoundsAssumption DEF Versions
<1>2. rel.is_deleted \in BOOLEAN /\ (rel.is_deleted \/ d) \in BOOLEAN
  BY DEF RelationshipRow
<1>3. [rel EXCEPT !.type = t, !.version = v, !.is_deleted = @ \/ d] \in RelationshipRow
  BY <1>1, <1>2, Zenon DEF RelationshipRow
<1>4. QED
  BY <1>1, <1>2, <1>3, Zenon DEF RelationshipRow, PushedRelationship, Flush

\* Ageing a row leaves everything but its age alone.
LEMMA AgedRow ==
  /\ \A row \in NoteRow :
       /\ Aged(row) \in NoteRow
       /\ Aged(row).body = row.body
       /\ Aged(row).style = row.style
       /\ Aged(row).state_hash = row.state_hash
       /\ Aged(row).version = row.version
       /\ Aged(row).is_deleted = row.is_deleted
  /\ \A rel \in RelationshipRow :
       /\ Aged(rel) \in RelationshipRow
       /\ Aged(rel).version = rel.version
       /\ Aged(rel).is_deleted = rel.is_deleted
BY DEF NoteRow, RelationshipRow, Aged

(***************************************************************************)
(* Type correctness.                                                       *)
(***************************************************************************)
\* What TypeOK says of the notes alone.
NotesOK ==
  /\ serial \in 1..(MaxNotes + 1)
  /\ IsTable(notes, 1..(serial - 1), NoteRow)

SearchOK == IsTable(notesearch, DOMAIN notes, Bodies)

RelationshipsOK ==
  /\ IsTable(relationships, Pairs, RelationshipRow)
  /\ \A p \in DOMAIN relationships : {p[1], p[2]} \subseteq DOMAIN notes
  /\ \A p \in LiveRelationships : relationships[p].version \in Versions

\* TypeOK, table by table.
LEMMA TypeParts == TypeOK <=> NotesOK /\ SearchOK /\ RelationshipsOK
BY DEF TypeOK, NotesOK, SearchOK, RelationshipsOK

\* The insert of a new note, live or already deleted.
LEMMA InsertNoteTypes ==
  ASSUME TypeOK, NEW row \in NoteRow, InsertNote(row), UNCHANGED relationships
  PROVE  /\ TypeOK'
         /\ DOMAIN notes' = DOMAIN notes \cup {serial}
         /\ serial \notin DOMAIN notes
         /\ notes'[serial] = row
         /\ \A n \in DOMAIN notes : notes'[n] = notes[n]
         /\ notesearch'[serial] = row.body /\ serial \in DOMAIN notesearch'
         /\ \A n \in DOMAIN notesearch : n \in DOMAIN notesearch' /\ notesearch'[n] = notesearch[n]
<1>1. /\ serial \in 1..MaxNotes /\ serial' = serial + 1
      /\ serial' \in 1..(MaxNotes + 1)
      /\ serial \in 1..(serial' - 1) /\ 1..(serial - 1) \subseteq 1..(serial' - 1)
      /\ serial \notin DOMAIN notes
  BY BoundsAssumption DEF TypeOK, InsertNote, IsTable
<1>2. IsTable(notes, 1..(serial' - 1), NoteRow)
  BY <1>1 DEF TypeOK, IsTable
<1>3. /\ NotesOK' /\ DOMAIN notes' = DOMAIN notes \cup {serial}
      /\ notes'[serial] = row /\ \A n \in DOMAIN notes : notes'[n] = notes[n]
  <2>1. notes' = Put(notes, serial, row)
    BY DEF InsertNote
  <2>2. IsTable(notes', 1..(serial' - 1), NoteRow)
    BY <1>1, <1>2, <2>1, PutTable
  <2>3. NotesOK'
    BY <1>1, <2>2 DEF NotesOK, IsTable
  <2>4. QED
    BY <1>1, <2>1, <2>3 DEF Put
<1>4. /\ SearchOK' /\ serial \in DOMAIN notesearch' /\ notesearch'[serial] = row.body
      /\ \A n \in DOMAIN notesearch : n \in DOMAIN notesearch' /\ notesearch'[n] = notesearch[n]
  <2>1. notesearch' = Put(notesearch, serial, row.body)
    BY DEF InsertNote
  <2>2. IsTable(notesearch, DOMAIN notes', Bodies) /\ serial \in DOMAIN notes'
    BY <1>3 DEF TypeOK, IsTable
  <2>3. row.body \in Bodies
    BY DEF NoteRow
  <2>4. serial \notin DOMAIN notesearch
    BY <1>1 DEF TypeOK, IsTable
  <2>5. IsTable(notesearch', DOMAIN notes', Bodies)
    BY <2>1, <2>2, <2>3, PutTable
  <2>6. SearchOK'
    BY <2>5 DEF SearchOK, IsTable
  <2>7. QED
    BY <2>1, <2>4, <2>6 DEF Put
<1>5. RelationshipsOK'
  BY <1>3 DEF TypeOK, RelationshipsOK, LiveRelationships, IsTable
<1>6. QED
  BY <1>1, <1>3, <1>4, <1>5 DEF TypeOK, NotesOK, SearchOK, RelationshipsOK

\* A write to a note touches that note and its search row only.
LEMMA WriteNoteTypes ==
  ASSUME TypeOK, NEW n \in DOMAIN notes, NEW b \in Bodies, NEW s \in Styles,
         NEW t \in NoteTypes, NEW v \in Versions,
         WriteNote(n, Edited(notes[n], b, s, t, v)),
         UNCHANGED <<relationships, serial>>
  PROVE  /\ TypeOK'
         /\ DOMAIN notes' = DOMAIN notes
         /\ \A m \in DOMAIN notes \ {n} : notes'[m] = notes[m]
         /\ notes'[n] = Flush(notes[n], Edited(notes[n], b, s, t, v))
         /\ LiveNotes' = LiveNotes
         /\ DOMAIN notesearch \subseteq DOMAIN notesearch'
         /\ \A m \in DOMAIN notesearch \ {n} : notesearch'[m] = notesearch[m]
         /\ b # notes[n].body => n \in DOMAIN notesearch' /\ notesearch'[n] = b
         /\ b = notes[n].body => notesearch' = notesearch
<1> DEFINE new == Flush(notes[n], Edited(notes[n], b, s, t, v))
<1>1. notes[n] \in NoteRow
  BY DEF TypeOK, IsTable
<1>2. /\ new \in NoteRow
      /\ new.is_deleted = notes[n].is_deleted
      /\ Edited(notes[n], b, s, t, v).body = b
  <2>1. Edited(notes[n], b, s, t, v).body = b
    BY <1>1 DEF Edited, NoteRow
  <2>2. QED
    BY <1>1, <2>1, EditedRow
<1> HIDE DEF new
<1>3. notes' = Put(notes, n, new)
  BY DEF WriteNote, new
<1>4. /\ DOMAIN notes' = DOMAIN notes
      /\ notes' \in [DOMAIN notes -> NoteRow]
      /\ \A m \in DOMAIN notes \ {n} : notes'[m] = notes[m]
      /\ notes'[n] = new
  BY <1>2, <1>3 DEF TypeOK, IsTable, Put
<1>5. LiveNotes' = LiveNotes
  BY <1>2, <1>4 DEF LiveNotes
<1>6. /\ notesearch' \in [DOMAIN notesearch' -> Bodies]
      /\ DOMAIN notesearch' \subseteq DOMAIN notes
      /\ DOMAIN notesearch \subseteq DOMAIN notesearch'
      /\ \A m \in DOMAIN notesearch \ {n} : notesearch'[m] = notesearch[m]
      /\ b # notes[n].body => n \in DOMAIN notesearch' /\ notesearch'[n] = b
      /\ b = notes[n].body => notesearch' = notesearch
  <2>1. CASE b = notes[n].body
    BY <1>2, <2>1 DEF WriteNote, TypeOK, IsTable
  <2>2. CASE b # notes[n].body
    <3>1. notesearch' = Put(notesearch, n, b)
      BY <1>2, <2>2 DEF WriteNote
    <3>2. QED
      BY <2>2, <3>1 DEF TypeOK, IsTable, Put
  <2>3. QED
    BY <2>1, <2>2
<1>7. TypeOK'
  BY <1>4, <1>5, <1>6 DEF TypeOK, IsTable, LiveRelationships
<1>8. QED
  BY <1>4, <1>5, <1>6, <1>7 DEF new

\* The cascade deletes the live relationships of the note and leaves the others alone.
LEMMA CascadeTypes ==
  ASSUME TypeOK, NEW n, relationships' = CascadeFrom(n)
  PROVE  /\ DOMAIN relationships' = DOMAIN relationships
         /\ IsTable(relationships', Pairs, RelationshipRow)
         /\ \A p \in DOMAIN relationships :
              /\ relationships'[p].is_deleted <=>
                   relationships[p].is_deleted \/ Incident(p, n)
              /\ relationships'[p].version >= relationships[p].version
              /\ ~relationships'[p].is_deleted => relationships'[p] = relationships[p]
<1>1. DOMAIN relationships' = DOMAIN relationships
  BY DEF CascadeFrom
<1>2. ASSUME NEW p \in DOMAIN relationships
      PROVE  /\ relationships'[p] \in RelationshipRow
             /\ relationships'[p].is_deleted <=>
                  relationships[p].is_deleted \/ Incident(p, n)
             /\ relationships'[p].version >= relationships[p].version
             /\ ~relationships'[p].is_deleted => relationships'[p] = relationships[p]
  <2>1. relationships[p] \in RelationshipRow /\ relationships[p].version \in Nat
    BY BoundsAssumption DEF TypeOK, IsTable, RelationshipRow
  <2>2. CASE Incident(p, n) /\ p \in LiveRelationships
    <3>1. relationships'[p] = Tombstone(relationships[p])
      BY <2>2 DEF CascadeFrom
    <3>2. relationships[p].version <= MaxVersion
      BY <2>2, BoundsAssumption DEF TypeOK, Versions
    <3>3. QED
      BY <2>1, <2>2, <3>1, <3>2, TombstoneRow
  <2>3. CASE ~(Incident(p, n) /\ p \in LiveRelationships)
    <3>1. relationships'[p] = relationships[p]
      BY <2>3 DEF CascadeFrom
    <3>2. relationships[p].is_deleted \/ ~Incident(p, n)
      BY <2>3 DEF LiveRelationships
    <3>3. QED
      BY <2>1, <3>1, <3>2
  <2>4. QED
    BY <2>2, <2>3
<1>3. relationships' \in [DOMAIN relationships -> RelationshipRow]
  BY <1>2 DEF CascadeFrom
<1>4. QED
  BY <1>1, <1>2, <1>3 DEF TypeOK, IsTable

\* A soft delete: the note stays as a tombstone, its search row goes, and no live
\* relationship of it remains.
LEMMA SoftDeleteTypes ==
  ASSUME TypeOK, NEW n \in DOMAIN notes, NEW v \in Versions, SoftDelete(n, v)
  PROVE  /\ TypeOK'
         /\ DOMAIN notes' = DOMAIN notes
         /\ \A m \in DOMAIN notes \ {n} : notes'[m] = notes[m]
         /\ notes'[n] = SoftDeletedNote(n, v)
         /\ LiveNotes' = LiveNotes \ {n}
         /\ DOMAIN notesearch' = DOMAIN notesearch \ {n}
         /\ \A m \in DOMAIN notesearch' : notesearch'[m] = notesearch[m]
         /\ LiveRelationships' = {p \in LiveRelationships : ~Incident(p, n)}
         /\ \A p \in LiveRelationships' : relationships'[p] = relationships[p]
<1> DEFINE new == SoftDeletedNote(n, v)
<1>1. notes[n] \in NoteRow
  BY DEF TypeOK, IsTable
<1>2. new \in NoteRow /\ new.is_deleted
  BY <1>1, SoftDeletedRow
<1>3. notes' = Put(notes, n, new)
  BY DEF SoftDelete
<1> HIDE DEF new
<1>4. /\ DOMAIN notes' = DOMAIN notes
      /\ notes' \in [DOMAIN notes -> NoteRow]
      /\ \A m \in DOMAIN notes \ {n} : notes'[m] = notes[m]
      /\ notes'[n] = new
  BY <1>2, <1>3 DEF TypeOK, IsTable, Put
<1>5. LiveNotes' = LiveNotes \ {n}
  BY <1>2, <1>4 DEF LiveNotes
<1>6. /\ DOMAIN notesearch' = DOMAIN notesearch \ {n}
      /\ \A m \in DOMAIN notesearch' : notesearch'[m] = notesearch[m]
      /\ notesearch' \in [DOMAIN notesearch' -> Bodies]
  BY DEF SoftDelete, TypeOK, IsTable, Without, Restrict
<1>7. relationships' = CascadeFrom(n) /\ serial' = serial
  BY DEF SoftDelete
<1>8. /\ DOMAIN relationships' = DOMAIN relationships
      /\ IsTable(relationships', Pairs, RelationshipRow)
      /\ \A p \in DOMAIN relationships :
           /\ relationships'[p].is_deleted <=>
                relationships[p].is_deleted \/ Incident(p, n)
           /\ ~relationships'[p].is_deleted => relationships'[p] = relationships[p]
  BY <1>7, CascadeTypes
<1>9. /\ LiveRelationships' = {p \in LiveRelationships : ~Incident(p, n)}
      /\ \A p \in LiveRelationships' : relationships'[p] = relationships[p]
  BY <1>8 DEF LiveRelationships
<1>10. TypeOK'
  <2>1. NotesOK'
    BY <1>4, <1>7 DEF TypeOK, NotesOK, IsTable
  <2>2. SearchOK'
    BY <1>4, <1>6 DEF TypeOK, SearchOK, IsTable
  <2>3. RelationshipsOK'
    BY <1>4, <1>8, <1>9 DEF TypeOK, RelationshipsOK, IsTable
  <2>4. QED
    BY <2>1, <2>2, <2>3 DEF TypeOK, NotesOK, SearchOK, RelationshipsOK
<1>11. QED
  BY <1>4, <1>5, <1>6, <1>9, <1>10 DEF new

\* Writing one relationship row leaves the notes and every other row as they were.
LEMMA WriteRelationshipTypes ==
  ASSUME TypeOK, NEW p \in Pairs, {p[1], p[2]} \subseteq DOMAIN notes,
         NEW row \in RelationshipRow, ~row.is_deleted => row.version \in Versions,
         relationships' = Put(relationships, p, row),
         UNCHANGED <<notes, notesearch, serial>>
  PROVE  /\ TypeOK'
         /\ DOMAIN relationships' = DOMAIN relationships \cup {p}
         /\ relationships'[p] = row
         /\ \A q \in DOMAIN relationships \ {p} : relationships'[q] = relationships[q]
         /\ LiveNotes' = LiveNotes
         /\ LiveRelationships' =
              (LiveRelationships \ {p}) \cup (IF row.is_deleted THEN {} ELSE {p})
<1>1. /\ DOMAIN relationships' = DOMAIN relationships \cup {p}
      /\ relationships'[p] = row
      /\ \A q \in DOMAIN relationships \ {p} : relationships'[q] = relationships[q]
      /\ relationships' \in [DOMAIN relationships' -> RelationshipRow]
  BY DEF TypeOK, IsTable, Put
<1>2. LiveRelationships' =
        (LiveRelationships \ {p}) \cup (IF row.is_deleted THEN {} ELSE {p})
  BY <1>1 DEF LiveRelationships
<1>3. ASSUME NEW q \in LiveRelationships'
      PROVE  relationships'[q].version \in Versions
  <2>1. CASE q = p
    BY <1>1, <1>2, <2>1
  <2>2. CASE q # p
    <3>1. q \in LiveRelationships /\ q \in DOMAIN relationships
      BY <1>2, <2>2 DEF LiveRelationships
    <3>2. QED
      BY <1>1, <2>2, <3>1 DEF TypeOK
  <2>3. QED
    BY <2>1, <2>2
<1>4. \A q \in DOMAIN relationships' : {q[1], q[2]} \subseteq DOMAIN notes
  BY <1>1 DEF TypeOK
<1>5. RelationshipsOK'
  BY <1>1, <1>3, <1>4 DEF TypeOK, RelationshipsOK, IsTable
<1>6. NotesOK' /\ SearchOK'
  BY DEF TypeOK, NotesOK, SearchOK, IsTable
<1>7. TypeOK'
  BY <1>5, <1>6 DEF TypeOK, NotesOK, SearchOK, RelationshipsOK
<1>8. LiveNotes' = LiveNotes
  BY DEF LiveNotes
<1>9. QED
  BY <1>1, <1>2, <1>7, <1>8

\* The purge: it runs to its end only if no expired note is still indexed.
LEMMA PurgeTypes ==
  ASSUME TypeOK, Purge
  PROVE  /\ TypeOK'
         /\ DOMAIN notes' = DOMAIN notes \ ExpiredNotes
         /\ \A n \in DOMAIN notes' : notes'[n] = notes[n]
         /\ DOMAIN relationships' = {p \in DOMAIN relationships : ~Purged(p)}
         /\ \A p \in DOMAIN relationships' : relationships'[p] = relationships[p]
         /\ UNCHANGED <<notesearch, serial>>
<1>1. UNCHANGED <<notesearch, serial>>
  BY DEF Purge
<1>2. /\ DOMAIN notes' = DOMAIN notes \ ExpiredNotes
      /\ \A n \in DOMAIN notes' : notes'[n] = notes[n]
      /\ IsTable(notes', 1..(serial - 1), NoteRow)
  BY DEF Purge, TypeOK, IsTable, Without, Restrict
<1>3. /\ DOMAIN relationships' = {p \in DOMAIN relationships : ~Purged(p)}
      /\ \A p \in DOMAIN relationships' : relationships'[p] = relationships[p]
      /\ IsTable(relationships', Pairs, RelationshipRow)
  BY DEF Purge, TypeOK, IsTable, Without, Restrict
<1>4. NotesOK'
  BY <1>1, <1>2 DEF TypeOK, NotesOK, IsTable
<1>5. SearchOK'
  BY <1>1, <1>2 DEF TypeOK, SearchOK, IsTable, Purge
<1>6. RelationshipsOK'
  <2>1. \A p \in DOMAIN relationships' : {p[1], p[2]} \subseteq DOMAIN notes'
    BY <1>2, <1>3 DEF TypeOK, Purged
  <2>2. LiveRelationships' \subseteq LiveRelationships
    BY <1>3 DEF LiveRelationships
  <2>3. \A p \in LiveRelationships' : relationships'[p].version \in Versions
    BY <1>3, <2>2 DEF TypeOK, LiveRelationships
  <2>4. QED
    BY <1>3, <2>1, <2>3 DEF RelationshipsOK, IsTable
<1>7. QED
  BY <1>1, <1>2, <1>3, <1>4, <1>5, <1>6 DEF TypeOK, NotesOK, SearchOK, RelationshipsOK

\* Time passing ages tombstones and changes nothing else.
LEMMA RetentionTypes ==
  ASSUME TypeOK, RetentionElapses
  PROVE  /\ TypeOK'
         /\ DOMAIN notes' = DOMAIN notes
         /\ \A n \in DOMAIN notes : notes'[n] = Aged(notes[n])
         /\ DOMAIN relationships' = DOMAIN relationships
         /\ \A p \in DOMAIN relationships : relationships'[p] = Aged(relationships[p])
         /\ LiveNotes' = LiveNotes /\ LiveRelationships' = LiveRelationships
         /\ UNCHANGED <<notesearch, serial>>
<1>1. UNCHANGED <<notesearch, serial>>
  BY DEF RetentionElapses
<1>2. /\ DOMAIN notes' = DOMAIN notes
      /\ \A n \in DOMAIN notes : notes'[n] = Aged(notes[n])
      /\ IsTable(notes', 1..(serial - 1), NoteRow)
  BY AgedRow DEF RetentionElapses, TypeOK, IsTable
<1>3. /\ DOMAIN relationships' = DOMAIN relationships
      /\ \A p \in DOMAIN relationships : relationships'[p] = Aged(relationships[p])
      /\ IsTable(relationships', Pairs, RelationshipRow)
  BY AgedRow DEF RetentionElapses, TypeOK, IsTable
<1>4. LiveNotes' = LiveNotes
  BY <1>2, AgedRow DEF LiveNotes, TypeOK, IsTable
<1>5. LiveRelationships' = LiveRelationships
  BY <1>3, AgedRow DEF LiveRelationships, TypeOK, IsTable
<1>6. NotesOK' /\ SearchOK'
  BY <1>1, <1>2 DEF TypeOK, NotesOK, SearchOK, IsTable
<1>7. RelationshipsOK'
  BY <1>2, <1>3, <1>5, AgedRow DEF TypeOK, RelationshipsOK, IsTable, LiveRelationships
<1>8. QED
  BY <1>1, <1>2, <1>3, <1>4, <1>5, <1>6, <1>7
     DEF TypeOK, NotesOK, SearchOK, RelationshipsOK

(***************************************************************************)
(* The inductive invariant.  None of the conjuncts below TypeOK is enough  *)
(* alone: a no-op test against a wrong hash would leave the search row     *)
(* behind, and the foreign-key cascade of the purge is harmless only when  *)
(* no live relationship dangles.                                           *)
(***************************************************************************)
IInv ==
  /\ TypeOK
  /\ NoDanglingRelationship
  /\ LiveNotesIndexed
  /\ StateHashMatches

\* An empty database satisfies the inductive invariant.
LEMMA InitInv == Init => IInv
BY BoundsAssumption
   DEF Init, IInv, TypeOK, IsTable, NoDanglingRelationship, LiveNotesIndexed,
       StateHashMatches, LiveNotes, LiveRelationships

\* An insert adds a note without relationships and indexes it.
LEMMA InsertNoteInv ==
  ASSUME IInv, NEW b \in Bodies, NEW s \in Styles, NEW t \in NoteTypes,
         NEW v \in Versions, NEW d \in BOOLEAN,
         InsertNote(NewNote(b, s, t, v, d)), UNCHANGED relationships
  PROVE  IInv'
<1> DEFINE row == NewNote(b, s, t, v, d)
<1>1. /\ row \in NoteRow /\ row.body = b /\ row.style = s
      /\ row.state_hash = StateHash(b, s)
  BY NewNoteRow DEF NewNote
<1> HIDE DEF row
<1>2. InsertNote(row)
  BY DEF row
<1>3. /\ TypeOK'
      /\ DOMAIN notes' = DOMAIN notes \cup {serial}
      /\ notes'[serial] = row
      /\ \A n \in DOMAIN notes : notes'[n] = notes[n]
      /\ notesearch'[serial] = row.body /\ serial \in DOMAIN notesearch'
      /\ \A n \in DOMAIN notesearch :
           n \in DOMAIN notesearch' /\ notesearch'[n] = notesearch[n]
  BY <1>1, <1>2, InsertNoteTypes DEF IInv
<1>4. LiveNotes \subseteq LiveNotes' /\ LiveNotes' \subseteq LiveNotes \cup {serial}
  BY <1>3 DEF LiveNotes
<1>5. NoDanglingRelationship'
  BY <1>4 DEF IInv, NoDanglingRelationship, LiveRelationships
<1>6. LiveNotesIndexed'
  BY <1>3, <1>4 DEF IInv, LiveNotesIndexed, LiveNotes
<1>7. StateHashMatches'
  BY <1>1, <1>3 DEF IInv, StateHashMatches
<1>8. QED
  BY <1>3, <1>5, <1>6, <1>7 DEF IInv

\* An edit that writes the hash of what it stores, and the search row when the
\* body is new, keeps both in step.
LEMMA WriteNoteInv ==
  ASSUME IInv, NEW n \in DOMAIN notes, NEW b \in Bodies, NEW s \in Styles,
         NEW t \in NoteTypes, NEW v \in Versions,
         WriteNote(n, Edited(notes[n], b, s, t, v)),
         UNCHANGED <<relationships, serial>>
  PROVE  IInv'
<1> DEFINE new == Flush(notes[n], Edited(notes[n], b, s, t, v))
<1>1. /\ TypeOK'
      /\ DOMAIN notes' = DOMAIN notes
      /\ \A m \in DOMAIN notes \ {n} : notes'[m] = notes[m]
      /\ notes'[n] = new
      /\ LiveNotes' = LiveNotes
      /\ DOMAIN notesearch \subseteq DOMAIN notesearch'
      /\ \A m \in DOMAIN notesearch \ {n} : notesearch'[m] = notesearch[m]
      /\ b # notes[n].body => n \in DOMAIN notesearch' /\ notesearch'[n] = b
      /\ b = notes[n].body => notesearch' = notesearch
  BY WriteNoteTypes DEF IInv
<1>2. new.body = b /\ new.style = s /\ new.state_hash = StateHash(b, s)
  <2>1. notes[n] \in NoteRow
    BY DEF IInv, TypeOK, IsTable
  <2>2. QED
    BY <2>1, EditedRow
<1> HIDE DEF new
<1>3. NoDanglingRelationship'
  BY <1>1 DEF IInv, NoDanglingRelationship, LiveRelationships
<1>4. LiveNotesIndexed'
  BY <1>1, <1>2 DEF IInv, LiveNotesIndexed, LiveNotes
<1>5. StateHashMatches'
  BY <1>1, <1>2 DEF IInv, StateHashMatches
<1>6. QED
  BY <1>1, <1>3, <1>4, <1>5 DEF IInv

\* A soft delete takes the note, its search row and its relationships together.
LEMMA SoftDeleteInv ==
  ASSUME IInv, NEW n \in DOMAIN notes, NEW v \in Versions, SoftDelete(n, v)
  PROVE  IInv'
<1>1. /\ TypeOK'
      /\ DOMAIN notes' = DOMAIN notes
      /\ \A m \in DOMAIN notes \ {n} : notes'[m] = notes[m]
      /\ notes'[n] = SoftDeletedNote(n, v)
      /\ LiveNotes' = LiveNotes \ {n}
      /\ DOMAIN notesearch' = DOMAIN notesearch \ {n}
      /\ \A m \in DOMAIN notesearch' : notesearch'[m] = notesearch[m]
      /\ LiveRelationships' = {p \in LiveRelationships : ~Incident(p, n)}
  BY SoftDeleteTypes DEF IInv
<1>2. /\ SoftDeletedNote(n, v).body = notes[n].body
      /\ SoftDeletedNote(n, v).style = notes[n].style
      /\ SoftDeletedNote(n, v).state_hash = notes[n].state_hash
  <2>1. notes[n] \in NoteRow
    BY DEF IInv, TypeOK, IsTable
  <2>2. QED
    BY <2>1, SoftDeletedRow
<1>3. NoDanglingRelationship'
  BY <1>1 DEF IInv, NoDanglingRelationship, Incident
<1>4. LiveNotesIndexed'
  BY <1>1 DEF IInv, LiveNotesIndexed, LiveNotes
<1>5. StateHashMatches'
  BY <1>1, <1>2 DEF IInv, StateHashMatches
<1>6. QED
  BY <1>1, <1>3, <1>4, <1>5 DEF IInv

\* A relationship between two live notes, or a tombstone, may be written at any time.
LEMMA WriteRelationshipInv ==
  ASSUME IInv, NEW p \in Pairs, {p[1], p[2]} \subseteq DOMAIN notes,
         NEW row \in RelationshipRow, ~row.is_deleted => row.version \in Versions,
         row.is_deleted \/ {p[1], p[2]} \subseteq LiveNotes,
         relationships' = Put(relationships, p, row),
         UNCHANGED <<notes, notesearch, serial>>
  PROVE  IInv'
<1>1. /\ TypeOK'
      /\ LiveNotes' = LiveNotes
      /\ LiveRelationships' =
           (LiveRelationships \ {p}) \cup (IF row.is_deleted THEN {} ELSE {p})
  BY WriteRelationshipTypes DEF IInv
<1>2. NoDanglingRelationship'
  BY <1>1 DEF IInv, NoDanglingRelationship
<1>3. LiveNotesIndexed' /\ StateHashMatches'
  BY <1>1 DEF IInv, LiveNotesIndexed, StateHashMatches
<1>4. QED
  BY <1>1, <1>2, <1>3 DEF IInv

\* The purge erases tombstones only, so what it leaves is as consistent as before.
LEMMA PurgeInv ==
  ASSUME IInv, Purge
  PROVE  IInv'
<1>1. /\ TypeOK'
      /\ DOMAIN notes' = DOMAIN notes \ ExpiredNotes
      /\ \A n \in DOMAIN notes' : notes'[n] = notes[n]
      /\ DOMAIN relationships' = {p \in DOMAIN relationships : ~Purged(p)}
      /\ \A p \in DOMAIN relationships' : relationships'[p] = relationships[p]
      /\ UNCHANGED <<notesearch, serial>>
  BY PurgeTypes DEF IInv
<1>2. LiveNotes' = LiveNotes \ ExpiredNotes
  BY <1>1 DEF LiveNotes
<1>3. NoDanglingRelationship'
  BY <1>1, <1>2
     DEF IInv, NoDanglingRelationship, LiveRelationships, Purged
<1>4. LiveNotesIndexed'
  BY <1>1, <1>2 DEF IInv, LiveNotesIndexed, LiveNotes
<1>5. StateHashMatches'
  BY <1>1 DEF IInv, StateHashMatches
<1>6. QED
  BY <1>1, <1>3, <1>4, <1>5 DEF IInv

\* Time passing leaves what the invariant speaks of alone.
LEMMA RetentionInv ==
  ASSUME IInv, RetentionElapses
  PROVE  IInv'
<1>1. /\ TypeOK'
      /\ DOMAIN notes' = DOMAIN notes
      /\ \A n \in DOMAIN notes : notes'[n] = Aged(notes[n])
      /\ LiveNotes' = LiveNotes /\ LiveRelationships' = LiveRelationships
      /\ UNCHANGED <<notesearch, serial>>
  BY RetentionTypes DEF IInv
<1>2. \A n \in DOMAIN notes : /\ Aged(notes[n]).body = notes[n].body
                              /\ Aged(notes[n]).style = notes[n].style
                              /\ Aged(notes[n]).state_hash = notes[n].state_hash
  BY AgedRow DEF IInv, TypeOK, IsTable
<1>3. NoDanglingRelationship'
  BY <1>1 DEF IInv, NoDanglingRelationship
<1>4. LiveNotesIndexed'
  BY <1>1, <1>2 DEF IInv, LiveNotesIndexed, LiveNotes
<1>5. StateHashMatches'
  BY <1>1, <1>2 DEF IInv, StateHashMatches
<1>6. QED
  BY <1>1, <1>3, <1>4, <1>5 DEF IInv

\* Every operation preserves the inductive invariant.
LEMMA NextInv == IInv /\ [Next]_vars => IInv'
<1> SUFFICES ASSUME IInv, [Next]_vars
             PROVE  IInv'
  OBVIOUS
<1>1. \A n \in DOMAIN notes :
        notes[n].version < MaxVersion => notes[n].version + 1 \in Versions
  BY BoundsAssumption DEF IInv, TypeOK, IsTable, NoteRow, Versions
<1>2. ASSUME NEW b \in Bodies, NEW s \in Styles, NEW t \in NoteTypes,
             CreateNote(b, s, t)
      PROVE  IInv'
  <2>1. 1 \in Versions
    BY BoundsAssumption DEF Versions
  <2>2. QED
    BY <1>2, <2>1, InsertNoteInv DEF CreateNote
<1>3. ASSUME NEW n \in NoteIds, NEW b \in Bodies, NEW s \in Styles,
             NEW t \in NoteTypes, UpdateNote(n, b, s, t) \/ PushSameNote(n, b, s, t)
      PROVE  IInv'
  <2>1. n \in DOMAIN notes /\ notes[n].version < MaxVersion
    BY <1>3 DEF UpdateNote, PushSameNote, LiveNotes
  <2>2. notes[n].version + 1 \in Versions
    BY <1>1, <2>1
  <2>3. /\ WriteNote(n, Edited(notes[n], b, s, t, notes[n].version + 1))
        /\ UNCHANGED <<relationships, serial>>
    BY <1>3 DEF UpdateNote, PushSameNote
  <2>4. QED
    BY <2>1, <2>2, <2>3, WriteNoteInv
<1>4. ASSUME NEW n \in NoteIds, DeleteNote(n)
      PROVE  IInv'
  <2>1. n \in DOMAIN notes /\ notes[n].version + 1 \in Versions
    BY <1>1, <1>4 DEF DeleteNote
  <2>2. QED
    BY <1>4, <2>1, SoftDeleteInv DEF DeleteNote
<1>5. ASSUME NEW p \in Pairs, NEW t \in RelTypes, CreateRelationship(p[1], p[2], t)
      PROVE  IInv'
  <2>1. p = <<p[1], p[2]>>
    BY PairsAssumption
  <2>2. NewRelationship(t, 1, FALSE) \in RelationshipRow /\ 1 \in Versions
    BY BoundsAssumption DEF RelationshipRow, NewRelationship, Versions
  <2>3. {p[1], p[2]} \subseteq LiveNotes /\ LiveNotes \subseteq DOMAIN notes
    BY <1>5 DEF CreateRelationship, LiveNotes
  <2>4. /\ NewRelationship(t, 1, FALSE).version = 1
        /\ NewRelationship(t, 1, FALSE).is_deleted = FALSE
    BY DEF NewRelationship
  <2>5. QED
    BY <1>5, <2>1, <2>2, <2>3, <2>4, WriteRelationshipInv DEF CreateRelationship
<1>6. ASSUME NEW p \in Pairs, DeleteRelationship(p)
      PROVE  IInv'
  <2>1. /\ p \in DOMAIN relationships /\ relationships[p] \in RelationshipRow
        /\ relationships[p].version <= MaxVersion
        /\ {p[1], p[2]} \subseteq DOMAIN notes
    BY <1>6 DEF DeleteRelationship, IInv, TypeOK, IsTable
  <2>2. /\ Tombstone(relationships[p]) \in RelationshipRow
        /\ Tombstone(relationships[p]).is_deleted
    BY <2>1, TombstoneRow
  <2>3. relationships' = Put(relationships, p, Tombstone(relationships[p]))
    BY <1>6, <2>1 DEF DeleteRelationship, Put, IInv, TypeOK, IsTable
  <2>4. QED
    BY <1>6, <2>1, <2>2, <2>3, WriteRelationshipInv DEF DeleteRelationship
<1>7. ASSUME NEW b \in Bodies, NEW s \in Styles, NEW t \in NoteTypes,
             NEW v \in Versions, NEW d \in BOOLEAN, PushNewNote(b, s, t, v, d)
      PROVE  IInv'
  BY <1>7, InsertNoteInv DEF PushNewNote
<1>8. ASSUME NEW n \in NoteIds, NEW v \in Versions, PushDeletedNote(n, v)
      PROVE  IInv'
  BY <1>8, SoftDeleteInv DEF PushDeletedNote
<1>9. ASSUME NEW n \in NoteIds, NEW b \in Bodies, NEW s \in Styles,
             NEW t \in NoteTypes, NEW v \in Versions, PushNewerNote(n, b, s, t, v)
      PROVE  IInv'
  BY <1>9, WriteNoteInv DEF PushNewerNote
<1>10. ASSUME NEW p \in Pairs, NEW t \in RelTypes, NEW v \in Versions,
              NEW d \in BOOLEAN, PushNewRelationship(p[1], p[2], t, v, d)
       PROVE  IInv'
  <2>1. p = <<p[1], p[2]>>
    BY PairsAssumption
  <2>2. NewRelationship(t, v, d) \in RelationshipRow
    BY BoundsAssumption DEF RelationshipRow, NewRelationship, Versions
  <2>3. NewRelationship(t, v, d).version = v
    BY DEF NewRelationship
  <2>4. {p[1], p[2]} \subseteq LiveNotes /\ LiveNotes \subseteq DOMAIN notes
    BY <1>10 DEF PushNewRelationship, LiveNotes
  <2>5. QED
    BY <1>10, <2>1, <2>2, <2>3, <2>4, WriteRelationshipInv DEF PushNewRelationship
<1>11. ASSUME NEW p \in Pairs, NEW t \in RelTypes, NEW v \in Versions,
              NEW d \in BOOLEAN, PushRelationship(p[1], p[2], t, v, d)
       PROVE  IInv'
  <2>1. p = <<p[1], p[2]>>
    BY PairsAssumption
  <2>2. p \in DOMAIN relationships /\ relationships[p] \in RelationshipRow
    BY <1>11, <2>1 DEF PushRelationship, IInv, TypeOK, IsTable
  <2>3. /\ PushedRelationship(relationships[p], t, v, d) \in RelationshipRow
        /\ PushedRelationship(relationships[p], t, v, d).version = v
    BY <2>2, PushedRow
  <2>4. {p[1], p[2]} \subseteq LiveNotes /\ LiveNotes \subseteq DOMAIN notes
    BY <1>11 DEF PushRelationship, LiveNotes
  <2>5. relationships' =
          Put(relationships, p, PushedRelationship(relationships[p], t, v, d))
    BY <1>11, <2>1, <2>2 DEF PushRelationship, Put, IInv, TypeOK, IsTable
  <2>6. QED
    BY <1>11, <2>3, <2>4, <2>5, WriteRelationshipInv DEF PushRelationship
<1>12. CASE Purge
  BY <1>12, PurgeInv
<1>13. CASE RetentionElapses
  BY <1>13, RetentionInv
<1>14. CASE UNCHANGED vars
  BY <1>14
     DEF vars, IInv, TypeOK, IsTable, NoDanglingRelationship, LiveNotesIndexed,
         StateHashMatches, LiveNotes, LiveRelationships
<1>15. QED
  BY <1>2, <1>3, <1>4, <1>5, <1>6, <1>7, <1>8, <1>9, <1>10, <1>11, <1>12, <1>13, <1>14
     DEF Next, RestStep, SyncStep

\* The inductive invariant holds in every reachable state, whatever requests arrive.
THEOREM Invariance == Spec => []IInv
<1>1. Init => IInv
  BY InitInv
<1>2. IInv /\ [Next]_vars => IInv'
  BY NextInv
<1>3. QED
  BY <1>1, <1>2, PTL DEF Spec

\* The tables of NoteStore are well formed, whatever requests arrive.
THEOREM TypeCorrectness == Spec => []TypeOK
<1>1. IInv => TypeOK
  BY DEF IInv
<1>2. QED
  BY <1>1, Invariance, PTL

\* service/note.py, service/sync.py, service/relationship.py: a live relationship
\* always joins live notes when requests do not overlap.
THEOREM NeverDangling == Spec => []NoDanglingRelationship
<1>1. IInv => NoDanglingRelationship
  BY DEF IInv
<1>2. QED
  BY <1>1, Invariance, PTL

\* service/note_persistence.py, service/note_state_hash.py: a live note is found under
\* its current body, and the stored hash is that of the stored fields, so the no-op test
\* drops only updates that change nothing.
THEOREM DerivedDataIsCurrent == Spec => []DerivedDataFollows
<1>1. IInv => DerivedDataFollows
  BY DEF IInv, DerivedDataFollows
<1>2. QED
  BY <1>1, Invariance, PTL

-------------------------------------------------------------------------------
(***************************************************************************)
(* What no step of NoteStore ever does, for every value of the constants:  *)
(* take a version or a deletion back, change a row and keep its version    *)
(* (two pushes excepted), or erase a row that is not a tombstone.          *)
(***************************************************************************)

(***************************************************************************)
(* One row at a time.  The last conjunct of each carries the invariant     *)
(* below from the old row to the new one.                                  *)
(***************************************************************************)
NoteMoves(old, new) ==
  /\ new.version >= old.version
  /\ Shown(new) # Shown(old) => new.version > old.version
  /\ old.is_deleted => new.is_deleted
  /\ (old.expired => old.is_deleted) => (new.expired => new.is_deleted)

RelationshipMoves(old, new) ==
  /\ new.version >= old.version
  /\ old.is_deleted => new.is_deleted
  /\ (old.expired => old.is_deleted) => (new.expired => new.is_deleted)

\* What a step does to the tables: rows that stay move as above, rows that are new
\* are not expired, and rows that go were expired, or related to a note that was.
RowsMove ==
  /\ \A n \in DOMAIN notes \cap DOMAIN notes' : NoteMoves(notes[n], notes'[n])
  /\ \A n \in DOMAIN notes' \ DOMAIN notes : ~notes'[n].expired
  /\ \A n \in DOMAIN notes \ DOMAIN notes' : notes[n].expired
  /\ \A p \in DOMAIN relationships \cap DOMAIN relationships' :
       RelationshipMoves(relationships[p], relationships'[p])
  /\ \A p \in DOMAIN relationships' \ DOMAIN relationships : ~relationships'[p].expired
  /\ \A p \in DOMAIN relationships \ DOMAIN relationships' : Purged(p)

\* Only deleted rows grow old: what makes the age that the purge goes by safe.
ExpiredAreDeleted ==
  /\ \A n \in DOMAIN notes : notes[n].expired => notes[n].is_deleted
  /\ \A p \in DOMAIN relationships :
       relationships[p].expired => relationships[p].is_deleted

-------------------------------------------------------------------------------
\* A row that does not change moves trivially.
LEMMA SameRowMoves ==
  /\ \A row \in NoteRow : NoteMoves(row, row)
  /\ \A rel \in RelationshipRow : RelationshipMoves(rel, rel)
BY BoundsAssumption DEF NoteRow, RelationshipRow, Versions, NoteMoves, RelationshipMoves

\* An edit under a higher version moves a note.
LEMMA EditMoves ==
  ASSUME NEW row \in NoteRow, NEW b \in Bodies, NEW s \in Styles,
         NEW t \in NoteTypes, NEW v \in Versions, v > row.version
  PROVE  NoteMoves(row, Flush(row, Edited(row, b, s, t, v)))
<1> DEFINE new == Flush(row, Edited(row, b, s, t, v))
<1>1. new.version = v /\ new.is_deleted = row.is_deleted
  BY EditedRow
<1>2. new.expired => row.expired
  BY DEF Flush, Edited, NoteRow
<1>3. v \in Nat /\ row.version \in Nat /\ v >= row.version
  BY BoundsAssumption DEF NoteRow, Versions
<1> HIDE DEF new
<1>4. QED
  BY <1>1, <1>2, <1>3 DEF NoteMoves, new

\* A soft delete at the version stored, or a higher one, moves a note.
LEMMA SoftDeleteMoves ==
  ASSUME NEW n \in DOMAIN notes, notes[n] \in NoteRow, NEW v \in Versions,
         v >= notes[n].version
  PROVE  NoteMoves(notes[n], SoftDeletedNote(n, v))
<1>1. /\ SoftDeletedNote(n, v).version = v
      /\ SoftDeletedNote(n, v).is_deleted
      /\ SoftDeletedNote(n, v).body = notes[n].body
      /\ SoftDeletedNote(n, v).style = notes[n].style
  BY SoftDeletedRow
<1>2. SoftDeletedNote(n, v).type = notes[n].type
  BY DEF SoftDeletedNote, Flush, NoteRow
<1>3. Shown(SoftDeletedNote(n, v)) = Shown(notes[n])
  BY <1>1, <1>2 DEF Shown
<1>4. QED
  BY <1>1, <1>3 DEF NoteMoves

\* Deleting a relationship raises its version.
LEMMA TombstoneMoves ==
  ASSUME NEW rel \in RelationshipRow, rel.version <= MaxVersion
  PROVE  RelationshipMoves(rel, Tombstone(rel))
<1>1. rel.version \in Nat
  BY BoundsAssumption DEF RelationshipRow
<1>2. QED
  BY <1>1, TombstoneRow DEF RelationshipMoves

\* A push at the version stored, or a higher one, moves a relationship.
LEMMA PushMoves ==
  ASSUME NEW rel \in RelationshipRow, NEW t \in RelTypes, NEW v \in Versions,
         NEW d \in BOOLEAN, v >= rel.version
  PROVE  RelationshipMoves(rel, PushedRelationship(rel, t, v, d))
<1> DEFINE new == PushedRelationship(rel, t, v, d)
<1>1. new.version = v /\ new.is_deleted = (rel.is_deleted \/ d)
  BY PushedRow
<1>2. new.expired => rel.expired
  BY Zenon DEF PushedRelationship, Flush, RelationshipRow
<1> HIDE DEF new
<1>3. QED
  BY <1>1, <1>2 DEF RelationshipMoves, new

\* A row that is aged is expired only if it is deleted.
LEMMA AgeMoves ==
  /\ \A row \in NoteRow : NoteMoves(row, Aged(row))
  /\ \A rel \in RelationshipRow : RelationshipMoves(rel, Aged(rel))
<1>1. ASSUME NEW row \in NoteRow
      PROVE  NoteMoves(row, Aged(row))
  <2>1. Aged(row).version = row.version /\ Aged(row).is_deleted = row.is_deleted
    BY <1>1, AgedRow
  <2>2. Aged(row).expired = row.is_deleted /\ Shown(Aged(row)) = Shown(row)
    BY <1>1 DEF Aged, Shown, NoteRow
  <2>3. row.version >= row.version
    BY BoundsAssumption DEF NoteRow, Versions
  <2>4. QED
    BY <2>1, <2>2, <2>3 DEF NoteMoves
<1>2. ASSUME NEW rel \in RelationshipRow
      PROVE  RelationshipMoves(rel, Aged(rel))
  <2>1. Aged(rel).version = rel.version /\ Aged(rel).is_deleted = rel.is_deleted
    BY <1>2, AgedRow
  <2>2. Aged(rel).expired = rel.is_deleted
    BY <1>2 DEF Aged, RelationshipRow
  <2>3. rel.version >= rel.version
    BY BoundsAssumption DEF RelationshipRow
  <2>4. QED
    BY <2>1, <2>2, <2>3 DEF RelationshipMoves
<1>3. QED
  BY <1>1, <1>2

-------------------------------------------------------------------------------
(***************************************************************************)
(* One write at a time.                                                    *)
(***************************************************************************)
\* An insert leaves the rows that are there alone.
LEMMA InsertNoteSteps ==
  ASSUME IInv, NEW b \in Bodies, NEW s \in Styles, NEW t \in NoteTypes,
         NEW v \in Versions, NEW d \in BOOLEAN,
         InsertNote(NewNote(b, s, t, v, d)), UNCHANGED relationships
  PROVE  RowsMove
<1> DEFINE row == NewNote(b, s, t, v, d)
<1>1. row \in NoteRow /\ ~row.expired
  BY NewNoteRow DEF NewNote
<1> HIDE DEF row
<1>2. InsertNote(row)
  BY DEF row
<1>3. /\ DOMAIN notes' = DOMAIN notes \cup {serial}
      /\ notes'[serial] = row /\ serial \notin DOMAIN notes
      /\ \A n \in DOMAIN notes : notes'[n] = notes[n] /\ notes[n] \in NoteRow
  BY <1>1, <1>2, InsertNoteTypes DEF IInv, TypeOK, IsTable
<1>4. \A p \in DOMAIN relationships : relationships[p] \in RelationshipRow
  BY DEF IInv, TypeOK, IsTable
<1>5. QED
  BY <1>1, <1>3, <1>4, SameRowMoves DEF RowsMove

\* An edit touches its note only, and raises its version.
LEMMA WriteNoteSteps ==
  ASSUME IInv, NEW n \in DOMAIN notes, NEW b \in Bodies, NEW s \in Styles,
         NEW t \in NoteTypes, NEW v \in Versions, v > notes[n].version,
         WriteNote(n, Edited(notes[n], b, s, t, v)),
         UNCHANGED <<relationships, serial>>
  PROVE  RowsMove
<1>1. \A m \in DOMAIN notes : notes[m] \in NoteRow
  BY DEF IInv, TypeOK, IsTable
<1>2. /\ DOMAIN notes' = DOMAIN notes
      /\ \A m \in DOMAIN notes \ {n} : notes'[m] = notes[m]
      /\ notes'[n] = Flush(notes[n], Edited(notes[n], b, s, t, v))
  BY WriteNoteTypes DEF IInv
<1>3. NoteMoves(notes[n], notes'[n])
  BY <1>1, <1>2, EditMoves
<1>4. \A m \in DOMAIN notes : NoteMoves(notes[m], notes'[m])
  BY <1>1, <1>2, <1>3, SameRowMoves
<1>5. \A p \in DOMAIN relationships : relationships[p] \in RelationshipRow
  BY DEF IInv, TypeOK, IsTable
<1>6. QED
  BY <1>2, <1>4, <1>5, SameRowMoves DEF RowsMove

\* The cascade turns relationships into tombstones, one version up.
LEMMA CascadeSteps ==
  ASSUME TypeOK, NEW n, relationships' = CascadeFrom(n)
  PROVE  /\ DOMAIN relationships' = DOMAIN relationships
         /\ \A p \in DOMAIN relationships :
              RelationshipMoves(relationships[p], relationships'[p])
<1>1. DOMAIN relationships' = DOMAIN relationships
  BY DEF CascadeFrom
<1>2. ASSUME NEW p \in DOMAIN relationships
      PROVE  RelationshipMoves(relationships[p], relationships'[p])
  <2>1. relationships[p] \in RelationshipRow
    BY DEF TypeOK, IsTable
  <2>2. CASE Incident(p, n) /\ p \in LiveRelationships
    <3>1. relationships'[p] = Tombstone(relationships[p])
      BY <2>2 DEF CascadeFrom
    <3>2. relationships[p].version <= MaxVersion
      BY <2>2, BoundsAssumption DEF TypeOK, Versions
    <3>3. QED
      BY <2>1, <3>1, <3>2, TombstoneMoves
  <2>3. CASE ~(Incident(p, n) /\ p \in LiveRelationships)
    <3>1. relationships'[p] = relationships[p]
      BY <2>3 DEF CascadeFrom
    <3>2. QED
      BY <2>1, <3>1, SameRowMoves
  <2>4. QED
    BY <2>2, <2>3
<1>3. QED
  BY <1>1, <1>2

\* A soft delete keeps the note, and raises what the cascade takes.
LEMMA SoftDeleteSteps ==
  ASSUME IInv, NEW n \in DOMAIN notes, NEW v \in Versions,
         v >= notes[n].version, SoftDelete(n, v)
  PROVE  RowsMove
<1>1. \A m \in DOMAIN notes : notes[m] \in NoteRow
  BY DEF IInv, TypeOK, IsTable
<1>2. /\ DOMAIN notes' = DOMAIN notes
      /\ \A m \in DOMAIN notes \ {n} : notes'[m] = notes[m]
      /\ notes'[n] = SoftDeletedNote(n, v)
  BY SoftDeleteTypes DEF IInv
<1>3. NoteMoves(notes[n], notes'[n])
  BY <1>1, <1>2, SoftDeleteMoves
<1>4. \A m \in DOMAIN notes : NoteMoves(notes[m], notes'[m])
  BY <1>1, <1>2, <1>3, SameRowMoves
<1>5. /\ DOMAIN relationships' = DOMAIN relationships
      /\ \A p \in DOMAIN relationships :
           RelationshipMoves(relationships[p], relationships'[p])
  BY CascadeSteps DEF IInv, SoftDelete
<1>6. QED
  BY <1>2, <1>4, <1>5 DEF RowsMove

\* Writing one relationship leaves every other row alone.
LEMMA WriteRelationshipSteps ==
  ASSUME IInv, NEW p \in Pairs, NEW row \in RelationshipRow,
         IF p \in DOMAIN relationships
           THEN RelationshipMoves(relationships[p], row) ELSE ~row.expired,
         relationships' = Put(relationships, p, row),
         UNCHANGED <<notes, notesearch, serial>>
  PROVE  RowsMove
<1>1. \A n \in DOMAIN notes : notes[n] \in NoteRow
  BY DEF IInv, TypeOK, IsTable
<1>2. \A q \in DOMAIN relationships : relationships[q] \in RelationshipRow
  BY DEF IInv, TypeOK, IsTable
<1>3. /\ DOMAIN relationships' = DOMAIN relationships \cup {p}
      /\ relationships'[p] = row
      /\ \A q \in DOMAIN relationships \ {p} : relationships'[q] = relationships[q]
  BY DEF Put
<1>4. \A q \in DOMAIN relationships :
        RelationshipMoves(relationships[q], relationships'[q])
  BY <1>2, <1>3, SameRowMoves
<1>5. QED
  BY <1>1, <1>3, <1>4, SameRowMoves DEF RowsMove

\* The purge takes expired notes, and relationships that expired or lose an end.
LEMMA PurgeSteps ==
  ASSUME IInv, Purge
  PROVE  RowsMove
<1>1. /\ \A n \in DOMAIN notes : notes[n] \in NoteRow
      /\ \A p \in DOMAIN relationships : relationships[p] \in RelationshipRow
  BY DEF IInv, TypeOK, IsTable
<1>2. /\ DOMAIN notes' = DOMAIN notes \ ExpiredNotes
      /\ \A n \in DOMAIN notes' : notes'[n] = notes[n]
      /\ DOMAIN relationships' = {p \in DOMAIN relationships : ~Purged(p)}
      /\ \A p \in DOMAIN relationships' : relationships'[p] = relationships[p]
  BY PurgeTypes DEF IInv
<1>3. QED
  BY <1>1, <1>2, SameRowMoves DEF RowsMove, ExpiredNotes

\* Time passing ages rows and takes none.
LEMMA RetentionSteps ==
  ASSUME IInv, RetentionElapses
  PROVE  RowsMove
<1>1. /\ \A n \in DOMAIN notes : notes[n] \in NoteRow
      /\ \A p \in DOMAIN relationships : relationships[p] \in RelationshipRow
  BY DEF IInv, TypeOK, IsTable
<1>2. /\ DOMAIN notes' = DOMAIN notes
      /\ \A n \in DOMAIN notes : notes'[n] = Aged(notes[n])
      /\ DOMAIN relationships' = DOMAIN relationships
      /\ \A p \in DOMAIN relationships : relationships'[p] = Aged(relationships[p])
  BY RetentionTypes DEF IInv
<1>3. QED
  BY <1>1, <1>2, AgeMoves DEF RowsMove

-------------------------------------------------------------------------------
(***************************************************************************)
(* Every step.                                                             *)
(***************************************************************************)
\* Every operation moves rows as RowsMove says, or does nothing.
LEMMA NextSteps == IInv /\ [Next]_vars => RowsMove
<1> SUFFICES ASSUME IInv, [Next]_vars
             PROVE  RowsMove
  OBVIOUS
<1>1. \A n \in DOMAIN notes :
        /\ notes[n] \in NoteRow /\ notes[n].version \in Nat
        /\ notes[n].version + 1 > notes[n].version
        /\ notes[n].version < MaxVersion => notes[n].version + 1 \in Versions
  BY BoundsAssumption DEF IInv, TypeOK, IsTable, NoteRow, Versions
<1>2. \A p \in DOMAIN relationships : relationships[p] \in RelationshipRow
  BY DEF IInv, TypeOK, IsTable
<1>3. ASSUME NEW b \in Bodies, NEW s \in Styles, NEW t \in NoteTypes,
             CreateNote(b, s, t)
      PROVE  RowsMove
  <2>1. 1 \in Versions
    BY BoundsAssumption DEF Versions
  <2>2. QED
    BY <1>3, <2>1, InsertNoteSteps DEF CreateNote
<1>4. ASSUME NEW n \in NoteIds, NEW b \in Bodies, NEW s \in Styles,
             NEW t \in NoteTypes, UpdateNote(n, b, s, t) \/ PushSameNote(n, b, s, t)
      PROVE  RowsMove
  <2>1. n \in DOMAIN notes /\ notes[n].version < MaxVersion
    BY <1>4 DEF UpdateNote, PushSameNote, LiveNotes
  <2>2. /\ notes[n].version + 1 \in Versions
        /\ notes[n].version + 1 > notes[n].version
    BY <1>1, <2>1
  <2>3. /\ WriteNote(n, Edited(notes[n], b, s, t, notes[n].version + 1))
        /\ UNCHANGED <<relationships, serial>>
    BY <1>4 DEF UpdateNote, PushSameNote
  <2>4. QED
    BY <2>1, <2>2, <2>3, WriteNoteSteps
<1>5. ASSUME NEW n \in NoteIds, DeleteNote(n)
      PROVE  RowsMove
  <2>1. n \in DOMAIN notes /\ notes[n].version < MaxVersion
    BY <1>5 DEF DeleteNote
  <2>2. /\ notes[n].version + 1 \in Versions
        /\ notes[n].version + 1 >= notes[n].version
    BY <1>1, <2>1
  <2>3. QED
    BY <1>5, <2>1, <2>2, SoftDeleteSteps DEF DeleteNote
<1>6. ASSUME NEW p \in Pairs, NEW t \in RelTypes, CreateRelationship(p[1], p[2], t)
      PROVE  RowsMove
  <2>1. p = <<p[1], p[2]>>
    BY PairsAssumption
  <2>2. /\ NewRelationship(t, 1, FALSE) \in RelationshipRow
        /\ ~NewRelationship(t, 1, FALSE).expired
    BY BoundsAssumption DEF RelationshipRow, NewRelationship
  <2>3. QED
    BY <1>6, <2>1, <2>2, WriteRelationshipSteps DEF CreateRelationship
<1>7. ASSUME NEW p \in Pairs, DeleteRelationship(p)
      PROVE  RowsMove
  <2>1. /\ p \in DOMAIN relationships /\ relationships[p] \in RelationshipRow
        /\ relationships[p].version <= MaxVersion
    BY <1>2, <1>7 DEF DeleteRelationship
  <2>2. /\ Tombstone(relationships[p]) \in RelationshipRow
        /\ RelationshipMoves(relationships[p], Tombstone(relationships[p]))
    BY <2>1, TombstoneRow, TombstoneMoves
  <2>3. relationships' = Put(relationships, p, Tombstone(relationships[p]))
    BY <1>7, <2>1 DEF DeleteRelationship, Put, IInv, TypeOK, IsTable
  <2>4. QED
    BY <1>7, <2>1, <2>2, <2>3, WriteRelationshipSteps DEF DeleteRelationship
<1>8. ASSUME NEW b \in Bodies, NEW s \in Styles, NEW t \in NoteTypes,
             NEW v \in Versions, NEW d \in BOOLEAN, PushNewNote(b, s, t, v, d)
      PROVE  RowsMove
  BY <1>8, InsertNoteSteps DEF PushNewNote
<1>9. ASSUME NEW n \in NoteIds, NEW v \in Versions, PushDeletedNote(n, v)
      PROVE  RowsMove
  BY <1>9, SoftDeleteSteps DEF PushDeletedNote
<1>10. ASSUME NEW n \in NoteIds, NEW b \in Bodies, NEW s \in Styles,
              NEW t \in NoteTypes, NEW v \in Versions, PushNewerNote(n, b, s, t, v)
       PROVE  RowsMove
  BY <1>10, WriteNoteSteps DEF PushNewerNote
<1>11. ASSUME NEW p \in Pairs, NEW t \in RelTypes, NEW v \in Versions,
              NEW d \in BOOLEAN, PushNewRelationship(p[1], p[2], t, v, d)
       PROVE  RowsMove
  <2>1. p = <<p[1], p[2]>>
    BY PairsAssumption
  <2>2. /\ NewRelationship(t, v, d) \in RelationshipRow
        /\ ~NewRelationship(t, v, d).expired
    BY BoundsAssumption DEF RelationshipRow, NewRelationship, Versions
  <2>3. QED
    BY <1>11, <2>1, <2>2, WriteRelationshipSteps DEF PushNewRelationship
<1>12. ASSUME NEW p \in Pairs, NEW t \in RelTypes, NEW v \in Versions,
              NEW d \in BOOLEAN, PushRelationship(p[1], p[2], t, v, d)
       PROVE  RowsMove
  <2>1. p = <<p[1], p[2]>>
    BY PairsAssumption
  <2>2. /\ p \in DOMAIN relationships /\ relationships[p] \in RelationshipRow
        /\ v >= relationships[p].version
    BY <1>2, <1>12, <2>1 DEF PushRelationship
  <2>3. /\ PushedRelationship(relationships[p], t, v, d) \in RelationshipRow
        /\ RelationshipMoves(relationships[p], PushedRelationship(relationships[p], t, v, d))
    BY <2>2, PushedRow, PushMoves
  <2>4. relationships' =
          Put(relationships, p, PushedRelationship(relationships[p], t, v, d))
    BY <1>12, <2>1, <2>2 DEF PushRelationship, Put, IInv, TypeOK, IsTable
  <2>5. QED
    BY <1>12, <2>2, <2>3, <2>4, WriteRelationshipSteps DEF PushRelationship
<1>13. CASE Purge
  BY <1>13, PurgeSteps
<1>14. CASE RetentionElapses
  BY <1>14, RetentionSteps
<1>15. CASE UNCHANGED vars
  BY <1>1, <1>2, <1>15, SameRowMoves DEF vars, RowsMove
<1>16. QED
  BY <1>3, <1>4, <1>5, <1>6, <1>7, <1>8, <1>9, <1>10, <1>11, <1>12, <1>13, <1>14, <1>15
     DEF Next, RestStep, SyncStep

\* Purge's flag for a row's age is never set on a row that a user still has.
LEMMA ExpiredStep == ExpiredAreDeleted /\ RowsMove => ExpiredAreDeleted'
BY DEF ExpiredAreDeleted, RowsMove, NoteMoves, RelationshipMoves

\* A relationship that the purge takes is deleted: it expired itself, or lost an end
\* that was deleted, at which no live relationship is left.
LEMMA EraseStep == IInv /\ ExpiredAreDeleted /\ RowsMove => ErasesTombstones
<1> SUFFICES ASSUME IInv, ExpiredAreDeleted, RowsMove
             PROVE  ErasesTombstones
  OBVIOUS
<1>1. \A n \in ExpiredNotes : n \notin LiveNotes
  BY DEF ExpiredAreDeleted, ExpiredNotes, LiveNotes
<1>2. \A p \in LiveRelationships : ~Purged(p)
  BY <1>1 DEF IInv, NoDanglingRelationship, Purged, ExpiredAreDeleted, LiveRelationships
<1>3. QED
  BY <1>2 DEF ErasesTombstones, RowsMove, LiveRelationships, ExpiredAreDeleted

\* The purge, service/purge.py, deletes by flag and age: age implies the flag.
THEOREM OnlyDeletedRowsExpire == Spec => []ExpiredAreDeleted
<1>1. Init => ExpiredAreDeleted
  BY DEF Init, ExpiredAreDeleted
<1>2. IInv /\ ExpiredAreDeleted /\ [Next]_vars => ExpiredAreDeleted'
  BY NextSteps, ExpiredStep
<1>3. QED
  BY <1>1, <1>2, Invariance, PTL DEF Spec

\* service/purge.py and the ON DELETE CASCADE of relationships: no row a user still
\* has is ever erased.
THEOREM OnlyTombstonesErased == Spec => OnlyTombstonesAreErased
<1>1. IInv /\ ExpiredAreDeleted /\ [Next]_vars => [ErasesTombstones]_vars
  BY NextSteps, EraseStep
<1>2. QED
  BY <1>1, Invariance, OnlyDeletedRowsExpire, PTL DEF Spec, OnlyTombstonesAreErased

-------------------------------------------------------------------------------
(***************************************************************************)
(* Which changes the versions tell: a row at the version it had is the row *)
(* it was, except where a push is taken at an equal version.               *)
(***************************************************************************)
RelationshipIsTold(old, new) ==
  new.version = old.version => new.type = old.type /\ new.is_deleted = old.is_deleted

RelationshipsAreTold ==
  \A p \in DOMAIN relationships \cap DOMAIN relationships' :
    RelationshipIsTold(relationships[p], relationships'[p])

DeletionsAreTold ==
  \A n \in DOMAIN notes \cap DOMAIN notes' :
    notes'[n].version = notes[n].version => notes'[n].is_deleted = notes[n].is_deleted

\* A tombstone has a version of its own.
LEMMA TombstoneTells ==
  ASSUME NEW rel \in RelationshipRow, rel.version <= MaxVersion
  PROVE  RelationshipIsTold(rel, Tombstone(rel))
<1>1. Tombstone(rel).version = rel.version + 1
  BY TombstoneRow
<1>2. rel.version \in Nat
  BY BoundsAssumption DEF RelationshipRow
<1>3. QED
  BY <1>1, <1>2 DEF RelationshipIsTold

\* The cascade tells of every relationship it takes.
LEMMA CascadeTells ==
  ASSUME TypeOK, NEW n, relationships' = CascadeFrom(n)
  PROVE  RelationshipsAreTold
<1>1. ASSUME NEW p \in DOMAIN relationships
      PROVE  RelationshipIsTold(relationships[p], relationships'[p])
  <2>1. relationships[p] \in RelationshipRow
    BY DEF TypeOK, IsTable
  <2>2. CASE Incident(p, n) /\ p \in LiveRelationships
    <3>1. relationships'[p] = Tombstone(relationships[p])
      BY <2>2 DEF CascadeFrom
    <3>2. relationships[p].version <= MaxVersion
      BY <2>2, BoundsAssumption DEF TypeOK, Versions
    <3>3. QED
      BY <2>1, <3>1, <3>2, TombstoneTells
  <2>3. CASE ~(Incident(p, n) /\ p \in LiveRelationships)
    BY <2>3 DEF CascadeFrom, RelationshipIsTold
  <2>4. QED
    BY <2>2, <2>3
<1>2. QED
  BY <1>1 DEF RelationshipsAreTold

\* Relationships that stay as they are have nothing to tell.
LEMMA SameTell ==
  ASSUME UNCHANGED relationships
  PROVE  RelationshipsAreTold
BY DEF RelationshipsAreTold, RelationshipIsTold

\* Whatever REST and MCP change, they change under a higher version.
LEMMA RestStepsTell ==
  ASSUME IInv, RestStep
  PROVE  DeletionsAreTold /\ RelationshipsAreTold
<1>1. \A n \in DOMAIN notes : notes[n] \in NoteRow /\ notes[n].version \in Nat
  BY BoundsAssumption DEF IInv, TypeOK, IsTable, NoteRow, Versions
<1>2. \A p \in DOMAIN relationships : relationships[p] \in RelationshipRow
  BY DEF IInv, TypeOK, IsTable
<1>3. ASSUME NEW b \in Bodies, NEW s \in Styles, NEW t \in NoteTypes, CreateNote(b, s, t)
      PROVE  DeletionsAreTold /\ RelationshipsAreTold
  <2>1. \A n \in DOMAIN notes : n # serial
    BY BoundsAssumption DEF IInv, TypeOK, IsTable
  <2>2. \A n \in DOMAIN notes : notes'[n] = notes[n]
    BY <1>3, <2>1 DEF CreateNote, InsertNote, Put
  <2>3. QED
    BY <1>3, <2>2, SameTell DEF CreateNote, DeletionsAreTold
<1>4. ASSUME NEW n \in NoteIds, NEW b \in Bodies, NEW s \in Styles, NEW t \in NoteTypes,
             UpdateNote(n, b, s, t)
      PROVE  DeletionsAreTold /\ RelationshipsAreTold
  <2>1. /\ n \in DOMAIN notes /\ notes[n].version + 1 \in Versions
        /\ WriteNote(n, Edited(notes[n], b, s, t, notes[n].version + 1))
        /\ UNCHANGED <<relationships, serial>>
    BY <1>1, <1>4, BoundsAssumption DEF UpdateNote, LiveNotes, Versions
  <2>2. /\ \A m \in DOMAIN notes \ {n} : notes'[m] = notes[m]
        /\ notes'[n] = Flush(notes[n], Edited(notes[n], b, s, t, notes[n].version + 1))
    BY <2>1, WriteNoteTypes DEF IInv
  <2>3. notes'[n].is_deleted = notes[n].is_deleted
    BY <1>1, <2>1, <2>2, EditedRow
  <2>4. QED
    BY <2>1, <2>2, <2>3, SameTell DEF DeletionsAreTold
<1>5. ASSUME NEW n \in NoteIds, DeleteNote(n)
      PROVE  DeletionsAreTold /\ RelationshipsAreTold
  <2>1. /\ n \in DOMAIN notes /\ notes[n].version + 1 \in Versions
        /\ SoftDelete(n, notes[n].version + 1)
    BY <1>1, <1>5, BoundsAssumption DEF DeleteNote, Versions
  <2>2. /\ \A m \in DOMAIN notes \ {n} : notes'[m] = notes[m]
        /\ notes'[n] = SoftDeletedNote(n, notes[n].version + 1)
    BY <2>1, SoftDeleteTypes DEF IInv
  <2>3. notes'[n].version = notes[n].version + 1
    BY <1>1, <2>1, <2>2, SoftDeletedRow
  <2>4. DeletionsAreTold
    BY <1>1, <2>1, <2>2, <2>3 DEF DeletionsAreTold
  <2>5. RelationshipsAreTold
    BY <2>1, CascadeTells DEF SoftDelete, IInv
  <2>6. QED
    BY <2>4, <2>5
<1>6. ASSUME NEW p \in Pairs, NEW t \in RelTypes, CreateRelationship(p[1], p[2], t)
      PROVE  DeletionsAreTold /\ RelationshipsAreTold
  <2>1. \A q \in DOMAIN relationships : relationships'[q] = relationships[q]
    BY <1>6 DEF CreateRelationship, Put
  <2>2. QED
    BY <1>6, <2>1 DEF CreateRelationship, DeletionsAreTold, RelationshipsAreTold,
                      RelationshipIsTold
<1>7. ASSUME NEW p \in Pairs, DeleteRelationship(p)
      PROVE  DeletionsAreTold /\ RelationshipsAreTold
  <2>1. /\ p \in DOMAIN relationships /\ relationships[p].version <= MaxVersion
        /\ relationships' = [relationships EXCEPT ![p] = Tombstone(relationships[p])]
    BY <1>7 DEF DeleteRelationship
  <2>2. RelationshipIsTold(relationships[p], Tombstone(relationships[p]))
    BY <1>2, <2>1, TombstoneTells
  <2>3. RelationshipsAreTold
    BY <2>1, <2>2 DEF RelationshipsAreTold, RelationshipIsTold, IInv, TypeOK, IsTable
  <2>4. QED
    BY <1>7, <2>3 DEF DeleteRelationship, DeletionsAreTold
<1>8. QED
  BY <1>3, <1>4, <1>5, <1>6, <1>7 DEF RestStep

\* Steps that change notes, pushes included, tell of every relationship they change.
LEMMA NoteStepsTell ==
  ASSUME IInv, Next, notes' # notes
  PROVE  RelationshipsAreTold
<1>1. CASE RestStep
  BY <1>1, RestStepsTell
<1>2. CASE SyncStep
  <2>1. ASSUME NEW n \in NoteIds, NEW v \in Versions, PushDeletedNote(n, v)
        PROVE  RelationshipsAreTold
    BY <2>1, CascadeTells DEF PushDeletedNote, SoftDelete, IInv
  <2>2. \/ UNCHANGED relationships
        \/ \E n \in NoteIds, v \in Versions : PushDeletedNote(n, v)
    BY <1>2 DEF SyncStep, PushNewNote, PushNewerNote, PushSameNote, PushNewRelationship,
                PushRelationship
  <2>3. QED
    BY <2>1, <2>2, SameTell
<1>3. CASE Purge
  <2>1. \A p \in DOMAIN relationships' : relationships'[p] = relationships[p]
    BY <1>3, PurgeTypes DEF IInv
  <2>2. QED
    BY <2>1 DEF RelationshipsAreTold, RelationshipIsTold
<1>4. CASE RetentionElapses
  <2>1. \A p \in DOMAIN relationships :
          /\ relationships[p] \in RelationshipRow
          /\ relationships'[p] = Aged(relationships[p])
    BY <1>4, RetentionTypes DEF IInv, TypeOK, IsTable
  <2>2. QED
    BY <2>1 DEF RelationshipsAreTold, RelationshipIsTold, Aged, RelationshipRow
<1>5. QED
  BY <1>1, <1>2, <1>3, <1>4 DEF Next

\* service/note.py, service/sync.py, service/relationship.py: versions never go back, deletions
\* stand, and what changes raises its version but for the two pushes that the property names.
THEOREM VersionsFollowChanges == Spec => ChangesRaiseVersions
<1>1. IInv /\ [Next]_vars => [NotesGoForward /\ RelationshipsGoForward]_vars
  <2> SUFFICES ASSUME IInv, Next
               PROVE  NotesGoForward /\ RelationshipsGoForward
    OBVIOUS
  <2>1. RowsMove
    BY NextSteps
  <2>2. /\ \A n \in DOMAIN notes : notes[n].version \in Nat
        /\ \A p \in DOMAIN relationships : relationships[p].version \in Nat
    BY BoundsAssumption DEF IInv, TypeOK, IsTable, NoteRow, RelationshipRow, Versions
  <2>3. NotesGoForward
    BY <2>1, <2>2, RestStepsTell DEF NotesGoForward, RowsMove, NoteMoves, DeletionsAreTold
  <2>4. RelationshipsGoForward
    BY <2>1, RestStepsTell, NoteStepsTell
       DEF RelationshipsGoForward, RowsMove, RelationshipMoves, RelationshipsAreTold,
           RelationshipIsTold
  <2>5. QED
    BY <2>3, <2>4
<1>2. QED
  BY <1>1, Invariance, PTL DEF Spec, ChangesRaiseVersions

\* Both together: rows go forward, change under higher versions but for the two pushes that
\* the property names, and go only once they were deleted.
THEOREM RowsGoForward == Spec => RowsOnlyGoForward
BY VersionsFollowChanges, OnlyTombstonesErased DEF RowsOnlyGoForward

-------------------------------------------------------------------------------
(***************************************************************************)
(* NoteStore implements KnowledgeGraph, for every value of the constants:  *)
(* what a reader of the live rows sees changes by one operation on the     *)
(* graph at a time, or not at all.                                         *)
(***************************************************************************)

(***************************************************************************)
(* The refinement mapping, by the names of the variables it maps to.       *)
(***************************************************************************)
ContentSeen == [n \in LiveNotes |-> Shown(notes[n])]
EdgesSeen == [p \in LiveRelationships |-> relationships[p].type]
IdsRetired == (1..(serial - 1)) \ LiveNotes

NodeContents == [body : Bodies, style : Styles, type : NoteTypes]
Seen == <<ContentSeen, EdgesSeen, IdsRetired>>

\* What the steps below need of the state they start from.
RInv == IInv /\ ExpiredAreDeleted

\* A step of the graph, or a stutter.
GraphStep == [Graph!GraphNext]_(Graph!graph)

-------------------------------------------------------------------------------
\* The graph's tuple of variables is mapped to what is seen.
LEMMA GraphSeen == Graph!graph = Seen
BY DEF Graph!graph, Seen, ContentSeen, EdgesSeen, IdsRetired

\* What a well-formed note shows is a content of the graph.
LEMMA ShownIsContent == \A row \in NoteRow : Shown(row) \in NodeContents
BY DEF NoteRow, Shown, NodeContents

\* The mapped variables' domains, and that live notes have ids handed out before.
LEMMA SeenTypes ==
  ASSUME TypeOK
  PROVE  /\ DOMAIN ContentSeen = LiveNotes
         /\ DOMAIN EdgesSeen = LiveRelationships
         /\ LiveNotes \subseteq 1..(serial - 1)
         /\ 1..(serial - 1) \subseteq NoteIds
         /\ LiveRelationships \subseteq Pairs
         /\ \A n \in DOMAIN notes : notes[n] \in NoteRow
         /\ \A p \in DOMAIN relationships : relationships[p] \in RelationshipRow
BY BoundsAssumption
   DEF TypeOK, IsTable, ContentSeen, EdgesSeen, LiveNotes, LiveRelationships, NoteIds

\* A step that changes nothing that is seen is a stutter of the graph.
LEMMA Unseen == UNCHANGED <<ContentSeen, EdgesSeen, IdsRetired>> => GraphStep
BY DEF GraphStep, Graph!graph, ContentSeen, EdgesSeen, IdsRetired

\* The insert of a live note adds a node; that of a deleted one uses up its id.
LEMMA InsertNoteImplements ==
  ASSUME RInv, NEW b \in Bodies, NEW s \in Styles, NEW t \in NoteTypes,
         NEW v \in Versions, NEW d \in BOOLEAN,
         InsertNote(NewNote(b, s, t, v, d)), UNCHANGED relationships
  PROVE  GraphStep
<1> DEFINE row == NewNote(b, s, t, v, d)
<1>1. row \in NoteRow /\ row.is_deleted = d
  BY NewNoteRow DEF NewNote
<1> HIDE DEF row
<1>2. InsertNote(row)
  BY DEF row
<1>3. /\ DOMAIN notes' = DOMAIN notes \cup {serial}
      /\ notes'[serial] = row /\ serial \notin DOMAIN notes
      /\ \A n \in DOMAIN notes : notes'[n] = notes[n]
  BY <1>1, <1>2, InsertNoteTypes DEF RInv, IInv
<1>4. /\ serial \in NoteIds /\ serial \notin 1..(serial - 1)
      /\ 1..(serial' - 1) = 1..(serial - 1) \cup {serial}
  BY <1>2, BoundsAssumption DEF RInv, IInv, TypeOK, InsertNote, NoteIds
<1>5. LiveNotes' = IF d THEN LiveNotes ELSE LiveNotes \cup {serial}
  BY <1>1, <1>3 DEF LiveNotes
<1>6. EdgesSeen' = EdgesSeen
  BY DEF EdgesSeen, LiveRelationships
<1>7. LiveNotes \subseteq DOMAIN notes /\ LiveNotes \subseteq 1..(serial - 1)
  BY SeenTypes DEF LiveNotes, RInv, IInv
<1>8. CASE d
  <2>1. ContentSeen' = ContentSeen
    BY <1>3, <1>5, <1>7, <1>8 DEF ContentSeen
  <2>2. IdsRetired' = IdsRetired \cup {serial}
    BY <1>4, <1>5, <1>7, <1>8 DEF IdsRetired
  <2>3. serial \in NoteIds \ (DOMAIN ContentSeen \cup IdsRetired)
    BY <1>4, <1>7 DEF ContentSeen, IdsRetired
  <2>4. Graph!DiscardNode(serial)
    BY <1>6, <2>1, <2>2, <2>3
       DEF Graph!DiscardNode, Graph!Unused, ContentSeen, EdgesSeen, IdsRetired
  <2>5. QED
    BY <1>4, <2>4 DEF GraphStep, Graph!GraphNext
<1>9. CASE ~d
  <2>1. ContentSeen' = Graph!Put(ContentSeen, serial, Shown(row))
    BY <1>3, <1>5, <1>7, <1>9 DEF ContentSeen, Graph!Put
  <2>2. IdsRetired' = IdsRetired
    BY <1>4, <1>5, <1>7, <1>9 DEF IdsRetired
  <2>3. serial \in NoteIds \ (DOMAIN ContentSeen \cup IdsRetired)
    BY <1>4, <1>7 DEF ContentSeen, IdsRetired
  <2>4. Graph!AddNode(serial, Shown(row))
    BY <1>6, <2>1, <2>2, <2>3
       DEF Graph!AddNode, Graph!Unused, ContentSeen, EdgesSeen, IdsRetired
  <2>5. Shown(row) \in NodeContents
    BY <1>1, ShownIsContent
  <2>6. QED
    BY <1>4, <2>4, <2>5 DEF GraphStep, Graph!GraphNext, NodeContents
<1>10. QED
  BY <1>8, <1>9

\* An edit of a live note edits its node; that of a deleted one is not seen.
LEMMA WriteNoteImplements ==
  ASSUME RInv, NEW n \in DOMAIN notes, NEW b \in Bodies, NEW s \in Styles,
         NEW t \in NoteTypes, NEW v \in Versions,
         WriteNote(n, Edited(notes[n], b, s, t, v)),
         UNCHANGED <<relationships, serial>>
  PROVE  GraphStep
<1> DEFINE new == Flush(notes[n], Edited(notes[n], b, s, t, v))
<1>1. notes[n] \in NoteRow
  BY DEF RInv, IInv, TypeOK, IsTable
<1>2. new \in NoteRow
  BY <1>1, EditedRow
<1> HIDE DEF new
<1>3. /\ DOMAIN notes' = DOMAIN notes
      /\ \A m \in DOMAIN notes \ {n} : notes'[m] = notes[m]
      /\ notes'[n] = new
      /\ LiveNotes' = LiveNotes
  BY WriteNoteTypes DEF RInv, IInv, new
<1>4. EdgesSeen' = EdgesSeen /\ IdsRetired' = IdsRetired
  BY <1>3 DEF EdgesSeen, LiveRelationships, IdsRetired
<1>5. CASE n \in LiveNotes
  <2>1. ContentSeen' = [ContentSeen EXCEPT ![n] = Shown(new)]
    BY <1>3, <1>5 DEF ContentSeen, LiveNotes
  <2>2. Graph!EditNode(n, Shown(new))
    BY <1>4, <1>5, <2>1
       DEF Graph!EditNode, ContentSeen, EdgesSeen, IdsRetired
  <2>3. Shown(new) \in NodeContents /\ n \in NoteIds
    BY <1>2, <1>5, ShownIsContent, SeenTypes DEF RInv, IInv
  <2>4. QED
    BY <2>2, <2>3 DEF GraphStep, Graph!GraphNext, NodeContents
<1>6. CASE n \notin LiveNotes
  <2>1. ContentSeen' = ContentSeen
    BY <1>3, <1>6 DEF ContentSeen, LiveNotes
  <2>2. QED
    BY <1>4, <2>1, Unseen
<1>7. QED
  BY <1>5, <1>6

\* Deleting a live note removes its node with its edges; a deleted one has none.
LEMMA SoftDeleteImplements ==
  ASSUME RInv, NEW n \in DOMAIN notes, NEW v \in Versions, SoftDelete(n, v)
  PROVE  GraphStep
<1>1. /\ DOMAIN notes' = DOMAIN notes
      /\ \A m \in DOMAIN notes \ {n} : notes'[m] = notes[m]
      /\ LiveNotes' = LiveNotes \ {n}
      /\ LiveRelationships' = {p \in LiveRelationships : ~Incident(p, n)}
      /\ \A p \in LiveRelationships' : relationships'[p] = relationships[p]
      /\ serial' = serial
  BY SoftDeleteTypes DEF RInv, IInv, SoftDelete
<1>2. ContentSeen' = [m \in LiveNotes \ {n} |-> ContentSeen[m]]
  BY <1>1 DEF ContentSeen, LiveNotes
<1>3. EdgesSeen' =
        [p \in {p \in LiveRelationships : ~Incident(p, n)} |-> EdgesSeen[p]]
  BY <1>1 DEF EdgesSeen
<1>4. CASE n \in LiveNotes
  <2>1. IdsRetired' = IdsRetired \cup {n} /\ n \in NoteIds
    BY <1>1, <1>4, SeenTypes DEF IdsRetired, RInv, IInv
  <2>2. ContentSeen' = Graph!Restrict(ContentSeen, DOMAIN ContentSeen \ {n})
    BY <1>2 DEF ContentSeen, Graph!Restrict
  <2>3. EdgesSeen' =
          Graph!Restrict(EdgesSeen, {e \in DOMAIN EdgesSeen : e[1] # n /\ e[2] # n})
    BY <1>3 DEF EdgesSeen, Graph!Restrict, Incident
  <2>4. Graph!RemoveNode(n)
    BY <1>4, <2>1, <2>2, <2>3
       DEF Graph!RemoveNode, ContentSeen, EdgesSeen, IdsRetired
  <2>5. QED
    BY <2>1, <2>4 DEF GraphStep, Graph!GraphNext
<1>5. CASE n \notin LiveNotes
  <2>1. ContentSeen' = ContentSeen /\ IdsRetired' = IdsRetired
    BY <1>1, <1>2, <1>5 DEF ContentSeen, IdsRetired
  <2>2. {p \in LiveRelationships : ~Incident(p, n)} = LiveRelationships
    BY <1>5 DEF RInv, IInv, NoDanglingRelationship, Incident
  <2>3. EdgesSeen' = EdgesSeen
    BY <1>3, <2>2 DEF EdgesSeen
  <2>4. QED
    BY <2>1, <2>3, Unseen
<1>6. QED
  BY <1>4, <1>5

\* Writing a live row between live notes puts an edge; a tombstone takes one away.
LEMMA WriteRelationshipImplements ==
  ASSUME RInv, NEW p \in Pairs, NEW row \in RelationshipRow,
         row.is_deleted \/ {p[1], p[2]} \subseteq LiveNotes,
         relationships' = Put(relationships, p, row),
         UNCHANGED <<notes, notesearch, serial>>
  PROVE  GraphStep
<1>1. /\ DOMAIN relationships' = DOMAIN relationships \cup {p}
      /\ relationships'[p] = row
      /\ \A q \in DOMAIN relationships \ {p} : relationships'[q] = relationships[q]
  BY DEF Put
<1>2. LiveRelationships' =
        (LiveRelationships \ {p}) \cup (IF row.is_deleted THEN {} ELSE {p})
  BY <1>1 DEF LiveRelationships
<1>3. ContentSeen' = ContentSeen /\ IdsRetired' = IdsRetired
  BY DEF ContentSeen, IdsRetired, LiveNotes
<1>4. p = <<p[1], p[2]>> /\ p[1] \in NoteIds /\ p[2] \in NoteIds
  BY PairsAssumption
<1>5. LiveRelationships \subseteq DOMAIN relationships
  BY DEF LiveRelationships
<1>6. CASE ~row.is_deleted
  <2>1. EdgesSeen' = Graph!Put(EdgesSeen, p, row.type)
    BY <1>1, <1>2, <1>5, <1>6 DEF EdgesSeen, Graph!Put
  <2>2. Graph!PutEdge(p[1], p[2], row.type)
    BY <1>3, <1>4, <1>6, <2>1
       DEF Graph!PutEdge, ContentSeen, EdgesSeen, IdsRetired
  <2>3. row.type \in RelTypes
    BY DEF RelationshipRow
  <2>4. QED
    BY <1>4, <2>2, <2>3 DEF GraphStep, Graph!GraphNext
<1>7. CASE row.is_deleted /\ p \in LiveRelationships
  <2>1. EdgesSeen' = Graph!Restrict(EdgesSeen, DOMAIN EdgesSeen \ {p})
    BY <1>1, <1>2, <1>5, <1>7 DEF EdgesSeen, Graph!Restrict
  <2>2. Graph!RemoveEdge(<<p[1], p[2]>>)
    BY <1>3, <1>4, <1>7, <2>1
       DEF Graph!RemoveEdge, ContentSeen, EdgesSeen, IdsRetired
  <2>3. QED
    BY <1>4, <2>2 DEF GraphStep, Graph!GraphNext
<1>8. CASE row.is_deleted /\ p \notin LiveRelationships
  <2>1. EdgesSeen' = EdgesSeen
    BY <1>1, <1>2, <1>5, <1>8 DEF EdgesSeen
  <2>2. QED
    BY <1>3, <2>1, Unseen
<1>9. QED
  BY <1>6, <1>7, <1>8

\* The purge erases nothing that is seen, but for the ids of the notes it erases,
\* which stay used up.
LEMMA PurgeImplements ==
  ASSUME RInv, Purge
  PROVE  GraphStep
<1>1. /\ DOMAIN notes' = DOMAIN notes \ ExpiredNotes
      /\ \A n \in DOMAIN notes' : notes'[n] = notes[n]
      /\ DOMAIN relationships' = {p \in DOMAIN relationships : ~Purged(p)}
      /\ \A p \in DOMAIN relationships' : relationships'[p] = relationships[p]
      /\ UNCHANGED serial
  BY PurgeTypes DEF RInv, IInv
<1>2. /\ \A n \in LiveNotes : n \notin ExpiredNotes
      /\ \A p \in LiveRelationships : ~Purged(p)
  <2>1. ErasesTombstones
    BY PurgeSteps, EraseStep DEF RInv
  <2>2. QED
    BY <1>1, <2>1 DEF ErasesTombstones, LiveNotes, LiveRelationships
<1>3. LiveNotes' = LiveNotes /\ LiveRelationships' = LiveRelationships
  BY <1>1, <1>2 DEF LiveNotes, LiveRelationships
<1>4. ContentSeen' = ContentSeen
  BY <1>1, <1>3 DEF ContentSeen, LiveNotes
<1>5. EdgesSeen' = EdgesSeen
  BY <1>1, <1>3 DEF EdgesSeen, LiveRelationships
<1>6. QED
  BY <1>1, <1>3, <1>4, <1>5, Unseen DEF IdsRetired

\* Nor is the passing of time seen.
LEMMA RetentionImplements ==
  ASSUME RInv, RetentionElapses
  PROVE  GraphStep
<1>1. /\ \A n \in DOMAIN notes : notes'[n] = Aged(notes[n]) /\ notes[n] \in NoteRow
      /\ \A p \in DOMAIN relationships :
           relationships'[p] = Aged(relationships[p]) /\ relationships[p] \in RelationshipRow
      /\ LiveNotes' = LiveNotes /\ LiveRelationships' = LiveRelationships
      /\ UNCHANGED serial
  BY RetentionTypes, SeenTypes DEF RInv, IInv
<1>2. /\ \A row \in NoteRow : Shown(Aged(row)) = Shown(row)
      /\ \A rel \in RelationshipRow : Aged(rel).type = rel.type
  BY DEF Aged, Shown, NoteRow, RelationshipRow
<1>3. ContentSeen' = ContentSeen
  BY <1>1, <1>2 DEF ContentSeen, LiveNotes
<1>4. EdgesSeen' = EdgesSeen
  BY <1>1, <1>2 DEF EdgesSeen, LiveRelationships
<1>5. QED
  BY <1>1, <1>3, <1>4, Unseen DEF IdsRetired

-------------------------------------------------------------------------------
\* Every operation of the store is one operation on the graph, or none.
LEMMA NextImplements == RInv /\ [Next]_vars => GraphStep
<1> SUFFICES ASSUME RInv, [Next]_vars
             PROVE  GraphStep
  OBVIOUS
<1>1. \A n \in DOMAIN notes :
        notes[n].version < MaxVersion => notes[n].version + 1 \in Versions
  BY BoundsAssumption DEF RInv, IInv, TypeOK, IsTable, NoteRow, Versions
<1>2. \A p \in DOMAIN relationships : relationships[p] \in RelationshipRow
  BY SeenTypes DEF RInv, IInv
<1>3. ASSUME NEW b \in Bodies, NEW s \in Styles, NEW t \in NoteTypes,
             CreateNote(b, s, t)
      PROVE  GraphStep
  <2>1. 1 \in Versions
    BY BoundsAssumption DEF Versions
  <2>2. QED
    BY <1>3, <2>1, InsertNoteImplements DEF CreateNote
<1>4. ASSUME NEW n \in NoteIds, NEW b \in Bodies, NEW s \in Styles,
             NEW t \in NoteTypes, UpdateNote(n, b, s, t) \/ PushSameNote(n, b, s, t)
      PROVE  GraphStep
  <2>1. n \in DOMAIN notes /\ notes[n].version < MaxVersion
    BY <1>4 DEF UpdateNote, PushSameNote, LiveNotes
  <2>2. notes[n].version + 1 \in Versions
    BY <1>1, <2>1
  <2>3. /\ WriteNote(n, Edited(notes[n], b, s, t, notes[n].version + 1))
        /\ UNCHANGED <<relationships, serial>>
    BY <1>4 DEF UpdateNote, PushSameNote
  <2>4. QED
    BY <2>1, <2>2, <2>3, WriteNoteImplements
<1>5. ASSUME NEW n \in NoteIds, DeleteNote(n)
      PROVE  GraphStep
  <2>1. n \in DOMAIN notes /\ notes[n].version + 1 \in Versions
    BY <1>1, <1>5 DEF DeleteNote
  <2>2. QED
    BY <1>5, <2>1, SoftDeleteImplements DEF DeleteNote
<1>6. ASSUME NEW p \in Pairs, NEW t \in RelTypes, CreateRelationship(p[1], p[2], t)
      PROVE  GraphStep
  <2>1. p = <<p[1], p[2]>>
    BY PairsAssumption
  <2>2. NewRelationship(t, 1, FALSE) \in RelationshipRow
    BY BoundsAssumption DEF RelationshipRow, NewRelationship
  <2>3. QED
    BY <1>6, <2>1, <2>2, WriteRelationshipImplements DEF CreateRelationship
<1>7. ASSUME NEW p \in Pairs, DeleteRelationship(p)
      PROVE  GraphStep
  <2>1. /\ p \in DOMAIN relationships /\ relationships[p] \in RelationshipRow
        /\ relationships[p].version <= MaxVersion
    BY <1>2, <1>7 DEF DeleteRelationship
  <2>2. /\ Tombstone(relationships[p]) \in RelationshipRow
        /\ Tombstone(relationships[p]).is_deleted
    BY <2>1, TombstoneRow
  <2>3. relationships' = Put(relationships, p, Tombstone(relationships[p]))
    BY <1>7, <2>1 DEF DeleteRelationship, Put, RInv, IInv, TypeOK, IsTable
  <2>4. QED
    BY <1>7, <2>2, <2>3, WriteRelationshipImplements DEF DeleteRelationship
<1>8. ASSUME NEW b \in Bodies, NEW s \in Styles, NEW t \in NoteTypes,
             NEW v \in Versions, NEW d \in BOOLEAN, PushNewNote(b, s, t, v, d)
      PROVE  GraphStep
  BY <1>8, InsertNoteImplements DEF PushNewNote
<1>9. ASSUME NEW n \in NoteIds, NEW v \in Versions, PushDeletedNote(n, v)
      PROVE  GraphStep
  BY <1>9, SoftDeleteImplements DEF PushDeletedNote
<1>10. ASSUME NEW n \in NoteIds, NEW b \in Bodies, NEW s \in Styles,
              NEW t \in NoteTypes, NEW v \in Versions, PushNewerNote(n, b, s, t, v)
       PROVE  GraphStep
  BY <1>10, WriteNoteImplements DEF PushNewerNote
<1>11. ASSUME NEW p \in Pairs, NEW t \in RelTypes, NEW v \in Versions,
              NEW d \in BOOLEAN, PushNewRelationship(p[1], p[2], t, v, d)
       PROVE  GraphStep
  <2>1. p = <<p[1], p[2]>>
    BY PairsAssumption
  <2>2. NewRelationship(t, v, d) \in RelationshipRow
    BY BoundsAssumption DEF RelationshipRow, NewRelationship, Versions
  <2>3. QED
    BY <1>11, <2>1, <2>2, WriteRelationshipImplements DEF PushNewRelationship
<1>12. ASSUME NEW p \in Pairs, NEW t \in RelTypes, NEW v \in Versions,
              NEW d \in BOOLEAN, PushRelationship(p[1], p[2], t, v, d)
       PROVE  GraphStep
  <2>1. p = <<p[1], p[2]>>
    BY PairsAssumption
  <2>2. p \in DOMAIN relationships /\ relationships[p] \in RelationshipRow
    BY <1>2, <1>12, <2>1 DEF PushRelationship
  <2>3. PushedRelationship(relationships[p], t, v, d) \in RelationshipRow
    BY <2>2, PushedRow
  <2>4. relationships' =
          Put(relationships, p, PushedRelationship(relationships[p], t, v, d))
    BY <1>12, <2>1, <2>2
       DEF PushRelationship, Put, RInv, IInv, TypeOK, IsTable
  <2>5. QED
    BY <1>12, <2>1, <2>3, <2>4, WriteRelationshipImplements DEF PushRelationship
<1>13. CASE Purge
  BY <1>13, PurgeImplements
<1>14. CASE RetentionElapses
  BY <1>14, RetentionImplements
<1>15. CASE UNCHANGED vars
  BY <1>15, Unseen
     DEF vars, ContentSeen, EdgesSeen, IdsRetired, LiveNotes, LiveRelationships
<1>16. QED
  BY <1>3, <1>4, <1>5, <1>6, <1>7, <1>8, <1>9, <1>10, <1>11, <1>12, <1>13, <1>14, <1>15
     DEF Next, RestStep, SyncStep

\* An empty database shows an empty graph.
LEMMA InitImplements == Init => Graph!GraphInit
<1> SUFFICES ASSUME Init
             PROVE  Graph!GraphInit
  OBVIOUS
<1>1. LiveNotes = {} /\ LiveRelationships = {} /\ 1..(serial - 1) = {}
  BY DEF Init, LiveNotes, LiveRelationships
<1>2. QED
  BY <1>1 DEF Graph!GraphInit, Graph!Empty

\* The services for notes, relationships, sync and purge implement the graph of
\* KnowledgeGraph when requests do not overlap.
THEOREM StoreImplementsGraph == Spec => ImplementsGraph
<1>1. Init => Graph!GraphInit
  BY InitImplements
<1>2. IInv /\ ExpiredAreDeleted /\ [Next]_vars => [Graph!GraphNext]_(Graph!graph)
  BY NextImplements DEF RInv, GraphStep
<1>3. QED
  BY <1>1, <1>2, Invariance, OnlyDeletedRowsExpire, PTL
     DEF Spec, ImplementsGraph, Graph!GraphSpec
-------------------------------------------------------------------------------
(***************************************************************************)
(* DeviceSync: its type invariant, what equal versions say and that        *)
(* changes are lost in conflicts only, for every number of notes, every    *)
(* set of devices and of contents.                                         *)
(***************************************************************************)
Ids == 1..(next_id - 1)
Held(d) == copy[d] \in [DOMAIN copy[d] -> SyncRow] /\ DOMAIN copy[d] \subseteq Ids
Lists(d) ==
  /\ to_pull[d] \subseteq Ids /\ to_push[d] \subseteq DOMAIN copy[d]
  /\ to_pull[d] \cap to_push[d] = {} /\ unsent[d] \subseteq Contents
Bases(d) == DOMAIN base[d] \subseteq DOMAIN copy[d] /\ \A n \in DOMAIN base[d] : base[d][n] \in Nat

SyncTypes ==
  /\ next_id \in 1..(MaxCoreIds + 1)
  /\ DOMAIN server \subseteq Ids /\ server \in [DOMAIN server -> SyncRow]
  /\ DOMAIN copy = Devices /\ DOMAIN unsent = Devices /\ DOMAIN base = Devices
  /\ DOMAIN to_pull = Devices /\ DOMAIN to_push = Devices
  /\ \A d \in Devices : Held(d) /\ Lists(d) /\ Bases(d)

\* A copy is ahead of the server's row only if it has a change the server does not have.
\* What a device will pull is ahead of its copy, or was changed there in conflict with it.
\* Outside conflicts a change started from the server's row, which is not deleted, and a
\* copy without one shows what the server's row shows if it has its version.
Fits(d, n) ==
  /\ n \in DOMAIN base[d] => copy[d][n].version > base[d][n] /\ copy[d][n].version <= TopVersion
  /\ n \in DOMAIN server /\ n \notin DOMAIN base[d] => copy[d][n].version <= server[n].version
  /\ n \in DOMAIN server /\ n \in to_push[d] => copy[d][n].version <= TopVersion
  /\ n \in DOMAIN server /\ n \in to_pull[d] =>
       /\ n \in DOMAIN base[d] => n \in conflicted
       /\ n \notin DOMAIN base[d] => copy[d][n].version < server[n].version
  /\ n \in DOMAIN server /\ n \notin conflicted =>
       /\ n \in DOMAIN base[d] => base[d][n] = server[n].version /\ ~server[n].is_deleted
       /\ n \notin DOMAIN base[d] /\ copy[d][n].version = server[n].version =>
            Visible(copy[d][n]) = Visible(server[n])

CopiesFit == \A d \in Devices : \A n \in DOMAIN copy[d] : Fits(d, n)

SyncInv == SyncTypes /\ CopiesFit

\* What is true of one row of NoteRow.
LEMMA Rows ==
  /\ \A c \in Contents, v \in 1..(TopVersion + 1), b \in BOOLEAN :
       /\ Row(c, v, b) \in SyncRow /\ Row(c, v, b).version = v
       /\ Row(c, v, b).is_deleted = b /\ Row(c, v, b).content = c
  /\ \A row \in SyncRow : row.version \in Nat /\ row.version >= 1 /\ row.version <= TopVersion + 1
                          /\ row.content \in Contents /\ row.is_deleted \in BOOLEAN
<1>1. \A row \in SyncRow : row.version \in 1..(TopVersion + 1)
                           /\ row.content \in Contents /\ row.is_deleted \in BOOLEAN
  BY DEF SyncRow
<1>2. \A v \in 1..(TopVersion + 1) : v \in Nat /\ v >= 1 /\ v <= TopVersion + 1
  BY SyncBoundsAssumption
<1>3. \A c \in Contents, v \in 1..(TopVersion + 1), b \in BOOLEAN :
        /\ Row(c, v, b) \in SyncRow /\ Row(c, v, b).version = v
        /\ Row(c, v, b).is_deleted = b /\ Row(c, v, b).content = c
  BY DEF Row, SyncRow
<1> QED BY <1>1, <1>2, <1>3

\* A table stays well-formed when a row is put into it.
LEMMA PutRow ==
  ASSUME NEW table, table \in [DOMAIN table -> SyncRow], NEW key, NEW row \in SyncRow
  PROVE  WithRow(table, key, row) \in [DOMAIN WithRow(table, key, row) -> SyncRow]
BY DEF WithRow

\* Nothing has happened to a copy and to the server's row.
LEMMA Unaffected ==
  ASSUME NEW d \in Devices, NEW n, Fits(d, n), copy'[d][n] = copy[d][n],
         n \in DOMAIN base'[d] <=> n \in DOMAIN base[d],
         n \in DOMAIN base[d] => base'[d][n] = base[d][n],
         n \in DOMAIN server' => n \in DOMAIN server /\ server'[n] = server[n],
         n \in to_push'[d] => n \in to_push[d], n \in to_pull'[d] => n \in to_pull[d],
         conflicted \subseteq conflicted'
  PROVE  Fits(d, n)'
BY DEF Fits, Visible

\* A conflict that is new is counted.
LEMMA Counted ==
  ASSUME NoteConflicts, NEW d \in Devices, NEW n \in CoreIds, n \in DOMAIN base'[d],
         n \in DOMAIN server', n \notin conflicted'
  PROVE  n \notin conflicted /\ base'[d][n] = server'[n].version
BY DEF NoteConflicts, Conflicts

\* A note is inserted on the server; the devices do not have it.
LEMMA InsertFits ==
  ASSUME SyncInv, NEW c \in Contents, Insert(c)
  PROVE  /\ next_id' \in 1..(MaxCoreIds + 1) /\ Ids \subseteq Ids' /\ next_id \in Ids'
         /\ Row(c, 1, FALSE) \in SyncRow /\ DOMAIN server' = DOMAIN server \cup {next_id}
         /\ DOMAIN server' \subseteq Ids' /\ server' \in [DOMAIN server' -> SyncRow]
         /\ server'[next_id] = Row(c, 1, FALSE)
         /\ \A n \in DOMAIN server : server'[n] = server[n]
         /\ \A d \in Devices : next_id \notin DOMAIN copy[d]
<1>1. /\ next_id <= MaxCoreIds /\ server' = WithRow(server, next_id, Row(c, 1, FALSE))
      /\ next_id' = next_id + 1
  BY DEF Insert
<1>2. next_id \in 1..(MaxCoreIds + 1) /\ DOMAIN server \subseteq Ids
      /\ server \in [DOMAIN server -> SyncRow] /\ \A d \in Devices : DOMAIN copy[d] \subseteq Ids
  BY DEF SyncInv, SyncTypes, Held
<1>3. next_id' \in 1..(MaxCoreIds + 1) /\ Ids \subseteq Ids' /\ next_id \in Ids' /\ next_id \notin Ids
  BY <1>1, <1>2, SyncBoundsAssumption DEF Ids
<1>4. 1 \in 1..(TopVersion + 1)
  BY SyncBoundsAssumption
<1>5. Row(c, 1, FALSE) \in SyncRow
  BY <1>4, Rows
<1>6. server' \in [DOMAIN server' -> SyncRow]
  BY <1>1, <1>2, <1>5, PutRow
<1>7. /\ DOMAIN server' = DOMAIN server \cup {next_id} /\ server'[next_id] = Row(c, 1, FALSE)
      /\ \A n \in DOMAIN server \ {next_id} : server'[n] = server[n]
  BY <1>1 DEF WithRow
<1>8. DOMAIN server' \subseteq Ids' /\ \A n \in DOMAIN server : server'[n] = server[n]
  BY <1>2, <1>3, <1>7
<1>9. \A d \in Devices : next_id \notin DOMAIN copy[d]
  BY <1>2, <1>3
<1> QED BY <1>3, <1>5, <1>6, <1>7, <1>8, <1>9

\* The devices are as they were.
LEMMA InsertInv ==
  ASSUME SyncInv, NEW c \in Contents, Insert(c), UNCHANGED <<copy, deviceLists, base, conflicted>>
  PROVE  SyncInv'
<1>1. UNCHANGED <<copy, unsent, to_pull, to_push, base, conflicted>>
  BY DEF deviceLists
<1>2. SyncTypes /\ CopiesFit
  BY DEF SyncInv
<1>3. SyncTypes'
  BY <1>1, <1>2, InsertFits DEF SyncTypes, Held, Lists, Bases
<1>4. CopiesFit'
  <2> SUFFICES ASSUME NEW d \in Devices, NEW n \in DOMAIN copy[d] PROVE Fits(d, n)'
    BY <1>1 DEF CopiesFit
  <2>1. Fits(d, n) /\ n # next_id
    BY <1>2, InsertFits DEF CopiesFit
  <2> QED BY <1>1, <2>1, InsertFits, Unaffected
<1> QED BY <1>3, <1>4 DEF SyncInv

\* The server's row of a note moves on, and what a device has changed from the row before
\* becomes a conflict.
Moves(n, row) ==
  /\ server' = [server EXCEPT ![n] = row] /\ NoteConflicts
  /\ \/ row = server[n]
     \/ row.version > server[n].version
     \/ n \in conflicted /\ row.version >= server[n].version

\* When the server's row of a note moves on, every copy still fits.
LEMMA MovedFits ==
  ASSUME SyncInv, NEW n \in DOMAIN server, NEW row \in SyncRow, Moves(n, row),
         NEW d \in Devices, NEW m \in DOMAIN copy[d], copy'[d][m] = copy[d][m],
         m \in DOMAIN base'[d] <=> m \in DOMAIN base[d],
         m \in DOMAIN base[d] => base'[d][m] = base[d][m],
         m \in to_push'[d] => m \in to_push[d], m \in to_pull'[d] => m \in to_pull[d]
  PROVE  Fits(d, m)'
<1>1. SyncTypes /\ Fits(d, m)
  BY DEF SyncInv, CopiesFit
<1>2. /\ DOMAIN server' = DOMAIN server /\ server'[n] = row
      /\ \A k \in DOMAIN server \ {n} : server'[k] = server[k]
      /\ conflicted \subseteq conflicted'
  BY <1>1 DEF SyncTypes, NoteConflicts, Moves
<1>3. CASE m # n \/ row = server[n]
  BY <1>1, <1>2, <1>3, Unaffected
<1>4. CASE m = n /\ row # server[n]
  <2>1. PICK old \in SyncRow : old = server[n]
    BY <1>1 DEF SyncTypes
  <2>2. PICK held \in SyncRow : held = copy[d][n]
    BY <1>1, <1>4 DEF SyncTypes, Held
  <2>3. old.version \in Nat /\ row.version \in Nat /\ held.version \in Nat
    BY Rows
  <2>4. row.version >= old.version /\ (n \notin conflicted' => row.version > old.version)
    BY <1>2, <1>4, <2>1, <2>3 DEF Moves
  <2>5. CASE n \in DOMAIN base[d]
    <3>1. n \in CoreIds
      BY <1>1, SyncBoundsAssumption DEF SyncTypes, Ids, CoreIds
    <3>2. n \notin conflicted' => n \notin conflicted /\ base[d][n] = row.version
      BY <1>2, <1>4, <2>5, <3>1, Counted DEF Moves
    <3>3. n \in conflicted'
      <4>1. n \notin conflicted => base[d][n] = old.version
        BY <1>1, <1>4, <2>1, <2>5 DEF Fits
      <4> QED BY <2>3, <2>4, <3>2, <4>1
    <3> QED BY <1>1, <1>2, <1>4, <2>5, <3>3 DEF Fits
  <2>6. CASE n \notin DOMAIN base[d]
    <3>1. held.version <= old.version
      BY <1>1, <1>4, <2>1, <2>2, <2>6 DEF Fits
    <3>2. held.version <= row.version /\ (n \notin conflicted' => held.version # row.version)
      BY <2>3, <2>4, <3>1
    <3>3. n \in to_push'[d] => held.version <= TopVersion
      BY <1>1, <1>4, <2>2 DEF Fits
    <3>4. n \in to_pull'[d] => held.version < row.version
      <4>1. n \in to_pull'[d] => held.version < old.version
        BY <1>1, <1>4, <2>1, <2>2, <2>6 DEF Fits
      <4> QED BY <2>3, <2>4, <4>1
    <3> QED BY <1>2, <1>4, <2>2, <2>6, <3>2, <3>3, <3>4 DEF Fits
  <2> QED BY <2>5, <2>6
<1> QED BY <1>3, <1>4

\* A step that moves one row of the server on and touches no device keeps the invariant.
LEMMA ServerMovesInv ==
  ASSUME SyncInv, NEW n \in DOMAIN server, NEW row \in SyncRow, Moves(n, row),
         UNCHANGED <<next_id, copy, unsent, to_pull, to_push, base>>
  PROVE  SyncInv'
<1>1. SyncTypes
  BY DEF SyncInv
<1>2. DOMAIN server' = DOMAIN server /\ server' \in [DOMAIN server' -> SyncRow]
  BY <1>1 DEF SyncTypes, Moves
<1>3. SyncTypes'
  BY <1>1, <1>2 DEF SyncTypes, Ids, Held, Lists, Bases
<1>4. CopiesFit'
  <2> SUFFICES ASSUME NEW d \in Devices, NEW m \in DOMAIN copy[d] PROVE Fits(d, m)'
    BY DEF CopiesFit
  <2> QED BY MovedFits
<1> QED BY <1>3, <1>4 DEF SyncInv

\* An edit on the web moves the note's row on.
LEMMA WebEditMoves ==
  ASSUME SyncInv, NEW n \in CoreIds, NEW c \in Contents, WebEdit(n, c)
  PROVE  /\ n \in DOMAIN server /\ UNCHANGED <<next_id, copy, unsent, to_pull, to_push, base>>
         /\ \E row \in SyncRow : Moves(n, row)
<1>1. n \in DOMAIN server /\ server[n].version < TopVersion /\ NoteConflicts
      /\ UNCHANGED <<next_id, copy, unsent, to_pull, to_push, base>>
  BY DEF WebEdit, deviceLists
<1>2. PICK old \in SyncRow : old = server[n]
  BY <1>1 DEF SyncInv, SyncTypes
<1>3. server' = [server EXCEPT ![n] = Row(c, old.version + 1, FALSE)]
  BY <1>2 DEF WebEdit
<1>4. old.version + 1 \in 1..(TopVersion + 1) /\ old.version + 1 > old.version
  <2>1. old.version \in Nat /\ old.version < TopVersion
    BY <1>1, <1>2, Rows
  <2> QED BY <2>1, SyncBoundsAssumption
<1>5. Row(c, old.version + 1, FALSE) \in SyncRow
      /\ Row(c, old.version + 1, FALSE).version > server[n].version
  BY <1>2, <1>4, Rows
<1> QED BY <1>1, <1>3, <1>5 DEF Moves

\* A deletion on the web moves the note's row on.
LEMMA WebDeleteMoves ==
  ASSUME SyncInv, NEW n \in CoreIds, WebDelete(n)
  PROVE  /\ n \in DOMAIN server /\ UNCHANGED <<next_id, copy, unsent, to_pull, to_push, base>>
         /\ \E row \in SyncRow : Moves(n, row)
<1>1. n \in DOMAIN server /\ server[n].version < TopVersion /\ NoteConflicts
      /\ UNCHANGED <<next_id, copy, unsent, to_pull, to_push, base>>
  BY DEF WebDelete, deviceLists
<1>2. PICK old \in SyncRow : old = server[n]
  BY <1>1 DEF SyncInv, SyncTypes
<1>3. server' = [server EXCEPT ![n] = Row(old.content, old.version + 1, TRUE)]
  BY <1>2 DEF WebDelete
<1>4. old.version + 1 \in 1..(TopVersion + 1) /\ old.version + 1 > old.version
      /\ old.content \in Contents
  <2>1. old.version \in Nat /\ old.version < TopVersion /\ old.content \in Contents
    BY <1>1, <1>2, Rows
  <2> QED BY <2>1, SyncBoundsAssumption
<1>5. Row(old.content, old.version + 1, TRUE) \in SyncRow
      /\ Row(old.content, old.version + 1, TRUE).version > server[n].version
  BY <1>2, <1>4, Rows
<1> QED BY <1>1, <1>3, <1>5 DEF Moves

\* The purge of a deleted row keeps the invariant: copies may outlive the row.
LEMMA ServerPurgeInv ==
  ASSUME SyncInv, NEW n \in CoreIds, PurgeRow(n)
  PROVE  SyncInv'
<1>1. UNCHANGED <<next_id, copy, unsent, to_pull, to_push, base, conflicted>>
      /\ server' = WithoutRow(server, n)
  BY DEF PurgeRow, deviceLists
<1>2. SyncTypes /\ CopiesFit
  BY DEF SyncInv
<1>3. DOMAIN server' \subseteq DOMAIN server /\ \A m \in DOMAIN server' : server'[m] = server[m]
  BY <1>1 DEF WithoutRow, Restrict
<1>4. server' \in [DOMAIN server' -> SyncRow]
  <2>1. server' = [m \in DOMAIN server' |-> server'[m]]
    BY <1>1 DEF WithoutRow, Restrict
  <2> QED BY <1>2, <1>3, <2>1 DEF SyncTypes
<1>5. SyncTypes'
  BY <1>1, <1>2, <1>3, <1>4 DEF SyncTypes, Ids, Held, Lists, Bases
<1>6. CopiesFit'
  <2> SUFFICES ASSUME NEW d \in Devices, NEW m \in DOMAIN copy[d] PROVE Fits(d, m)'
    BY <1>1 DEF CopiesFit
  <2>1. Fits(d, m)
    BY <1>2 DEF CopiesFit
  <2> QED BY <1>1, <1>3, <2>1, Unaffected
<1> QED BY <1>5, <1>6 DEF SyncInv

\* Nothing changes but a device's lists of what to do, and what counts as a conflict.
LEMMA ListsInv ==
  ASSUME SyncInv, UNCHANGED <<server, next_id, copy, base>>, conflicted \subseteq conflicted',
         DOMAIN unsent' = Devices, DOMAIN to_pull' = Devices, DOMAIN to_push' = Devices,
         \A d \in Devices : Lists(d)',
         \A d \in Devices : \A n \in to_push'[d] \ to_push[d] :
           n \in DOMAIN server => n \in DOMAIN base[d],
         \A d \in Devices : \A n \in (to_pull'[d] \ to_pull[d]) \cap DOMAIN copy[d] :
           n \in DOMAIN server => copy[d][n].version < server[n].version
  PROVE  SyncInv'
<1>1. SyncTypes /\ CopiesFit
  BY DEF SyncInv
<1>2. SyncTypes'
  BY <1>1 DEF SyncTypes, Ids, Held, Bases
<1>3. CopiesFit'
  <2> SUFFICES ASSUME NEW d \in Devices, NEW n \in DOMAIN copy[d] PROVE Fits(d, n)'
    BY DEF CopiesFit
  <2>1. Fits(d, n)
    BY <1>1 DEF CopiesFit
  <2>2. n \in DOMAIN server /\ n \in to_push'[d] => copy[d][n].version <= TopVersion
    BY <2>1 DEF Fits
  <2>3. ASSUME n \in DOMAIN server, n \in to_pull'[d]
        PROVE  /\ n \in DOMAIN base[d] => n \in conflicted
               /\ n \notin DOMAIN base[d] => copy[d][n].version < server[n].version
    <3>1. CASE n \in to_pull[d]
      BY <2>1, <2>3, <3>1 DEF Fits
    <3>2. CASE n \notin to_pull[d]
      <4>1. copy[d][n].version < server[n].version
        BY <2>3, <3>2
      <4>2. copy[d][n].version \in Nat /\ server[n].version \in Nat
        BY <1>1, <2>3, Rows DEF SyncTypes, Held
      <4>3. n \in DOMAIN base[d] /\ n \notin conflicted => copy[d][n].version > server[n].version
        BY <2>1, <2>3 DEF Fits
      <4> QED BY <4>1, <4>2, <4>3
    <3> QED BY <3>1, <3>2
  <2> QED BY <2>1, <2>2, <2>3 DEF Fits, Visible
<1> QED BY <1>2, <1>3 DEF SyncInv

\* A note written on a device, which has no id yet, keeps the invariant.
LEMMA LocalCreateInv ==
  ASSUME SyncInv, NEW d \in Devices, NEW c \in Contents, LocalCreate(d, c)
  PROVE  SyncInv'
<1>1. SyncTypes
  BY DEF SyncInv
<1>2. UNCHANGED <<server, next_id, copy, to_pull, to_push, base, conflicted>>
      /\ unsent' = [unsent EXCEPT ![d] = {c}]
  BY DEF LocalCreate
<1>3. DOMAIN unsent' = Devices /\ \A e \in Devices : Lists(e)'
  BY <1>1, <1>2 DEF SyncTypes, Lists, Ids
<1> QED BY <1>1, <1>2, <1>3, ListsInv DEF SyncTypes

\* What compare says is to be pushed is ahead of the server's row or is not there, and what
\* is to be pulled is behind it.
LEMMA CompareInv ==
  ASSUME SyncInv, NEW d \in Devices, Compare(d)
  PROVE  SyncInv'
<1>1. SyncTypes /\ CopiesFit
  BY DEF SyncInv
<1>2. UNCHANGED <<server, next_id, copy, unsent, base, conflicted>>
      /\ to_pull' = [to_pull EXCEPT ![d] = ToPull(copy[d], server)]
      /\ to_push' = [to_push EXCEPT ![d] = ToPush(copy[d], server)]
  BY DEF Compare
<1>3. DOMAIN server \subseteq Ids
  BY <1>1 DEF SyncTypes
<1>4. ToPull(copy[d], server) \subseteq Ids /\ ToPush(copy[d], server) \subseteq DOMAIN copy[d]
  BY <1>3 DEF ToPull, ToPush
<1>5. \A n \in DOMAIN copy[d] : copy[d][n].version \in Nat
  BY <1>1, Rows DEF SyncTypes, Held
<1>6. \A n \in DOMAIN server : server[n].version \in Nat
  BY <1>1, Rows DEF SyncTypes
<1>7. ToPull(copy[d], server) \cap ToPush(copy[d], server) = {}
  BY <1>5, <1>6 DEF ToPull, ToPush
<1>8. \A e \in Devices : Lists(e)'
  BY <1>1, <1>2, <1>4, <1>7 DEF SyncTypes, Lists, Ids
<1>9. ASSUME NEW e \in Devices, NEW n \in to_push'[e] \ to_push[e], n \in DOMAIN server
      PROVE  n \in DOMAIN base[e]
  <2>1. e = d /\ n \in ToPush(copy[d], server)
    BY <1>1, <1>2, <1>9 DEF SyncTypes
  <2>2. n \in DOMAIN copy[d] /\ copy[d][n].version > server[n].version
    BY <1>9, <2>1 DEF ToPush
  <2>3. n \in DOMAIN base[d] \/ copy[d][n].version <= server[n].version
    BY <1>1, <1>9, <2>2 DEF CopiesFit, Fits
  <2> QED BY <1>5, <1>6, <1>9, <2>1, <2>2, <2>3
<1>10. DOMAIN to_pull' = Devices /\ DOMAIN to_push' = Devices /\ DOMAIN unsent' = Devices
  BY <1>1, <1>2 DEF SyncTypes
<1>11. ASSUME NEW e \in Devices, NEW n \in (to_pull'[e] \ to_pull[e]) \cap DOMAIN copy[e],
              n \in DOMAIN server
       PROVE  copy[e][n].version < server[n].version
  <2>1. e = d /\ n \in ToPull(copy[d], server)
    BY <1>1, <1>2, <1>11 DEF SyncTypes
  <2>2. server[n].version > copy[d][n].version
    BY <1>11, <2>1 DEF ToPull
  <2> QED BY <1>5, <1>6, <1>11, <2>1, <2>2
<1> QED BY <1>2, <1>8, <1>9, <1>10, <1>11, ListsInv

\* A note is changed on a device.  If that is no conflict, the device had the server's row.
LEMMA LocalChangeInv ==
  ASSUME SyncInv, NEW d \in Devices, NEW n \in DOMAIN copy[d], ~copy[d][n].is_deleted,
         NEW row \in SyncRow, row.version = copy[d][n].version + 1, LocalChange(d, n, row)
  PROVE  SyncInv'
<1>1. SyncTypes /\ CopiesFit
  BY DEF SyncInv
<1>2. /\ UNCHANGED <<server, next_id, unsent, to_pull, to_push>> /\ NoteConflicts
      /\ row.version <= TopVersion /\ copy' = [copy EXCEPT ![d][n] = row]
      /\ base' = IF n \in DOMAIN base[d] THEN base
                 ELSE [base EXCEPT ![d] = WithRow(base[d], n, copy[d][n].version)]
  BY DEF LocalChange, deviceLists
<1>3. PICK held \in SyncRow : held = copy[d][n]
  BY <1>1 DEF SyncTypes, Held
<1>4. held.version \in Nat /\ row.version = held.version + 1 /\ ~held.is_deleted
  BY <1>3, Rows
<1>5. /\ DOMAIN copy' = Devices /\ DOMAIN copy'[d] = DOMAIN copy[d] /\ copy'[d][n] = row
      /\ \A m \in DOMAIN copy[d] \ {n} : copy'[d][m] = copy[d][m]
      /\ \A e \in Devices \ {d} : copy'[e] = copy[e]
      /\ copy'[d] \in [DOMAIN copy'[d] -> SyncRow]
  BY <1>1, <1>2 DEF SyncTypes, Held
<1>6. /\ DOMAIN base' = Devices /\ DOMAIN base'[d] = DOMAIN base[d] \cup {n}
      /\ \A m \in DOMAIN base[d] : base'[d][m] = base[d][m]
      /\ n \notin DOMAIN base[d] => base'[d][n] = held.version
      /\ \A e \in Devices \ {d} : base'[e] = base[e]
  <2>1. CASE n \in DOMAIN base[d]
    BY <1>1, <1>2, <2>1 DEF SyncTypes
  <2>2. CASE n \notin DOMAIN base[d]
    BY <1>1, <1>2, <1>3, <2>2 DEF SyncTypes, WithRow
  <2> QED BY <2>1, <2>2
<1>7. \A e \in Devices : Held(e)' /\ Lists(e)' /\ Bases(e)'
  <2> SUFFICES ASSUME NEW e \in Devices PROVE Held(e)' /\ Lists(e)' /\ Bases(e)'
    OBVIOUS
  <2>1. CASE e = d
    <3>1. Held(d)'
      BY <1>1, <1>2, <1>5 DEF SyncTypes, Held, Ids
    <3>2. Lists(d)'
      BY <1>1, <1>2, <1>5 DEF SyncTypes, Lists, Ids
    <3>3. \A m \in DOMAIN base'[d] : base'[d][m] \in Nat
      BY <1>1, <1>4, <1>6 DEF SyncTypes, Bases
    <3>4. DOMAIN base'[d] \subseteq DOMAIN copy'[d]
      BY <1>1, <1>5, <1>6 DEF SyncTypes, Bases
    <3> QED BY <2>1, <3>1, <3>2, <3>3, <3>4 DEF Bases
  <2>2. CASE e # d
    BY <1>1, <1>2, <1>5, <1>6, <2>2 DEF SyncTypes, Ids, Held, Lists, Bases
  <2> QED BY <2>1, <2>2
<1>8. SyncTypes'
  BY <1>1, <1>2, <1>5, <1>6, <1>7 DEF SyncTypes, Ids
<1>9. conflicted \subseteq conflicted'
  BY <1>2 DEF NoteConflicts
<1>10. Fits(d, n)'
  <2>1. Fits(d, n)
    BY <1>1 DEF CopiesFit
  <2>2. n \in DOMAIN base'[d] /\ base'[d][n] \in Nat
    BY <1>6, <1>7 DEF Bases
  <2>3. row.version > base'[d][n]
    <3>1. CASE n \in DOMAIN base[d]
      <4>1. held.version > base'[d][n]
        BY <1>3, <1>6, <2>1, <3>1 DEF Fits
      <4> QED BY <1>4, <2>2, <4>1
    <3>2. CASE n \notin DOMAIN base[d]
      BY <1>4, <1>6, <3>2
    <3> QED BY <3>1, <3>2
  <2>4. ASSUME n \in DOMAIN server, n \notin conflicted'
        PROVE  base'[d][n] = server[n].version /\ ~server[n].is_deleted
    <3>1. n \in CoreIds
      BY <1>1, <2>4, SyncBoundsAssumption DEF SyncTypes, Ids, CoreIds
    <3>2. n \notin conflicted /\ base'[d][n] = server[n].version
      BY <1>2, <2>2, <2>4, <3>1, Counted
    <3>3. CASE n \in DOMAIN base[d]
      BY <2>1, <2>4, <3>2, <3>3 DEF Fits
    <3>4. CASE n \notin DOMAIN base[d]
      <4>1. Visible(held) = Visible(server[n])
        BY <1>3, <1>6, <2>1, <2>4, <3>2, <3>4 DEF Fits
      <4> QED BY <1>4, <3>2, <4>1 DEF Visible
    <3> QED BY <3>3, <3>4
  <2>5. n \in DOMAIN server /\ n \in to_pull[d] => n \in conflicted'
    <3>1. CASE n \in DOMAIN base[d]
      BY <1>9, <2>1, <3>1 DEF Fits
    <3>2. CASE n \notin DOMAIN base[d]
      <4>1. n \in DOMAIN server /\ n \in to_pull[d] => held.version < server[n].version
        BY <1>3, <2>1, <3>2 DEF Fits
      <4> QED BY <1>4, <1>6, <2>4, <3>2, <4>1
    <3> QED BY <3>1, <3>2
  <2> QED BY <1>2, <1>5, <2>2, <2>3, <2>4, <2>5 DEF Fits
<1>11. CopiesFit'
  <2> SUFFICES ASSUME NEW e \in Devices, NEW m \in DOMAIN copy'[e] PROVE Fits(e, m)'
    BY DEF CopiesFit
  <2>1. CASE e = d /\ m = n
    BY <1>10, <2>1
  <2>2. CASE e # d \/ m # n
    <3>1. m \in DOMAIN copy[e] /\ copy'[e][m] = copy[e][m]
          /\ (m \in DOMAIN base'[e] <=> m \in DOMAIN base[e])
          /\ (m \in DOMAIN base[e] => base'[e][m] = base[e][m])
      BY <1>5, <1>6, <2>2
    <3>2. Fits(e, m)
      BY <1>1, <3>1 DEF CopiesFit
    <3> QED BY <1>2, <1>9, <3>1, <3>2, Unaffected
  <2> QED BY <2>1, <2>2
<1> QED BY <1>8, <1>11 DEF SyncInv

\* An edit on a device keeps the invariant.
LEMMA LocalEditInv ==
  ASSUME SyncInv, NEW d \in Devices, NEW n \in CoreIds, NEW c \in Contents, LocalEdit(d, n, c)
  PROVE  SyncInv'
<1>1. n \in DOMAIN copy[d] /\ ~copy[d][n].is_deleted
  BY DEF LocalEdit
<1>2. PICK held \in SyncRow : held = copy[d][n]
  BY <1>1 DEF SyncInv, SyncTypes, Held
<1>3. LocalChange(d, n, Row(c, held.version + 1, FALSE))
  BY <1>2 DEF LocalEdit
<1>4. held.version + 1 \in 1..(TopVersion + 1)
  <2>1. Row(c, held.version + 1, FALSE).version = held.version + 1
    BY DEF Row
  <2>2. held.version + 1 <= TopVersion /\ held.version \in Nat
    BY <1>3, <2>1, Rows DEF LocalChange
  <2> QED BY <2>2, SyncBoundsAssumption
<1>5. Row(c, held.version + 1, FALSE) \in SyncRow
      /\ Row(c, held.version + 1, FALSE).version = copy[d][n].version + 1
  BY <1>2, <1>4, Rows
<1> QED BY <1>1, <1>3, <1>5, LocalChangeInv

\* A deletion on a device keeps the invariant.
LEMMA LocalDeleteInv ==
  ASSUME SyncInv, NEW d \in Devices, NEW n \in CoreIds, LocalDelete(d, n)
  PROVE  SyncInv'
<1>1. n \in DOMAIN copy[d] /\ ~copy[d][n].is_deleted
  BY DEF LocalDelete
<1>2. PICK held \in SyncRow : held = copy[d][n]
  BY <1>1 DEF SyncInv, SyncTypes, Held
<1>3. LocalChange(d, n, Row(held.content, held.version + 1, TRUE))
  BY <1>2 DEF LocalDelete
<1>4. held.version + 1 \in 1..(TopVersion + 1) /\ held.content \in Contents
  <2>1. Row(held.content, held.version + 1, TRUE).version = held.version + 1
    BY DEF Row
  <2>2. held.version + 1 <= TopVersion /\ held.version \in Nat /\ held.content \in Contents
    BY <1>3, <2>1, Rows DEF LocalChange
  <2> QED BY <2>2, SyncBoundsAssumption
<1>5. Row(held.content, held.version + 1, TRUE) \in SyncRow
      /\ Row(held.content, held.version + 1, TRUE).version = copy[d][n].version + 1
  BY <1>2, <1>4, Rows
<1> QED BY <1>1, <1>3, <1>5, LocalChangeInv

\* A device takes over a row, and with it forgets what it had changed.
LEMMA SyncedFits ==
  ASSUME SyncInv, NEW d \in Devices, NEW n, NEW row \in SyncRow, Synced(d, n, row),
         n \in Ids', Ids \subseteq Ids'
  PROVE  /\ DOMAIN copy' = Devices /\ DOMAIN base' = Devices
         /\ DOMAIN copy'[d] = DOMAIN copy[d] \cup {n} /\ copy'[d][n] = row
         /\ n \notin DOMAIN base'[d]
         /\ \A e \in Devices : Held(e)' /\ Bases(e)' /\ DOMAIN copy[e] \subseteq DOMAIN copy'[e]
         /\ \A e \in Devices : \A m \in DOMAIN copy'[e] : e # d \/ m # n =>
              /\ m \in DOMAIN copy[e] /\ copy'[e][m] = copy[e][m]
              /\ m \in DOMAIN base'[e] <=> m \in DOMAIN base[e]
              /\ m \in DOMAIN base[e] => base'[e][m] = base[e][m]
<1>1. SyncTypes
  BY DEF SyncInv
<1>2. /\ DOMAIN copy' = Devices /\ copy'[d] = WithRow(copy[d], n, row)
      /\ DOMAIN base' = Devices /\ base'[d] = WithoutRow(base[d], n)
      /\ \A e \in Devices \ {d} : copy'[e] = copy[e] /\ base'[e] = base[e]
  BY <1>1 DEF Synced, SyncTypes
<1>3. /\ DOMAIN copy'[d] = DOMAIN copy[d] \cup {n} /\ copy'[d][n] = row
      /\ \A m \in DOMAIN copy[d] \ {n} : copy'[d][m] = copy[d][m]
  BY <1>2 DEF WithRow
<1>4. /\ DOMAIN base'[d] = DOMAIN base[d] \ {n}
      /\ \A m \in DOMAIN base'[d] : base'[d][m] = base[d][m]
  BY <1>2 DEF WithoutRow, Restrict
<1>5. Held(d)'
  <2>1. copy'[d] \in [DOMAIN copy'[d] -> SyncRow]
    BY <1>1, <1>2, PutRow DEF SyncTypes, Held
  <2>2. DOMAIN copy'[d] \subseteq Ids'
    BY <1>1, <1>3 DEF SyncTypes, Held
  <2> QED BY <2>1, <2>2 DEF Held
<1>6. Bases(d)'
  BY <1>1, <1>3, <1>4 DEF SyncTypes, Bases
<1>7. \A e \in Devices \ {d} : Held(e)' /\ Bases(e)'
  BY <1>1, <1>2 DEF SyncTypes, Held, Bases
<1> QED BY <1>2, <1>3, <1>4, <1>5, <1>6, <1>7

\* A copy fits whose content the server has and whose version is not ahead.
LEMMA TakenOver ==
  ASSUME NEW d \in Devices, NEW n, n \notin DOMAIN base'[d], n \notin to_pull'[d],
         n \in to_push'[d] => copy'[d][n].version <= TopVersion,
         copy'[d][n].version <= server'[n].version,
         n \notin conflicted' => Visible(copy[d][n])' = Visible(server[n])'
  PROVE  Fits(d, n)'
BY DEF Fits

\* A device does one of the things on its lists.
LEMMA ListsShrink ==
  ASSUME SyncInv, \A d \in Devices : DOMAIN copy[d] \subseteq DOMAIN copy'[d],
         Ids \subseteq Ids', DOMAIN unsent' = Devices, DOMAIN to_pull' = Devices, DOMAIN to_push' = Devices,
         \A d \in Devices : /\ unsent'[d] \subseteq unsent[d] /\ to_pull'[d] \subseteq to_pull[d]
                            /\ to_push'[d] \subseteq to_push[d]
  PROVE  \A d \in Devices : Lists(d)'
<1> SUFFICES ASSUME NEW d \in Devices PROVE Lists(d)'
  OBVIOUS
<1>1. Lists(d)
  BY DEF SyncInv, SyncTypes
<1> QED BY <1>1 DEF Lists

\* A pull keeps the invariant.
LEMMA PullInv ==
  ASSUME SyncInv, NEW d \in Devices, NEW n \in CoreIds, Pull(d, n)
  PROVE  SyncInv'
<1>1. SyncTypes /\ CopiesFit
  BY DEF SyncInv
<1>2. UNCHANGED <<server, next_id, unsent, to_push, conflicted>>
      /\ n \in to_pull[d] /\ to_pull' = [to_pull EXCEPT ![d] = to_pull[d] \ {n}]
  BY DEF Pull
<1>3. /\ DOMAIN unsent' = Devices /\ DOMAIN to_pull' = Devices /\ DOMAIN to_push' = Devices
      /\ \A e \in Devices : /\ unsent'[e] \subseteq unsent[e] /\ to_pull'[e] \subseteq to_pull[e]
                            /\ to_push'[e] \subseteq to_push[e]
      /\ n \notin to_pull'[d] /\ Ids \subseteq Ids'
  BY <1>1, <1>2 DEF SyncTypes, Ids
<1>4. CASE n \in DOMAIN server /\ Synced(d, n, server[n])
  <2>1. server[n] \in SyncRow /\ n \in Ids /\ Ids' = Ids
    BY <1>1, <1>2, <1>4 DEF SyncTypes, Ids
  <2>2. /\ DOMAIN copy' = Devices /\ DOMAIN base' = Devices
        /\ copy'[d][n] = server[n] /\ n \notin DOMAIN base'[d]
        /\ \A e \in Devices : Held(e)' /\ Bases(e)' /\ DOMAIN copy[e] \subseteq DOMAIN copy'[e]
        /\ \A e \in Devices : \A m \in DOMAIN copy'[e] : e # d \/ m # n =>
             /\ m \in DOMAIN copy[e] /\ copy'[e][m] = copy[e][m]
             /\ m \in DOMAIN base'[e] <=> m \in DOMAIN base[e]
             /\ m \in DOMAIN base[e] => base'[e][m] = base[e][m]
    BY <1>4, <2>1, SyncedFits
  <2>3. \A e \in Devices : Lists(e)'
    BY <1>3, <2>2, ListsShrink
  <2>4. SyncTypes'
    BY <1>1, <1>2, <1>3, <2>1, <2>2, <2>3 DEF SyncTypes
  <2>5. n \notin to_push'[d]
    BY <1>1, <1>2 DEF SyncTypes, Lists
  <2>6. CopiesFit'
    <3> SUFFICES ASSUME NEW e \in Devices, NEW m \in DOMAIN copy'[e] PROVE Fits(e, m)'
      BY DEF CopiesFit
    <3>1. CASE e = d /\ m = n
      <4>1. copy'[d][n] = server'[n] /\ server'[n].version \in Nat
        BY <1>2, <2>1, <2>2, Rows
      <4>2. Visible(copy[d][n])' = Visible(server[n])'
        BY <4>1 DEF Visible
      <4> QED BY <1>3, <2>2, <2>5, <3>1, <4>1, <4>2, TakenOver
    <3>2. CASE e # d \/ m # n
      <4>1. m \in DOMAIN copy[e] /\ Fits(e, m)
        BY <1>1, <2>2, <3>2 DEF CopiesFit
      <4> QED BY <1>2, <1>3, <2>2, <3>2, <4>1, Unaffected
    <3> QED BY <3>1, <3>2
  <2> QED BY <2>4, <2>6 DEF SyncInv
<1>5. CASE UNCHANGED <<copy, base>>
  <2>1. \A e \in Devices : Lists(e)'
    BY <1>3, <1>5, ListsShrink
  <2> QED BY <1>2, <1>3, <1>5, <2>1, ListsInv
<1> QED BY <1>4, <1>5 DEF Pull

\* A push of a change that is not in conflict is ahead of the server's row, which takes it
\* over; a push repeated after its answer was lost changes nothing or is rejected; one in
\* conflict may be taken over too, but takes no version back.
LEMMA SyncPushMoves ==
  ASSUME SyncInv, NEW d \in Devices, NEW n \in to_push[d], n \in DOMAIN server,
         Store(d, n), NoteConflicts
  PROVE  \E row \in SyncRow :
           /\ row = Pushed(copy[d][n], server[n]) /\ Moves(n, row)
           /\ Rejected(copy[d][n], server[n]) => row = server[n]
           /\ ~Rejected(copy[d][n], server[n]) => row.version >= copy[d][n].version
           /\ n \notin conflicted /\ n \in DOMAIN base[d] => ~Rejected(copy[d][n], server[n])
           /\ n \notin conflicted /\ ~Rejected(copy[d][n], server[n]) =>
                Visible(row) = Visible(copy[d][n])
<1>1. SyncTypes /\ Fits(d, n) /\ n \in DOMAIN copy[d]
  BY DEF SyncInv, CopiesFit, SyncTypes, Lists
<1>2. PICK old \in SyncRow : old = server[n]
  BY <1>1 DEF SyncTypes
<1>3. PICK held \in SyncRow : held = copy[d][n]
  BY <1>1 DEF SyncTypes, Held
<1>4. /\ old.version \in 1..(TopVersion + 1) /\ held.version \in 1..(TopVersion + 1)
      /\ old.version \in Nat /\ held.version \in Nat
      /\ old.content \in Contents /\ held.content \in Contents
      /\ old.is_deleted \in BOOLEAN /\ held.is_deleted \in BOOLEAN
  BY Rows DEF SyncRow
<1>5. /\ held.version <= TopVersion
      /\ n \notin conflicted /\ n \in DOMAIN base[d] => held.version > old.version /\ ~old.is_deleted
      /\ n \notin DOMAIN base[d] => held.version <= old.version
      /\ n \notin conflicted /\ n \notin DOMAIN base[d] /\ held.version = old.version =>
           Visible(held) = Visible(old)
  BY <1>1, <1>2, <1>3 DEF Fits
<1>6. server' = [server EXCEPT ![n] = Pushed(held, old)]
  BY <1>2, <1>3 DEF Store
<1>7. CASE Rejected(held, old)
  <2>1. Pushed(held, old) = old
    BY <1>7 DEF Pushed
  <2>2. n \in conflicted \/ n \notin DOMAIN base[d]
    BY <1>4, <1>5, <1>7 DEF Rejected
  <2> QED BY <1>2, <1>3, <1>6, <1>7, <2>1, <2>2 DEF Moves
<1>8. CASE ~Rejected(held, old) /\ held.is_deleted
  <2>1. Pushed(held, old) = [old EXCEPT !.is_deleted = TRUE, !.version = held.version]
    BY <1>8 DEF Pushed
  <2>2. PICK row \in SyncRow : /\ row = Pushed(held, old)
                               /\ row.version = held.version /\ row.is_deleted
    <3>1. [old EXCEPT !.is_deleted = TRUE, !.version = held.version] \in SyncRow
      BY <1>4 DEF SyncRow
    <3>2. [old EXCEPT !.is_deleted = TRUE, !.version = held.version].version = held.version
          /\ [old EXCEPT !.is_deleted = TRUE, !.version = held.version].is_deleted
      BY DEF SyncRow
    <3> QED BY <2>1, <3>1, <3>2
  <2>3. Visible(row) = Visible(held)
    BY <1>8, <2>2 DEF Visible
  <2>4. held.version >= old.version
    BY <1>4, <1>8 DEF Rejected
  <2>5. n \in conflicted \/ held.version > old.version \/ row = old
    <3> SUFFICES ASSUME n \notin conflicted, ~(held.version > old.version) PROVE row = old
      OBVIOUS
    <3>1. n \notin DOMAIN base[d] /\ held.version = old.version
      BY <1>4, <1>5, <2>4
    <3>2. Visible(old) = {}
      BY <1>5, <1>8, <3>1 DEF Visible
    <3>3. old.is_deleted = TRUE
      BY <1>4, <3>2 DEF Visible
    <3> QED BY <2>1, <2>2, <3>1, <3>3 DEF SyncRow
  <2>6. Moves(n, row)
    BY <1>2, <1>6, <2>2, <2>4, <2>5 DEF Moves
  <2> QED BY <1>2, <1>3, <1>4, <1>8, <2>2, <2>3, <2>6
<1>9. CASE ~Rejected(held, old) /\ ~held.is_deleted /\ held.version > old.version
  <2>1. Pushed(held, old) = [old EXCEPT !.content = held.content, !.version = held.version]
    BY <1>9 DEF Pushed
  <2>2. PICK row \in SyncRow : /\ row = Pushed(held, old) /\ row.version = held.version
                               /\ row.content = held.content /\ row.is_deleted = old.is_deleted
    <3>1. [old EXCEPT !.content = held.content, !.version = held.version] \in SyncRow
      BY <1>4 DEF SyncRow
    <3>2. /\ [old EXCEPT !.content = held.content, !.version = held.version].version = held.version
          /\ [old EXCEPT !.content = held.content, !.version = held.version].content = held.content
          /\ [old EXCEPT !.content = held.content, !.version = held.version].is_deleted
               = old.is_deleted
      BY DEF SyncRow
    <3> QED BY <2>1, <3>1, <3>2
  <2>3. n \notin conflicted => Visible(row) = Visible(held)
    <3>1. n \in DOMAIN base[d]
      BY <1>4, <1>5, <1>9
    <3> QED BY <1>5, <1>9, <2>2, <3>1 DEF Visible
  <2>4. Moves(n, row)
    BY <1>2, <1>6, <1>9, <2>2 DEF Moves
  <2> QED BY <1>2, <1>3, <1>4, <1>9, <2>2, <2>3, <2>4
<1>10. CASE ~Rejected(held, old) /\ ~held.is_deleted /\ ~(held.version > old.version)
  <2>1. /\ held.version = old.version
        /\ n \notin conflicted => n \notin DOMAIN base[d] /\ Visible(old) = {held.content}
    <3>1. held.version = old.version
      BY <1>4, <1>10 DEF Rejected
    <3>2. n \notin conflicted => n \notin DOMAIN base[d]
      BY <1>5, <1>10
    <3> QED BY <1>5, <1>10, <3>1, <3>2 DEF Visible
  <2>2. CASE held.content = old.content
    <3>1. Pushed(held, old) = old
      BY <1>10, <2>2 DEF Pushed
    <3>2. Visible(held) = {held.content}
      BY <1>10 DEF Visible
    <3>3. Moves(n, old) /\ old.version >= held.version
      BY <1>2, <1>4, <1>6, <2>1, <3>1 DEF Moves
    <3>4. n \notin conflicted => Visible(old) = Visible(held)
      BY <2>1, <3>2
    <3> QED BY <1>2, <1>3, <1>10, <3>1, <3>3, <3>4
  <2>3. CASE held.content # old.content
    <3>1. Pushed(held, old) = [old EXCEPT !.content = held.content, !.version = old.version + 1]
      BY <1>10, <2>3 DEF Pushed
    <3>2. old.version + 1 \in 1..(TopVersion + 1) /\ old.version + 1 > old.version
      BY <1>4, <1>5, <2>1, SyncBoundsAssumption
    <3>3. PICK row \in SyncRow : row = Pushed(held, old) /\ row.version = old.version + 1
      <4>1. [old EXCEPT !.content = held.content, !.version = old.version + 1] \in SyncRow
        BY <1>4, <3>2 DEF SyncRow
      <4>2. [old EXCEPT !.content = held.content, !.version = old.version + 1].version
              = old.version + 1
        BY DEF SyncRow
      <4> QED BY <3>1, <4>1, <4>2
    <3>4. Moves(n, row)
      BY <1>2, <1>6, <3>2, <3>3 DEF Moves
    <3>5. n \in conflicted
      BY <2>1, <2>3 DEF Visible
    <3>6. row.version >= held.version
      BY <1>4, <2>1, <3>2, <3>3
    <3> QED BY <1>2, <1>3, <1>10, <3>3, <3>4, <3>5, <3>6
  <2> QED BY <2>2, <2>3
<1> QED BY <1>7, <1>8, <1>9, <1>10

\* A push whose answer is lost keeps the invariant.  If the server's row has the copy's
\* version now, it has the device's change.
LEMMA PushUnansweredInv ==
  ASSUME SyncInv, NEW d \in Devices, NEW n \in CoreIds, PushUnanswered(d, n)
  PROVE  SyncInv'
<1>1. /\ n \in to_push[d] /\ Store(d, n) /\ NoteConflicts /\ conflicted \subseteq conflicted'
      /\ UNCHANGED <<next_id, copy, unsent, to_pull, to_push>>
  BY DEF PushUnanswered, deviceLists, NoteConflicts
<1>2. SyncTypes /\ CopiesFit
  BY DEF SyncInv
<1>3. CASE n \in DOMAIN server /\ base' = base
  BY <1>1, <1>3, SyncPushMoves, ServerMovesInv
<1>4. CASE /\ n \in DOMAIN server /\ server'[n].version = copy[d][n].version
           /\ base' = [base EXCEPT ![d] = WithoutRow(base[d], n)]
  <2>1. PICK row \in SyncRow :
          /\ Moves(n, row)
          /\ Rejected(copy[d][n], server[n]) => row = server[n]
          /\ n \notin conflicted /\ ~Rejected(copy[d][n], server[n]) =>
               Visible(row) = Visible(copy[d][n])
    BY <1>1, <1>4, SyncPushMoves
  <2>2. DOMAIN server' = DOMAIN server /\ server'[n] = row /\ server' \in [DOMAIN server' -> SyncRow]
    BY <1>2, <1>4, <2>1 DEF SyncTypes, Moves
  <2>3. row.version \in Nat /\ copy[d][n].version = row.version
    BY <1>4, <2>2, Rows
  <2>4. ~Rejected(copy[d][n], server[n])
    BY <2>1, <2>3 DEF Rejected
  <2>5. /\ DOMAIN base' = Devices /\ n \notin DOMAIN base'[d]
        /\ \A e \in Devices : /\ DOMAIN base'[e] \subseteq DOMAIN base[e]
                              /\ \A m \in DOMAIN base'[e] : base'[e][m] = base[e][m]
        /\ \A e \in Devices : \A m \in DOMAIN base[e] : e # d \/ m # n => m \in DOMAIN base'[e]
    BY <1>2, <1>4 DEF SyncTypes, WithoutRow, Restrict
  <2>6. SyncTypes'
    BY <1>1, <1>2, <2>2, <2>5 DEF SyncTypes, Ids, Held, Lists, Bases
  <2>7. CopiesFit'
    <3> SUFFICES ASSUME NEW e \in Devices, NEW m \in DOMAIN copy[e] PROVE Fits(e, m)'
      BY <1>1 DEF CopiesFit
    <3>1. CASE e = d /\ m = n
      <4>1. n \notin to_pull'[d]
        BY <1>1, <1>2 DEF SyncTypes, Lists
      <4>2. copy'[d][n].version <= TopVersion
        BY <1>1, <1>2, <1>4, <3>1 DEF CopiesFit, Fits
      <4>3. copy'[d][n].version <= server'[n].version
        BY <1>1, <2>2, <2>3
      <4>4. n \notin conflicted' => Visible(copy[d][n])' = Visible(server[n])'
        BY <1>1, <2>1, <2>2, <2>4 DEF Visible
      <4> QED BY <2>5, <3>1, <4>1, <4>2, <4>3, <4>4, TakenOver
    <3>2. CASE e # d \/ m # n
      BY <1>1, <1>4, <2>1, <2>5, <3>2, MovedFits
    <3> QED BY <3>1, <3>2
  <2> QED BY <2>6, <2>7 DEF SyncInv
<1>5. CASE n \notin DOMAIN server /\ base' = base
  <2>1. server' = server
    BY <1>1, <1>5 DEF Store
  <2>2. \A e \in Devices : Lists(e)'
    BY <1>1, <1>2 DEF SyncTypes, Lists, Ids
  <2> QED BY <1>1, <1>2, <1>5, <2>1, <2>2, ListsInv DEF SyncTypes
<1> QED BY <1>3, <1>4, <1>5 DEF PushUnanswered

\* A push keeps the invariant.
LEMMA PushInv ==
  ASSUME SyncInv, NEW d \in Devices, NEW n \in CoreIds, Push(d, n)
  PROVE  SyncInv'
<1>1. SyncTypes /\ CopiesFit
  BY DEF SyncInv
<1>2. /\ n \in to_push[d] /\ to_push' = [to_push EXCEPT ![d] = to_push[d] \ {n}]
      /\ Store(d, n) /\ NoteConflicts /\ UNCHANGED <<next_id, unsent, to_pull>>
      /\ conflicted \subseteq conflicted'
  BY DEF Push, NoteConflicts
<1>3. /\ DOMAIN unsent' = Devices /\ DOMAIN to_pull' = Devices /\ DOMAIN to_push' = Devices
      /\ \A e \in Devices : /\ unsent'[e] \subseteq unsent[e] /\ to_pull'[e] \subseteq to_pull[e]
                            /\ to_push'[e] \subseteq to_push[e]
      /\ n \notin to_push'[d] /\ Ids \subseteq Ids'
  BY <1>1, <1>2 DEF SyncTypes, Ids
<1>4. CASE n \in DOMAIN server /\ ~Rejected(copy[d][n], server[n])
  <2>1. PICK row \in SyncRow : /\ Moves(n, row)
                               /\ n \notin conflicted => Visible(row) = Visible(copy[d][n])
    BY <1>2, <1>4, SyncPushMoves
  <2>2. DOMAIN server' = DOMAIN server /\ server'[n] = row
        /\ server' \in [DOMAIN server' -> SyncRow]
    BY <1>1, <1>4, <2>1 DEF SyncTypes, Moves
  <2>3. PICK held \in SyncRow : held = copy[d][n] /\ n \in DOMAIN copy[d]
    BY <1>1, <1>2 DEF SyncTypes, Held, Lists
  <2>4. PICK new \in SyncRow : /\ new = [held EXCEPT !.version = row.version]
                               /\ new.version = row.version /\ Visible(new) = Visible(held)
    <3>1. [held EXCEPT !.version = row.version] \in SyncRow
      BY DEF SyncRow
    <3>2. /\ [held EXCEPT !.version = row.version].version = row.version
          /\ Visible([held EXCEPT !.version = row.version]) = Visible(held)
      BY DEF SyncRow, Visible
    <3> QED BY <3>1, <3>2
  <2>5. Synced(d, n, new) /\ n \in Ids /\ Ids' = Ids
    BY <1>1, <1>2, <1>4, <2>2, <2>3, <2>4 DEF Push, SyncTypes, Ids
  <2>6. /\ DOMAIN copy' = Devices /\ DOMAIN base' = Devices
        /\ copy'[d][n] = new /\ n \notin DOMAIN base'[d]
        /\ \A e \in Devices : Held(e)' /\ Bases(e)' /\ DOMAIN copy[e] \subseteq DOMAIN copy'[e]
        /\ \A e \in Devices : \A m \in DOMAIN copy'[e] : e # d \/ m # n =>
             /\ m \in DOMAIN copy[e] /\ copy'[e][m] = copy[e][m]
             /\ m \in DOMAIN base'[e] <=> m \in DOMAIN base[e]
             /\ m \in DOMAIN base[e] => base'[e][m] = base[e][m]
    BY <2>5, SyncedFits
  <2>7. \A e \in Devices : Lists(e)'
    BY <1>3, <2>6, ListsShrink
  <2>8. SyncTypes'
    BY <1>1, <1>2, <1>3, <2>2, <2>5, <2>6, <2>7 DEF SyncTypes
  <2>9. CopiesFit'
    <3> SUFFICES ASSUME NEW e \in Devices, NEW m \in DOMAIN copy'[e] PROVE Fits(e, m)'
      BY DEF CopiesFit
    <3>1. CASE e = d /\ m = n
      <4>1. row.version \in Nat
        BY Rows
      <4>2. n \notin conflicted' => Visible(new) = Visible(row)
        BY <1>2, <2>1, <2>3, <2>4
      <4>3. Visible(copy[d][n])' = Visible(new) /\ Visible(server[n])' = Visible(row)
        BY <2>2, <2>6 DEF Visible
      <4>4. copy'[d][n].version <= server'[n].version
        BY <2>2, <2>4, <2>6, <4>1
      <4>5. n \notin to_pull'[d]
        BY <1>1, <1>2 DEF SyncTypes, Lists
      <4> QED BY <1>3, <2>6, <3>1, <4>2, <4>3, <4>4, <4>5, TakenOver
    <3>2. CASE e # d \/ m # n
      BY <1>3, <1>4, <2>1, <2>6, <3>2, MovedFits
    <3> QED BY <3>1, <3>2
  <2> QED BY <2>8, <2>9 DEF SyncInv
<1>5. CASE ~(n \in DOMAIN server /\ ~Rejected(copy[d][n], server[n]))
  <2>1. UNCHANGED <<copy, base>>
    BY <1>5 DEF Push
  <2>2. server' = server
    <3>1. CASE n \notin DOMAIN server
      BY <1>2, <3>1 DEF Store
    <3>2. CASE n \in DOMAIN server
      BY <1>1, <1>2, <1>5, <3>2 DEF Store, Pushed, SyncTypes
    <3> QED BY <3>1, <3>2
  <2>3. \A e \in Devices : Lists(e)'
    BY <1>3, <2>1, ListsShrink
  <2> QED BY <1>2, <1>3, <2>1, <2>2, <2>3, ListsInv
<1> QED BY <1>4, <1>5

\* A push of a new note keeps the invariant.
LEMMA PushNewInv ==
  ASSUME SyncInv, NEW d \in Devices, NEW c \in Contents, PushNew(d, c)
  PROVE  SyncInv'
<1>1. SyncTypes /\ CopiesFit
  BY DEF SyncInv
<1>2. /\ Insert(c) /\ unsent' = [unsent EXCEPT ![d] = unsent[d] \ {c}]
      /\ Synced(d, next_id, Row(c, 1, FALSE)) /\ UNCHANGED <<to_pull, to_push, conflicted>>
  BY DEF PushNew
<1>3. /\ next_id' \in 1..(MaxCoreIds + 1) /\ Ids \subseteq Ids' /\ next_id \in Ids'
      /\ Row(c, 1, FALSE) \in SyncRow /\ DOMAIN server' = DOMAIN server \cup {next_id}
      /\ DOMAIN server' \subseteq Ids' /\ server' \in [DOMAIN server' -> SyncRow]
      /\ server'[next_id] = Row(c, 1, FALSE)
      /\ \A n \in DOMAIN server : server'[n] = server[n]
      /\ \A e \in Devices : next_id \notin DOMAIN copy[e]
  BY <1>2, InsertFits
<1>4. PICK n, row : n = next_id /\ row = Row(c, 1, FALSE) /\ row \in SyncRow
                    /\ Synced(d, n, row) /\ n \in Ids'
  BY <1>2, <1>3
<1>5. /\ DOMAIN copy' = Devices /\ DOMAIN base' = Devices
      /\ copy'[d][n] = row /\ n \notin DOMAIN base'[d]
      /\ \A e \in Devices : Held(e)' /\ Bases(e)' /\ DOMAIN copy[e] \subseteq DOMAIN copy'[e]
      /\ \A e \in Devices : \A m \in DOMAIN copy'[e] : e # d \/ m # n =>
           /\ m \in DOMAIN copy[e] /\ copy'[e][m] = copy[e][m]
           /\ m \in DOMAIN base'[e] <=> m \in DOMAIN base[e]
           /\ m \in DOMAIN base[e] => base'[e][m] = base[e][m]
  <2>1. Ids \subseteq Ids'
    BY <1>3
  <2>2. row \in SyncRow
    BY <1>4
  <2>3. Synced(d, n, row)
    BY <1>4
  <2>4. n \in Ids'
    BY <1>4
  <2>5. /\ DOMAIN copy' = Devices /\ DOMAIN base' = Devices
        /\ copy'[d][n] = row /\ n \notin DOMAIN base'[d]
    BY <2>1, <2>2, <2>3, <2>4, SyncedFits
  <2>6. \A e \in Devices : Held(e)' /\ Bases(e)' /\ DOMAIN copy[e] \subseteq DOMAIN copy'[e]
    BY <2>1, <2>2, <2>3, <2>4, SyncedFits
  <2>7. \A e \in Devices : \A m \in DOMAIN copy'[e] : e # d \/ m # n =>
           /\ m \in DOMAIN copy[e] /\ copy'[e][m] = copy[e][m]
           /\ m \in DOMAIN base'[e] <=> m \in DOMAIN base[e]
           /\ m \in DOMAIN base[e] => base'[e][m] = base[e][m]
    BY <2>1, <2>2, <2>3, <2>4, SyncedFits
  <2> QED BY <2>5, <2>6, <2>7
<1>6. /\ DOMAIN unsent' = Devices /\ DOMAIN to_pull' = Devices /\ DOMAIN to_push' = Devices
      /\ \A e \in Devices : /\ unsent'[e] \subseteq unsent[e] /\ to_pull'[e] \subseteq to_pull[e]
                            /\ to_push'[e] \subseteq to_push[e]
  BY <1>1, <1>2 DEF SyncTypes
<1>7. \A e \in Devices : Lists(e)'
  BY <1>3, <1>5, <1>6, ListsShrink
<1>8. SyncTypes'
  BY <1>3, <1>5, <1>6, <1>7 DEF SyncTypes
<1>9. n \notin to_push'[d] /\ n \notin to_pull'[d]
  <2>1. n \notin Ids
    BY <1>4 DEF Ids
  <2>2. to_pull[d] \subseteq Ids /\ to_push[d] \subseteq DOMAIN copy[d] /\ DOMAIN copy[d] \subseteq Ids
    BY <1>1 DEF SyncTypes, Lists, Held
  <2> QED BY <1>2, <2>1, <2>2
<1>10. CopiesFit'
  <2> SUFFICES ASSUME NEW e \in Devices, NEW m \in DOMAIN copy'[e] PROVE Fits(e, m)'
    BY DEF CopiesFit
  <2>1. CASE e = d /\ m = n
    <3>1. copy'[d][n] = server'[n] /\ server'[n].version \in Nat
      BY <1>3, <1>4, <1>5, Rows
    <3>2. Visible(copy[d][n])' = Visible(server[n])'
      BY <3>1 DEF Visible
    <3> QED BY <1>5, <1>9, <2>1, <3>1, <3>2, TakenOver
  <2>2. CASE e # d \/ m # n
    <3>1. m \in DOMAIN copy[e] /\ Fits(e, m) /\ m # n
      BY <1>1, <1>3, <1>4, <1>5, <2>2 DEF CopiesFit
    <3>2. m \in DOMAIN server' => m \in DOMAIN server /\ server'[m] = server[m]
      BY <1>3, <1>4, <3>1
    <3> QED BY <1>2, <1>5, <1>6, <2>2, <3>1, <3>2, Unaffected
  <2> QED BY <2>1, <2>2
<1> QED BY <1>8, <1>10 DEF SyncInv

\* Nothing is stored and nothing copied: the invariant holds at the start.
LEMMA SyncInitInv == SyncInit => SyncInv
<1> SUFFICES ASSUME SyncInit PROVE SyncInv
  OBVIOUS
<1>1. DOMAIN Empty = {} /\ Empty \in [{} -> SyncRow]
  BY DEF Empty
<1>2. 1 \in 1..(MaxCoreIds + 1)
  BY SyncBoundsAssumption
<1>3. \A d \in Devices : /\ copy[d] = Empty /\ base[d] = Empty
                         /\ unsent[d] = {} /\ to_pull[d] = {} /\ to_push[d] = {}
  BY DEF SyncInit
<1>4. SyncTypes
  BY <1>1, <1>2, <1>3 DEF SyncInit, SyncTypes, Held, Lists, Bases
<1>5. CopiesFit
  BY <1>1, <1>3 DEF CopiesFit
<1> QED BY <1>4, <1>5 DEF SyncInv

\* Every step of the web, of a device or of an unanswered push keeps the invariant.
LEMMA SyncNextInv == SyncInv /\ [SyncNext]_syncVars => SyncInv'
<1> SUFFICES ASSUME SyncInv, [SyncNext]_syncVars PROVE SyncInv'
  OBVIOUS
<1>1. ASSUME NEW c \in Contents, WebCreate(c) PROVE SyncInv'
  BY <1>1, InsertInv DEF WebCreate
<1>2. ASSUME NEW n \in CoreIds, NEW c \in Contents, WebEdit(n, c) PROVE SyncInv'
  BY <1>2, WebEditMoves, ServerMovesInv
<1>3. ASSUME NEW n \in CoreIds, WebDelete(n) PROVE SyncInv'
  BY <1>3, WebDeleteMoves, ServerMovesInv
<1>4. ASSUME NEW n \in CoreIds, PurgeRow(n) PROVE SyncInv'
  BY <1>4, ServerPurgeInv
<1>5. ASSUME NEW d \in Devices, Local(d) PROVE SyncInv'
  BY <1>5, LocalCreateInv, LocalEditInv, LocalDeleteInv DEF Local
<1>6. ASSUME NEW d \in Devices, Sync(d) PROVE SyncInv'
  BY <1>6, CompareInv, PullInv, PushInv, PushNewInv DEF Sync
<1>7. ASSUME NEW d \in Devices, NEW n \in CoreIds, PushUnanswered(d, n) PROVE SyncInv'
  BY <1>7, PushUnansweredInv
<1>8. ASSUME NEW d \in Devices, NEW c \in Contents, PushNewUnanswered(d, c) PROVE SyncInv'
  BY <1>8, InsertInv DEF PushNewUnanswered
<1>9. ASSUME UNCHANGED syncVars PROVE SyncInv'
  BY <1>9 DEF syncVars, deviceLists, SyncInv, SyncTypes, CopiesFit, Fits, Visible, Ids, Held, Lists, Bases
<1> QED BY <1>1, <1>2, <1>3, <1>4, <1>5, <1>6, <1>7, <1>8, <1>9 DEF SyncNext, Web

\* The inductive invariant holds of every behaviour.
THEOREM SyncInvariance == SyncSpec => []SyncInv
<1> QED BY SyncInitInv, SyncNextInv, PTL DEF SyncSpec

\* The types of the variables, and that versions stay in their bound although a push
\* may raise them.
THEOREM SyncTyped == SyncSpec => []SyncTypeOK
<1>1. SyncInv => SyncTypeOK
  <2> SUFFICES ASSUME SyncInv PROVE SyncTypeOK
    OBVIOUS
  <2>1. Ids \subseteq CoreIds
    BY SyncBoundsAssumption DEF SyncInv, SyncTypes, Ids, CoreIds
  <2> QED BY <2>1 DEF SyncInv, SyncTypes, Ids, Held, Lists, Bases, SyncTypeOK
<1> QED BY <1>1, SyncInvariance, PTL

\* Comparing versions finds whatever differs, for any number of devices and notes, and
\* however answers are lost: only notes changed in two places at once can differ unseen.
THEOREM EqualVersionsShowTheSame == SyncSpec => []EqualVersionsAgree
<1>1. SyncInv => EqualVersionsAgree
  <2> SUFFICES ASSUME SyncInv, NEW d \in Devices, NEW n \in DOMAIN copy[d], n \in DOMAIN server,
                      n \notin conflicted, copy[d][n].version = server[n].version
               PROVE  Visible(copy[d][n]) = Visible(server[n])
    BY DEF EqualVersionsAgree
  <2>1. Fits(d, n)
    BY DEF SyncInv, CopiesFit
  <2>2. server[n].version \in Nat
    BY Rows DEF SyncInv, SyncTypes
  <2>3. n \notin DOMAIN base[d]
    BY <2>1, <2>2 DEF Fits
  <2> QED BY <2>1, <2>3 DEF Fits
<1> QED BY <1>1, SyncInvariance, PTL

(***************************************************************************)
(* What a step may do to a change made on a device.                        *)
(***************************************************************************)
Survive ==
  /\ \A d \in Devices : \A n \in DOMAIN copy[d] \ conflicted' : KeepsChange(d, n)
  /\ \A n \in (DOMAIN server \cap DOMAIN server') \ conflicted' : ShownUnderNewVersions(n)

\* A copy that is as it was, and whose change if any is still counted as one, keeps it.
LEMMA Untouched ==
  ASSUME SyncInv, NEW d \in Devices, NEW n \in DOMAIN copy[d], copy'[d][n] = copy[d][n],
         n \in DOMAIN base[d] => n \in DOMAIN base'[d]
  PROVE  KeepsChange(d, n)
<1>1. copy[d][n].version \in Nat
  BY Rows DEF SyncInv, SyncTypes, Held
<1> QED BY <1>1 DEF KeepsChange

\* Rows that stay as they are show nothing new.
LEMMA StaysShown ==
  ASSUME SyncInv, \A n \in DOMAIN server \cap DOMAIN server' : server'[n] = server[n]
  PROVE  \A n \in DOMAIN server \cap DOMAIN server' : ShownUnderNewVersions(n)
<1>1. \A n \in DOMAIN server : server[n].version \in Nat
  BY Rows DEF SyncInv, SyncTypes
<1> QED BY <1>1 DEF ShownUnderNewVersions, Visible

\* A row that moves on shows something new under a new version only.
LEMMA MovedShown ==
  ASSUME SyncInv, NEW n \in DOMAIN server, NEW row \in SyncRow, Moves(n, row)
  PROVE  \A m \in DOMAIN server \ conflicted' : ShownUnderNewVersions(m)
<1> SUFFICES ASSUME NEW m \in DOMAIN server \ conflicted' PROVE ShownUnderNewVersions(m)
  OBVIOUS
<1>1. server[m].version \in Nat /\ row.version \in Nat
  BY Rows DEF SyncInv, SyncTypes
<1>2. CASE m = n
  <2>1. server'[n] = row /\ n \notin conflicted
    BY <1>2 DEF Moves, NoteConflicts, SyncInv, SyncTypes
  <2>2. row = server[n] \/ row.version > server[n].version
    BY <2>1 DEF Moves
  <2> QED BY <1>1, <1>2, <2>1, <2>2 DEF ShownUnderNewVersions, Visible
<1>3. CASE m # n
  <2>1. server'[m] = server[m]
    BY <1>3 DEF Moves, SyncInv, SyncTypes
  <2> QED BY <1>1, <2>1 DEF ShownUnderNewVersions, Visible
<1> QED BY <1>2, <1>3

\* A pull overwrites no change outside conflicts, and no newer copy.
LEMMA PullSurvives ==
  ASSUME SyncInv, NEW d \in Devices, NEW n \in CoreIds, Pull(d, n)
  PROVE  Survive
<1>1. SyncTypes /\ CopiesFit
  BY DEF SyncInv
<1>2. UNCHANGED <<server, next_id, conflicted>> /\ n \in to_pull[d]
  BY DEF Pull
<1>3. \A m \in DOMAIN server \cap DOMAIN server' : ShownUnderNewVersions(m)
  BY <1>2, StaysShown
<1>4. ASSUME NEW e \in Devices, NEW m \in DOMAIN copy[e] \ conflicted' PROVE KeepsChange(e, m)
  <2>1. CASE UNCHANGED <<copy, base>>
    BY <2>1, Untouched
  <2>2. CASE n \in DOMAIN server /\ Synced(d, n, server[n])
    <3>1. server[n] \in SyncRow /\ n \in Ids' /\ Ids \subseteq Ids'
      BY <1>1, <1>2, <2>2 DEF SyncTypes, Ids
    <3>2. /\ copy'[d][n] = server[n]
          /\ e # d \/ m # n => copy'[e][m] = copy[e][m]
          /\ e # d \/ m # n => (m \in DOMAIN base[e] => m \in DOMAIN base'[e])
      BY <2>2, <3>1, SyncedFits
    <3>3. CASE e = d /\ m = n
      <4>1. n \notin DOMAIN base[d] /\ copy[d][n].version < server[n].version
        BY <1>1, <1>2, <2>2, <3>3 DEF CopiesFit, Fits
      <4>2. copy[d][n].version \in Nat /\ server[n].version \in Nat
        BY <1>1, <3>1, <3>3, Rows DEF SyncTypes, Held
      <4> QED BY <3>2, <3>3, <4>1, <4>2 DEF KeepsChange
    <3>4. CASE e # d \/ m # n
      BY <3>2, <3>4, Untouched
    <3> QED BY <3>3, <3>4
  <2> QED BY <2>1, <2>2 DEF Pull
<1> QED BY <1>3, <1>4 DEF Survive

\* A change that a push takes from its device is what the server then shows.
LEMMA PushSurvives ==
  ASSUME SyncInv, NEW d \in Devices, NEW n \in CoreIds, Push(d, n)
  PROVE  Survive
<1>1. SyncTypes
  BY DEF SyncInv
<1>2. n \in to_push[d] /\ Store(d, n) /\ NoteConflicts /\ UNCHANGED next_id
      /\ conflicted \subseteq conflicted'
  BY DEF Push, NoteConflicts
<1>3. CASE n \in DOMAIN server
  <2>1. PICK row \in SyncRow :
          /\ Moves(n, row)
          /\ ~Rejected(copy[d][n], server[n]) => row.version >= copy[d][n].version
          /\ n \notin conflicted /\ ~Rejected(copy[d][n], server[n]) =>
               Visible(row) = Visible(copy[d][n])
    BY <1>2, <1>3, SyncPushMoves
  <2>2. \A m \in DOMAIN server \ conflicted' : ShownUnderNewVersions(m)
    BY <1>3, <2>1, MovedShown
  <2>3. ASSUME NEW e \in Devices, NEW m \in DOMAIN copy[e] \ conflicted' PROVE KeepsChange(e, m)
    <3>1. CASE Rejected(copy[d][n], server[n])
      <4>1. UNCHANGED <<copy, base>>
        BY <3>1 DEF Push
      <4> QED BY <4>1, Untouched
    <3>2. CASE ~Rejected(copy[d][n], server[n])
      <4>1. DOMAIN server' = DOMAIN server /\ server'[n] = row
        BY <1>1, <1>3, <2>1 DEF SyncTypes, Moves
      <4>2. PICK held \in SyncRow : held = copy[d][n] /\ n \in DOMAIN copy[d] /\ n \in Ids
        BY <1>1, <1>2, <1>3 DEF SyncTypes, Held, Lists
      <4>3. PICK new \in SyncRow : new = [held EXCEPT !.version = row.version]
                                    /\ new.version = row.version
        <5>1. [held EXCEPT !.version = row.version] \in SyncRow
              /\ [held EXCEPT !.version = row.version].version = row.version
          BY DEF SyncRow
        <5> QED BY <5>1
      <4>4. Synced(d, n, new) /\ n \in Ids' /\ Ids \subseteq Ids'
        BY <1>2, <1>3, <3>2, <4>1, <4>2, <4>3 DEF Push, Ids
      <4>5. /\ copy'[d][n] = new
            /\ e # d \/ m # n => copy'[e][m] = copy[e][m]
            /\ e # d \/ m # n => (m \in DOMAIN base[e] => m \in DOMAIN base'[e])
        BY <4>4, SyncedFits
      <4>6. CASE e = d /\ m = n
        <5>1. Visible(server'[n]) = Visible(copy[d][n])
          BY <1>2, <2>1, <3>2, <4>1, <4>6
        <5>2. copy'[d][n].version >= copy[d][n].version
          BY <2>1, <3>2, <4>3, <4>5
        <5> QED BY <1>3, <4>1, <4>6, <5>1, <5>2 DEF KeepsChange
      <4>7. CASE e # d \/ m # n
        BY <4>5, <4>7, Untouched
      <4> QED BY <4>6, <4>7
    <3> QED BY <3>1, <3>2
  <2> QED BY <2>2, <2>3 DEF Survive
<1>4. CASE n \notin DOMAIN server
  <2>1. server' = server /\ UNCHANGED <<copy, base>>
    BY <1>2, <1>4 DEF Push, Store
  <2>2. \A m \in DOMAIN server \cap DOMAIN server' : ShownUnderNewVersions(m)
    BY <2>1, StaysShown
  <2>3. \A e \in Devices : \A m \in DOMAIN copy[e] : KeepsChange(e, m)
    BY <2>1, Untouched
  <2> QED BY <2>2, <2>3 DEF Survive
<1> QED BY <1>3, <1>4

\* A change that is no longer counted as one, since the server has it, is what it shows.
LEMMA PushUnansweredSurvives ==
  ASSUME SyncInv, NEW d \in Devices, NEW n \in CoreIds, PushUnanswered(d, n)
  PROVE  Survive
<1>1. SyncTypes
  BY DEF SyncInv
<1>2. n \in to_push[d] /\ Store(d, n) /\ NoteConflicts /\ UNCHANGED copy
      /\ conflicted \subseteq conflicted'
  BY DEF PushUnanswered, NoteConflicts
<1>3. CASE n \in DOMAIN server
  <2>1. PICK row \in SyncRow :
          /\ Moves(n, row)
          /\ Rejected(copy[d][n], server[n]) => row = server[n]
          /\ n \notin conflicted /\ ~Rejected(copy[d][n], server[n]) =>
               Visible(row) = Visible(copy[d][n])
    BY <1>2, <1>3, SyncPushMoves
  <2>2. \A m \in DOMAIN server \ conflicted' : ShownUnderNewVersions(m)
    BY <1>3, <2>1, MovedShown
  <2>3. n \in DOMAIN server' /\ server'[n] = row /\ row.version \in Nat
    BY <1>1, <1>3, <2>1, Rows DEF SyncTypes, Moves
  <2>4. ASSUME NEW e \in Devices, NEW m \in DOMAIN copy[e] \ conflicted' PROVE KeepsChange(e, m)
    <3>1. CASE base' = base
      BY <1>2, <3>1, Untouched
    <3>2. CASE /\ server'[n].version = copy[d][n].version
               /\ base' = [base EXCEPT ![d] = WithoutRow(base[d], n)]
      <4>1. CASE e = d /\ m = n
        <5>1. ~Rejected(copy[d][n], server[n])
          BY <2>1, <2>3, <3>2 DEF Rejected
        <5>2. Visible(server'[n]) = Visible(copy[d][n])
          BY <1>2, <2>1, <2>3, <4>1, <5>1
        <5>3. copy'[d][n].version >= copy[d][n].version
          BY <1>2, <2>3, <3>2
        <5> QED BY <2>3, <4>1, <5>2, <5>3 DEF KeepsChange
      <4>2. CASE e # d \/ m # n
        <5>1. m \in DOMAIN base[e] => m \in DOMAIN base'[e]
          BY <1>1, <3>2, <4>2 DEF SyncTypes, WithoutRow, Restrict
        <5> QED BY <1>2, <5>1, Untouched
      <4> QED BY <4>1, <4>2
    <3> QED BY <3>1, <3>2 DEF PushUnanswered
  <2> QED BY <2>2, <2>4 DEF Survive
<1>4. CASE n \notin DOMAIN server
  <2>1. server' = server /\ base' = base
    BY <1>2, <1>4 DEF PushUnanswered, Store
  <2>2. \A m \in DOMAIN server \cap DOMAIN server' : ShownUnderNewVersions(m)
    BY <2>1, StaysShown
  <2>3. \A e \in Devices : \A m \in DOMAIN copy[e] : KeepsChange(e, m)
    BY <1>2, <2>1, Untouched
  <2> QED BY <2>2, <2>3 DEF Survive
<1> QED BY <1>3, <1>4

\* A change on a device raises its copy's version, and the first one becomes its base.
LEMMA LocalChangeSurvives ==
  ASSUME SyncInv, NEW d \in Devices, NEW n \in DOMAIN copy[d], NEW row,
         row.version = copy[d][n].version + 1, LocalChange(d, n, row)
  PROVE  Survive
<1>1. SyncTypes
  BY DEF SyncInv
<1>2. /\ server' = server /\ copy' = [copy EXCEPT ![d][n] = row]
      /\ base' = IF n \in DOMAIN base[d] THEN base
                 ELSE [base EXCEPT ![d] = WithRow(base[d], n, copy[d][n].version)]
  BY DEF LocalChange
<1>3. \A m \in DOMAIN server \cap DOMAIN server' : ShownUnderNewVersions(m)
  BY <1>2, StaysShown
<1>4. ASSUME NEW e \in Devices, NEW m \in DOMAIN copy[e] PROVE KeepsChange(e, m)
  <2>1. m \in DOMAIN base[e] => m \in DOMAIN base'[e]
    BY <1>1, <1>2 DEF SyncTypes, WithRow
  <2>2. CASE e = d /\ m = n
    <3>1. copy'[d][n] = row /\ copy[d][n].version \in Nat
      BY <1>1, <1>2, Rows DEF SyncTypes, Held
    <3> QED BY <2>1, <2>2, <3>1 DEF KeepsChange
  <2>3. CASE e # d \/ m # n
    <3>1. copy'[e][m] = copy[e][m]
      BY <1>1, <1>2, <2>3 DEF SyncTypes, Held
    <3> QED BY <2>1, <3>1, Untouched
  <2> QED BY <2>2, <2>3
<1> QED BY <1>3, <1>4 DEF Survive

\* Neither creating a note on the web nor pushing a new one touches what is there.
LEMMA InsertSurvives ==
  ASSUME SyncInv, NEW c \in Contents, Insert(c),
         \/ UNCHANGED <<copy, base>>
         \/ \E d \in Devices : Synced(d, next_id, Row(c, 1, FALSE))
  PROVE  Survive
<1>1. /\ \A n \in DOMAIN server : server'[n] = server[n]
      /\ \A d \in Devices : next_id \notin DOMAIN copy[d]
      /\ Row(c, 1, FALSE) \in SyncRow /\ next_id \in Ids' /\ Ids \subseteq Ids'
  BY InsertFits
<1>2. \A m \in DOMAIN server \cap DOMAIN server' : ShownUnderNewVersions(m)
  BY <1>1, StaysShown
<1>3. ASSUME NEW e \in Devices, NEW m \in DOMAIN copy[e] PROVE KeepsChange(e, m)
  <2>1. CASE UNCHANGED <<copy, base>>
    BY <2>1, Untouched
  <2>2. CASE \E d \in Devices : Synced(d, next_id, Row(c, 1, FALSE))
    <3>1. PICK d \in Devices, n \in {next_id}, row \in SyncRow :
            Synced(d, n, row) /\ n \in Ids'
      BY <1>1, <2>2
    <3>2. /\ e # d \/ m # n => m \in DOMAIN copy'[e] /\ copy'[e][m] = copy[e][m]
          /\ e # d \/ m # n => (m \in DOMAIN base[e] => m \in DOMAIN base'[e])
      BY <1>1, <3>1, SyncedFits
    <3> QED BY <1>1, <3>1, <3>2, Untouched
  <2> QED BY <2>1, <2>2
<1> QED BY <1>2, <1>3 DEF Survive

\* No step loses a change outside conflicts.
LEMMA StepSurvives == SyncInv /\ [SyncNext]_syncVars => Survive
<1> SUFFICES ASSUME SyncInv, [SyncNext]_syncVars PROVE Survive
  OBVIOUS
<1>1. ASSUME NEW c \in Contents, WebCreate(c) PROVE Survive
  BY <1>1, InsertSurvives DEF WebCreate
<1>2. ASSUME NEW n \in CoreIds, \/ \E c \in Contents : WebEdit(n, c)
                             \/ WebDelete(n)
      PROVE  Survive
  <2>1. PICK row \in SyncRow : n \in DOMAIN server /\ UNCHANGED <<copy, base>> /\ Moves(n, row)
    BY <1>2, WebEditMoves, WebDeleteMoves
  <2>2. \A m \in DOMAIN server \ conflicted' : ShownUnderNewVersions(m)
    BY <2>1, MovedShown
  <2>3. \A d \in Devices : \A m \in DOMAIN copy[d] : KeepsChange(d, m)
    BY <2>1, Untouched
  <2> QED BY <2>2, <2>3 DEF Survive
<1>3. ASSUME \A n \in DOMAIN server \cap DOMAIN server' : server'[n] = server[n],
             UNCHANGED <<copy, base>>
      PROVE  Survive
  BY <1>3, StaysShown, Untouched DEF Survive
<1>4. ASSUME NEW n \in CoreIds, PurgeRow(n) PROVE Survive
  <2>1. \A m \in DOMAIN server \cap DOMAIN server' : server'[m] = server[m]
    BY <1>4 DEF PurgeRow, WithoutRow, Restrict
  <2> QED BY <1>3, <1>4, <2>1 DEF PurgeRow
<1>5. ASSUME NEW d \in Devices, Local(d) PROVE Survive
  <2>1. ASSUME NEW c \in Contents, LocalCreate(d, c) PROVE Survive
    BY <1>3, <2>1 DEF LocalCreate
  <2>2. ASSUME NEW n \in CoreIds, NEW c \in Contents, LocalEdit(d, n, c) PROVE Survive
    BY <2>2, LocalChangeSurvives DEF LocalEdit, Row
  <2>3. ASSUME NEW n \in CoreIds, LocalDelete(d, n) PROVE Survive
    BY <2>3, LocalChangeSurvives DEF LocalDelete, Row
  <2> QED BY <1>5, <2>1, <2>2, <2>3 DEF Local
<1>6. ASSUME NEW d \in Devices, Sync(d) PROVE Survive
  <2>1. ASSUME Compare(d) PROVE Survive
    BY <1>3, <2>1 DEF Compare
  <2>2. ASSUME NEW c \in Contents, PushNew(d, c) PROVE Survive
    BY <2>2, InsertSurvives DEF PushNew
  <2> QED BY <1>6, <2>1, <2>2, PullSurvives, PushSurvives DEF Sync
<1>7. ASSUME NEW d \in Devices, NEW n \in CoreIds, PushUnanswered(d, n) PROVE Survive
  BY <1>7, PushUnansweredSurvives
<1>8. ASSUME NEW d \in Devices, NEW c \in Contents, PushNewUnanswered(d, c) PROVE Survive
  BY <1>8, InsertSurvives DEF PushNewUnanswered
<1>9. ASSUME UNCHANGED syncVars PROVE Survive
  BY <1>3, <1>9 DEF syncVars
<1> QED BY <1>1, <1>2, <1>4, <1>5, <1>6, <1>7, <1>8, <1>9 DEF SyncNext, Web

\* Syncing loses no change outside conflicts: for any number of devices and notes, however
\* late lists are worked off and answers are lost, a change stays on its device until the
\* server shows it, and the server shows something new only under a new version.
THEOREM NoChangeIsLost == SyncSpec => ChangesSurvive
<1>1. SyncInv /\ [SyncNext]_syncVars => Survive
  BY StepSurvives
<1> QED BY <1>1, SyncInvariance, PTL DEF SyncSpec, ChangesSurvive, Survive
===============================================================================
