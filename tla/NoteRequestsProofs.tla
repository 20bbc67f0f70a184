-------------------------- MODULE NoteRequestsProofs --------------------------
(***************************************************************************)
(* Proofs about NoteRequests: its type invariant, what overlapping         *)
(* requests can and cannot do to search rows and relationships, and that   *)
(* they never wait for each other's rows in a circle.                      *)
(***************************************************************************)
EXTENDS NoteRequests, FiniteSetTheorems, WellFoundedInduction, TLAPS

-------------------------------------------------------------------------------
(* What is proved of every reachable state. *)
NoteColumns == {"title", "content", "hash", "version", "is_deleted"}

\* Columns that an UPDATE of a note sets: no request brings a deleted note back.
IsNoteChange(change) ==
  /\ DOMAIN change \subseteq NoteColumns
  /\ "title" \in DOMAIN change => change["title"] \in Titles
  /\ "content" \in DOMAIN change => change["content"] \in Contents
  /\ "hash" \in DOMAIN change => change["hash"] \in Titles \X Contents
  /\ "version" \in DOMAIN change => change["version"] \in Nat \ {0}
  /\ "is_deleted" \in DOMAIN change => change["is_deleted"] = TRUE

IsRelationshipChange(change) ==
  /\ DOMAIN change \subseteq {"version", "is_deleted"}
  /\ "version" \in DOMAIN change => change["version"] \in Nat \ {0}
  /\ "is_deleted" \in DOMAIN change => change["is_deleted"] = TRUE

Indexed == {{}} \cup {{b} : b \in Titles \X Contents}

Parts == {"notes", "search", "relationships"}

\* All that the transaction of r writes of one table, whether it has yet or not.
Whole(r, part) ==
  [k \in DOMAIN todo[r][part] \cup DOMAIN written[r][part] |->
     IF k \in DOMAIN todo[r][part] THEN todo[r][part][k] ELSE written[r][part][k]]
NotesOf(r) == Whole(r, "notes")
SearchOf(r) == Whole(r, "search")
RelationshipsOf(r) == Whole(r, "relationships")

\* What a note and its search row are once r has committed, if nobody else writes them.
NoteBy(r, n) ==
  IF n \in DOMAIN NotesOf(r) THEN Overwrite(notes[n], NotesOf(r)[n]) ELSE notes[n]
IndexBy(r, n) == IF n \in DOMAIN SearchOf(r) THEN SearchOf(r)[n] ELSE search[n]

PlanFields == {"touches", "notes", "search", "cascade", "relationships", "inserts"}

IsFunction(f) == f = [x \in DOMAIN f |-> f[x]]
IsPlan(plan) == IsFunction(plan) /\ DOMAIN plan = PlanFields

Transactions ==
  /\ IsFunction(todo) /\ DOMAIN todo = Processes
  /\ IsFunction(written) /\ DOMAIN written = Processes
  /\ \A r \in Processes : IsPlan(todo[r]) /\ IsPlan(written[r])

\* A transaction writes only what it touches, and rows of the right kind.
PlanFits(r) ==
  /\ todo[r].touches \subseteq NoteIds
  /\ DOMAIN NotesOf(r) \cup DOMAIN SearchOf(r) \cup todo[r].cascade \subseteq todo[r].touches
  /\ \A n \in DOMAIN NotesOf(r) : IsNoteChange(NotesOf(r)[n])
  /\ \A n \in DOMAIN SearchOf(r) : SearchOf(r)[n] \in Indexed
  /\ todo[r].inserts \subseteq DOMAIN RelationshipsOf(r)
  /\ DOMAIN RelationshipsOf(r) \subseteq Pairs
  /\ \A p \in DOMAIN RelationshipsOf(r) \ todo[r].inserts :
       p \in DOMAIN relationships /\ IsRelationshipChange(RelationshipsOf(r)[p])
  /\ todo[r].cascade # {} => DOMAIN RelationshipsOf(r) = {}

PlansFit == \A r \in Processes : PlanFits(r)

\* A row that is inserted is a whole one, and of notes that the request touches and
\* alone; once it is written no other row has its key.
InsertsFit(r) ==
  \A p \in todo[r].inserts :
    /\ RelationshipsOf(r)[p] \in RelationshipRow
    /\ p[1] \in todo[r].touches /\ p[2] \in todo[r].touches
    /\ p \in DOMAIN written[r].relationships => p \notin DOMAIN relationships
    /\ DOMAIN NotesOf(r) = {}
    /\ \A n \in {p[1], p[2]} : Live(n) \/ n \in overlapped

InsertsAlone == \A r \in Processes : InsertsFit(r)

\* A transaction writes one note and one search row at most, each row once, and takes the
\* locks in one order: the note, its search row, then relationships by their keys.
KeepsOrder(r) ==
  /\ \A part \in Parts : /\ IsFunction(todo[r][part])
                         /\ DOMAIN todo[r][part] \cap DOMAIN written[r][part] = {}
  /\ \A m \in DOMAIN NotesOf(r), n \in DOMAIN NotesOf(r) : m = n
  /\ \A m \in DOMAIN SearchOf(r), n \in DOMAIN SearchOf(r) : m = n
  /\ DOMAIN written[r].search # {} => DOMAIN todo[r].notes = {}
  /\ todo[r].cascade # {} => DOMAIN SearchOf(r) # {}
  /\ DOMAIN RelationshipsOf(r) # {} => DOMAIN todo[r].notes = {} /\ DOMAIN todo[r].search = {}
  /\ \A p \in DOMAIN written[r].relationships, q \in DOMAIN todo[r].relationships : Before(p, q)

OrderIsKept == \A r \in Processes : KeepsOrder(r)

\* Notes that two transactions touch have been overlapped.
OverlapsAreSeen ==
  \A r \in Processes, q \in Processes :
    r # q => todo[r].touches \cap todo[q].touches \subseteq overlapped

\* A search row is deleted only together with its note.
IndexDropped ==
  \A r \in Processes : \A n \in DOMAIN SearchOf(r) :
    SearchOf(r)[n] = {} => NoteBy(r, n).is_deleted

\* A search row and the hash follow a note that is not deleted.
Follow(row, index) ==
  \/ row.is_deleted
  \/ index = {Body(row)} /\ row.hash = Hash(row.title, row.content)

\* So they do in what a transaction makes of a note that is its own alone.
PlansAreSound ==
  \A r \in Processes : \A n \in todo[r].touches \ overlapped :
    Follow(NoteBy(r, n), IndexBy(r, n))

\* Whoever deletes such a note has yet to look for its relationships, or deletes them all.
CascadesReach ==
  \A r \in Processes : \A n \in todo[r].touches \ overlapped :
    Live(n) /\ NoteBy(r, n).is_deleted =>
      \/ n \in todo[r].cascade
      \/ \A p \in LiveRelationships :
           n \in {p[1], p[2]} => /\ p \in DOMAIN RelationshipsOf(r) \ todo[r].inserts
                                 /\ "is_deleted" \in DOMAIN RelationshipsOf(r)[p]

\* The types, and that no two transactions hold the lock of one row.
Types ==
  /\ notes \in [NoteIds -> NoteRow]
  /\ \A n \in NoteIds : \E t \in Titles, c \in Contents : search[n] \in {{}, {<<t, c>>}}
  /\ DOMAIN relationships \subseteq Pairs
  /\ relationships \in [DOMAIN relationships -> RelationshipRow]
  /\ running \subseteq Processes /\ served \subseteq Requests /\ overlapped \subseteq NoteIds
  /\ \A r \in Processes \ running : todo[r] = Idle /\ written[r] = Idle
  /\ \A r \in Processes, q \in Processes :
       r # q => /\ DOMAIN written[r].notes \cap DOMAIN written[q].notes = {}
                /\ DOMAIN written[r].search \cap DOMAIN written[q].search = {}
                /\ DOMAIN written[r].relationships \cap DOMAIN written[q].relationships = {}

IInv ==
  /\ Types
  /\ Transactions
  /\ PlansFit
  /\ InsertsAlone
  /\ OrderIsKept /\ IsFiniteSet(running)
  /\ OverlapsAreSeen
  /\ IndexDropped
  /\ PlansAreSound
  /\ CascadesReach
  /\ SearchFollowsUnlessOverlapped
  /\ RelationshipsFollowUnlessOverlapped
  /\ LiveNotesHaveSearchRow


-------------------------------------------------------------------------------
(* Rows and changes. *)
\* A row, column by column.
LEMMA NoteRowColumns ==
  ASSUME NEW row
  PROVE  row \in NoteRow <=>
           /\ row = [c \in NoteColumns |-> row[c]]
           /\ row["title"] \in Titles /\ row["content"] \in Contents
           /\ row["hash"] \in Titles \X Contents
           /\ row["version"] \in Nat \ {0} /\ row["is_deleted"] \in BOOLEAN
BY DEF NoteRow, NoteColumns

\* A relationship's row is known by its columns.
LEMMA RelationshipRowColumns ==
  ASSUME NEW row
  PROVE  row \in RelationshipRow <=>
           /\ row = [c \in {"version", "is_deleted"} |-> row[c]]
           /\ row["version"] \in Nat \ {0} /\ row["is_deleted"] \in BOOLEAN
BY DEF RelationshipRow

\* An UPDATE leaves a well-formed note, deleted if it was before or is now.
LEMMA OverwriteNote ==
  ASSUME NEW row \in NoteRow, NEW change, IsNoteChange(change)
  PROVE  /\ Overwrite(row, change) \in NoteRow
         /\ Overwrite(row, change).is_deleted <=>
              row.is_deleted \/ "is_deleted" \in DOMAIN change
<1>1. PICK new : new = Overwrite(row, change)
  OBVIOUS
<1>2. DOMAIN row = NoteColumns
  BY NoteRowColumns
<1>3. new = [c \in NoteColumns |-> IF c \in DOMAIN change THEN change[c] ELSE row[c]]
  BY <1>1, <1>2 DEF Overwrite
<1>4. /\ new["title"] \in Titles /\ new["content"] \in Contents
      /\ new["hash"] \in Titles \X Contents
      /\ new["version"] \in Nat \ {0} /\ new["is_deleted"] \in BOOLEAN
  BY <1>3, NoteRowColumns DEF NoteColumns, IsNoteChange
<1>5. new \in NoteRow
  BY <1>3, <1>4, NoteRowColumns
<1>6. new.is_deleted <=> row.is_deleted \/ "is_deleted" \in DOMAIN change
  BY <1>3, NoteRowColumns DEF NoteColumns, IsNoteChange
<1> QED BY <1>1, <1>5, <1>6

\* Overwriting some columns of a relationship's row gives a row with them changed.
LEMMA OverwriteRelationship ==
  ASSUME NEW row \in RelationshipRow, NEW change, IsRelationshipChange(change)
  PROVE  /\ Overwrite(row, change) \in RelationshipRow
         /\ Overwrite(row, change).is_deleted <=>
              row.is_deleted \/ "is_deleted" \in DOMAIN change
<1>1. PICK new : new = Overwrite(row, change)
  OBVIOUS
<1>2. DOMAIN row = {"version", "is_deleted"}
  BY RelationshipRowColumns
<1>3. new = [c \in {"version", "is_deleted"} |->
               IF c \in DOMAIN change THEN change[c] ELSE row[c]]
  BY <1>1, <1>2 DEF Overwrite
<1>4. new["version"] \in Nat \ {0} /\ new["is_deleted"] \in BOOLEAN
  BY <1>3, RelationshipRowColumns DEF IsRelationshipChange
<1>5. new \in RelationshipRow
  BY <1>3, <1>4, RelationshipRowColumns
<1>6. new.is_deleted <=> row.is_deleted \/ "is_deleted" \in DOMAIN change
  BY <1>3, RelationshipRowColumns DEF IsRelationshipChange
<1> QED BY <1>1, <1>5, <1>6

\* The columns that differ, written over the row that was loaded, give the row.
LEMMA ChangedNote ==
  ASSUME NEW loaded \in NoteRow, NEW row \in NoteRow,
         row.is_deleted = loaded.is_deleted \/ row.is_deleted = TRUE
  PROVE  /\ IsNoteChange(Changed(loaded, row))
         /\ Overwrite(loaded, Changed(loaded, row)) = row
         /\ DOMAIN Changed(loaded, row) = {} => row = loaded
<1>1. PICK change : change = Changed(loaded, row)
  OBVIOUS
<1>2. DOMAIN loaded = NoteColumns /\ DOMAIN row = NoteColumns
  BY NoteRowColumns
<1>3. change = [c \in {c \in NoteColumns : row[c] # loaded[c]} |-> row[c]]
  BY <1>1, <1>2 DEF Changed, Restrict
<1>4. IsNoteChange(change)
  BY <1>3, NoteRowColumns DEF IsNoteChange, NoteColumns
<1>5. Overwrite(loaded, change) = [c \in NoteColumns |-> row[c]]
  BY <1>2, <1>3 DEF Overwrite
<1>6. Overwrite(loaded, change) = row
  BY <1>5, NoteRowColumns
<1>7. ASSUME DOMAIN change = {} PROVE row = loaded
  <2>1. \A c \in NoteColumns : row[c] = loaded[c]
    BY <1>3, <1>7
  <2> QED BY <2>1, NoteRowColumns
<1> QED BY <1>1, <1>4, <1>6, <1>7

\* What is written of a loaded row are the columns in which the new row differs.
LEMMA ChangedRelationship ==
  ASSUME NEW loaded \in RelationshipRow, NEW row \in RelationshipRow,
         row.is_deleted = loaded.is_deleted \/ row.is_deleted = TRUE
  PROVE  /\ IsRelationshipChange(Changed(loaded, row))
         /\ row.is_deleted # loaded.is_deleted =>
              "is_deleted" \in DOMAIN Changed(loaded, row)
<1>1. PICK change : change = Changed(loaded, row)
  OBVIOUS
<1>2. DOMAIN loaded = {"version", "is_deleted"} /\ DOMAIN row = {"version", "is_deleted"}
  BY RelationshipRowColumns
<1>3. change = [c \in {c \in {"version", "is_deleted"} : row[c] # loaded[c]} |-> row[c]]
  BY <1>1, <1>2 DEF Changed, Restrict
<1>4. IsRelationshipChange(change)
  BY <1>3, RelationshipRowColumns DEF IsRelationshipChange
<1>5. row.is_deleted # loaded.is_deleted => "is_deleted" \in DOMAIN change
  BY <1>3
<1> QED BY <1>1, <1>4, <1>5

-------------------------------------------------------------------------------
(* Transactions. *)
\* A transaction's whole is that of its process alone.
LEMMA WholeTyped ==
  ASSUME NEW r, NEW part
  PROVE  /\ IsFunction(Whole(r, part))
         /\ DOMAIN Whole(r, part) = DOMAIN todo[r][part] \cup DOMAIN written[r][part]
BY DEF Whole, IsFunction

\* What an update of one process's plan does to the plans.
LEMMA PlanReplaced ==
  ASSUME NEW table, IsFunction(table), DOMAIN table = Processes, NEW r \in Processes, NEW plan,
         NEW new, new = [table EXCEPT ![r] = plan]
  PROVE  /\ IsFunction(new) /\ DOMAIN new = Processes
         /\ new[r] = plan
         /\ \A q \in Processes \ {r} : new[q] = table[q]
<1>1. new = [q \in Processes |-> IF q = r THEN plan ELSE table[q]]
  BY DEF IsFunction
<1> QED BY <1>1 DEF IsFunction

\* No row is left.
LEMMA NothingIsEmpty == IsFunction(Nothing) /\ DOMAIN Nothing = {}
BY DEF Nothing, IsFunction

\* A process at rest plans nothing.
LEMMA IdlePlan ==
  /\ IsPlan(Idle) /\ Idle.touches = {} /\ Idle.cascade = {} /\ Idle.inserts = {}
  /\ DOMAIN Idle.notes = {} /\ DOMAIN Idle.search = {} /\ DOMAIN Idle.relationships = {}
BY DEF IsPlan, IsFunction, Idle, Nothing, PlanFields

\* A transaction in which something is left to do is running.
LEMMA BusyRuns ==
  ASSUME Types, NEW r \in Processes,
         todo[r].notes # Nothing \/ todo[r].search # Nothing \/ todo[r].cascade # {}
         \/ todo[r].relationships # Nothing
  PROVE  r \in running
BY DEF Types, Idle

\* A statement moves one change from what is left to what is written: the whole stays.
LEMMA MovedKeepsWhole ==
  ASSUME Transactions, NEW r \in Processes, NEW part \in Parts, NEW key \in DOMAIN todo[r][part],
         Moved(r, part, key)
  PROVE  /\ Transactions'
         /\ \A q \in Processes : /\ todo'[q].touches = todo[q].touches
                                 /\ todo'[q].cascade = todo[q].cascade
                                 /\ todo'[q].inserts = todo[q].inserts
                                 /\ NotesOf(q)' = NotesOf(q)
                                 /\ SearchOf(q)' = SearchOf(q)
                                 /\ RelationshipsOf(q)' = RelationshipsOf(q)
         /\ \A q \in Processes \ {r} : todo'[q] = todo[q] /\ written'[q] = written[q]
         /\ \A other \in Parts : DOMAIN written'[r][other] =
              DOMAIN written[r][other] \cup (IF other = part THEN {key} ELSE {})
         /\ \A other \in Parts :
              /\ DOMAIN todo'[r][other] =
                   DOMAIN todo[r][other] \ (IF other = part THEN {key} ELSE {})
              /\ IsFunction(todo[r][other]) => IsFunction(todo'[r][other])
<1>1. PICK left, done :
        /\ left = [todo[r] EXCEPT ![part] = Restrict(@, DOMAIN @ \ {key})]
        /\ done = [written[r] EXCEPT ![part] =
             [k \in DOMAIN @ \cup {key} |-> IF k = key THEN todo[r][part][k] ELSE @[k]]]
  OBVIOUS
<1>2. todo' = [todo EXCEPT ![r] = left] /\ written' = [written EXCEPT ![r] = done]
  BY <1>1 DEF Moved
<1>3. /\ IsFunction(todo') /\ DOMAIN todo' = Processes /\ todo'[r] = left
      /\ \A q \in Processes \ {r} : todo'[q] = todo[q]
  BY <1>2, PlanReplaced DEF Transactions
<1>4. /\ IsFunction(written') /\ DOMAIN written' = Processes /\ written'[r] = done
      /\ \A q \in Processes \ {r} : written'[q] = written[q]
  BY <1>2, PlanReplaced DEF Transactions
<1>5. part \in PlanFields /\ IsPlan(todo[r]) /\ IsPlan(written[r])
  BY DEF Parts, PlanFields, Transactions
<1>6. /\ IsPlan(left) /\ \A f \in PlanFields \ {part} : left[f] = todo[r][f]
      /\ left[part] = [k \in DOMAIN todo[r][part] \ {key} |-> todo[r][part][k]]
  <2>1. left = [f \in PlanFields |->
                  IF f = part THEN [k \in DOMAIN todo[r][part] \ {key} |-> todo[r][part][k]]
                  ELSE todo[r][f]]
    BY <1>1, <1>5 DEF IsPlan, IsFunction, Restrict
  <2> QED BY <1>5, <2>1 DEF IsPlan, IsFunction
<1>7. /\ IsPlan(done) /\ \A f \in PlanFields \ {part} : done[f] = written[r][f]
      /\ done[part] = [k \in DOMAIN written[r][part] \cup {key} |->
                         IF k = key THEN todo[r][part][k] ELSE written[r][part][k]]
  <2>1. done = [f \in PlanFields |->
                  IF f = part
                    THEN [k \in DOMAIN written[r][part] \cup {key} |->
                            IF k = key THEN todo[r][part][k] ELSE written[r][part][k]]
                    ELSE written[r][f]]
    BY <1>1, <1>5 DEF IsPlan, IsFunction
  <2> QED BY <1>5, <2>1 DEF IsPlan, IsFunction
<1>8. Transactions'
  BY <1>3, <1>4, <1>6, <1>7 DEF Transactions, IsPlan, IsFunction
<1>9. \A q \in Processes, other \in Parts : Whole(q, other)' = Whole(q, other)
  <2> SUFFICES ASSUME NEW q \in Processes, NEW other \in Parts
               PROVE  Whole(q, other)' = Whole(q, other)
    OBVIOUS
  <2>1. CASE q # r
    BY <1>3, <1>4, <2>1 DEF Whole
  <2>2. CASE q = r /\ other # part
    <3>1. other \in PlanFields \ {part}
      BY <2>2 DEF Parts, PlanFields
    <3> QED BY <1>3, <1>4, <1>6, <1>7, <2>2, <3>1 DEF Whole
  <2>3. CASE q = r /\ other = part
    <3>1. /\ DOMAIN left[part] = DOMAIN todo[r][part] \ {key}
          /\ DOMAIN done[part] = DOMAIN written[r][part] \cup {key}
          /\ \A k \in DOMAIN left[part] : left[part][k] = todo[r][part][k]
          /\ \A k \in DOMAIN done[part] :
               done[part][k] = IF k = key THEN todo[r][part][k] ELSE written[r][part][k]
      BY <1>6, <1>7
    <3>2. DOMAIN left[part] \cup DOMAIN done[part]
            = DOMAIN todo[r][part] \cup DOMAIN written[r][part]
      BY <3>1
    <3>3. Whole(q, other)' =
            [k \in DOMAIN left[part] \cup DOMAIN done[part] |->
               IF k \in DOMAIN left[part] THEN left[part][k] ELSE done[part][k]]
      BY <1>3, <1>4, <2>3 DEF Whole
    <3> QED BY <2>3, <3>1, <3>2, <3>3 DEF Whole
  <2> QED BY <2>1, <2>2, <2>3
<1>10. \A q \in Processes : /\ todo'[q].touches = todo[q].touches
                            /\ todo'[q].cascade = todo[q].cascade
                            /\ todo'[q].inserts = todo[q].inserts
  BY <1>3, <1>6 DEF Parts, PlanFields
<1>11. \A q \in Processes : /\ NotesOf(q)' = NotesOf(q) /\ SearchOf(q)' = SearchOf(q)
                            /\ RelationshipsOf(q)' = RelationshipsOf(q)
  BY <1>9 DEF Parts, NotesOf, SearchOf, RelationshipsOf
<1>12. \A other \in Parts : DOMAIN written'[r][other] =
         DOMAIN written[r][other] \cup (IF other = part THEN {key} ELSE {})
  BY <1>4, <1>7 DEF Parts, PlanFields
<1>13. \A other \in Parts :
         /\ DOMAIN todo'[r][other] =
              DOMAIN todo[r][other] \ (IF other = part THEN {key} ELSE {})
         /\ IsFunction(todo[r][other]) => IsFunction(todo'[r][other])
  <2> SUFFICES ASSUME NEW other \in Parts
               PROVE  /\ DOMAIN todo'[r][other] =
                           DOMAIN todo[r][other] \ (IF other = part THEN {key} ELSE {})
                      /\ IsFunction(todo[r][other]) => IsFunction(todo'[r][other])
    OBVIOUS
  <2>1. CASE other = part
    BY <1>3, <1>6, <2>1 DEF IsFunction
  <2>2. CASE other # part
    <3>1. todo'[r][other] = todo[r][other]
      BY <1>3, <1>6, <2>2 DEF Parts, PlanFields
    <3> QED BY <2>2, <3>1
  <2> QED BY <2>1, <2>2
<1> QED BY <1>3, <1>4, <1>8, <1>10, <1>11, <1>12, <1>13

\* A transaction that is over.
LEMMA EndedIsIdle ==
  ASSUME Transactions, NEW r \in Processes, End(r)
  PROVE  /\ Transactions'
         /\ todo'[r] = Idle /\ written'[r] = Idle
         /\ \A q \in Processes \ {r} :
              /\ todo'[q] = todo[q] /\ written'[q] = written[q]
              /\ NotesOf(q)' = NotesOf(q) /\ SearchOf(q)' = SearchOf(q)
              /\ RelationshipsOf(q)' = RelationshipsOf(q)
         /\ DOMAIN NotesOf(r)' = {} /\ DOMAIN SearchOf(r)' = {}
         /\ DOMAIN RelationshipsOf(r)' = {}
<1>1. todo' = [todo EXCEPT ![r] = Idle] /\ written' = [written EXCEPT ![r] = Idle]
  BY DEF End
<1>2. /\ IsFunction(todo') /\ DOMAIN todo' = Processes /\ todo'[r] = Idle
      /\ \A q \in Processes \ {r} : todo'[q] = todo[q]
  BY <1>1, PlanReplaced DEF Transactions
<1>3. /\ IsFunction(written') /\ DOMAIN written' = Processes /\ written'[r] = Idle
      /\ \A q \in Processes \ {r} : written'[q] = written[q]
  BY <1>1, PlanReplaced DEF Transactions
<1>4. Transactions'
  BY <1>2, <1>3, IdlePlan DEF Transactions
<1>5. \A q \in Processes \ {r} : /\ NotesOf(q)' = NotesOf(q) /\ SearchOf(q)' = SearchOf(q)
                                 /\ RelationshipsOf(q)' = RelationshipsOf(q)
  BY <1>2, <1>3 DEF NotesOf, SearchOf, RelationshipsOf, Whole
<1>6. /\ DOMAIN NotesOf(r)' = {} /\ DOMAIN SearchOf(r)' = {}
      /\ DOMAIN RelationshipsOf(r)' = {}
  BY <1>2, <1>3, IdlePlan DEF NotesOf, SearchOf, RelationshipsOf, Whole
<1> QED BY <1>2, <1>3, <1>4, <1>5, <1>6

-------------------------------------------------------------------------------
(* Statements. *)
\* The keys of relationships, two numbers each, are in order one after the other.
LEMMA BeforeIsOrder ==
  ASSUME NEW p \in Pairs, NEW q \in Pairs
  PROVE  /\ ~Before(p, p)
         /\ p # q => Before(p, q) \/ Before(q, p)
         /\ \A o \in Pairs : Before(o, p) /\ Before(p, q) => Before(o, q)
<1>1. \A o \in Pairs : o = <<o[1], o[2]>> /\ o[1] \in Nat /\ o[2] \in Nat
  <2> SUFFICES ASSUME NEW o \in Pairs
               PROVE  o = <<o[1], o[2]>> /\ o[1] \in Nat /\ o[2] \in Nat
    OBVIOUS
  <2>1. o \in NoteIds \X NoteIds
    BY NoteIdsAssumption, Zenon
  <2>2. o = <<o[1], o[2]>> /\ o[1] \in NoteIds /\ o[2] \in NoteIds
    BY <2>1
  <2> QED BY <2>2, NoteIdsAssumption
<1>2. ~Before(p, p)
  BY <1>1 DEF Before
<1>3. ASSUME p # q PROVE Before(p, q) \/ Before(q, p)
  <2>1. p = <<p[1], p[2]>> /\ q = <<q[1], q[2]>>
    BY <1>1
  <2>2. p[1] # q[1] \/ p[2] # q[2]
    BY <1>3, <2>1
  <2>3. p[1] \in Nat /\ p[2] \in Nat /\ q[1] \in Nat /\ q[2] \in Nat
    BY <1>1
  <2> QED BY <2>2, <2>3 DEF Before
<1>4. ASSUME NEW o \in Pairs, Before(o, p), Before(p, q) PROVE Before(o, q)
  BY <1>1, <1>4 DEF Before
<1> QED BY <1>2, <1>3, <1>4

\* A statement keeps to the order if it is the first of those that are left.
LEMMA StatementKeepsOrder ==
  ASSUME IInv, NEW r \in Processes, NEW part \in Parts, NEW key \in DOMAIN todo[r][part],
         Moved(r, part, key),
         part = "search" => DOMAIN todo[r].notes = {},
         part = "relationships" => \A q \in DOMAIN todo[r].relationships : ~Before(q, key)
  PROVE  OrderIsKept'
<1>1. /\ \A q \in Processes : /\ todo'[q].cascade = todo[q].cascade
                              /\ NotesOf(q)' = NotesOf(q)
                              /\ SearchOf(q)' = SearchOf(q)
                              /\ RelationshipsOf(q)' = RelationshipsOf(q)
      /\ \A q \in Processes \ {r} : todo'[q] = todo[q] /\ written'[q] = written[q]
  BY MovedKeepsWhole DEF IInv
<1>2. \A other \in Parts :
        /\ DOMAIN written'[r][other] =
             DOMAIN written[r][other] \cup (IF other = part THEN {key} ELSE {})
        /\ DOMAIN todo'[r][other] =
             DOMAIN todo[r][other] \ (IF other = part THEN {key} ELSE {})
        /\ IsFunction(todo[r][other]) => IsFunction(todo'[r][other])
  BY MovedKeepsWhole DEF IInv
<1>3. KeepsOrder(r)
  BY DEF IInv, OrderIsKept
<1>4. ASSUME NEW q \in Processes \ {r} PROVE KeepsOrder(q)'
  <2>1. KeepsOrder(q)
    BY DEF IInv, OrderIsKept
  <2> QED BY <1>1, <2>1 DEF KeepsOrder
<1>5. \A other \in Parts : /\ IsFunction(todo'[r][other])
                           /\ DOMAIN todo'[r][other] \cap DOMAIN written'[r][other] = {}
  BY <1>2, <1>3 DEF KeepsOrder
<1>6. /\ DOMAIN todo'[r].notes \subseteq DOMAIN todo[r].notes
      /\ DOMAIN todo'[r].search \subseteq DOMAIN todo[r].search
      /\ DOMAIN todo'[r].relationships \subseteq DOMAIN todo[r].relationships
  BY <1>2 DEF Parts
<1>7. DOMAIN written'[r].search # {} => DOMAIN todo'[r].notes = {}
  <2>1. CASE part = "search"
    BY <1>6, <2>1
  <2>2. CASE part # "search"
    <3>1. DOMAIN written'[r].search = DOMAIN written[r].search
      BY <1>2, <2>2 DEF Parts
    <3> QED BY <1>3, <1>6, <3>1 DEF KeepsOrder
  <2> QED BY <2>1, <2>2
<1>8. \A p \in DOMAIN written'[r].relationships, q \in DOMAIN todo'[r].relationships :
        Before(p, q)
  <2>1. CASE part = "relationships"
    <3>1. /\ DOMAIN written'[r].relationships = DOMAIN written[r].relationships \cup {key}
          /\ DOMAIN todo'[r].relationships = DOMAIN todo[r].relationships \ {key}
      BY <1>2, <2>1 DEF Parts
    <3>2. DOMAIN todo[r].relationships \subseteq Pairs /\ key \in Pairs
      <4>1. DOMAIN RelationshipsOf(r) \subseteq Pairs
        BY DEF IInv, PlansFit, PlanFits
      <4>2. DOMAIN todo[r].relationships \subseteq DOMAIN RelationshipsOf(r)
        BY WholeTyped DEF RelationshipsOf
      <4> QED BY <2>1, <4>1, <4>2
    <3>3. \A q \in DOMAIN todo[r].relationships \ {key} : Before(key, q)
      BY <2>1, <3>2, BeforeIsOrder
    <3> QED BY <1>3, <3>1, <3>3 DEF KeepsOrder
  <2>2. CASE part # "relationships"
    <3>1. DOMAIN written'[r].relationships = DOMAIN written[r].relationships
      BY <1>2, <2>2 DEF Parts
    <3> QED BY <1>3, <1>6, <3>1 DEF KeepsOrder
  <2> QED BY <2>1, <2>2
<1>9. KeepsOrder(r)'
  BY <1>1, <1>3, <1>5, <1>6, <1>7, <1>8 DEF KeepsOrder
<1> QED BY <1>4, <1>9 DEF OrderIsKept

\* A statement that waits for its row's lock, and comes in its turn, keeps the invariant.
LEMMA StatementKeeps ==
  ASSUME IInv, NEW r \in Processes, NEW part \in Parts, NEW key \in DOMAIN todo[r][part],
         Unlocked(r, part, key), Moved(r, part, key),
         part = "search" => DOMAIN todo[r].notes = {},
         part = "relationships" => \A q \in DOMAIN todo[r].relationships : ~Before(q, key),
         part = "relationships" /\ key \in todo[r].inserts => key \notin DOMAIN relationships
  PROVE  IInv'
<1>1. UNCHANGED <<notes, search, relationships, running, served, overlapped>>
  BY DEF Moved, tables
<1>2. /\ Transactions'
      /\ \A q \in Processes : /\ todo'[q].touches = todo[q].touches
                              /\ todo'[q].cascade = todo[q].cascade
                              /\ todo'[q].inserts = todo[q].inserts
                              /\ NotesOf(q)' = NotesOf(q)
                              /\ SearchOf(q)' = SearchOf(q)
                              /\ RelationshipsOf(q)' = RelationshipsOf(q)
  BY MovedKeepsWhole DEF IInv
<1>3. /\ \A q \in Processes \ {r} : todo'[q] = todo[q] /\ written'[q] = written[q]
      /\ \A other \in Parts : DOMAIN written'[r][other] =
           DOMAIN written[r][other] \cup (IF other = part THEN {key} ELSE {})
  BY MovedKeepsWhole DEF IInv
<1>4. \A q \in Processes : \A n : NoteBy(q, n)' = NoteBy(q, n) /\ IndexBy(q, n)' = IndexBy(q, n)
  BY <1>1, <1>2 DEF NoteBy, IndexBy
<1>5. r \in running
  <2>1. part = "notes" => todo[r].notes # Nothing
    BY DEF Nothing
  <2>2. part = "search" => todo[r].search # Nothing
    BY DEF Nothing
  <2>3. part = "relationships" => todo[r].relationships # Nothing
    BY DEF Nothing
  <2> QED BY <2>1, <2>2, <2>3, BusyRuns DEF IInv, Parts
<1>6. Types'
  <2>1. \A q \in Processes \ running' : todo'[q] = Idle /\ written'[q] = Idle
    BY <1>1, <1>3, <1>5 DEF IInv, Types
  <2>2. \A other \in Parts : \A q \in Processes \ {r} :
          DOMAIN written'[r][other] \cap DOMAIN written'[q][other] = {}
    <3> SUFFICES ASSUME NEW other \in Parts, NEW q \in Processes \ {r}
                 PROVE  DOMAIN written'[r][other] \cap DOMAIN written'[q][other] = {}
      OBVIOUS
    <3>1. DOMAIN written[r][other] \cap DOMAIN written[q][other] = {}
      BY DEF IInv, Types, Parts
    <3>2. other = part => key \notin DOMAIN written[q][other]
      BY DEF Unlocked
    <3> QED BY <1>3, <3>1, <3>2
  <2>3. \A p \in Processes, q \in Processes :
          p # q => \A other \in Parts :
                     DOMAIN written'[p][other] \cap DOMAIN written'[q][other] = {}
    <3> SUFFICES ASSUME NEW p \in Processes, NEW q \in Processes, p # q, NEW other \in Parts
                 PROVE  DOMAIN written'[p][other] \cap DOMAIN written'[q][other] = {}
      OBVIOUS
    <3>1. CASE p = r
      BY <2>2, <3>1
    <3>2. CASE q = r
      BY <2>2, <3>2
    <3>3. CASE p # r /\ q # r
      <4>1. DOMAIN written[p][other] \cap DOMAIN written[q][other] = {}
        BY DEF IInv, Types, Parts
      <4> QED BY <1>3, <3>3, <4>1
    <3> QED BY <3>1, <3>2, <3>3
  <2>4. \A p \in Processes, q \in Processes :
          p # q =>
            /\ DOMAIN written'[p].notes \cap DOMAIN written'[q].notes = {}
            /\ DOMAIN written'[p].search \cap DOMAIN written'[q].search = {}
            /\ DOMAIN written'[p].relationships \cap DOMAIN written'[q].relationships = {}
    BY <2>3 DEF Parts
  <2> QED BY <1>1, <2>1, <2>4 DEF IInv, Types
<1>7. PlansFit'
  BY <1>1, <1>2 DEF IInv, PlansFit, PlanFits
<1>8. InsertsAlone'
  <2> SUFFICES ASSUME NEW q \in Processes, NEW p \in todo[q].inserts,
                      p \in DOMAIN written'[q].relationships
               PROVE  p \notin DOMAIN relationships
    BY <1>1, <1>2 DEF IInv, InsertsAlone, InsertsFit, Live
  <2>1. CASE p \in DOMAIN written[q].relationships
    BY <2>1 DEF IInv, InsertsAlone, InsertsFit
  <2>2. CASE p \notin DOMAIN written[q].relationships
    <3>1. q = r /\ part = "relationships" /\ p = key
      BY <1>3, <2>2 DEF Parts
    <3> QED BY <3>1
  <2> QED BY <2>1, <2>2
<1>9. OverlapsAreSeen' /\ IndexDropped'
  BY <1>1, <1>2, <1>4 DEF IInv, OverlapsAreSeen, IndexDropped
<1>10. PlansAreSound'
  BY <1>1, <1>2, <1>4 DEF IInv, PlansAreSound
<1>11. CascadesReach'
  BY <1>1, <1>2, <1>4 DEF IInv, CascadesReach, Live, LiveRelationships
<1>12. SearchFollowsUnlessOverlapped' /\ RelationshipsFollowUnlessOverlapped'
       /\ LiveNotesHaveSearchRow'
  BY <1>1 DEF IInv, SearchFollowsUnlessOverlapped, RelationshipsFollowUnlessOverlapped,
              LiveNotesHaveSearchRow, Live, LiveRelationships
<1>13. OrderIsKept' /\ IsFiniteSet(running)'
  BY <1>1, StatementKeepsOrder DEF IInv
<1> QED BY <1>2, <1>6, <1>7, <1>8, <1>9, <1>10, <1>11, <1>12, <1>13 DEF IInv

\* What a tombstone changes of a relationship that is live.
LEMMA TombstoneChange ==
  ASSUME Types, NEW p \in DOMAIN relationships
  PROVE  /\ TombstoneOf(p) \in RelationshipRow /\ TombstoneOf(p).is_deleted = TRUE
         /\ p \in LiveRelationships =>
              /\ IsRelationshipChange(Changed(relationships[p], TombstoneOf(p)))
              /\ "is_deleted" \in DOMAIN Changed(relationships[p], TombstoneOf(p))
<1>1. relationships[p] \in RelationshipRow
  BY DEF Types
<1>2. TombstoneOf(p) \in RelationshipRow /\ TombstoneOf(p).is_deleted = TRUE
  <2>1. PICK row : row = relationships[p]
    OBVIOUS
  <2>2. row \in RelationshipRow /\ row.version + 1 \in Nat \ {0}
    BY <1>1, <2>1 DEF RelationshipRow
  <2>3. TombstoneOf(p) = [row EXCEPT !.is_deleted = TRUE, !.version = row.version + 1]
    BY <2>1 DEF TombstoneOf, Deleted
  <2> QED BY <2>2, <2>3 DEF RelationshipRow
<1>3. ASSUME p \in LiveRelationships
      PROVE  relationships[p].is_deleted # TRUE
  BY <1>3 DEF LiveRelationships
<1> QED BY <1>1, <1>2, <1>3, ChangedRelationship

\* Reading the relationships that a deletion cascades to keeps the invariant.
LEMMA SelectCascadeKeeps ==
  ASSUME IInv, NEW r \in Processes, SelectCascade(r)
  PROVE  IInv'
<1>1. UNCHANGED <<notes, search, relationships, written, running, served, overlapped>>
  BY DEF SelectCascade, tables
<1>2. PICK stale : stale = {p \in LiveRelationships : {p[1], p[2]} \cap todo[r].cascade # {}}
  OBVIOUS
<1>3. PICK plan : plan = [todo[r] EXCEPT !.cascade = {}, !.relationships = Tombstones(stale)]
  OBVIOUS
<1>4. todo' = [todo EXCEPT ![r] = plan] /\ todo[r].cascade # {}
  BY <1>2, <1>3 DEF SelectCascade
<1>5. /\ IsFunction(todo') /\ DOMAIN todo' = Processes /\ todo'[r] = plan
      /\ \A q \in Processes \ {r} : todo'[q] = todo[q]
  BY <1>4, PlanReplaced DEF IInv, Transactions
<1>6. /\ IsPlan(plan) /\ plan.touches = todo[r].touches /\ plan.notes = todo[r].notes
      /\ plan.search = todo[r].search /\ plan.inserts = todo[r].inserts
      /\ plan.cascade = {} /\ plan.relationships = Tombstones(stale)
  <2>1. IsPlan(todo[r])
    BY DEF IInv, Transactions
  <2>2. plan = [f \in PlanFields |-> IF f = "cascade" THEN {}
                                     ELSE IF f = "relationships" THEN Tombstones(stale)
                                     ELSE todo[r][f]]
    BY <1>3, <2>1 DEF IsPlan, IsFunction, PlanFields
  <2> QED BY <2>2 DEF IsPlan, IsFunction, PlanFields
<1>7. Transactions'
  BY <1>1, <1>5, <1>6 DEF IInv, Transactions
<1>8. r \in running
  BY <1>4, BusyRuns DEF IInv
<1>9. stale \subseteq LiveRelationships /\ stale \subseteq DOMAIN relationships
  BY <1>2 DEF LiveRelationships
<1>10. /\ DOMAIN RelationshipsOf(r) = {} /\ todo[r].inserts = {}
       /\ DOMAIN written[r].relationships = {}
  <2>1. DOMAIN RelationshipsOf(r) = {} /\ todo[r].inserts = {}
    BY <1>4 DEF IInv, PlansFit, PlanFits
  <2> QED BY <2>1, WholeTyped DEF RelationshipsOf
<1>11. /\ NotesOf(r)' = NotesOf(r) /\ SearchOf(r)' = SearchOf(r)
       /\ DOMAIN RelationshipsOf(r)' = stale
       /\ \A p \in stale : RelationshipsOf(r)'[p] = Changed(relationships[p], TombstoneOf(p))
  <2>1. NotesOf(r)' = NotesOf(r) /\ SearchOf(r)' = SearchOf(r)
    BY <1>1, <1>5, <1>6 DEF NotesOf, SearchOf, Whole
  <2>2. /\ DOMAIN Tombstones(stale) = stale
        /\ \A p \in stale : Tombstones(stale)[p] = Changed(relationships[p], TombstoneOf(p))
    BY DEF Tombstones
  <2>3. RelationshipsOf(r)' =
          [k \in DOMAIN Tombstones(stale) \cup DOMAIN written[r].relationships |->
             IF k \in DOMAIN Tombstones(stale) THEN Tombstones(stale)[k]
             ELSE written[r].relationships[k]]
    BY <1>1, <1>5, <1>6 DEF RelationshipsOf, Whole
  <2> QED BY <1>10, <2>1, <2>2, <2>3
<1>12. \A q \in Processes \ {r} :
         /\ NotesOf(q)' = NotesOf(q) /\ SearchOf(q)' = SearchOf(q)
         /\ RelationshipsOf(q)' = RelationshipsOf(q)
  BY <1>1, <1>5 DEF NotesOf, SearchOf, RelationshipsOf, Whole
<1>13. \A q \in Processes :
         /\ todo'[q].touches = todo[q].touches /\ todo'[q].inserts = todo[q].inserts
         /\ NotesOf(q)' = NotesOf(q) /\ SearchOf(q)' = SearchOf(q)
  BY <1>5, <1>6, <1>11, <1>12
<1>14. \A q \in Processes : \A n : NoteBy(q, n)' = NoteBy(q, n) /\ IndexBy(q, n)' = IndexBy(q, n)
  BY <1>1, <1>13 DEF NoteBy, IndexBy
<1>15. \A p \in stale : /\ IsRelationshipChange(RelationshipsOf(r)'[p])
                        /\ "is_deleted" \in DOMAIN RelationshipsOf(r)'[p]
  BY <1>9, <1>11, TombstoneChange DEF IInv
<1>16. Types'
  <2>1. \A q \in Processes \ running' : todo'[q] = Idle /\ written'[q] = Idle
    BY <1>1, <1>5, <1>8 DEF IInv, Types
  <2> QED BY <1>1, <2>1 DEF IInv, Types
<1>17. PlansFit'
  <2>1. \A q \in Processes \ {r} : PlanFits(q)'
    BY <1>1, <1>5, <1>12 DEF IInv, PlansFit, PlanFits
  <2>2. stale \subseteq Pairs
    BY <1>9 DEF IInv, Types
  <2>3. PlanFits(r)'
    <3>1. PlanFits(r)
      BY DEF IInv, PlansFit
    <3> QED BY <1>1, <1>5, <1>6, <1>9, <1>10, <1>11, <1>15, <2>2, <3>1 DEF PlanFits
  <2> QED BY <2>1, <2>3 DEF PlansFit
<1>18. InsertsAlone'
  <2>1. \A q \in Processes \ {r} : InsertsFit(q)'
    BY <1>1, <1>5, <1>12 DEF IInv, InsertsAlone, InsertsFit, Live
  <2>2. InsertsFit(r)'
    BY <1>10, <1>13 DEF InsertsFit
  <2> QED BY <2>1, <2>2 DEF InsertsAlone
<1>19. OverlapsAreSeen' /\ IndexDropped' /\ PlansAreSound'
  BY <1>1, <1>13, <1>14 DEF IInv, OverlapsAreSeen, IndexDropped, PlansAreSound
<1>20. CascadesReach'
  <2> SUFFICES ASSUME NEW q \in Processes, NEW n \in todo[q].touches \ overlapped,
                      Live(n), NoteBy(q, n).is_deleted
               PROVE  \/ n \in todo'[q].cascade
                      \/ \A p \in LiveRelationships :
                           n \in {p[1], p[2]} =>
                             /\ p \in DOMAIN RelationshipsOf(q)' \ todo[q].inserts
                             /\ "is_deleted" \in DOMAIN RelationshipsOf(q)'[p]
    BY <1>1, <1>13, <1>14 DEF CascadesReach, Live, LiveRelationships
  <2>1. \/ n \in todo[q].cascade
        \/ \A p \in LiveRelationships :
             n \in {p[1], p[2]} => /\ p \in DOMAIN RelationshipsOf(q) \ todo[q].inserts
                                   /\ "is_deleted" \in DOMAIN RelationshipsOf(q)[p]
    BY DEF IInv, CascadesReach
  <2>2. CASE q # r
    BY <1>5, <1>12, <2>1, <2>2
  <2>3. CASE q = r /\ n \in todo[r].cascade
    <3>1. \A p \in LiveRelationships : n \in {p[1], p[2]} => p \in stale
      BY <1>2, <2>3
    <3> QED BY <1>10, <1>11, <1>15, <2>3, <3>1
  <2>4. CASE q = r /\ n \notin todo[r].cascade
    BY <1>10, <2>1, <2>4
  <2> QED BY <2>2, <2>3, <2>4
<1>21. SearchFollowsUnlessOverlapped' /\ RelationshipsFollowUnlessOverlapped'
       /\ LiveNotesHaveSearchRow'
  BY <1>1 DEF IInv, SearchFollowsUnlessOverlapped, RelationshipsFollowUnlessOverlapped,
              LiveNotesHaveSearchRow, Live, LiveRelationships
<1>22. OrderIsKept'
  <2>1. \A q \in Processes \ {r} : KeepsOrder(q)'
    BY <1>1, <1>5, <1>12 DEF IInv, OrderIsKept, KeepsOrder
  <2>2. KeepsOrder(r)
    BY DEF IInv, OrderIsKept
  <2>3. todo[r].search = Nothing /\ DOMAIN todo[r].search = {}
    BY NothingIsEmpty DEF SelectCascade
  <2>4. DOMAIN todo[r].notes = {}
    <3>1. DOMAIN SearchOf(r) = DOMAIN todo[r].search \cup DOMAIN written[r].search
      BY WholeTyped DEF SearchOf
    <3> QED BY <1>4, <2>2, <2>3, <3>1 DEF KeepsOrder
  <2>5. \A part \in Parts : /\ IsFunction(plan[part])
                            /\ DOMAIN plan[part] \cap DOMAIN written[r][part] = {}
    <3>1. IsFunction(Tombstones(stale))
      BY DEF Tombstones, IsFunction
    <3> QED BY <1>6, <1>10, <2>2, <3>1 DEF KeepsOrder, Parts
  <2>6. KeepsOrder(r)'
    BY <1>1, <1>5, <1>6, <1>10, <1>11, <2>2, <2>3, <2>4, <2>5 DEF KeepsOrder
  <2> QED BY <2>1, <2>6 DEF OrderIsKept
<1>23. IsFiniteSet(running)'
  BY <1>1 DEF IInv
<1> QED BY <1>7, <1>16, <1>17, <1>18, <1>19, <1>20, <1>21, <1>22, <1>23 DEF IInv

-------------------------------------------------------------------------------
(* Requests: a request begins with a good plan, and a good plan is kept to. *)
NoteMade(plan, n) ==
  IF n \in DOMAIN plan.notes THEN Overwrite(notes[n], plan.notes[n]) ELSE notes[n]
IndexMade(plan, n) == IF n \in DOMAIN plan.search THEN plan.search[n] ELSE search[n]

PlanIsPlain(plan) ==
  /\ IsPlan(plan)
  /\ IsFunction(plan.notes) /\ IsFunction(plan.search) /\ IsFunction(plan.relationships)
  /\ plan.touches \subseteq NoteIds
  /\ DOMAIN plan.notes \cup DOMAIN plan.search \cup plan.cascade \subseteq plan.touches
  /\ \A n \in DOMAIN plan.notes : IsNoteChange(plan.notes[n])
  /\ \A n \in DOMAIN plan.search : plan.search[n] \in Indexed
  /\ plan.inserts \subseteq DOMAIN plan.relationships
  /\ DOMAIN plan.relationships \subseteq Pairs
  /\ \A p \in DOMAIN plan.relationships \ plan.inserts :
       p \in DOMAIN relationships /\ IsRelationshipChange(plan.relationships[p])
  /\ plan.cascade # {} => DOMAIN plan.relationships = {} /\ DOMAIN plan.search # {}
  /\ DOMAIN plan.relationships # {} => DOMAIN plan.notes = {} /\ DOMAIN plan.search = {}
  /\ \A m \in DOMAIN plan.notes, n \in DOMAIN plan.notes : m = n
  /\ \A m \in DOMAIN plan.search, n \in DOMAIN plan.search : m = n

PlanInserts(plan) ==
  \A p \in plan.inserts :
    /\ plan.relationships[p] \in RelationshipRow
    /\ p[1] \in plan.touches /\ p[2] \in plan.touches
    /\ DOMAIN plan.notes = {}
    /\ Live(p[1]) /\ Live(p[2])

PlanFollows(plan) ==
  \A n \in plan.touches :
    /\ n \in DOMAIN plan.search /\ plan.search[n] = {} => NoteMade(plan, n).is_deleted
    /\ Follow(notes[n], search[n]) => Follow(NoteMade(plan, n), IndexMade(plan, n))
    /\ Live(n) /\ NoteMade(plan, n).is_deleted => n \in plan.cascade

\* A transaction that begins with a sound plan keeps the invariant.
LEMMA BeginKeeps ==
  ASSUME IInv, NEW r \in Processes, NEW plan, Begin(r, plan),
         PlanIsPlain(plan), PlanInserts(plan), PlanFollows(plan)
  PROVE  IInv'
<1>1. /\ UNCHANGED <<notes, search, relationships, written, served>>
      /\ running' = running \cup {r} /\ r \notin running
      /\ todo' = [todo EXCEPT ![r] = plan]
  BY DEF Begin
<1>2. /\ overlapped \subseteq overlapped'
      /\ \A q \in running : plan.touches \cap todo[q].touches \subseteq overlapped'
      /\ overlapped' \subseteq overlapped \cup plan.touches
  BY DEF Begin
<1>3. /\ IsFunction(todo') /\ DOMAIN todo' = Processes /\ todo'[r] = plan
      /\ \A q \in Processes \ {r} : todo'[q] = todo[q]
  BY <1>1, PlanReplaced DEF IInv, Transactions
<1>4. Transactions'
  BY <1>1, <1>3 DEF IInv, Transactions, PlanIsPlain
<1>5. todo[r] = Idle /\ written[r] = Idle
  BY <1>1 DEF IInv, Types
<1>6. /\ NotesOf(r)' = plan.notes /\ SearchOf(r)' = plan.search
      /\ RelationshipsOf(r)' = plan.relationships
  <2>1. /\ DOMAIN written'[r].notes = {} /\ DOMAIN written'[r].search = {}
        /\ DOMAIN written'[r].relationships = {}
    BY <1>1, <1>5, IdlePlan
  <2>2. NotesOf(r)' = [k \in DOMAIN plan.notes |-> plan.notes[k]]
    BY <1>3, <2>1 DEF NotesOf, Whole
  <2>3. SearchOf(r)' = [k \in DOMAIN plan.search |-> plan.search[k]]
    BY <1>3, <2>1 DEF SearchOf, Whole
  <2>4. RelationshipsOf(r)' = [k \in DOMAIN plan.relationships |-> plan.relationships[k]]
    BY <1>3, <2>1 DEF RelationshipsOf, Whole
  <2> QED BY <2>2, <2>3, <2>4 DEF PlanIsPlain, IsFunction
<1>7. \A q \in Processes \ {r} :
         /\ NotesOf(q)' = NotesOf(q) /\ SearchOf(q)' = SearchOf(q)
         /\ RelationshipsOf(q)' = RelationshipsOf(q)
  BY <1>1, <1>3 DEF NotesOf, SearchOf, RelationshipsOf, Whole
<1>8. \A q \in Processes \ {r} : \A n :
        NoteBy(q, n)' = NoteBy(q, n) /\ IndexBy(q, n)' = IndexBy(q, n)
  BY <1>1, <1>7 DEF NoteBy, IndexBy
<1>9. \A n : NoteBy(r, n)' = NoteMade(plan, n) /\ IndexBy(r, n)' = IndexMade(plan, n)
  BY <1>1, <1>6 DEF NoteBy, IndexBy, NoteMade, IndexMade
<1>10. Types'
  <2>1. overlapped' \subseteq NoteIds
    BY <1>2 DEF IInv, Types, PlanIsPlain
  <2>2. \A q \in Processes \ running' : todo'[q] = Idle /\ written'[q] = Idle
    BY <1>1, <1>3 DEF IInv, Types
  <2> QED BY <1>1, <2>1, <2>2 DEF IInv, Types
<1>11. PlansFit'
  <2>1. \A q \in Processes \ {r} : PlanFits(q)'
    BY <1>1, <1>3, <1>7 DEF IInv, PlansFit, PlanFits
  <2>2. PlanFits(r)'
    BY <1>1, <1>3, <1>6 DEF PlanFits, PlanIsPlain
  <2> QED BY <2>1, <2>2 DEF PlansFit
<1>12. InsertsAlone'
  <2>1. \A q \in Processes \ {r} : InsertsFit(q)'
    BY <1>1, <1>2, <1>3, <1>7 DEF IInv, InsertsAlone, InsertsFit, Live
  <2>2. DOMAIN written'[r].relationships = {}
    BY <1>1, <1>5, IdlePlan
  <2>3. InsertsFit(r)'
    BY <1>1, <1>3, <1>6, <2>2 DEF InsertsFit, PlanInserts, Live
  <2> QED BY <2>1, <2>3 DEF InsertsAlone
<1>13. OverlapsAreSeen'
  <2>1. \A q \in Processes \ {r} : plan.touches \cap todo[q].touches \subseteq overlapped'
    <3> SUFFICES ASSUME NEW q \in Processes \ {r}
                 PROVE  plan.touches \cap todo[q].touches \subseteq overlapped'
      OBVIOUS
    <3>1. CASE q \in running
      BY <1>2, <3>1
    <3>2. CASE q \notin running
      <4>1. todo[q].touches = {}
        BY <3>2, IdlePlan DEF IInv, Types
      <4> QED BY <4>1
    <3> QED BY <3>1, <3>2
  <2>2. \A p \in Processes \ {r}, q \in Processes \ {r} :
          p # q => todo'[p].touches \cap todo'[q].touches \subseteq overlapped'
    BY <1>2, <1>3 DEF IInv, OverlapsAreSeen
  <2> QED BY <1>3, <2>1, <2>2 DEF OverlapsAreSeen
<1>14. IndexDropped'
  <2>1. \A q \in Processes \ {r} : \A n \in DOMAIN SearchOf(q) :
          SearchOf(q)[n] = {} => NoteBy(q, n).is_deleted
    BY DEF IInv, IndexDropped
  <2>2. \A n \in DOMAIN plan.search : plan.search[n] = {} => NoteMade(plan, n).is_deleted
    BY DEF PlanFollows, PlanIsPlain
  <2> QED BY <1>6, <1>7, <1>8, <1>9, <2>1, <2>2 DEF IndexDropped
<1>15. PlansAreSound'
  <2>1. \A q \in Processes \ {r} : \A n \in todo[q].touches \ overlapped' :
          Follow(NoteBy(q, n), IndexBy(q, n))
    BY <1>2 DEF IInv, PlansAreSound
  <2>2. \A n \in plan.touches \ overlapped' : Follow(NoteMade(plan, n), IndexMade(plan, n))
    <3> SUFFICES ASSUME NEW n \in plan.touches \ overlapped'
                 PROVE  Follow(NoteMade(plan, n), IndexMade(plan, n))
      OBVIOUS
    <3>1. n \in NoteIds \ overlapped
      BY <1>2 DEF PlanIsPlain
    <3>2. Follow(notes[n], search[n])
      BY <3>1 DEF IInv, SearchFollowsUnlessOverlapped, Follow, Live
    <3> QED BY <3>2 DEF PlanFollows
  <2>3. \A q \in Processes \ {r} : \A n : NoteBy(q, n)' = NoteBy(q, n) /\ IndexBy(q, n)' = IndexBy(q, n)
    BY <1>8
  <2> SUFFICES ASSUME NEW q \in Processes, NEW n \in todo'[q].touches \ overlapped'
               PROVE  Follow(NoteBy(q, n)', IndexBy(q, n)')
    BY DEF PlansAreSound, Follow, Body
  <2>4. CASE q = r
    BY <1>3, <1>9, <2>2, <2>4
  <2>5. CASE q # r
    BY <1>3, <1>8, <2>1, <2>5
  <2> QED BY <2>4, <2>5
<1>16. CascadesReach'
  <2>1. LiveRelationships' = LiveRelationships /\ \A n : Live(n)' = Live(n)
    BY <1>1 DEF LiveRelationships, Live
  <2>2. \A n \in plan.touches : Live(n) /\ NoteMade(plan, n).is_deleted => n \in plan.cascade
    BY DEF PlanFollows
  <2>3. \A q \in Processes \ {r} : \A n \in todo[q].touches \ overlapped' :
          Live(n) /\ NoteBy(q, n).is_deleted =>
            \/ n \in todo[q].cascade
            \/ \A p \in LiveRelationships :
                 n \in {p[1], p[2]} => /\ p \in DOMAIN RelationshipsOf(q) \ todo[q].inserts
                                       /\ "is_deleted" \in DOMAIN RelationshipsOf(q)[p]
    BY <1>2 DEF IInv, CascadesReach
  <2> QED BY <1>3, <1>7, <1>8, <1>9, <2>1, <2>2, <2>3 DEF CascadesReach
<1>17. SearchFollowsUnlessOverlapped' /\ LiveNotesHaveSearchRow'
  BY <1>1, <1>2 DEF IInv, SearchFollowsUnlessOverlapped, LiveNotesHaveSearchRow, Live
<1>18. RelationshipsFollowUnlessOverlapped'
  BY <1>1, <1>2 DEF IInv, RelationshipsFollowUnlessOverlapped, Live, LiveRelationships
<1>19. OrderIsKept'
  <2>1. \A q \in Processes \ {r} : KeepsOrder(q)'
    BY <1>1, <1>3, <1>7 DEF IInv, OrderIsKept, KeepsOrder
  <2>2. /\ DOMAIN written'[r].notes = {} /\ DOMAIN written'[r].search = {}
        /\ DOMAIN written'[r].relationships = {}
    BY <1>1, <1>5, IdlePlan
  <2>3. \A part \in Parts : /\ IsFunction(plan[part])
                            /\ DOMAIN plan[part] \cap DOMAIN written'[r][part] = {}
    BY <2>2 DEF PlanIsPlain, Parts
  <2>4. KeepsOrder(r)'
    BY <1>3, <1>6, <2>2, <2>3 DEF KeepsOrder, PlanIsPlain
  <2> QED BY <2>1, <2>4 DEF OrderIsKept
<1>20. IsFiniteSet(running)'
  BY <1>1, FS_AddElement DEF IInv
<1> QED BY <1>4, <1>10, <1>11, <1>12, <1>13, <1>14, <1>15, <1>16, <1>17, <1>18, <1>19, <1>20
        DEF IInv

-------------------------------------------------------------------------------
(* The plans that requests begin with. *)
\* A table of one row holds that row.
LEMMA OnlyHas ==
  ASSUME NEW key, NEW value
  PROVE  /\ IsFunction(Only(key, value)) /\ DOMAIN Only(key, value) = {key}
         /\ Only(key, value)[key] = value
BY DEF Only, IsFunction

\* The UPDATE of a note makes it the row that was meant.
LEMMA UpdateNote ==
  ASSUME Types, NEW n \in NoteIds, NEW row \in NoteRow,
         row.is_deleted = notes[n].is_deleted \/ row.is_deleted = TRUE,
         NEW update, update = Update(notes, n, row)
  PROVE  /\ IsFunction(update) /\ DOMAIN update \subseteq {n}
         /\ \A m \in DOMAIN update : IsNoteChange(update[m])
         /\ row = IF n \in DOMAIN update THEN Overwrite(notes[n], update[n]) ELSE notes[n]
<1>1. PICK change : change = Changed(notes[n], row)
  OBVIOUS
<1>2. notes[n] \in NoteRow
  BY DEF Types
<1>3. /\ IsNoteChange(change) /\ Overwrite(notes[n], change) = row
      /\ DOMAIN change = {} => row = notes[n]
  BY <1>1, <1>2, ChangedNote
<1>4. CASE DOMAIN change = {}
  <2>1. update = Nothing
    BY <1>1, <1>4 DEF Update
  <2> QED BY <1>3, <1>4, <2>1, NothingIsEmpty
<1>5. CASE DOMAIN change # {}
  <2>1. update = Only(n, change)
    BY <1>1, <1>5 DEF Update
  <2>2. IsFunction(update) /\ DOMAIN update = {n} /\ update[n] = change
    BY <2>1 DEF Only, IsFunction
  <2> QED BY <1>3, <2>2
<1> QED BY <1>4, <1>5

\* The plan that updates one relationship is a plan, and of that row alone.
LEMMA UpdateRelationship ==
  ASSUME Types, NEW p \in DOMAIN relationships, NEW row \in RelationshipRow,
         row.is_deleted = relationships[p].is_deleted \/ row.is_deleted = TRUE,
         NEW update, update = Update(relationships, p, row)
  PROVE  /\ IsFunction(update) /\ DOMAIN update \subseteq {p}
         /\ \A q \in DOMAIN update : IsRelationshipChange(update[q])
<1>1. PICK change : change = Changed(relationships[p], row)
  OBVIOUS
<1>2. IsRelationshipChange(change)
  <2>1. relationships[p] \in RelationshipRow
    BY DEF Types
  <2> QED BY <1>1, <2>1, ChangedRelationship
<1>3. CASE DOMAIN change = {}
  <2>1. update = Nothing
    BY <1>1, <1>3 DEF Update
  <2> QED BY <2>1, NothingIsEmpty
<1>4. CASE DOMAIN change # {}
  <2>1. update = Only(p, change)
    BY <1>1, <1>4 DEF Update
  <2>2. IsFunction(update) /\ DOMAIN update = {p} /\ update[p] = change
    BY <2>1 DEF Only, IsFunction
  <2> QED BY <1>2, <2>2
<1> QED BY <1>3, <1>4

\* A plan, field by field.
LEMMA PlanOf ==
  ASSUME NEW plan, NEW touches, NEW ns, NEW ss, NEW cascade, NEW rs, NEW inserts,
         plan = [touches |-> touches, notes |-> ns, search |-> ss, cascade |-> cascade,
                 relationships |-> rs, inserts |-> inserts]
  PROVE  /\ IsPlan(plan) /\ plan.touches = touches /\ plan.notes = ns /\ plan.search = ss
         /\ plan.cascade = cascade /\ plan.relationships = rs /\ plan.inserts = inserts
BY DEF IsPlan, IsFunction, PlanFields

\* The edit of a note: the search row is written if the note's body changes.
LEMMA WritingKeeps ==
  ASSUME IInv, NEW r \in Processes, NEW n \in NoteIds, NEW row \in NoteRow,
         row.is_deleted = notes[n].is_deleted,
         row.hash = Hash(row.title, row.content),
         Begin(r, WritingNote(n, row))
  PROVE  IInv'
<1>1. PICK plan : plan = WritingNote(n, row)
  OBVIOUS
<1>2. PICK update, change : update = Update(notes, n, row) /\ change = IndexChange(n, row)
  OBVIOUS
<1>3. plan = [touches |-> {n}, notes |-> update, search |-> change, cascade |-> {},
              relationships |-> Nothing, inserts |-> {}]
  BY <1>1, <1>2 DEF WritingNote, Idle
<1>4. /\ IsPlan(plan) /\ plan.touches = {n} /\ plan.notes = update /\ plan.search = change
      /\ plan.cascade = {} /\ plan.relationships = Nothing /\ plan.inserts = {}
  BY <1>3, PlanOf
<1>5. /\ IsFunction(update) /\ DOMAIN update \subseteq {n}
      /\ \A m \in DOMAIN update : IsNoteChange(update[m])
      /\ row = IF n \in DOMAIN update THEN Overwrite(notes[n], update[n]) ELSE notes[n]
  BY <1>2, UpdateNote DEF IInv
<1>6. /\ IsFunction(change) /\ DOMAIN change \subseteq {n}
      /\ Body(row) # Body(notes[n]) => DOMAIN change = {n} /\ change[n] = {Body(row)}
      /\ Body(row) = Body(notes[n]) => DOMAIN change = {}
  BY <1>2, NothingIsEmpty, OnlyHas DEF IndexChange
<1>7. Body(row) \in Titles \X Contents
  BY DEF Body, NoteRow
<1>8. \A m \in DOMAIN change : change[m] = {Body(row)} /\ change[m] \in Indexed
  BY <1>6, <1>7 DEF Indexed
<1>9. PlanIsPlain(plan)
  BY <1>4, <1>5, <1>6, <1>8, NothingIsEmpty DEF PlanIsPlain
<1>10. PlanInserts(plan)
  BY <1>4 DEF PlanInserts
<1>11. PlanFollows(plan)
  <2>1. NoteMade(plan, n) = row
    BY <1>4, <1>5 DEF NoteMade
  <2>2. ~(n \in DOMAIN plan.search /\ plan.search[n] = {})
    BY <1>4, <1>8
  <2>3. Follow(notes[n], search[n]) => Follow(row, IndexMade(plan, n))
    <3>1. CASE Body(row) = Body(notes[n])
      BY <1>4, <1>6, <3>1 DEF IndexMade, Follow
    <3>2. CASE Body(row) # Body(notes[n])
      BY <1>4, <1>6, <3>2 DEF IndexMade, Follow
    <3> QED BY <3>1, <3>2
  <2>4. ~(Live(n) /\ row.is_deleted)
    BY DEF Live
  <2> QED BY <1>4, <2>1, <2>2, <2>3, <2>4 DEF PlanFollows
<1> QED BY <1>1, <1>9, <1>10, <1>11, BeginKeeps

\* Planning the deletion of a note keeps the invariant.
LEMMA DeletingKeeps ==
  ASSUME IInv, NEW r \in Processes, NEW n \in NoteIds, NEW version \in Nat \ {0},
         Begin(r, DeletingNote(n, version))
  PROVE  IInv'
<1>1. PICK plan : plan = DeletingNote(n, version)
  OBVIOUS
<1>2. PICK row : row = Deleted(notes[n], version)
  OBVIOUS
<1>3. PICK update, change : update = Update(notes, n, row) /\ change = Only(n, {})
  OBVIOUS
<1>4. row \in NoteRow /\ row.is_deleted = TRUE
  <2>1. PICK old \in NoteRow : old = notes[n]
    BY DEF IInv, Types
  <2>2. row = [old EXCEPT !.is_deleted = TRUE, !.version = version]
    BY <1>2, <2>1 DEF Deleted
  <2> QED BY <2>1, <2>2 DEF NoteRow
<1>5. plan = [touches |-> {n}, notes |-> update, search |-> change, cascade |-> {n},
              relationships |-> Nothing, inserts |-> {}]
  BY <1>1, <1>2, <1>3 DEF DeletingNote, Idle
<1>6. /\ IsPlan(plan) /\ plan.touches = {n} /\ plan.notes = update /\ plan.search = change
      /\ plan.cascade = {n} /\ plan.relationships = Nothing /\ plan.inserts = {}
  BY <1>5, PlanOf
<1>7. /\ IsFunction(update) /\ DOMAIN update \subseteq {n}
      /\ \A m \in DOMAIN update : IsNoteChange(update[m])
      /\ row = IF n \in DOMAIN update THEN Overwrite(notes[n], update[n]) ELSE notes[n]
  BY <1>3, <1>4, UpdateNote DEF IInv
<1>8. IsFunction(change) /\ DOMAIN change = {n} /\ change[n] = {} /\ {} \in Indexed
  BY <1>3, OnlyHas DEF Indexed
<1>9. PlanIsPlain(plan)
  BY <1>6, <1>7, <1>8, NothingIsEmpty DEF PlanIsPlain
<1>10. PlanInserts(plan)
  BY <1>6 DEF PlanInserts
<1>11. PlanFollows(plan)
  <2>1. NoteMade(plan, n) = row
    BY <1>6, <1>7 DEF NoteMade
  <2> QED BY <1>4, <1>6, <2>1 DEF PlanFollows, Follow
<1> QED BY <1>1, <1>9, <1>10, <1>11, BeginKeeps

\* Whatever is written of relationships alone: the notes stay as they are.
LEMMA RelatingKeeps ==
  ASSUME IInv, NEW r \in Processes, NEW touches \in SUBSET NoteIds, NEW changes,
         NEW inserts \in SUBSET DOMAIN changes,
         IsFunction(changes), DOMAIN changes \subseteq Pairs,
         \A p \in DOMAIN changes \ inserts :
           p \in DOMAIN relationships /\ IsRelationshipChange(changes[p]),
         \A p \in inserts : /\ changes[p] \in RelationshipRow
                            /\ p[1] \in touches /\ p[2] \in touches
                            /\ Live(p[1]) /\ Live(p[2]),
         NEW plan,
         plan = [touches |-> touches, notes |-> Nothing, search |-> Nothing, cascade |-> {},
                 relationships |-> changes, inserts |-> inserts],
         Begin(r, plan)
  PROVE  IInv'
<1>3. /\ IsPlan(plan) /\ plan.touches = touches /\ plan.notes = Nothing
      /\ plan.search = Nothing /\ plan.cascade = {} /\ plan.relationships = changes
      /\ plan.inserts = inserts
  BY PlanOf
<1>4. PlanIsPlain(plan)
  BY <1>3, NothingIsEmpty DEF PlanIsPlain
<1>5. PlanInserts(plan)
  BY <1>3, NothingIsEmpty DEF PlanInserts
<1>6. PlanFollows(plan)
  BY <1>3, NothingIsEmpty DEF PlanFollows, NoteMade, IndexMade, Follow, Live
<1> QED BY <1>4, <1>5, <1>6, BeginKeeps

\* Planning a new relationship keeps the invariant.
LEMMA InsertingKeeps ==
  ASSUME IInv, NEW r \in Processes, NEW p \in Pairs, NEW row \in RelationshipRow,
         Live(p[1]), Live(p[2]), Begin(r, InsertingRelationship(p, row))
  PROVE  IInv'
<1>1. p[1] \in NoteIds /\ p[2] \in NoteIds
  BY NoteIdsAssumption
<1>2. PICK plan : plan = InsertingRelationship(p, row)
  OBVIOUS
<1>3. PICK changes : changes = Only(p, row)
  OBVIOUS
<1>4. IsFunction(changes) /\ DOMAIN changes = {p} /\ changes[p] = row
  BY <1>3 DEF Only, IsFunction
<1>5. PICK touches \in SUBSET NoteIds : touches = {p[1], p[2]}
  BY <1>1
<1>6. PICK inserts \in SUBSET DOMAIN changes : inserts = {p}
  BY <1>4
<1>7. plan = [touches |-> touches, notes |-> Nothing, search |-> Nothing, cascade |-> {},
              relationships |-> changes, inserts |-> inserts]
  BY <1>2, <1>3, <1>5, <1>6 DEF InsertingRelationship, Idle
<1>8. DOMAIN changes \subseteq Pairs /\ DOMAIN changes \ inserts = {}
  BY <1>4, <1>6
<1>9. \A q \in inserts : /\ changes[q] \in RelationshipRow
                         /\ q[1] \in touches /\ q[2] \in touches
                         /\ Live(q[1]) /\ Live(q[2])
  BY <1>4, <1>5, <1>6
<1> QED BY <1>2, <1>4, <1>7, <1>8, <1>9, RelatingKeeps

\* Planning a change of a relationship keeps the invariant.
LEMMA UpdatingKeeps ==
  ASSUME IInv, NEW r \in Processes, NEW p \in DOMAIN relationships, NEW row \in RelationshipRow,
         row.is_deleted = relationships[p].is_deleted \/ row.is_deleted = TRUE,
         Begin(r, UpdatingRelationship(p, row))
  PROVE  IInv'
<1>1. PICK update : update = Update(relationships, p, row)
  OBVIOUS
<1>2. p \in Pairs /\ p[1] \in NoteIds /\ p[2] \in NoteIds
  BY NoteIdsAssumption DEF IInv, Types
<1>3. PICK plan : plan = UpdatingRelationship(p, row)
  OBVIOUS
<1>4. /\ IsFunction(update) /\ DOMAIN update \subseteq {p}
      /\ \A q \in DOMAIN update : IsRelationshipChange(update[q])
  BY <1>1, UpdateRelationship DEF IInv
<1>5. PICK touches \in SUBSET NoteIds : touches = {p[1], p[2]}
  BY <1>2
<1>6. plan = [touches |-> touches, notes |-> Nothing, search |-> Nothing, cascade |-> {},
              relationships |-> update, inserts |-> {}]
  BY <1>1, <1>3, <1>5 DEF UpdatingRelationship, Idle
<1>7. DOMAIN update \subseteq Pairs /\ {} \in SUBSET DOMAIN update
  BY <1>2, <1>4
<1>8. \A q \in DOMAIN update \ {} :
        q \in DOMAIN relationships /\ IsRelationshipChange(update[q])
  BY <1>4
<1> QED BY <1>3, <1>4, <1>6, <1>7, <1>8, RelatingKeeps

\* What an edit makes of a loaded note is a row of the table.
LEMMA EditedRow ==
  ASSUME Types, NEW n \in NoteIds, NEW title \in Titles, NEW content \in Contents,
         NEW version \in Nat \ {0},
         NEW row, row = Edited(notes[n], title, content, version)
  PROVE  /\ row \in NoteRow /\ row.is_deleted = notes[n].is_deleted
         /\ row.hash = Hash(row.title, row.content)
<1>1. PICK old \in NoteRow : old = notes[n]
  BY DEF Types
<1>2. row = [old EXCEPT !.title = title, !.content = content,
                        !.hash = Hash(title, content), !.version = version]
  BY <1>1 DEF Edited
<1>3. Hash(title, content) \in Titles \X Contents
  BY DEF Hash
<1> QED BY <1>1, <1>2, <1>3 DEF NoteRow

\* A request that arrives and reads its rows keeps the invariant.
LEMMA AskKeeps ==
  ASSUME IInv, NEW r \in Processes, Ask(r)
  PROVE  IInv'
<1>1. \A n \in NoteIds : notes[n].version + 1 \in Nat \ {0}
  <2> SUFFICES ASSUME NEW n \in NoteIds PROVE notes[n].version + 1 \in Nat \ {0}
    OBVIOUS
  <2>1. notes[n].version \in Nat
    BY DEF IInv, Types, NoteRow
  <2> QED BY <2>1
<1>2. \A v \in Versions : v \in Nat \ {0} /\ v + 1 \in Nat \ {0}
  BY VersionsAssumption
<1>3. ASSUME NEW n \in NoteIds, NEW t \in Titles, NEW c \in Contents, EditNote(r, n, t, c)
      PROVE  IInv'
  <2>1. PICK row : row = Edited(notes[n], t, c, notes[n].version + 1)
    OBVIOUS
  <2>2. /\ row \in NoteRow /\ row.is_deleted = notes[n].is_deleted
        /\ row.hash = Hash(row.title, row.content)
    BY <1>1, <2>1, EditedRow DEF IInv
  <2> QED BY <1>3, <2>1, <2>2, WritingKeeps DEF EditNote
<1>4. ASSUME NEW n \in NoteIds, DeleteNote(r, n)
      PROVE  IInv'
  BY <1>1, <1>4, DeletingKeeps DEF DeleteNote
<1>5. ASSUME NEW n \in NoteIds, NEW t \in Titles, NEW c \in Contents, NEW v \in Versions,
             PushNote(r, n, t, c, v)
      PROVE  IInv'
  <2>1. PICK w \in {v, v + 1} : Begin(r, WritingNote(n, Edited(notes[n], t, c, w)))
    BY <1>5 DEF PushNote
  <2>2. PICK row : row = Edited(notes[n], t, c, w)
    OBVIOUS
  <2>3. w \in Nat \ {0}
    BY <1>2
  <2>4. /\ row \in NoteRow /\ row.is_deleted = notes[n].is_deleted
        /\ row.hash = Hash(row.title, row.content)
    BY <2>2, <2>3, EditedRow DEF IInv
  <2> QED BY <2>1, <2>2, <2>4, WritingKeeps
<1>6. ASSUME NEW n \in NoteIds, NEW v \in Versions, PushDeletedNote(r, n, v)
      PROVE  IInv'
  BY <1>2, <1>6, DeletingKeeps DEF PushDeletedNote
<1>7. \A v \in Nat \ {0}, d \in BOOLEAN : NewRelationship(v, d) \in RelationshipRow
  BY DEF NewRelationship, RelationshipRow
<1>8. ASSUME NEW p \in Pairs, CreateRelationship(r, p)
      PROVE  IInv'
  <2>1. NewRelationship(1, FALSE) \in RelationshipRow
    BY DEF NewRelationship, RelationshipRow
  <2> QED BY <1>8, <2>1, InsertingKeeps DEF CreateRelationship
<1>9. ASSUME NEW p \in Pairs, DeleteRelationship(r, p)
      PROVE  IInv'
  <2>1. p \in DOMAIN relationships
    BY <1>9 DEF DeleteRelationship
  <2>2. TombstoneOf(p) \in RelationshipRow /\ TombstoneOf(p).is_deleted = TRUE
    BY <2>1, TombstoneChange DEF IInv
  <2> QED BY <1>9, <2>1, <2>2, UpdatingKeeps DEF DeleteRelationship
<1>10. ASSUME NEW p \in Pairs, NEW v \in Versions, NEW d \in BOOLEAN,
              PushRelationship(r, p, v, d)
       PROVE  IInv'
  <2>1. CASE p \notin DOMAIN relationships
    BY <1>2, <1>7, <1>10, <2>1, InsertingKeeps DEF PushRelationship
  <2>2. CASE p \in DOMAIN relationships
    <3>1. PICK old \in RelationshipRow : old = relationships[p]
      BY <2>2 DEF IInv, Types
    <3>2. PICK row : row = [old EXCEPT !.version = v, !.is_deleted = @ \/ d]
      OBVIOUS
    <3>3. /\ row \in RelationshipRow
          /\ row.is_deleted = relationships[p].is_deleted \/ row.is_deleted = TRUE
      BY <1>2, <3>1, <3>2 DEF RelationshipRow
    <3>4. Begin(r, UpdatingRelationship(p, row))
      BY <1>10, <2>2, <3>1, <3>2 DEF PushRelationship
    <3> QED BY <2>2, <3>3, <3>4, UpdatingKeeps
  <2> QED BY <2>1, <2>2
<1> QED BY <1>3, <1>4, <1>5, <1>6, <1>8, <1>9, <1>10 DEF Ask

\* The start of the repair script keeps the invariant.
LEMMA BeginRepairKeeps ==
  ASSUME IInv, BeginRepair
  PROVE  IInv'
<1>1. PICK changes : changes = Tombstones(Dangling)
  OBVIOUS
<1>2. PICK plan :
        /\ plan = [Idle EXCEPT !.touches = NoteIds, !.relationships = changes]
        /\ Begin(Script, plan)
  BY <1>1 DEF BeginRepair
<1>3. IsFunction(changes) /\ DOMAIN changes = Dangling
  BY <1>1 DEF Tombstones, IsFunction
<1>4. Dangling \subseteq LiveRelationships /\ Dangling \subseteq DOMAIN relationships
  BY DEF Dangling, LiveRelationships
<1>5. \A p \in Dangling : IsRelationshipChange(changes[p])
  BY <1>1, <1>4, TombstoneChange DEF IInv, Tombstones
<1>6. DOMAIN changes \subseteq Pairs
  BY <1>3, <1>4 DEF IInv, Types
<1>7. Script \in Processes
  BY DEF Processes
<1>8. plan = [touches |-> NoteIds, notes |-> Nothing, search |-> Nothing, cascade |-> {},
              relationships |-> changes, inserts |-> {}]
  BY <1>2 DEF Idle
<1>9. {} \in SUBSET DOMAIN changes
  OBVIOUS
<1> QED BY <1>2, <1>3, <1>4, <1>5, <1>6, <1>7, <1>8, <1>9, RelatingKeeps

-------------------------------------------------------------------------------
(* The end of a transaction. *)
\* Whatever one transaction commits, the others' plans still fit: of the notes that are
\* theirs alone it has written none.
LEMMA EndKeeps ==
  ASSUME IInv, NEW r \in Processes, End(r),
         notes' \in [NoteIds -> NoteRow],
         \A n \in NoteIds : \E t \in Titles, c \in Contents : search'[n] \in {{}, {<<t, c>>}},
         relationships' \in [DOMAIN relationships' -> RelationshipRow],
         \A n \in NoteIds : notes[n].is_deleted => notes'[n].is_deleted,
         \A n \in NoteIds \ todo[r].touches : notes'[n] = notes[n] /\ search'[n] = search[n],
         DOMAIN relationships \subseteq DOMAIN relationships',
         \A p \in DOMAIN relationships' \ DOMAIN relationships :
           p \in todo[r].inserts /\ p \in DOMAIN written[r].relationships,
         \A p \in DOMAIN relationships :
           relationships[p].is_deleted => relationships'[p].is_deleted,
         SearchFollowsUnlessOverlapped', RelationshipsFollowUnlessOverlapped',
         LiveNotesHaveSearchRow'
  PROVE  IInv'
<1>1. /\ Transactions'
      /\ todo'[r] = Idle /\ written'[r] = Idle
      /\ \A q \in Processes \ {r} :
           /\ todo'[q] = todo[q] /\ written'[q] = written[q]
           /\ NotesOf(q)' = NotesOf(q) /\ SearchOf(q)' = SearchOf(q)
           /\ RelationshipsOf(q)' = RelationshipsOf(q)
      /\ DOMAIN NotesOf(r)' = {} /\ DOMAIN SearchOf(r)' = {}
      /\ DOMAIN RelationshipsOf(r)' = {}
  BY EndedIsIdle DEF IInv
<1>2. /\ running' = running \ {r} /\ served' = served \cup ({r} \cap Requests)
      /\ overlapped' = overlapped
  BY DEF End
<1>3. /\ todo'[r].touches = {} /\ todo'[r].cascade = {} /\ todo'[r].inserts = {}
      /\ DOMAIN written'[r].notes = {} /\ DOMAIN written'[r].search = {}
      /\ DOMAIN written'[r].relationships = {}
  BY <1>1, IdlePlan
<1>4. \A q \in Processes \ {r} :
        /\ todo[q].touches \subseteq NoteIds
        /\ todo[q].touches \cap todo[r].touches \subseteq overlapped
        /\ DOMAIN NotesOf(q) \cup DOMAIN SearchOf(q) \subseteq todo[q].touches
  BY DEF IInv, PlansFit, PlanFits, OverlapsAreSeen
<1>5. \A q \in Processes \ {r} : \A n \in todo[q].touches \ overlapped :
        notes'[n] = notes[n] /\ search'[n] = search[n]
  BY <1>4
<1>6. \A q \in Processes \ {r} : \A n \in todo[q].touches \ overlapped :
        NoteBy(q, n)' = NoteBy(q, n) /\ IndexBy(q, n)' = IndexBy(q, n)
  <2> SUFFICES ASSUME NEW q \in Processes \ {r}, NEW n \in todo[q].touches \ overlapped
               PROVE  NoteBy(q, n)' = NoteBy(q, n) /\ IndexBy(q, n)' = IndexBy(q, n)
    OBVIOUS
  <2>1. /\ notes'[n] = notes[n] /\ search'[n] = search[n]
        /\ NotesOf(q)' = NotesOf(q) /\ SearchOf(q)' = SearchOf(q)
    BY <1>1, <1>5
  <2> QED BY <2>1 DEF NoteBy, IndexBy
<1>7. Types'
  <2>1. DOMAIN relationships' \subseteq Pairs
    BY DEF IInv, Types, PlansFit, PlanFits
  <2>2. running' \subseteq Processes /\ served' \subseteq Requests /\ overlapped' \subseteq NoteIds
    BY <1>2 DEF IInv, Types
  <2>3. \A q \in Processes \ running' : todo'[q] = Idle /\ written'[q] = Idle
    BY <1>1, <1>2 DEF IInv, Types
  <2>4. \A p \in Processes, q \in Processes :
          p # q =>
            /\ DOMAIN written'[p].notes \cap DOMAIN written'[q].notes = {}
            /\ DOMAIN written'[p].search \cap DOMAIN written'[q].search = {}
            /\ DOMAIN written'[p].relationships \cap DOMAIN written'[q].relationships = {}
    <3> SUFFICES ASSUME NEW p \in Processes, NEW q \in Processes, p # q
                 PROVE  /\ DOMAIN written'[p].notes \cap DOMAIN written'[q].notes = {}
                        /\ DOMAIN written'[p].search \cap DOMAIN written'[q].search = {}
                        /\ DOMAIN written'[p].relationships
                             \cap DOMAIN written'[q].relationships = {}
      OBVIOUS
    <3>1. CASE p = r \/ q = r
      BY <1>3, <3>1
    <3>2. CASE p # r /\ q # r
      <4>1. written'[p] = written[p] /\ written'[q] = written[q]
        BY <1>1, <3>2
      <4> QED BY <4>1 DEF IInv, Types
    <3> QED BY <3>1, <3>2
  <2> QED BY <2>1, <2>2, <2>3, <2>4 DEF Types
<1>8. PlansFit'
  <2>1. \A q \in Processes \ {r} : PlanFits(q)'
    <3> SUFFICES ASSUME NEW q \in Processes \ {r} PROVE PlanFits(q)'
      OBVIOUS
    <3>1. PlanFits(q)
      BY DEF IInv, PlansFit
    <3>2. /\ todo'[q] = todo[q]
          /\ NotesOf(q)' = NotesOf(q) /\ SearchOf(q)' = SearchOf(q)
          /\ RelationshipsOf(q)' = RelationshipsOf(q)
      BY <1>1
    <3> QED BY <3>1, <3>2 DEF PlanFits
  <2>2. PlanFits(r)'
    BY <1>1, <1>3 DEF PlanFits
  <2> QED BY <2>1, <2>2 DEF PlansFit
<1>9. InsertsAlone'
  <2>1. \A q \in Processes \ {r} : InsertsFit(q)'
    <3> SUFFICES ASSUME NEW q \in Processes \ {r}, NEW p \in todo[q].inserts
                 PROVE  /\ RelationshipsOf(q)[p] \in RelationshipRow
                        /\ p[1] \in todo[q].touches /\ p[2] \in todo[q].touches
                        /\ p \in DOMAIN written[q].relationships => p \notin DOMAIN relationships'
                        /\ DOMAIN NotesOf(q) = {}
                        /\ \A n \in {p[1], p[2]} : ~notes'[n].is_deleted \/ n \in overlapped
      BY <1>1, <1>2 DEF InsertsFit, Live
    <3>1. /\ RelationshipsOf(q)[p] \in RelationshipRow
          /\ p[1] \in todo[q].touches /\ p[2] \in todo[q].touches
          /\ p \in DOMAIN written[q].relationships => p \notin DOMAIN relationships
          /\ DOMAIN NotesOf(q) = {}
          /\ \A n \in {p[1], p[2]} : ~notes[n].is_deleted \/ n \in overlapped
      BY DEF IInv, InsertsAlone, InsertsFit, Live
    <3>2. \A n \in {p[1], p[2]} : ~notes'[n].is_deleted \/ n \in overlapped
      BY <1>5, <3>1
    <3>3. p \in DOMAIN written[q].relationships => p \notin DOMAIN relationships'
      <4>1. DOMAIN written[r].relationships \cap DOMAIN written[q].relationships = {}
        BY DEF IInv, Types
      <4> QED BY <3>1, <4>1
    <3> QED BY <3>1, <3>2, <3>3
  <2>2. InsertsFit(r)'
    BY <1>3 DEF InsertsFit
  <2> QED BY <2>1, <2>2 DEF InsertsAlone
<1>10. OverlapsAreSeen'
  BY <1>1, <1>2, <1>3 DEF IInv, OverlapsAreSeen
<1>11. IndexDropped'
  <2> SUFFICES ASSUME NEW q \in Processes \ {r}, NEW n \in DOMAIN SearchOf(q),
                      SearchOf(q)[n] = {}
               PROVE  NoteBy(q, n)'.is_deleted
    BY <1>1 DEF IndexDropped
  <2>1. n \in NoteIds
    BY <1>4
  <2>2. NoteBy(q, n).is_deleted
    BY DEF IInv, IndexDropped
  <2>3. notes[n] \in NoteRow /\ notes'[n] \in NoteRow
    BY <2>1 DEF IInv, Types
  <2>4. CASE n \in DOMAIN NotesOf(q)
    <3>1. IsNoteChange(NotesOf(q)[n])
      BY <2>4 DEF IInv, PlansFit, PlanFits
    <3>2. notes[n].is_deleted \/ "is_deleted" \in DOMAIN NotesOf(q)[n]
      BY <2>2, <2>3, <2>4, <3>1, OverwriteNote DEF NoteBy
    <3>3. Overwrite(notes'[n], NotesOf(q)[n]).is_deleted
      BY <2>1, <2>3, <3>1, <3>2, OverwriteNote
    <3>4. NoteBy(q, n)' = Overwrite(notes'[n], NotesOf(q)[n])
      BY <1>1, <2>4 DEF NoteBy
    <3> QED BY <3>3, <3>4
  <2>5. CASE n \notin DOMAIN NotesOf(q)
    BY <1>1, <2>1, <2>2, <2>5 DEF NoteBy
  <2> QED BY <2>4, <2>5
<1>12. PlansAreSound'
  <2> SUFFICES ASSUME NEW q \in Processes, NEW n \in todo'[q].touches \ overlapped
               PROVE  Follow(NoteBy(q, n)', IndexBy(q, n)')
    BY <1>2 DEF PlansAreSound, Follow, Body
  <2>1. q # r
    BY <1>3
  <2>2. n \in todo[q].touches \ overlapped
    BY <1>1, <2>1
  <2>3. Follow(NoteBy(q, n), IndexBy(q, n))
    BY <2>2 DEF IInv, PlansAreSound
  <2> QED BY <1>6, <2>1, <2>2, <2>3
<1>13. CascadesReach'
  <2> SUFFICES ASSUME NEW q \in Processes \ {r}, NEW n \in todo[q].touches \ overlapped,
                      ~notes'[n].is_deleted, NoteBy(q, n).is_deleted,
                      n \notin todo[q].cascade,
                      NEW p \in LiveRelationships', n \in {p[1], p[2]}
               PROVE  /\ p \in DOMAIN RelationshipsOf(q) \ todo[q].inserts
                      /\ "is_deleted" \in DOMAIN RelationshipsOf(q)[p]
    BY <1>1, <1>2, <1>3, <1>6 DEF CascadesReach, Live
  <2>1. p \in DOMAIN relationships
    <3>1. p \in todo[r].inserts => p[1] \in todo[r].touches /\ p[2] \in todo[r].touches
      BY DEF IInv, InsertsAlone, InsertsFit
    <3>2. p \notin todo[r].inserts
      BY <1>4, <3>1
    <3> QED BY <3>2 DEF LiveRelationships
  <2>2. p \in LiveRelationships
    BY <2>1 DEF LiveRelationships
  <2>3. Live(n)
    BY <1>5 DEF Live
  <2> QED BY <2>2, <2>3 DEF IInv, CascadesReach
<1>14. OrderIsKept'
  <2>1. \A q \in Processes \ {r} : KeepsOrder(q)'
    BY <1>1 DEF IInv, OrderIsKept, KeepsOrder
  <2>2. \A part \in Parts : /\ IsFunction(Idle[part])
                            /\ DOMAIN Idle[part] = {}
    BY NothingIsEmpty DEF Idle, Parts
  <2>3. KeepsOrder(r)'
    BY <1>1, <1>3, <2>2 DEF KeepsOrder
  <2> QED BY <2>1, <2>3 DEF OrderIsKept
<1>15. IsFiniteSet(running)'
  BY <1>2, FS_RemoveElement DEF IInv
<1> QED BY <1>1, <1>7, <1>8, <1>9, <1>10, <1>11, <1>12, <1>13, <1>14, <1>15 DEF IInv

\* An insert refused for its key, and its rollback, keeps the invariant.
LEMMA RelationshipConflictKeeps ==
  ASSUME IInv, NEW r \in Processes, NEW p, RelationshipConflict(r, p)
  PROVE  IInv'
<1>1. /\ End(r) /\ overlapped' = overlapped
      /\ notes' = notes /\ search' = search /\ relationships' = relationships
  BY DEF RelationshipConflict, End, tables
<1>2. SearchFollowsUnlessOverlapped' /\ LiveNotesHaveSearchRow'
      /\ RelationshipsFollowUnlessOverlapped'
  BY <1>1 DEF IInv, SearchFollowsUnlessOverlapped, RelationshipsFollowUnlessOverlapped,
              LiveNotesHaveSearchRow, Live, LiveRelationships
<1>3. /\ notes \in [NoteIds -> NoteRow]
      /\ \A n \in NoteIds : \E t \in Titles, c \in Contents : search[n] \in {{}, {<<t, c>>}}
      /\ relationships \in [DOMAIN relationships -> RelationshipRow]
  BY DEF IInv, Types
<1> QED BY <1>1, <1>2, <1>3, EndKeeps

\* What a commit makes of the rows: nothing that is deleted comes back, and no row goes.
LEMMA CommitWrites ==
  ASSUME IInv, NEW r \in Processes, Commit(r)
  PROVE  /\ notes' \in [NoteIds -> NoteRow]
         /\ \A n \in NoteIds : notes'[n] = NoteBy(r, n) /\ search'[n] = IndexBy(r, n)
         /\ \A n \in NoteIds : notes[n].is_deleted => notes'[n].is_deleted
         /\ DOMAIN relationships' = DOMAIN relationships \cup DOMAIN RelationshipsOf(r)
         /\ relationships' \in [DOMAIN relationships' -> RelationshipRow]
         /\ \A p \in DOMAIN relationships :
              /\ relationships[p].is_deleted => relationships'[p].is_deleted
              /\ p \in DOMAIN RelationshipsOf(r) /\ "is_deleted" \in DOMAIN RelationshipsOf(r)[p] =>
                   relationships'[p].is_deleted
         /\ \A p \in DOMAIN relationships' \ DOMAIN relationships :
              p \in todo[r].inserts /\ p \in DOMAIN written[r].relationships
<1>1. /\ todo[r].notes = Nothing /\ todo[r].search = Nothing
      /\ todo[r].cascade = {} /\ todo[r].relationships = Nothing
      /\ notes' = Applied(notes, written[r].notes)
      /\ search' = [n \in NoteIds |-> IF n \in DOMAIN written[r].search
                                      THEN written[r].search[n] ELSE search[n]]
      /\ relationships' = Applied(relationships, written[r].relationships)
      /\ End(r) /\ overlapped' = overlapped
  BY DEF Commit, End
<1>2. /\ DOMAIN NotesOf(r) = DOMAIN written[r].notes
      /\ \A n \in DOMAIN written[r].notes : NotesOf(r)[n] = written[r].notes[n]
      /\ DOMAIN SearchOf(r) = DOMAIN written[r].search
      /\ \A n \in DOMAIN written[r].search : SearchOf(r)[n] = written[r].search[n]
      /\ DOMAIN RelationshipsOf(r) = DOMAIN written[r].relationships
      /\ \A p \in DOMAIN written[r].relationships :
           RelationshipsOf(r)[p] = written[r].relationships[p]
  <2>1. DOMAIN Nothing = {}
    BY NothingIsEmpty
  <2>2. /\ DOMAIN NotesOf(r) = DOMAIN written[r].notes
        /\ \A n \in DOMAIN written[r].notes : NotesOf(r)[n] = written[r].notes[n]
    BY <1>1, <2>1 DEF NotesOf, Whole
  <2>3. /\ DOMAIN SearchOf(r) = DOMAIN written[r].search
        /\ \A n \in DOMAIN written[r].search : SearchOf(r)[n] = written[r].search[n]
    BY <1>1, <2>1 DEF SearchOf, Whole
  <2>4. /\ DOMAIN RelationshipsOf(r) = DOMAIN written[r].relationships
        /\ \A p \in DOMAIN written[r].relationships :
             RelationshipsOf(r)[p] = written[r].relationships[p]
    BY <1>1, <2>1 DEF RelationshipsOf, Whole
  <2> QED BY <2>2, <2>3, <2>4
<1>3. PlanFits(r) /\ InsertsFit(r)
  BY DEF IInv, PlansFit, InsertsAlone
<1>4. notes \in [NoteIds -> NoteRow] /\ relationships \in [DOMAIN relationships -> RelationshipRow]
  BY DEF IInv, Types
<1>5. /\ notes' = [n \in NoteIds |-> NoteBy(r, n)]
      /\ \A n \in NoteIds : search'[n] = IndexBy(r, n)
  <2>1. DOMAIN notes \cup DOMAIN written[r].notes = NoteIds /\ DOMAIN notes = NoteIds
    BY <1>2, <1>3, <1>4 DEF PlanFits
  <2>2. notes' = [n \in NoteIds |-> NoteBy(r, n)]
    BY <1>1, <1>2, <2>1 DEF Applied, NoteBy
  <2>3. \A n \in NoteIds : search'[n] = IndexBy(r, n)
    BY <1>1, <1>2 DEF IndexBy
  <2> QED BY <2>2, <2>3
<1>6. \A n \in NoteIds : /\ NoteBy(r, n) \in NoteRow
                         /\ notes[n].is_deleted => NoteBy(r, n).is_deleted
  <2> SUFFICES ASSUME NEW n \in NoteIds
               PROVE  /\ NoteBy(r, n) \in NoteRow
                      /\ notes[n].is_deleted => NoteBy(r, n).is_deleted
    OBVIOUS
  <2>1. notes[n] \in NoteRow
    BY <1>4
  <2>2. CASE n \in DOMAIN NotesOf(r)
    <3>1. IsNoteChange(NotesOf(r)[n])
      BY <1>3, <2>2 DEF PlanFits
    <3> QED BY <2>1, <2>2, <3>1, OverwriteNote DEF NoteBy
  <2>3. CASE n \notin DOMAIN NotesOf(r)
    BY <2>1, <2>3 DEF NoteBy
  <2> QED BY <2>2, <2>3
<1>7. /\ notes' \in [NoteIds -> NoteRow]
      /\ \A n \in NoteIds : notes'[n] = NoteBy(r, n)
      /\ \A n \in NoteIds : notes[n].is_deleted => notes'[n].is_deleted
  BY <1>5, <1>6
<1>8. /\ DOMAIN relationships' = DOMAIN relationships \cup DOMAIN RelationshipsOf(r)
       /\ relationships' = [p \in DOMAIN relationships' |-> relationships'[p]]
       /\ \A p \in DOMAIN relationships' :
            relationships'[p] =
              IF p \notin DOMAIN RelationshipsOf(r) THEN relationships[p]
              ELSE IF p \in DOMAIN relationships
                THEN Overwrite(relationships[p], RelationshipsOf(r)[p])
              ELSE RelationshipsOf(r)[p]
  BY <1>1, <1>2 DEF Applied
<1>9. \A p \in DOMAIN RelationshipsOf(r) :
         \/ /\ p \in DOMAIN relationships /\ p \notin todo[r].inserts
            /\ IsRelationshipChange(RelationshipsOf(r)[p])
         \/ /\ p \notin DOMAIN relationships /\ p \in todo[r].inserts
            /\ RelationshipsOf(r)[p] \in RelationshipRow
  BY <1>2, <1>3 DEF PlanFits, InsertsFit
<1>10. \A p \in DOMAIN relationships :
         /\ relationships'[p] \in RelationshipRow
         /\ relationships[p].is_deleted => relationships'[p].is_deleted
         /\ p \in DOMAIN RelationshipsOf(r) /\ "is_deleted" \in DOMAIN RelationshipsOf(r)[p] =>
              relationships'[p].is_deleted
  <2> SUFFICES ASSUME NEW p \in DOMAIN relationships
               PROVE  /\ relationships'[p] \in RelationshipRow
                      /\ relationships[p].is_deleted => relationships'[p].is_deleted
                      /\ p \in DOMAIN RelationshipsOf(r)
                           /\ "is_deleted" \in DOMAIN RelationshipsOf(r)[p] =>
                         relationships'[p].is_deleted
    OBVIOUS
  <2>1. relationships[p] \in RelationshipRow
    BY <1>4
  <2>2. CASE p \in DOMAIN RelationshipsOf(r)
    <3>1. IsRelationshipChange(RelationshipsOf(r)[p])
      BY <1>9, <2>2
    <3>2. relationships'[p] = Overwrite(relationships[p], RelationshipsOf(r)[p])
      BY <1>8, <2>2
    <3> QED BY <2>1, <3>1, <3>2, OverwriteRelationship
  <2>3. CASE p \notin DOMAIN RelationshipsOf(r)
    BY <1>8, <2>1, <2>3
  <2> QED BY <2>2, <2>3
<1>11. relationships' \in [DOMAIN relationships' -> RelationshipRow]
  <2>1. \A p \in DOMAIN relationships' : relationships'[p] \in RelationshipRow
    BY <1>8, <1>9, <1>10
  <2> QED BY <1>8, <2>1
<1>12. \A p \in DOMAIN relationships' \ DOMAIN relationships :
         p \in todo[r].inserts /\ p \in DOMAIN written[r].relationships
  BY <1>2, <1>8, <1>9
<1> QED BY <1>5, <1>7, <1>8, <1>10, <1>11, <1>12

\* A commit keeps the invariant.
LEMMA CommitKeeps ==
  ASSUME IInv, NEW r \in Processes, Commit(r)
  PROVE  IInv'
<1>1. todo[r].cascade = {} /\ End(r) /\ overlapped' = overlapped
  BY DEF Commit, End
<1>2. PlanFits(r) /\ InsertsFit(r)
  BY DEF IInv, PlansFit, InsertsAlone
<1>3. \A n \in NoteIds : notes'[n] = NoteBy(r, n) /\ search'[n] = IndexBy(r, n)
  BY CommitWrites
<1>4. /\ notes' \in [NoteIds -> NoteRow]
      /\ \A n \in NoteIds : notes[n].is_deleted => notes'[n].is_deleted
  BY CommitWrites
<1>5. \A n \in NoteIds \ todo[r].touches : notes'[n] = notes[n] /\ search'[n] = search[n]
  <2> SUFFICES ASSUME NEW n \in NoteIds \ todo[r].touches
               PROVE  notes'[n] = notes[n] /\ search'[n] = search[n]
    OBVIOUS
  <2>1. n \notin DOMAIN NotesOf(r) /\ n \notin DOMAIN SearchOf(r)
    BY <1>2 DEF PlanFits
  <2> QED BY <1>3, <2>1 DEF NoteBy, IndexBy
<1>6. \A n \in NoteIds : \E t \in Titles, c \in Contents : search'[n] \in {{}, {<<t, c>>}}
  <2> SUFFICES ASSUME NEW n \in NoteIds
               PROVE  \E t \in Titles, c \in Contents : search'[n] \in {{}, {<<t, c>>}}
    OBVIOUS
  <2>1. CASE n \in DOMAIN SearchOf(r)
    <3>1. search'[n] \in Indexed
      BY <1>2, <1>3, <2>1 DEF IndexBy, PlanFits
    <3>2. CASE search'[n] = {}
      BY <3>2, TextsAssumption
    <3>3. CASE search'[n] # {}
      <4>1. PICK b \in Titles \X Contents : search'[n] = {b}
        BY <3>1, <3>3 DEF Indexed
      <4>2. PICK t \in Titles, c \in Contents : b = <<t, c>>
        BY <4>1
      <4> QED BY <4>1, <4>2
    <3> QED BY <3>2, <3>3
  <2>2. CASE n \notin DOMAIN SearchOf(r)
    <3>1. search'[n] = search[n]
      BY <1>3, <2>2 DEF IndexBy
    <3>2. \E t \in Titles, c \in Contents : search[n] \in {{}, {<<t, c>>}}
      BY DEF IInv, Types
    <3> QED BY <3>1, <3>2
  <2> QED BY <2>1, <2>2
<1>7. /\ DOMAIN relationships' = DOMAIN relationships \cup DOMAIN RelationshipsOf(r)
      /\ relationships' \in [DOMAIN relationships' -> RelationshipRow]
  BY CommitWrites
<1>8. \A p \in DOMAIN relationships :
        /\ relationships[p].is_deleted => relationships'[p].is_deleted
        /\ p \in DOMAIN RelationshipsOf(r) /\ "is_deleted" \in DOMAIN RelationshipsOf(r)[p] =>
             relationships'[p].is_deleted
  BY CommitWrites
<1>9. \A p \in DOMAIN relationships' \ DOMAIN relationships :
        p \in todo[r].inserts /\ p \in DOMAIN written[r].relationships
  BY CommitWrites
<1>10. SearchFollowsUnlessOverlapped'
  <2> SUFFICES ASSUME NEW n \in NoteIds \ overlapped
               PROVE  Follow(notes'[n], search'[n])
    BY <1>1 DEF SearchFollowsUnlessOverlapped, Follow, Live, Body
  <2>1. CASE n \in todo[r].touches
    BY <1>3, <2>1 DEF IInv, PlansAreSound
  <2>2. CASE n \notin todo[r].touches
    <3>1. Follow(notes[n], search[n])
      BY DEF IInv, SearchFollowsUnlessOverlapped, Follow, Live
    <3> QED BY <1>5, <2>2, <3>1
  <2> QED BY <2>1, <2>2
<1>11. RelationshipsFollowUnlessOverlapped'
  <2> SUFFICES ASSUME NEW p \in DOMAIN relationships', ~relationships'[p].is_deleted,
                      NEW n \in {p[1], p[2]}, notes'[n].is_deleted, n \notin overlapped
               PROVE  FALSE
    BY <1>1 DEF RelationshipsFollowUnlessOverlapped, LiveRelationships, Live
  <2>1. p \in Pairs
    BY <1>2, <1>7 DEF IInv, Types, PlanFits
  <2>2. n \in NoteIds
    BY <2>1, NoteIdsAssumption
  <2>3. CASE p \in DOMAIN relationships
    <3>1. p \in LiveRelationships
      BY <1>8, <2>3 DEF LiveRelationships
    <3>2. Live(n)
      BY <3>1 DEF IInv, RelationshipsFollowUnlessOverlapped
    <3>3. n \in todo[r].touches
      BY <1>5, <2>2, <3>2 DEF Live
    <3>4. NoteBy(r, n).is_deleted
      BY <1>3, <2>2
    <3>5. /\ p \in DOMAIN RelationshipsOf(r)
          /\ "is_deleted" \in DOMAIN RelationshipsOf(r)[p]
      BY <1>1, <3>1, <3>2, <3>3, <3>4 DEF IInv, CascadesReach
    <3> QED BY <1>8, <2>3, <3>5
  <2>4. CASE p \notin DOMAIN relationships
    <3>1. p \in todo[r].inserts
      BY <1>9, <2>4
    <3>2. Live(n) /\ DOMAIN NotesOf(r) = {}
      BY <1>2, <3>1 DEF InsertsFit
    <3>3. notes'[n] = notes[n]
      BY <1>3, <2>2, <3>2 DEF NoteBy
    <3> QED BY <3>2, <3>3 DEF Live
  <2> QED BY <2>3, <2>4
<1>12. LiveNotesHaveSearchRow'
  <2> SUFFICES ASSUME NEW n \in NoteIds, ~notes'[n].is_deleted, search'[n] = {}
               PROVE  FALSE
    BY DEF LiveNotesHaveSearchRow, Live
  <2>1. ~notes[n].is_deleted
    BY <1>4
  <2>2. search[n] # {}
    BY <2>1 DEF IInv, LiveNotesHaveSearchRow, Live
  <2>3. n \in DOMAIN SearchOf(r) /\ SearchOf(r)[n] = {}
    BY <1>3, <2>2 DEF IndexBy
  <2>4. NoteBy(r, n).is_deleted
    BY <2>3 DEF IInv, IndexDropped
  <2> QED BY <1>3, <2>4
<1>13. DOMAIN relationships \subseteq DOMAIN relationships'
  BY <1>7
<1> QED BY <1>1, <1>4, <1>5, <1>6, <1>7, <1>8, <1>9, <1>10, <1>11, <1>12, <1>13, EndKeeps

\* What is deleted stays so, and no row of a relationship goes.
DeletedStays ==
  /\ \A n \in NoteIds : notes[n].is_deleted => notes'[n].is_deleted
  /\ DOMAIN relationships \subseteq DOMAIN relationships'
  /\ \A p \in DOMAIN relationships :
       relationships[p].is_deleted => relationships'[p].is_deleted

\* Only a commit changes rows, and it revives none.
LEMMA StepsReviveNothing ==
  ASSUME IInv, [Next]_vars
  PROVE  DeletedStays
<1>1. CASE UNCHANGED tables
  BY <1>1 DEF tables, DeletedStays
<1>2. ASSUME NEW r \in Processes, Commit(r) PROVE DeletedStays
  BY <1>2, CommitWrites DEF DeletedStays
<1>3. ASSUME NEW r \in Requests, Ask(r) PROVE UNCHANGED tables
  <2>1. \A plan : Begin(r, plan) => UNCHANGED tables
    BY DEF Begin, tables
  <2>2. \A n, t, c : EditNote(r, n, t, c) => UNCHANGED tables
    BY <2>1 DEF EditNote
  <2>3. \A n : DeleteNote(r, n) => UNCHANGED tables
    BY <2>1 DEF DeleteNote
  <2>4. \A n, t, c, v : PushNote(r, n, t, c, v) => UNCHANGED tables
    BY <2>1 DEF PushNote
  <2>5. \A n, v : PushDeletedNote(r, n, v) => UNCHANGED tables
    BY <2>1 DEF PushDeletedNote
  <2>6. \A p : CreateRelationship(r, p) \/ DeleteRelationship(r, p) => UNCHANGED tables
    BY <2>1 DEF CreateRelationship, DeleteRelationship
  <2>7. \A p, v, d : PushRelationship(r, p, v, d) => UNCHANGED tables
    BY <2>1 DEF PushRelationship
  <2> QED BY <1>3, <2>2, <2>3, <2>4, <2>5, <2>6, <2>7 DEF Ask
<1>4. CASE BeginRepair
  <2>1. \A plan : Begin(Script, plan) => UNCHANGED tables
    BY DEF Begin, tables
  <2>2. UNCHANGED tables
    BY <1>4, <2>1 DEF BeginRepair
  <2> QED BY <1>1, <2>2
<1>5. ASSUME NEW r \in Processes, Proceed(r) PROVE UNCHANGED tables \/ Commit(r)
  BY <1>5 DEF Proceed, UpdateNoteRow, UpdateSearchRow, UpdateRelationshipRow, SelectCascade,
              RelationshipConflict, Moved, tables
<1>6. CASE UNCHANGED vars
  <2>1. UNCHANGED tables
    BY <1>6 DEF vars, tables
  <2> QED BY <1>1, <2>1
<1> QED BY <1>1, <1>2, <1>3, <1>4, <1>5, <1>6 DEF Next

-------------------------------------------------------------------------------
(* The repair script. *)
\* The script only deletes relationships, all that it has selected.
ScriptDeletes ==
  /\ todo[Script].inserts = {} /\ todo[Script].cascade = {}
  /\ \A p \in DOMAIN RelationshipsOf(Script) : "is_deleted" \in DOMAIN RelationshipsOf(Script)[p]

\* It selects the dangling relationships, holds on to them whatever others do meanwhile, and
\* leaves each one deleted.
RepairsWhatItSaw ==
  /\ Script \in running' \ running => DOMAIN RelationshipsOf(Script)' = Dangling
  /\ Script \in running' \cap running =>
       DOMAIN RelationshipsOf(Script)' = DOMAIN RelationshipsOf(Script)
  /\ Script \in running \ running' =>
       \A p \in DOMAIN RelationshipsOf(Script) :
         p \in DOMAIN relationships' /\ relationships'[p].is_deleted

\* What the script has left to do and has written is nobody else's to change.
LEMMA OthersLeaveScript ==
  ASSUME IInv, ScriptDeletes,
         todo'[Script] = todo[Script], written'[Script] = written[Script],
         Script \in running' <=> Script \in running
  PROVE  ScriptDeletes' /\ RepairsWhatItSaw
<1>1. RelationshipsOf(Script)' = RelationshipsOf(Script)
  BY DEF RelationshipsOf, Whole
<1> QED BY <1>1 DEF ScriptDeletes, RepairsWhatItSaw

\* Nor does a statement change what it writes in all.
LEMMA StatementsOfScript ==
  ASSUME IInv, ScriptDeletes, NEW r \in Processes, NEW part \in Parts,
         NEW key \in DOMAIN todo[r][part], Moved(r, part, key)
  PROVE  ScriptDeletes' /\ RepairsWhatItSaw
<1>1. Script \in Processes
  BY DEF Processes
<1>2. /\ todo'[Script].cascade = todo[Script].cascade
      /\ todo'[Script].inserts = todo[Script].inserts
      /\ RelationshipsOf(Script)' = RelationshipsOf(Script)
  BY <1>1, MovedKeepsWhole DEF IInv
<1>3. running' = running
  BY DEF Moved
<1> QED BY <1>2, <1>3 DEF ScriptDeletes, RepairsWhatItSaw

\* A run of the script begins with the relationships that dangle.
LEMMA ScriptBegins ==
  ASSUME IInv, BeginRepair
  PROVE  ScriptDeletes' /\ RepairsWhatItSaw
<1>1. PICK changes : changes = Tombstones(Dangling)
  OBVIOUS
<1>2. PICK plan :
        /\ plan = [Idle EXCEPT !.touches = NoteIds, !.relationships = changes]
        /\ Begin(Script, plan)
  BY <1>1 DEF BeginRepair
<1>3. plan.relationships = changes /\ plan.cascade = {} /\ plan.inserts = {}
  BY <1>2 DEF Idle
<1>4. /\ Script \in Processes /\ Script \notin running
      /\ todo' = [todo EXCEPT ![Script] = plan] /\ written' = written
  BY <1>2 DEF Begin, Processes
<1>5. todo'[Script] = plan
  BY <1>4, PlanReplaced DEF IInv, Transactions
<1>6. DOMAIN written'[Script].relationships = {}
  BY <1>4, IdlePlan DEF IInv, Types
<1>7. DOMAIN changes = Dangling /\ Dangling \subseteq LiveRelationships
  BY <1>1 DEF Tombstones, Dangling
<1>8. RelationshipsOf(Script)' = [p \in Dangling |-> changes[p]]
  BY <1>3, <1>5, <1>6, <1>7 DEF RelationshipsOf, Whole
<1>9. \A p \in Dangling : "is_deleted" \in DOMAIN changes[p]
  <2>1. \A p \in Dangling : changes[p] = Changed(relationships[p], TombstoneOf(p))
    BY <1>1 DEF Tombstones
  <2>2. \A p \in LiveRelationships : p \in DOMAIN relationships
    BY DEF LiveRelationships
  <2> QED BY <1>7, <2>1, <2>2, TombstoneChange DEF IInv
<1>10. DOMAIN RelationshipsOf(Script)' = Dangling
  BY <1>8
<1>11. \A p \in DOMAIN RelationshipsOf(Script)' :
         "is_deleted" \in DOMAIN RelationshipsOf(Script)'[p]
  BY <1>8, <1>9
<1> QED BY <1>3, <1>4, <1>5, <1>10, <1>11 DEF ScriptDeletes, RepairsWhatItSaw

\* Its commit deletes them.
LEMMA ScriptCommits ==
  ASSUME IInv, ScriptDeletes, Commit(Script)
  PROVE  ScriptDeletes' /\ RepairsWhatItSaw
<1>1. Script \in Processes /\ End(Script)
  BY DEF Processes, Commit
<1>2. \A p \in DOMAIN RelationshipsOf(Script) : p \in DOMAIN relationships
  BY <1>1 DEF ScriptDeletes, IInv, PlansFit, PlanFits
<1>3. \A p \in DOMAIN RelationshipsOf(Script) :
        p \in DOMAIN relationships' /\ relationships'[p].is_deleted
  BY <1>1, <1>2, CommitWrites DEF ScriptDeletes
<1>4. todo'[Script] = Idle /\ DOMAIN RelationshipsOf(Script)' = {}
  BY <1>1, EndedIsIdle DEF IInv
<1>5. Script \notin running'
  BY <1>1 DEF End
<1> QED BY <1>3, <1>4, <1>5, IdlePlan DEF ScriptDeletes, RepairsWhatItSaw

\* Every step of the server, then, lets the script repair what it saw.
LEMMA StepLetsRepair ==
  ASSUME IInv, ScriptDeletes, [Next]_vars
  PROVE  ScriptDeletes' /\ RepairsWhatItSaw
<1> DEFINE Left == /\ todo'[Script] = todo[Script] /\ written'[Script] = written[Script]
                   /\ (Script \in running' <=> Script \in running)
<1>1. Script \in Processes
  BY DEF Processes
<1>2. CASE UNCHANGED vars
  <2>1. Left
    BY <1>2 DEF vars
  <2> QED BY <2>1, OthersLeaveScript
<1>3. ASSUME NEW r \in Requests, Ask(r) PROVE Left
  <2>1. r \in Processes /\ r # Script
    BY ScriptAssumption DEF Processes
  <2>2. ASSUME NEW plan, Begin(r, plan) PROVE Left
    <3>1. /\ todo' = [todo EXCEPT ![r] = plan] /\ written' = written
          /\ running' = running \cup {r}
      BY <2>2 DEF Begin
    <3>2. todo'[Script] = todo[Script]
      BY <1>1, <2>1, <3>1, PlanReplaced DEF IInv, Transactions
    <3> QED BY <2>1, <3>1, <3>2
  <2> HIDE DEF Left
  <2>3. \A n, t, c : EditNote(r, n, t, c) => Left
    BY <2>2 DEF EditNote
  <2>4. \A n : DeleteNote(r, n) => Left
    BY <2>2 DEF DeleteNote
  <2>5. \A n, t, c, v : PushNote(r, n, t, c, v) => Left
    BY <2>2 DEF PushNote
  <2>6. \A n, v : PushDeletedNote(r, n, v) => Left
    BY <2>2 DEF PushDeletedNote
  <2>7. \A p : CreateRelationship(r, p) \/ DeleteRelationship(r, p) => Left
    BY <2>2 DEF CreateRelationship, DeleteRelationship
  <2>8. \A p, v, d : PushRelationship(r, p, v, d) => Left
    BY <2>2 DEF PushRelationship
  <2> QED BY <1>3, <2>3, <2>4, <2>5, <2>6, <2>7, <2>8 DEF Ask
<1>4. ASSUME NEW r \in Processes, Proceed(r)
      PROVE  ScriptDeletes' /\ RepairsWhatItSaw
  <2>1. "notes" \in Parts /\ "search" \in Parts /\ "relationships" \in Parts
    BY DEF Parts
  <2>2. ASSUME NEW n \in NoteIds, UpdateNoteRow(r, n)
        PROVE  ScriptDeletes' /\ RepairsWhatItSaw
    BY <2>1, <2>2, StatementsOfScript DEF UpdateNoteRow
  <2>3. ASSUME NEW n \in NoteIds, UpdateSearchRow(r, n)
        PROVE  ScriptDeletes' /\ RepairsWhatItSaw
    BY <2>1, <2>3, StatementsOfScript DEF UpdateSearchRow
  <2>4. ASSUME NEW p \in Pairs, UpdateRelationshipRow(r, p)
        PROVE  ScriptDeletes' /\ RepairsWhatItSaw
    BY <2>1, <2>4, StatementsOfScript DEF UpdateRelationshipRow
  <2>5. ASSUME r # Script, End(r) PROVE Left
    <3>1. running' = running \ {r}
      BY <2>5 DEF End
    <3> QED BY <1>1, <2>5, <3>1, EndedIsIdle DEF IInv
  <2>6. CASE SelectCascade(r)
    <3>1. PICK plan : todo' = [todo EXCEPT ![r] = plan]
      <4>1. PICK stale : stale = {p \in LiveRelationships :
                                    {p[1], p[2]} \cap todo[r].cascade # {}}
        OBVIOUS
      <4>2. PICK plan : plan = [todo[r] EXCEPT !.cascade = {},
                                               !.relationships = Tombstones(stale)]
        OBVIOUS
      <4>3. todo' = [todo EXCEPT ![r] = plan]
        BY <2>6, <4>1, <4>2 DEF SelectCascade
      <4> QED BY <4>3
    <3>2. r # Script /\ written' = written /\ running' = running
      BY <2>6 DEF SelectCascade, ScriptDeletes
    <3>3. todo'[Script] = todo[Script]
      BY <1>1, <3>1, <3>2, PlanReplaced DEF IInv, Transactions
    <3>4. Left
      BY <3>2, <3>3
    <3> QED BY <3>4, OthersLeaveScript
  <2>7. ASSUME NEW p \in Pairs, RelationshipConflict(r, p)
        PROVE  ScriptDeletes' /\ RepairsWhatItSaw
    <3>1. r # Script /\ End(r)
      BY <2>7 DEF RelationshipConflict, ScriptDeletes
    <3> QED BY <2>5, <3>1, OthersLeaveScript
  <2>8. CASE Commit(r)
    <3>1. CASE r = Script
      BY <2>8, <3>1, ScriptCommits
    <3>2. CASE r # Script
      <4>1. End(r)
        BY <2>8 DEF Commit
      <4> QED BY <2>5, <3>2, <4>1, OthersLeaveScript
    <3> QED BY <3>1, <3>2
  <2> QED BY <1>4, <2>2, <2>3, <2>4, <2>6, <2>7, <2>8 DEF Proceed
<1>5. CASE BeginRepair
  BY <1>5, ScriptBegins
<1> QED BY <1>2, <1>3, <1>4, <1>5, OthersLeaveScript DEF Next

-------------------------------------------------------------------------------
(* Nobody waits in a circle. *)
\* The guards of Proceed(r), without what its statements change: r need not wait.
Ready(r) ==
  \/ \E n \in NoteIds : n \in DOMAIN todo[r].notes /\ Unlocked(r, "notes", n)
  \/ /\ todo[r].notes = Nothing
     /\ \E n \in NoteIds : n \in DOMAIN todo[r].search /\ Unlocked(r, "search", n)
  \/ todo[r].search = Nothing /\ todo[r].cascade # {}
  \/ \E p \in Pairs :
       /\ p \in DOMAIN todo[r].relationships
       /\ \A q \in DOMAIN todo[r].relationships : ~Before(q, p)
       /\ p \in todo[r].inserts => p \notin DOMAIN relationships
       /\ Unlocked(r, "relationships", p)
  \/ \E p \in Pairs :
       /\ p \in DOMAIN todo[r].relationships
       /\ p \in todo[r].inserts \cap DOMAIN relationships
  \/ /\ r \in running
     /\ todo[r].notes = Nothing /\ todo[r].search = Nothing
     /\ todo[r].cascade = {} /\ todo[r].relationships = Nothing

IsFirst(p, r) ==
  /\ p \in DOMAIN todo[r].relationships
  /\ \A q \in DOMAIN todo[r].relationships : ~Before(q, p)

\* The next row that r writes is locked by q.
WaitsFor(r, q) ==
  \/ \E n \in DOMAIN todo[r].notes : n \in DOMAIN written[q].notes
  \/ todo[r].notes = Nothing /\ \E n \in DOMAIN todo[r].search : n \in DOMAIN written[q].search
  \/ \E p \in DOMAIN written[q].relationships : IsFirst(p, r)

\* No processes, few or many, wait for each other alone: one of them can go on, or waits
\* for another.
NoCircle ==
  \A S \in SUBSET running : S # {} =>
    \E r \in S : Ready(r) \/ \E q \in running \ S : WaitsFor(r, q)

\* Which of its statements a process has come to, and at which relationship.
Stage(r) ==
  IF DOMAIN todo[r].notes # {} THEN 1 ELSE IF DOMAIN todo[r].search # {} THEN 2 ELSE 3
First(r) == CHOOSE p \in Pairs : IsFirst(p, r)

\* q has come further than r.
Ahead(q, r) ==
  \/ Stage(r) < Stage(q)
  \/ Stage(r) = 3 /\ Stage(q) = 3 /\ Before(First(r), First(q))

\* Of finitely many, some come last in any order.
LEMMA SomeAreLast ==
  ASSUME NEW S, IsFiniteSet(S), S # {}, NEW R,
         \A x \in S : <<x, x>> \notin R,
         \A x \in S, y \in S, z \in S : <<x, y>> \in R /\ <<y, z>> \in R => <<x, z>> \in R
  PROVE  \E x \in S : \A y \in S : <<x, y>> \notin R
<1> DEFINE After(x) == {y \in S : <<x, y>> \in R}
           Afters == {After(x) : x \in S}
           Smaller == StrictSubsetOrdering(S)
<1>1. Afters \subseteq SUBSET S /\ Afters # {}
  <2>1. PICK s \in S : TRUE
    OBVIOUS
  <2>2. After(s) \in Afters
    BY <2>1
  <2>3. \A U \in Afters : U \subseteq S
    OBVIOUS
  <2> HIDE DEF Afters
  <2> QED BY <2>2, <2>3
<1>2. IsWellFoundedOn(Smaller, SUBSET S)
  BY FS_FiniteSubsetsOfFinite, FS_StrictSubsetOrderingWellFounded
<1>3. PICK T \in Afters : \A U \in Afters : <<U, T>> \notin Smaller
  <2> HIDE DEF Afters, Smaller
  <2> QED BY <1>1, <1>2, WFMin, Zenon
<1>4. PICK x \in S : T = After(x)
  BY <1>3
<1>5. ASSUME NEW y \in S, <<x, y>> \in R PROVE FALSE
  <2>1. After(y) \in Afters
    BY <1>5
  <2>2. y \in After(x) /\ y \notin After(y)
    BY <1>5
  <2>3. \A z \in After(y) : z \in After(x)
    BY <1>4, <1>5
  <2> HIDE DEF After, Afters
  <2>4. <<After(y), After(x)>> \in Smaller
    BY <1>1, <1>3, <1>4, <2>1, <2>2, <2>3 DEF StrictSubsetOrdering
  <2> QED BY <1>3, <1>4, <2>1, <2>4
<1> QED BY <1>5

\* Of relationships, however many, one comes first by its key.
LEMMA FirstInOrder ==
  ASSUME NEW S, S \subseteq Pairs, S # {}
  PROVE  \E p \in S : \A q \in S : ~Before(q, p)
<1> DEFINE Less == {ss \in Nat \X Nat : ss[1] < ss[2]}
           Order == LexPairOrdering(Less, Less, Nat, Nat)
<1>1. IsWellFoundedOn(Less, Nat)
  BY NatLessThanWellFounded DEF OpToRel
<1>2. IsWellFoundedOn(Order, Nat \X Nat)
  <2> HIDE DEF Less
  <2> QED BY <1>1, WFLexPairOrdering, Zenon
<1>3. S \subseteq Nat \X Nat
  <2>1. \A p \in S : p \in NoteIds \X NoteIds
    BY NoteIdsAssumption, Zenon
  <2> QED BY <2>1, NoteIdsAssumption
<1>4. PICK p \in S : \A q \in S : <<q, p>> \notin Order
  <2> HIDE DEF Order
  <2> QED BY <1>2, <1>3, WFMin, Zenon
<1>5. ASSUME NEW q \in S, Before(q, p) PROVE FALSE
  <2>1. /\ p \in Nat \X Nat /\ q \in Nat \X Nat
        /\ p[1] \in Nat /\ p[2] \in Nat /\ q[1] \in Nat /\ q[2] \in Nat
    BY <1>3
  <2>2. <<q[1], p[1]>> \in Less \/ (q[1] = p[1] /\ <<q[2], p[2]>> \in Less)
    BY <1>5, <2>1 DEF Before
  <2> HIDE DEF Less
  <2>3. <<q, p>> \in Order
    BY <2>1, <2>2 DEF LexPairOrdering
  <2> QED BY <1>4, <2>3
<1> QED BY <1>5

\* What is left of a transaction is part of the whole, and nothing is left of an empty part.
LEMMA LeftIsPart ==
  ASSUME IInv, NEW r \in Processes
  PROVE  /\ DOMAIN todo[r].notes \subseteq NoteIds
         /\ DOMAIN todo[r].search \subseteq NoteIds
         /\ DOMAIN todo[r].relationships \subseteq Pairs
         /\ DOMAIN todo[r].notes = {} => todo[r].notes = Nothing
         /\ DOMAIN todo[r].search = {} => todo[r].search = Nothing
         /\ DOMAIN todo[r].relationships = {} => todo[r].relationships = Nothing
<1>1. /\ DOMAIN todo[r].notes \subseteq DOMAIN NotesOf(r)
      /\ DOMAIN todo[r].search \subseteq DOMAIN SearchOf(r)
      /\ DOMAIN todo[r].relationships \subseteq DOMAIN RelationshipsOf(r)
  BY WholeTyped DEF NotesOf, SearchOf, RelationshipsOf
<1>2. PlanFits(r)
  BY DEF IInv, PlansFit
<1>3. /\ DOMAIN todo[r].notes \subseteq NoteIds /\ DOMAIN todo[r].search \subseteq NoteIds
      /\ DOMAIN todo[r].relationships \subseteq Pairs
  BY <1>1, <1>2 DEF PlanFits
<1>4. \A part \in Parts : IsFunction(todo[r][part])
  BY DEF IInv, OrderIsKept, KeepsOrder
<1>5. \A f : IsFunction(f) /\ DOMAIN f = {} => f = Nothing
  BY DEF IsFunction, Nothing
<1> QED BY <1>3, <1>4, <1>5 DEF Parts

\* A process that has come to its relationships has a first one.
LEMMA FirstIsFirst ==
  ASSUME IInv, NEW r \in Processes, DOMAIN todo[r].relationships # {}
  PROVE  First(r) \in Pairs /\ IsFirst(First(r), r)
<1>1. DOMAIN todo[r].relationships \subseteq Pairs
  BY LeftIsPart
<1>2. \E p \in Pairs : IsFirst(p, r)
  BY <1>1, FirstInOrder DEF IsFirst
<1> QED BY <1>2 DEF First

\* A row of r is locked by another process, and one that is running.
LEMMA LockIsHeld ==
  ASSUME IInv, NEW r \in Processes, NEW part \in Parts, NEW key, ~Unlocked(r, part, key)
  PROVE  \E q \in running : q # r /\ key \in DOMAIN written[q][part]
<1>1. PICK q \in Processes \ {r} : key \in DOMAIN written[q][part]
  BY DEF Unlocked
<1>2. \A other \in Parts : DOMAIN Idle[other] = {}
  BY NothingIsEmpty DEF Idle, Parts
<1>3. q \in running
  BY <1>1, <1>2 DEF IInv, Types
<1> QED BY <1>1, <1>3

\* A process that is not ready waits for one that is, or that has come further.
LEMMA WaitsForOneAhead ==
  ASSUME IInv, NEW r \in running, ~Ready(r)
  PROVE  \E q \in running : WaitsFor(r, q) /\ (Ready(q) \/ Ahead(q, r))
<1>1. running \subseteq Processes /\ \A q \in running : KeepsOrder(q)
  BY DEF IInv, Types, OrderIsKept
<1>2. "notes" \in Parts /\ "search" \in Parts /\ "relationships" \in Parts
  BY DEF Parts
\* Of what it has written nothing is left: not of its note, nor of the search row.
<1>3. \A q \in running :
        /\ DOMAIN written[q].notes # {} => DOMAIN todo[q].notes = {}
        /\ DOMAIN written[q].search # {} => DOMAIN todo[q].notes = {} /\ DOMAIN todo[q].search = {}
        /\ DOMAIN written[q].relationships # {} =>
             DOMAIN todo[q].notes = {} /\ DOMAIN todo[q].search = {}
  <2> SUFFICES ASSUME NEW q \in running
               PROVE  /\ DOMAIN written[q].notes # {} => DOMAIN todo[q].notes = {}
                      /\ DOMAIN written[q].search # {} =>
                           DOMAIN todo[q].notes = {} /\ DOMAIN todo[q].search = {}
                      /\ DOMAIN written[q].relationships # {} =>
                           DOMAIN todo[q].notes = {} /\ DOMAIN todo[q].search = {}
    OBVIOUS
  <2>1. KeepsOrder(q)
    BY <1>1
  <2>2. /\ DOMAIN NotesOf(q) = DOMAIN todo[q].notes \cup DOMAIN written[q].notes
        /\ DOMAIN SearchOf(q) = DOMAIN todo[q].search \cup DOMAIN written[q].search
        /\ DOMAIN RelationshipsOf(q) =
             DOMAIN todo[q].relationships \cup DOMAIN written[q].relationships
    BY WholeTyped DEF NotesOf, SearchOf, RelationshipsOf
  <2>3. /\ DOMAIN todo[q].notes \cap DOMAIN written[q].notes = {}
        /\ DOMAIN todo[q].search \cap DOMAIN written[q].search = {}
    BY <1>2, <2>1 DEF KeepsOrder
  <2>4. DOMAIN written[q].notes # {} => DOMAIN todo[q].notes = {}
    BY <2>1, <2>2, <2>3 DEF KeepsOrder
  <2>5. DOMAIN written[q].search # {} => DOMAIN todo[q].notes = {} /\ DOMAIN todo[q].search = {}
    BY <2>1, <2>2, <2>3 DEF KeepsOrder
  <2>6. DOMAIN written[q].relationships # {} =>
          DOMAIN todo[q].notes = {} /\ DOMAIN todo[q].search = {}
    BY <2>1, <2>2 DEF KeepsOrder
  <2> QED BY <2>4, <2>5, <2>6
\* Past its note and search row, a process that is not ready has relationships left.
<1>4. \A q \in running :
        ~Ready(q) /\ DOMAIN todo[q].notes = {} /\ DOMAIN todo[q].search = {} =>
          DOMAIN todo[q].relationships # {}
  <2> SUFFICES ASSUME NEW q \in running, DOMAIN todo[q].notes = {}, DOMAIN todo[q].search = {},
                      DOMAIN todo[q].relationships = {}
               PROVE  Ready(q)
    OBVIOUS
  <2>1. todo[q].notes = Nothing /\ todo[q].search = Nothing /\ todo[q].relationships = Nothing
    BY <1>1, LeftIsPart
  <2> QED BY <2>1 DEF Ready
<1>5. CASE DOMAIN todo[r].notes # {}
  <2>1. PICK n \in NoteIds : n \in DOMAIN todo[r].notes
    BY <1>1, <1>5, LeftIsPart
  <2>2. ~Unlocked(r, "notes", n)
    BY <2>1 DEF Ready
  <2>3. PICK q \in running : n \in DOMAIN written[q].notes
    BY <1>1, <1>2, <2>2, LockIsHeld
  <2>4. Stage(r) = 1 /\ Stage(q) \in {2, 3}
    BY <1>3, <1>5, <2>3 DEF Stage
  <2> QED BY <2>1, <2>3, <2>4 DEF Ahead, WaitsFor
<1>6. CASE DOMAIN todo[r].notes = {} /\ DOMAIN todo[r].search # {}
  <2>1. PICK n \in NoteIds : n \in DOMAIN todo[r].search
    BY <1>1, <1>6, LeftIsPart
  <2>2. todo[r].notes = Nothing
    BY <1>1, <1>6, LeftIsPart
  <2>3. ~Unlocked(r, "search", n)
    BY <2>1, <2>2 DEF Ready
  <2>4. PICK q \in running : n \in DOMAIN written[q].search
    BY <1>1, <1>2, <2>3, LockIsHeld
  <2>5. Stage(r) = 2 /\ Stage(q) = 3
    BY <1>3, <1>6, <2>4 DEF Stage
  <2> QED BY <2>1, <2>2, <2>4, <2>5 DEF Ahead, WaitsFor
<1>7. CASE DOMAIN todo[r].notes = {} /\ DOMAIN todo[r].search = {}
  <2>1. First(r) \in Pairs /\ IsFirst(First(r), r)
    BY <1>1, <1>4, <1>7, FirstIsFirst
  <2>2. PICK p \in Pairs : p = First(r)
    BY <2>1
  <2>3. ~Unlocked(r, "relationships", p)
    BY <2>1, <2>2 DEF Ready, IsFirst
  <2>4. PICK q \in running : p \in DOMAIN written[q].relationships
    BY <1>1, <1>2, <2>3, LockIsHeld
  <2>5. DOMAIN todo[q].notes = {} /\ DOMAIN todo[q].search = {}
    BY <1>3, <2>4
  <2>6. WaitsFor(r, q)
    BY <2>1, <2>2, <2>4 DEF WaitsFor
  <2>7. ASSUME ~Ready(q) PROVE Ahead(q, r)
    <3>1. First(q) \in DOMAIN todo[q].relationships
      BY <1>1, <1>4, <2>5, <2>7, FirstIsFirst DEF IsFirst
    <3>2. Before(p, First(q))
      BY <1>1, <2>4, <3>1 DEF KeepsOrder
    <3>3. Stage(r) = 3 /\ Stage(q) = 3
      BY <1>7, <2>5 DEF Stage
    <3> QED BY <2>2, <3>2, <3>3 DEF Ahead
  <2> QED BY <2>6, <2>7
<1> QED BY <1>5, <1>6, <1>7

\* Processes that are not ready, however many, do not all wait for each other.
LEMMA SomeAreReady ==
  ASSUME IInv
  PROVE  NoCircle
<1> SUFFICES ASSUME NEW S \in SUBSET running, S # {}, \A r \in S : ~Ready(r),
                    \A r \in S : \A q \in running \ S : ~WaitsFor(r, q)
             PROVE  FALSE
  BY DEF NoCircle
<1> DEFINE Waits == {x \in S \X S : Ahead(x[2], x[1])}
<1>1. IsFiniteSet(S) /\ S \subseteq Processes
  BY FS_Subset DEF IInv, Types
<1>2. \A r \in S : Stage(r) \in {1, 2, 3}
  BY DEF Stage
<1>3. \A r \in S : Stage(r) = 3 => First(r) \in Pairs
  <2> SUFFICES ASSUME NEW r \in S, Stage(r) = 3 PROVE First(r) \in Pairs
    OBVIOUS
  <2>1. DOMAIN todo[r].notes = {} /\ DOMAIN todo[r].search = {}
    BY DEF Stage
  <2>2. DOMAIN todo[r].relationships # {}
    <3> SUFFICES ASSUME DOMAIN todo[r].relationships = {} PROVE Ready(r)
      OBVIOUS
    <3>1. todo[r].notes = Nothing /\ todo[r].search = Nothing /\ todo[r].relationships = Nothing
      BY <1>1, <2>1, LeftIsPart
    <3> QED BY <3>1 DEF Ready
  <2> QED BY <1>1, <2>2, FirstIsFirst
<1>4. \A r \in S : ~Ahead(r, r)
  BY <1>2, <1>3, BeforeIsOrder DEF Ahead
<1>5. \A r \in S, q \in S, s \in S : Ahead(q, r) /\ Ahead(s, q) => Ahead(s, r)
  BY <1>2, <1>3, BeforeIsOrder DEF Ahead
<1>6. \A r \in S : <<r, r>> \notin Waits
  BY <1>4
<1>7. \A r \in S, q \in S, s \in S :
        <<r, q>> \in Waits /\ <<q, s>> \in Waits => <<r, s>> \in Waits
  BY <1>5
<1>8. PICK r \in S : \A q \in S : <<r, q>> \notin Waits
  <2> HIDE DEF Waits
  <2> QED BY <1>1, <1>6, <1>7, SomeAreLast
<1>9. PICK q \in S : Ahead(q, r)
  <2>1. PICK q \in running : WaitsFor(r, q) /\ (Ready(q) \/ Ahead(q, r))
    BY WaitsForOneAhead
  <2>2. q \in S
    BY <2>1
  <2> QED BY <2>1, <2>2
<1> QED BY <1>8, <1>9

-------------------------------------------------------------------------------
(* The theorems. *)
LEMMA InitialState == Init => IInv
<1> SUFFICES ASSUME Init PROVE IInv
  OBVIOUS
<1>1. FirstNote \in NoteRow /\ FirstNote.is_deleted = FALSE
      /\ FirstNote.hash = Hash(FirstNote.title, FirstNote.content)
  <2>1. (CHOOSE t \in Titles : TRUE) \in Titles /\ (CHOOSE c \in Contents : TRUE) \in Contents
    BY TextsAssumption
  <2> QED BY <2>1 DEF FirstNote, NoteRow, Hash
<1>2. Body(FirstNote) \in Titles \X Contents
  BY <1>1 DEF Body, NoteRow
<1>3. /\ notes = [n \in NoteIds |-> FirstNote]
      /\ search = [n \in NoteIds |-> {Body(FirstNote)}]
      /\ todo = [q \in Processes |-> Idle] /\ written = [q \in Processes |-> Idle]
      /\ running = {} /\ served = {} /\ overlapped = {}
  BY DEF Init
<1>4. PICK related \in SUBSET Pairs :
        relationships = [p \in related |-> NewRelationship(1, FALSE)]
  BY DEF Init
<1>5. NewRelationship(1, FALSE) \in RelationshipRow
  BY DEF NewRelationship, RelationshipRow
<1>6. \A q \in Processes :
        /\ todo[q] = Idle /\ written[q] = Idle
        /\ todo[q].touches = {} /\ todo[q].cascade = {} /\ todo[q].inserts = {}
        /\ DOMAIN written[q].notes = {} /\ DOMAIN written[q].search = {}
        /\ DOMAIN written[q].relationships = {}
        /\ DOMAIN todo[q].notes = {} /\ DOMAIN todo[q].search = {}
        /\ DOMAIN todo[q].relationships = {}
  BY <1>3, IdlePlan
<1>7. \A q \in Processes : /\ DOMAIN NotesOf(q) = {} /\ DOMAIN SearchOf(q) = {}
                           /\ DOMAIN RelationshipsOf(q) = {}
  BY <1>6 DEF NotesOf, SearchOf, RelationshipsOf, Whole
<1>8. Types
  <2>1. notes \in [NoteIds -> NoteRow]
    BY <1>1, <1>3
  <2>2. \A n \in NoteIds : \E t \in Titles, c \in Contents : search[n] \in {{}, {<<t, c>>}}
    BY <1>2, <1>3
  <2>3. /\ DOMAIN relationships \subseteq Pairs
        /\ relationships \in [DOMAIN relationships -> RelationshipRow]
    BY <1>4, <1>5
  <2> QED BY <1>3, <1>6, <2>1, <2>2, <2>3 DEF Types
<1>9. Transactions
  BY <1>3, IdlePlan DEF Transactions, IsFunction
<1>10. PlansFit /\ InsertsAlone
  BY <1>6, <1>7 DEF PlansFit, PlanFits, InsertsAlone, InsertsFit
<1>11. OverlapsAreSeen /\ IndexDropped /\ PlansAreSound /\ CascadesReach
  BY <1>6, <1>7 DEF OverlapsAreSeen, IndexDropped, PlansAreSound, CascadesReach
<1>12. SearchFollowsUnlessOverlapped /\ LiveNotesHaveSearchRow
  BY <1>1, <1>3 DEF SearchFollowsUnlessOverlapped, LiveNotesHaveSearchRow, Live
<1>13. RelationshipsFollowUnlessOverlapped
  <2>1. \A p \in LiveRelationships : p[1] \in NoteIds /\ p[2] \in NoteIds
    BY <1>4, NoteIdsAssumption DEF LiveRelationships
  <2> QED BY <1>1, <1>3, <2>1 DEF RelationshipsFollowUnlessOverlapped, Live
<1>14. OrderIsKept
  <2>1. \A q \in Processes : \A part \in Parts :
          IsFunction(todo[q][part]) /\ DOMAIN todo[q][part] = {}
    BY <1>6, NothingIsEmpty DEF Idle, Parts
  <2> QED BY <1>6, <1>7, <2>1 DEF OrderIsKept, KeepsOrder
<1>15. IsFiniteSet(running)
  BY <1>3, FS_EmptySet
<1> QED BY <1>8, <1>9, <1>10, <1>11, <1>12, <1>13, <1>14, <1>15 DEF IInv

\* Every step keeps the invariant.
LEMMA StepKeeps == IInv /\ [Next]_vars => IInv'
<1> SUFFICES ASSUME IInv, [Next]_vars PROVE IInv'
  OBVIOUS
<1>1. CASE UNCHANGED vars
  <2>1. UNCHANGED <<notes, search, relationships, todo, written, running, served, overlapped>>
    BY <1>1 DEF vars, tables
  <2>2. Types' /\ Transactions'
    BY <2>1 DEF IInv, Types, Transactions
  <2>3. \A q \in Processes : /\ NotesOf(q)' = NotesOf(q) /\ SearchOf(q)' = SearchOf(q)
                             /\ RelationshipsOf(q)' = RelationshipsOf(q)
    BY <2>1 DEF NotesOf, SearchOf, RelationshipsOf, Whole
  <2>4. \A q \in Processes : \A n :
          NoteBy(q, n)' = NoteBy(q, n) /\ IndexBy(q, n)' = IndexBy(q, n)
    BY <2>1, <2>3 DEF NoteBy, IndexBy
  <2>5. PlansFit' /\ InsertsAlone'
    BY <2>1, <2>3 DEF IInv, PlansFit, PlanFits, InsertsAlone, InsertsFit, Live
  <2>6. OverlapsAreSeen' /\ IndexDropped' /\ PlansAreSound'
    BY <2>1, <2>3, <2>4 DEF IInv, OverlapsAreSeen, IndexDropped, PlansAreSound
  <2>7. CascadesReach'
    BY <2>1, <2>3, <2>4 DEF IInv, CascadesReach, Live, LiveRelationships
  <2>8. SearchFollowsUnlessOverlapped' /\ RelationshipsFollowUnlessOverlapped'
        /\ LiveNotesHaveSearchRow'
    BY <2>1 DEF IInv, SearchFollowsUnlessOverlapped, RelationshipsFollowUnlessOverlapped,
                LiveNotesHaveSearchRow, Live, LiveRelationships
  <2>9. OrderIsKept' /\ IsFiniteSet(running)'
    BY <2>1, <2>3 DEF IInv, OrderIsKept, KeepsOrder
  <2> QED BY <2>2, <2>5, <2>6, <2>7, <2>8, <2>9 DEF IInv
<1>2. ASSUME NEW r \in Requests, Ask(r) PROVE IInv'
  <2>1. r \in Processes
    BY DEF Processes
  <2> QED BY <1>2, <2>1, AskKeeps
<1>3. CASE BeginRepair
  BY <1>3, BeginRepairKeeps
<1>4. ASSUME NEW r \in Processes, Proceed(r) PROVE IInv'
  <2>1. "notes" \in Parts /\ "search" \in Parts /\ "relationships" \in Parts
    BY DEF Parts
  <2>2. ASSUME NEW n \in NoteIds, UpdateNoteRow(r, n) PROVE IInv'
    BY <2>1, <2>2, StatementKeeps DEF UpdateNoteRow
  <2>3. ASSUME NEW n \in NoteIds, UpdateSearchRow(r, n) PROVE IInv'
    <3>1. DOMAIN todo[r].notes = {}
      BY <2>3, NothingIsEmpty DEF UpdateSearchRow
    <3> QED BY <2>1, <2>3, <3>1, StatementKeeps DEF UpdateSearchRow
  <2>4. ASSUME NEW p \in Pairs, UpdateRelationshipRow(r, p) PROVE IInv'
    BY <2>1, <2>4, StatementKeeps DEF UpdateRelationshipRow
  <2> QED BY <1>4, <2>2, <2>3, <2>4, SelectCascadeKeeps, RelationshipConflictKeeps, CommitKeeps
          DEF Proceed
<1> QED BY <1>1, <1>2, <1>3, <1>4 DEF Next

\* What is kept by every statement of every request and of the repair script.
THEOREM NoteRequestsInvariance == Spec => []IInv
<1>1. Init => IInv
  BY InitialState
<1>2. IInv /\ [Next]_vars => IInv'
  BY StepKeeps
<1> QED BY <1>1, <1>2, PTL DEF Spec

\* Rows are well-formed whatever columns overlapping UPDATEs set, and a request that is over
\* has left neither a lock nor a change behind (database/session.py).
THEOREM NoteRequestsTyped == Spec => []TypeOK
<1>1. IInv => TypeOK
  BY DEF IInv, Types, TypeOK
<1> QED BY <1>1, NoteRequestsInvariance, PTL

\* Search row and hash of a note that is not deleted follow it, unless two requests have
\* worked on it at the same time.
THEOREM SearchFollows == Spec => []SearchFollowsUnlessOverlapped
<1>1. IInv => SearchFollowsUnlessOverlapped
  BY DEF IInv
<1> QED BY <1>1, NoteRequestsInvariance, PTL

\* A live relationship has lost an end only if requests on that note have overlapped.
THEOREM RelationshipsFollow == Spec => []RelationshipsFollowUnlessOverlapped
<1>1. IInv => RelationshipsFollowUnlessOverlapped
  BY DEF IInv
<1> QED BY <1>1, NoteRequestsInvariance, PTL

\* However requests overlap, a note that is not deleted can be found.
THEOREM LiveNotesAreIndexed == Spec => []LiveNotesHaveSearchRow
<1>1. IInv => LiveNotesHaveSearchRow
  BY DEF IInv
<1> QED BY <1>1, NoteRequestsInvariance, PTL

\* However many requests overlap, with whatever each read before the others committed, no
\* deleted note or relationship comes back, and no relationship's row goes.
THEOREM DeletionsStand == Spec => [][DeletedStays]_vars
<1>1. IInv /\ [Next]_vars => [DeletedStays]_vars
  BY StepsReviveNothing
<1> QED BY <1>1, NoteRequestsInvariance, PTL DEF Spec

\* A run of the repair script leaves deleted every relationship that dangled when it began,
\* whatever requests do meanwhile.
THEOREM RepairRepairs == Spec => [][RepairsWhatItSaw]_vars
<1>1. Init => ScriptDeletes
  <2> SUFFICES ASSUME Init PROVE ScriptDeletes
    OBVIOUS
  <2>1. todo[Script] = Idle /\ written[Script] = Idle
    BY DEF Init, Processes
  <2>2. DOMAIN RelationshipsOf(Script) = {}
    BY <2>1, IdlePlan DEF RelationshipsOf, Whole
  <2> QED BY <2>1, <2>2, IdlePlan DEF ScriptDeletes
<1>2. IInv /\ ScriptDeletes /\ [Next]_vars => ScriptDeletes' /\ [RepairsWhatItSaw]_vars
  BY StepLetsRepair
<1> QED BY <1>1, <1>2, NoteRequestsInvariance, PTL DEF Spec

\* However many requests overlap and whatever rows they write, no two or more of those that
\* have begun wait for each other's rows alone: the database never has a deadlock to break.
THEOREM NobodyWaitsInACircle == Spec => []NoCircle
<1>1. IInv => NoCircle
  BY SomeAreReady
<1> QED BY <1>1, NoteRequestsInvariance, PTL
===============================================================================
