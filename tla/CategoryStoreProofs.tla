-------------------------- MODULE CategoryStoreProofs --------------------------
(***************************************************************************)
(* CategoryStore is well typed and implements Labels, for any notes and    *)
(* names and any bounds: each request changes what readers are shown by    *)
(* one operation on the labelling, or not at all.  Its rows only go        *)
(* forward: a deletion is final.                                           *)
(***************************************************************************)
EXTENDS CategoryStore, TLAPS

\* What readers are shown, by the names of the variables it maps to.
LabelsSeen == [c \in LiveCategories |-> categories[c].name]
RetiredSeen == (1..(serial - 1)) \ LiveCategories

\* A row expires by being deleted for long; nothing brings it back.
ExpiredAreDeleted ==
  /\ \A c \in DOMAIN categories : categories[c].expired => categories[c].is_deleted
  /\ \A p \in DOMAIN links : links[p].expired => links[p].is_deleted

IInv == TypeOK /\ ExpiredAreDeleted

\* A step of the labelling, or a stutter.
LabelStep == [LabelsShown!LabelsNext]_(LabelsShown!labelling)

-------------------------------------------------------------------------------
\* Writing a row gives a table again.
LEMMA PutTable ==
  ASSUME NEW keys, NEW rows, NEW table, IsTable(table, keys, rows),
         NEW key \in keys, NEW row \in rows
  PROVE  IsTable(Put(table, key, row), keys, rows)
BY DEF IsTable, Put

\* Erasing rows gives a table again.
LEMMA WithoutTable ==
  ASSUME NEW keys, NEW rows, NEW table, IsTable(table, keys, rows), NEW gone
  PROVE  IsTable(Without(table, gone), keys, rows)
BY DEF IsTable, Without, Restrict

\* The parts of the type invariant.
LEMMA TypeFacts ==
  ASSUME TypeOK
  PROVE  /\ serial \in Nat /\ serial \notin DOMAIN categories
         /\ DOMAIN categories \subseteq 1..(serial - 1)
         /\ 1..(serial - 1) \subseteq CategoryIds
         /\ \A c \in DOMAIN categories : categories[c] \in CategoryRow
         /\ DOMAIN links \subseteq Pairs
         /\ \A p \in DOMAIN links : /\ links[p] \in LinkRow
                                    /\ p[2] \in DOMAIN categories
                                    /\ p[1] \in Notes
<1>1. serial \in 1..(MaxCategories + 1) /\ MaxCategories \in Nat
  BY BoundsAssumption DEF TypeOK
<1>2. DOMAIN categories \subseteq 1..(serial - 1) /\ DOMAIN links \subseteq Pairs
  BY DEF TypeOK, IsTable
<1>3. /\ \A c \in DOMAIN categories : categories[c] \in CategoryRow
      /\ \A p \in DOMAIN links : links[p] \in LinkRow /\ p[2] \in DOMAIN categories
  BY DEF TypeOK, IsTable
<1>4. \A p \in DOMAIN links : p[1] \in Notes
  BY <1>2 DEF Pairs
<1> QED BY <1>1, <1>2, <1>3, <1>4 DEF CategoryIds

\* A step that changes nothing that is shown is a stutter of the labelling.
LEMMA Unseen ==
  UNCHANGED <<LiveNotes, LabelsSeen, ShownLinks, RetiredSeen>> => LabelStep
BY DEF LabelStep, LabelsShown!labelling, LabelsSeen, RetiredSeen

-------------------------------------------------------------------------------
(* Rows. *)
LEMMA NewCategoryRow ==
  ASSUME NEW name \in Names, NEW v \in Versions, NEW d \in BOOLEAN
  PROVE  /\ NewCategory(name, v, d) \in CategoryRow
         /\ NewCategory(name, v, d).name = name
         /\ NewCategory(name, v, d).is_deleted = d
         /\ NewCategory(name, v, d).expired = FALSE
<1>1. v \in 1..(MaxVersion + 1)
  BY BoundsAssumption DEF Versions
<1> QED BY <1>1 DEF NewCategory, CategoryRow

\* A new link is a row of the table.
LEMMA NewLinkRow ==
  ASSUME NEW v \in Versions, NEW d \in BOOLEAN
  PROVE  NewLink(v, d) \in LinkRow /\ ~NewLink(v, d).expired
<1>1. v \in 1..(MaxVersion + 1)
  BY BoundsAssumption DEF Versions
<1> QED BY <1>1 DEF NewLink, LinkRow

\* A deleted row is a row of its table, if the raised version is one.
LEMMA TombstoneRow ==
  /\ \A row \in CategoryRow : row.version <= MaxVersion =>
       Tombstone(row) \in CategoryRow /\ Tombstone(row).is_deleted
  /\ \A row \in LinkRow : row.version <= MaxVersion =>
       /\ Tombstone(row) \in LinkRow
       /\ Tombstone(row).is_deleted /\ ~Tombstone(row).expired
<1>1. \A v \in 1..(MaxVersion + 1) : v <= MaxVersion => v + 1 \in 1..(MaxVersion + 1)
  BY BoundsAssumption
<1>2. ASSUME NEW row \in CategoryRow, row.version <= MaxVersion
      PROVE  Tombstone(row) \in CategoryRow /\ Tombstone(row).is_deleted
  <2>1. row.version + 1 \in 1..(MaxVersion + 1)
    BY <1>1, <1>2 DEF CategoryRow
  <2> QED BY <2>1, Zenon DEF CategoryRow, Tombstone
<1>3. ASSUME NEW row \in LinkRow, row.version <= MaxVersion
      PROVE  /\ Tombstone(row) \in LinkRow
             /\ Tombstone(row).is_deleted /\ ~Tombstone(row).expired
  <2>1. row.version + 1 \in 1..(MaxVersion + 1)
    BY <1>1, <1>3 DEF LinkRow
  <2> QED BY <2>1, Zenon DEF LinkRow, Tombstone
<1> QED BY <1>2, <1>3

\* A pushed category stays deleted, or becomes so and keeps its name.
LEMMA PushedCategoryRow ==
  ASSUME NEW row \in CategoryRow, NEW name \in Names, NEW v \in Versions, NEW d \in BOOLEAN
  PROVE  /\ PushedCategory(row, name, v, d) \in CategoryRow
         /\ PushedCategory(row, name, v, d).is_deleted = (row.is_deleted \/ d)
         /\ ~d => PushedCategory(row, name, v, d).name = name
<1>1. v \in 1..(MaxVersion + 1) /\ v + 1 \in 1..(MaxVersion + 1)
  BY BoundsAssumption DEF Versions
<1>2. row.is_deleted \in BOOLEAN /\ row.name \in Names
  BY DEF CategoryRow
<1>3. CASE v > row.version \/ d
  <2> DEFINE given == IF d THEN row.name ELSE name
  <2>1. PushedCategory(row, name, v, d) =
          [row EXCEPT !.name = given, !.is_deleted = row.is_deleted \/ d, !.version = v]
    BY <1>3 DEF PushedCategory
  <2>2. given \in Names /\ (row.is_deleted \/ d) \in BOOLEAN /\ (~d => given = name)
    BY <1>2
  <2> HIDE DEF given
  <2> QED BY <1>1, <2>1, <2>2, Zenon DEF CategoryRow
<1>4. CASE ~(v > row.version \/ d)
  <2> DEFINE version == IF name = row.name THEN v ELSE v + 1
  <2>1. PushedCategory(row, name, v, d) = [row EXCEPT !.name = name, !.version = version]
    BY <1>4 DEF PushedCategory
  <2>2. version \in 1..(MaxVersion + 1)
    BY <1>1
  <2>3. (row.is_deleted \/ d) = row.is_deleted
    BY <1>2, <1>4
  <2> HIDE DEF version
  <2> QED BY <1>4, <2>1, <2>2, <2>3, Zenon DEF CategoryRow
<1> QED BY <1>3, <1>4

\* What a device's push makes of a link is a row of the table.
LEMMA PushedLinkRow ==
  ASSUME NEW row \in LinkRow, NEW v \in Versions, NEW d \in BOOLEAN,
         row.expired => row.is_deleted
  PROVE  LET new == Flush(row, [row EXCEPT !.is_deleted = @ \/ d, !.version = v])
         IN  new \in LinkRow /\ (new.expired => new.is_deleted)
<1>1. v \in 1..(MaxVersion + 1) /\ (row.is_deleted \/ d) \in BOOLEAN
  BY BoundsAssumption DEF Versions, LinkRow
<1>2. [row EXCEPT !.is_deleted = @ \/ d, !.version = v] \in LinkRow
  BY <1>1 DEF LinkRow
<1> QED BY <1>2 DEF Flush, LinkRow

\* Ageing changes nothing but the age.
LEMMA AgedRow ==
  /\ \A row \in CategoryRow :
       /\ Aged(row) \in CategoryRow /\ Aged(row).name = row.name
       /\ Aged(row).is_deleted = row.is_deleted /\ Aged(row).expired = row.is_deleted
  /\ \A row \in LinkRow :
       /\ Aged(row) \in LinkRow
       /\ Aged(row).is_deleted = row.is_deleted /\ Aged(row).expired = row.is_deleted
BY DEF CategoryRow, LinkRow, Aged

-------------------------------------------------------------------------------
(* Steps, by the table they write. *)
LEMMA RefuseImplements ==
  ASSUME IInv, NEW what, Refuse(what)
  PROVE  IInv' /\ LabelStep
<1>1. UNCHANGED <<notes, categories, links, serial>>
  BY DEF Refuse
<1>2. IInv'
  BY <1>1 DEF IInv, TypeOK, ExpiredAreDeleted
<1>3. UNCHANGED <<LiveNotes, LabelsSeen, ShownLinks, RetiredSeen>>
  BY <1>1 DEF LiveNotes, LabelsSeen, ShownLinks, RetiredSeen, LiveCategories, Shown, LiveLinks
<1> QED BY <1>2, <1>3, Unseen

\* Deleting a live note removes it with its marks; a deleted one has none.
LEMMA DeleteNoteImplements ==
  ASSUME IInv, NEW n \in Notes, DeleteNote(n)
  PROVE  IInv' /\ LabelStep
<1>1. /\ notes[n] # "erased" /\ notes' = [notes EXCEPT ![n] = "deleted"]
      /\ UNCHANGED <<categories, links, serial>>
  BY DEF DeleteNote
<1>2. /\ notes' \in [Notes -> {"live", "deleted", "expired", "erased"}]
      /\ notes'[n] = "deleted" /\ \A m \in Notes \ {n} : notes'[m] = notes[m]
  BY <1>1 DEF IInv, TypeOK
<1>3. IInv'
  BY <1>1, <1>2 DEF IInv, TypeOK, ExpiredAreDeleted
<1>4. LiveNotes' = LiveNotes \ {n}
  BY <1>2 DEF LiveNotes
<1>5. LiveCategories' = LiveCategories /\ LiveLinks' = LiveLinks
  BY <1>1 DEF LiveCategories, LiveLinks
<1>6. LabelsSeen' = LabelsSeen /\ RetiredSeen' = RetiredSeen
  BY <1>1, <1>5 DEF LabelsSeen, RetiredSeen
<1>7. ShownLinks' = {m \in ShownLinks : m[1] # n}
  BY <1>1, <1>4, <1>5 DEF ShownLinks, Shown
<1>8. CASE n \in LiveNotes
  <2>1. LabelsShown!RemoveNote(n)
    BY <1>4, <1>6, <1>7, <1>8 DEF LabelsShown!RemoveNote, LabelsSeen, RetiredSeen
  <2> QED BY <1>3, <2>1 DEF LabelStep, LabelsShown!LabelsNext
<1>9. CASE n \notin LiveNotes
  <2>1. LiveNotes' = LiveNotes
    BY <1>4, <1>9
  <2>2. ShownLinks' = ShownLinks
    BY <1>7, <1>9 DEF ShownLinks, Shown
  <2> QED BY <1>3, <1>6, <2>1, <2>2, Unseen
<1> QED BY <1>8, <1>9

\* The insert of a category adds a label; that of a deleted one uses up its id.
LEMMA InsertCategoryImplements ==
  ASSUME IInv, NEW name \in Names, NEW v \in Versions, NEW d \in BOOLEAN,
         InsertCategory(NewCategory(name, v, d))
  PROVE  IInv' /\ LabelStep
<1> DEFINE row == NewCategory(name, v, d)
<1>1. row \in CategoryRow /\ row.name = name /\ row.is_deleted = d /\ row.expired = FALSE
  BY NewCategoryRow
<1> HIDE DEF row
<1>2. /\ serial <= MaxCategories /\ row.name \notin NamesTaken(DOMAIN categories)
      /\ categories' = Put(categories, serial, row) /\ serial' = serial + 1
      /\ UNCHANGED <<notes, links>>
  BY DEF InsertCategory, row
<1>3. /\ serial \in Nat /\ serial \notin DOMAIN categories
      /\ DOMAIN categories \subseteq 1..(serial - 1)
      /\ \A p \in DOMAIN links : p[2] \in DOMAIN categories
  BY TypeFacts DEF IInv
<1>4. /\ serial \in 1..MaxCategories /\ serial \in 1..(serial' - 1)
      /\ serial' \in 1..(MaxCategories + 1)
      /\ 1..(serial' - 1) = 1..(serial - 1) \cup {serial} /\ serial \notin 1..(serial - 1)
  BY <1>2, BoundsAssumption DEF IInv, TypeOK
<1>5. /\ IsTable(categories', 1..(serial' - 1), CategoryRow)
      /\ DOMAIN categories' = DOMAIN categories \cup {serial}
      /\ categories'[serial] = row
      /\ \A c \in DOMAIN categories : categories'[c] = categories[c]
  <2>1. IsTable(categories, 1..(serial' - 1), CategoryRow)
    BY <1>4 DEF IInv, TypeOK, IsTable
  <2>2. IsTable(categories', 1..(serial' - 1), CategoryRow)
    BY <1>1, <1>2, <1>4, <2>1, PutTable
  <2> QED BY <1>2, <1>3, <2>2 DEF Put
<1>6. IInv'
  <2>1. TypeOK'
    BY <1>2, <1>4, <1>5 DEF IInv, TypeOK
  <2>2. ExpiredAreDeleted'
    BY <1>1, <1>2, <1>5 DEF IInv, ExpiredAreDeleted
  <2> QED BY <2>1, <2>2 DEF IInv
<1>7. LiveCategories' = IF d THEN LiveCategories ELSE LiveCategories \cup {serial}
  BY <1>1, <1>5 DEF LiveCategories
<1>8. LiveCategories \subseteq DOMAIN categories /\ serial \notin LiveCategories
  BY <1>3 DEF LiveCategories
<1>9. LiveNotes' = LiveNotes /\ ShownLinks' = ShownLinks
  <2>1. LiveNotes' = LiveNotes /\ LiveLinks' = LiveLinks
    BY <1>2 DEF LiveNotes, LiveLinks
  <2>2. \A p \in DOMAIN links : p[2] \in LiveCategories' <=> p[2] \in LiveCategories
    BY <1>3, <1>7, <1>8
  <2> QED BY <1>2, <2>1, <2>2 DEF ShownLinks, Shown
<1>10. serial \in LabelsShown!Unused /\ serial \in CategoryIds
  BY <1>4, <1>8 DEF LabelsShown!Unused, CategoryIds
<1>11. CASE d
  <2>1. LabelsSeen' = LabelsSeen
    BY <1>5, <1>7, <1>8, <1>11 DEF LabelsSeen
  <2>2. RetiredSeen' = RetiredSeen \cup {serial}
    BY <1>4, <1>7, <1>8, <1>11 DEF RetiredSeen
  <2>3. LabelsShown!DiscardLabel(serial)
    BY <1>9, <1>10, <2>1, <2>2 DEF LabelsShown!DiscardLabel, LabelsSeen, RetiredSeen
  <2> QED BY <1>6, <1>10, <2>3 DEF LabelStep, LabelsShown!LabelsNext
<1>12. CASE ~d
  <2>1. LabelsSeen' = [c \in DOMAIN LabelsSeen \cup {serial} |->
                         IF c = serial THEN name ELSE LabelsSeen[c]]
    BY <1>1, <1>5, <1>7, <1>8, <1>12 DEF LabelsSeen
  <2>2. RetiredSeen' = RetiredSeen
    BY <1>4, <1>7, <1>8, <1>12 DEF RetiredSeen
  <2>3. name \notin LabelsShown!NamesOf(LiveCategories)
    BY <1>1, <1>2, <1>8 DEF LabelsShown!NamesOf, NamesTaken
  <2>4. LabelsShown!AddLabel(serial, name)
    BY <1>9, <1>10, <2>1, <2>2, <2>3 DEF LabelsShown!AddLabel, LabelsSeen, RetiredSeen
  <2> QED BY <1>6, <1>10, <2>4 DEF LabelStep, LabelsShown!LabelsNext
<1> QED BY <1>11, <1>12

\* A category that is written stays deleted, if it was.  Deleting a live one removes its
\* label with its marks, and another name renames it.
LEMMA WriteCategoryImplements ==
  ASSUME IInv, NEW c \in DOMAIN categories, NEW row \in CategoryRow, WriteCategory(c, row),
         categories[c].is_deleted => row.is_deleted,
         row.is_deleted \/ row.name \notin NamesTaken(DOMAIN categories \ {c})
  PROVE  IInv' /\ LabelStep
<1> DEFINE new == Flush(categories[c], row)
<1>1. categories[c] \in CategoryRow /\ c \in 1..(serial - 1) /\ c \in CategoryIds
  BY TypeFacts DEF IInv
<1>2. /\ new \in CategoryRow /\ new.name = row.name /\ new.is_deleted = row.is_deleted
      /\ new.expired => categories[c].expired /\ new = categories[c]
  BY <1>1 DEF Flush, CategoryRow
<1> HIDE DEF new
<1>3. categories' = Put(categories, c, new) /\ UNCHANGED <<notes, links, serial>>
  BY DEF WriteCategory, new
<1>4. /\ IsTable(categories', 1..(serial - 1), CategoryRow)
      /\ DOMAIN categories' = DOMAIN categories
      /\ categories'[c] = new
      /\ \A d \in DOMAIN categories \ {c} : categories'[d] = categories[d]
  <2>1. IsTable(categories, 1..(serial - 1), CategoryRow)
    BY DEF IInv, TypeOK
  <2>2. IsTable(categories', 1..(serial - 1), CategoryRow)
    BY <1>1, <1>2, <1>3, <2>1, PutTable
  <2> QED BY <1>3, <2>2 DEF Put
<1>5. IInv'
  <2>1. TypeOK'
    BY <1>3, <1>4 DEF IInv, TypeOK
  <2>2. ExpiredAreDeleted'
    BY <1>2, <1>3, <1>4 DEF IInv, ExpiredAreDeleted
  <2> QED BY <2>1, <2>2 DEF IInv
<1>6. LiveCategories' = IF row.is_deleted THEN LiveCategories \ {c} ELSE LiveCategories
  BY <1>2, <1>4 DEF LiveCategories
<1>7. LiveNotes' = LiveNotes /\ LiveLinks' = LiveLinks
  BY <1>3 DEF LiveNotes, LiveLinks
<1>8. CASE c \notin LiveCategories
  <2>1. LiveCategories' = LiveCategories
    BY <1>6, <1>8
  <2>2. LabelsSeen' = LabelsSeen
    BY <1>4, <1>8, <2>1 DEF LabelsSeen, LiveCategories
  <2>3. ShownLinks' = ShownLinks /\ RetiredSeen' = RetiredSeen
    BY <1>3, <1>7, <2>1 DEF ShownLinks, Shown, RetiredSeen
  <2> QED BY <1>5, <1>7, <2>2, <2>3, Unseen
<1>9. CASE c \in LiveCategories /\ row.is_deleted
  <2>1. LabelsSeen' = LabelsShown!Restrict(LabelsSeen, DOMAIN LabelsSeen \ {c})
    BY <1>4, <1>6, <1>9 DEF LabelsSeen, LiveCategories, LabelsShown!Restrict, Restrict
  <2>2. RetiredSeen' = RetiredSeen \cup {c}
    BY <1>1, <1>3, <1>6, <1>9 DEF RetiredSeen
  <2>3. ShownLinks' = {m \in ShownLinks : m[2] # c}
    BY <1>3, <1>6, <1>7, <1>9 DEF ShownLinks, Shown
  <2>4. LabelsShown!RemoveLabel(c)
    BY <1>7, <1>9, <2>1, <2>2, <2>3 DEF LabelsShown!RemoveLabel, LabelsSeen, RetiredSeen
  <2> QED BY <1>1, <1>5, <2>4 DEF LabelStep, LabelsShown!LabelsNext
<1>10. CASE c \in LiveCategories /\ ~row.is_deleted
  <2>1. LiveCategories' = LiveCategories
    BY <1>6, <1>10
  <2>2. LabelsSeen' = [LabelsSeen EXCEPT ![c] = row.name]
    BY <1>2, <1>4, <1>10, <2>1 DEF LabelsSeen, LiveCategories
  <2>3. ShownLinks' = ShownLinks /\ RetiredSeen' = RetiredSeen
    BY <1>3, <1>7, <2>1 DEF ShownLinks, Shown, RetiredSeen
  <2>4. row.name \notin LabelsShown!NamesOf(LiveCategories \ {c})
    BY <1>10 DEF LabelsShown!NamesOf, NamesTaken, LiveCategories
  <2>5. LabelsShown!RenameLabel(c, row.name)
    BY <1>7, <1>10, <2>2, <2>3, <2>4 DEF LabelsShown!RenameLabel, LabelsSeen, RetiredSeen
  <2>6. row.name \in Names
    BY DEF CategoryRow
  <2> QED BY <1>1, <1>5, <2>5, <2>6 DEF LabelStep, LabelsShown!LabelsNext
<1> QED BY <1>8, <1>9, <1>10

\* A live link marks the note; a deleted one does not.
LEMMA WriteLinkImplements ==
  ASSUME IInv, NEW n \in LiveNotes, NEW c \in LiveCategories, NEW row \in LinkRow,
         row.expired => row.is_deleted, WriteLink(<<n, c>>, row)
  PROVE  IInv' /\ LabelStep
<1> DEFINE p == <<n, c>>
<1>1. /\ links' = Put(links, p, row) /\ UNCHANGED <<notes, categories, serial>>
  BY DEF WriteLink
<1>2. /\ n \in Notes /\ notes[n] = "live" /\ c \in DOMAIN categories /\ c \in CategoryIds
      /\ p \in Pairs /\ p[1] = n /\ p[2] = c
  BY TypeFacts DEF IInv, LiveNotes, LiveCategories, Pairs
<1>3. /\ IsTable(links', Pairs, LinkRow)
      /\ DOMAIN links' = DOMAIN links \cup {p}
      /\ links'[p] = row
      /\ \A q \in DOMAIN links \ {p} : links'[q] = links[q]
  <2>1. IsTable(links, Pairs, LinkRow)
    BY DEF IInv, TypeOK
  <2>2. IsTable(links', Pairs, LinkRow)
    BY <1>1, <1>2, <2>1, PutTable
  <2> QED BY <1>1, <2>2 DEF Put
<1>4. IInv'
  <2>1. TypeOK'
    BY <1>1, <1>2, <1>3 DEF IInv, TypeOK
  <2>2. ExpiredAreDeleted'
    BY <1>1, <1>3 DEF IInv, ExpiredAreDeleted
  <2> QED BY <2>1, <2>2 DEF IInv
<1>5. LiveNotes' = LiveNotes /\ LiveCategories' = LiveCategories
  BY <1>1 DEF LiveNotes, LiveCategories
<1>6. LabelsSeen' = LabelsSeen /\ RetiredSeen' = RetiredSeen
  BY <1>1, <1>5 DEF LabelsSeen, RetiredSeen
<1>7. ShownLinks' = IF row.is_deleted THEN ShownLinks \ {p} ELSE ShownLinks \cup {p}
  <2>1. \A q : q \in LiveLinks' <=> IF q = p THEN ~row.is_deleted ELSE q \in LiveLinks
    BY <1>3 DEF LiveLinks
  <2>2. \A q : q \in ShownLinks <=> q \in LiveLinks /\ q[1] \in LiveNotes /\ q[2] \in LiveCategories
    BY DEF ShownLinks, Shown, LiveLinks
  <2>3. \A q : q \in ShownLinks' <=>
          q \in LiveLinks' /\ q[1] \in LiveNotes /\ q[2] \in LiveCategories
    BY <1>5 DEF ShownLinks, Shown, LiveLinks
  <2> QED BY <1>2, <2>1, <2>2, <2>3
<1>8. CASE ~row.is_deleted
  <2>1. LabelsShown!Mark(n, c)
    BY <1>5, <1>6, <1>7, <1>8 DEF LabelsShown!Mark, LabelsSeen, RetiredSeen
  <2> QED BY <1>2, <1>4, <2>1 DEF LabelStep, LabelsShown!LabelsNext
<1>9. CASE row.is_deleted /\ p \in ShownLinks
  <2>1. LabelsShown!Unmark(p)
    BY <1>5, <1>6, <1>7, <1>9 DEF LabelsShown!Unmark, LabelsSeen, RetiredSeen
  <2> QED BY <1>2, <1>4, <2>1 DEF LabelStep, LabelsShown!LabelsNext
<1>10. CASE row.is_deleted /\ p \notin ShownLinks
  <2>1. ShownLinks' = ShownLinks
    BY <1>7, <1>10
  <2> QED BY <1>4, <1>5, <1>6, <2>1, Unseen
<1> QED BY <1>8, <1>9, <1>10

-------------------------------------------------------------------------------
(* Requests. *)
LEMMA RestImplements ==
  ASSUME IInv, RestStep
  PROVE  IInv' /\ LabelStep
<1>1. ASSUME NEW name \in Names, CreateCategory(name) PROVE IInv' /\ LabelStep
  <2>1. 1 \in Versions
    BY BoundsAssumption DEF Versions
  <2> QED BY <1>1, <2>1, InsertCategoryImplements, RefuseImplements DEF CreateCategory
<1>2. ASSUME NEW c \in CategoryIds, NEW name \in Names, RenameCategory(c, name)
      PROVE  IInv' /\ LabelStep
  <2> DEFINE row == [categories[c] EXCEPT !.name = name]
  <2>1. c \in DOMAIN categories /\ ~categories[c].is_deleted
    BY <1>2 DEF RenameCategory, LiveCategories
  <2>2. categories[c] \in CategoryRow
    BY <2>1, TypeFacts DEF IInv
  <2>3. row \in CategoryRow /\ row.name = name
    BY <2>2 DEF CategoryRow
  <2>4. CASE name \notin NamesTaken(DOMAIN categories) /\ WriteCategory(c, row)
    <3>1. name \notin NamesTaken(DOMAIN categories \ {c})
      BY <2>4 DEF NamesTaken
    <3> HIDE DEF row
    <3> QED BY <2>1, <2>3, <2>4, <3>1, WriteCategoryImplements
  <2>5. CASE Refuse(name)
    BY <2>5, RefuseImplements
  <2> QED BY <1>2, <2>4, <2>5 DEF RenameCategory
<1>3. ASSUME NEW c \in CategoryIds, DeleteCategory(c) PROVE IInv' /\ LabelStep
  <2>1. /\ c \in DOMAIN categories /\ categories[c].version <= MaxVersion
        /\ WriteCategory(c, Tombstone(categories[c]))
    BY <1>3 DEF DeleteCategory
  <2>2. Tombstone(categories[c]) \in CategoryRow /\ Tombstone(categories[c]).is_deleted
    BY <2>1, TypeFacts, TombstoneRow DEF IInv
  <2> QED BY <2>1, <2>2, WriteCategoryImplements
<1>4. ASSUME NEW n \in Notes, NEW c \in CategoryIds, LinkNote(n, c) PROVE IInv' /\ LabelStep
  <2>1. 1 \in Versions /\ FALSE \in BOOLEAN
    BY BoundsAssumption DEF Versions
  <2>2. NewLink(1, FALSE) \in LinkRow /\ ~NewLink(1, FALSE).expired
    BY <2>1, NewLinkRow
  <2> QED BY <1>4, <2>2, WriteLinkImplements, RefuseImplements DEF LinkNote
<1>5. ASSUME NEW n \in Notes, NEW c \in CategoryIds, UnlinkNote(n, c) PROVE IInv' /\ LabelStep
  <2> DEFINE row == Tombstone(links[<<n, c>>])
  <2>1. /\ n \in LiveNotes /\ c \in LiveCategories /\ WriteLink(<<n, c>>, row)
        /\ <<n, c>> \in DOMAIN links /\ links[<<n, c>>].version <= MaxVersion
    BY <1>5 DEF UnlinkNote
  <2>2. row \in LinkRow /\ ~row.expired
    BY <2>1, TypeFacts, TombstoneRow DEF IInv
  <2> HIDE DEF row
  <2> QED BY <2>1, <2>2, WriteLinkImplements
<1> QED BY <1>1, <1>2, <1>3, <1>4, <1>5, DeleteNoteImplements DEF RestStep

\* Every push of a device keeps the invariant and is a step of Labels.
LEMMA SyncImplements ==
  ASSUME IInv, SyncStep
  PROVE  IInv' /\ LabelStep
<1>1. ASSUME NEW name \in Names, NEW v \in Versions, NEW d \in BOOLEAN,
             PushNewCategory(name, v, d)
      PROVE  IInv' /\ LabelStep
  BY <1>1, InsertCategoryImplements DEF PushNewCategory
<1>2. ASSUME NEW c \in CategoryIds, NEW name \in Names, NEW v \in Versions, NEW d \in BOOLEAN,
             PushCategory(c, name, v, d)
      PROVE  IInv' /\ LabelStep
  <2> DEFINE row == PushedCategory(categories[c], name, v, d)
  <2>1. /\ c \in DOMAIN categories /\ WriteCategory(c, row)
        /\ d \/ name \notin NamesTaken(DOMAIN categories \ {c})
    BY <1>2 DEF PushCategory
  <2>2. /\ row \in CategoryRow /\ row.is_deleted = (categories[c].is_deleted \/ d)
        /\ ~d => row.name = name
    BY <2>1, TypeFacts, PushedCategoryRow DEF IInv
  <2> HIDE DEF row
  <2> QED BY <2>1, <2>2, WriteCategoryImplements
<1>3. ASSUME NEW n \in Notes, NEW c \in CategoryIds, NEW v \in Versions, NEW d \in BOOLEAN,
             PushLink(n, c, v, d)
      PROVE  IInv' /\ LabelStep
  <2> DEFINE old == links[<<n, c>>]
             row == Flush(old, [old EXCEPT !.is_deleted = @ \/ d, !.version = v])
  <2>1. n \in LiveNotes /\ c \in LiveCategories
    BY <1>3 DEF PushLink
  <2>2. CASE WriteLink(<<n, c>>, NewLink(v, d))
    BY <2>1, <2>2, NewLinkRow, WriteLinkImplements
  <2>3. CASE <<n, c>> \in DOMAIN links /\ WriteLink(<<n, c>>, row)
    <3>1. old \in LinkRow /\ (old.expired => old.is_deleted)
      BY <2>3, TypeFacts DEF IInv, ExpiredAreDeleted
    <3>2. row \in LinkRow /\ (row.expired => row.is_deleted)
      BY <3>1, PushedLinkRow
    <3> HIDE DEF row
    <3> QED BY <2>1, <2>3, <3>2, WriteLinkImplements
  <2> QED BY <1>3, <2>2, <2>3 DEF PushLink
<1> QED BY <1>1, <1>2, <1>3 DEF SyncStep

\* What the purge erases was deleted: nobody is shown less.
LEMMA PurgeImplements ==
  ASSUME IInv, Purge
  PROVE  IInv' /\ LabelStep
<1> DEFINE gone == {p \in DOMAIN links : Purged(p)}
<1>1. /\ notes' = [n \in Notes |-> IF notes[n] = "expired" THEN "erased" ELSE notes[n]]
      /\ categories' = Without(categories, ExpiredCategories)
      /\ links' = Without(links, gone)
      /\ serial' = serial
  BY DEF Purge
<1>2. TypeOK /\ IsTable(categories, 1..(serial - 1), CategoryRow) /\ IsTable(links, Pairs, LinkRow)
  BY DEF IInv, TypeOK
<1>3. /\ IsTable(categories', 1..(serial - 1), CategoryRow)
      /\ DOMAIN categories' = DOMAIN categories \ ExpiredCategories
      /\ \A c \in DOMAIN categories' : categories'[c] = categories[c]
  <2>1. IsTable(categories', 1..(serial - 1), CategoryRow)
    BY <1>1, <1>2, WithoutTable
  <2> QED BY <1>1, <2>1 DEF Without, Restrict
<1>4. /\ IsTable(links', Pairs, LinkRow)
      /\ DOMAIN links' = DOMAIN links \ gone
      /\ \A p \in DOMAIN links' : links'[p] = links[p]
  <2>1. IsTable(links', Pairs, LinkRow)
    BY <1>1, <1>2, WithoutTable
  <2> QED BY <1>1, <2>1 DEF Without, Restrict
<1>5. \A n \in Notes : /\ notes'[n] = IF notes[n] = "expired" THEN "erased" ELSE notes[n]
                       /\ notes[n] \in {"live", "deleted", "expired", "erased"}
  BY <1>1, <1>2 DEF TypeOK
<1>6. TypeOK'
  <2>1. notes' \in [Notes -> {"live", "deleted", "expired", "erased"}]
    BY <1>1, <1>5
  <2>2. ASSUME NEW p \in DOMAIN links' PROVE p[2] \in DOMAIN categories' /\ notes'[p[1]] # "erased"
    <3>1. p \in DOMAIN links /\ ~Purged(p)
      BY <1>4, <2>2
    <3>2. p[1] \in Notes /\ p[2] \in DOMAIN categories /\ notes[p[1]] # "erased"
      BY <1>2, <3>1, TypeFacts DEF TypeOK
    <3> QED BY <1>3, <1>5, <3>1, <3>2 DEF Purged
  <2> QED BY <1>1, <1>2, <1>3, <1>4, <2>1, <2>2 DEF TypeOK
<1>7. ExpiredAreDeleted'
  BY <1>3, <1>4 DEF IInv, ExpiredAreDeleted
<1>8. LiveNotes' = LiveNotes
  BY <1>5 DEF LiveNotes
<1>9. LiveCategories' = LiveCategories
  BY <1>3 DEF IInv, ExpiredAreDeleted, LiveCategories, ExpiredCategories
<1>10. LabelsSeen' = LabelsSeen /\ RetiredSeen' = RetiredSeen
  <2>1. \A c \in LiveCategories' : categories'[c] = categories[c]
    BY <1>3 DEF LiveCategories
  <2> QED BY <1>1, <1>9, <2>1 DEF LabelsSeen, RetiredSeen
<1>11. ShownLinks' = ShownLinks
  <2>1. ASSUME NEW p \in ShownLinks PROVE p \notin gone
    <3>1. /\ p \in DOMAIN links /\ ~links[p].is_deleted
          /\ notes[p[1]] = "live" /\ ~categories[p[2]].is_deleted /\ p[2] \in DOMAIN categories
      BY <2>1 DEF ShownLinks, Shown, LiveNotes, LiveCategories, LiveLinks
    <3>2. ~links[p].expired /\ ~categories[p[2]].expired
      BY <3>1 DEF IInv, ExpiredAreDeleted
    <3> QED BY <3>1, <3>2 DEF Purged, ExpiredCategories
  <2>2. ShownLinks \subseteq DOMAIN links'
    BY <1>4, <2>1 DEF ShownLinks
  <2> QED BY <1>4, <1>8, <1>9, <2>2 DEF ShownLinks, Shown, LiveLinks
<1> QED BY <1>6, <1>7, <1>8, <1>10, <1>11, Unseen DEF IInv

\* The passing of time keeps the invariant and is invisible to Labels.
LEMMA RetentionImplements ==
  ASSUME IInv, RetentionElapses
  PROVE  IInv' /\ LabelStep
<1>1. /\ notes' = [n \in Notes |-> IF notes[n] = "deleted" THEN "expired" ELSE notes[n]]
      /\ categories' = [c \in DOMAIN categories |-> Aged(categories[c])]
      /\ links' = [p \in DOMAIN links |-> Aged(links[p])]
      /\ serial' = serial
  BY DEF RetentionElapses
<1>2. /\ \A c \in DOMAIN categories : categories[c] \in CategoryRow
      /\ \A p \in DOMAIN links : links[p] \in LinkRow
      /\ \A p \in DOMAIN links : p[2] \in DOMAIN categories /\ p[1] \in Notes
  BY TypeFacts DEF IInv
<1>3. /\ DOMAIN categories' = DOMAIN categories
      /\ \A c \in DOMAIN categories :
           /\ categories'[c] \in CategoryRow /\ categories'[c].name = categories[c].name
           /\ categories'[c].is_deleted = categories[c].is_deleted
           /\ categories'[c].expired = categories[c].is_deleted
  BY <1>1, <1>2, AgedRow
<1>4. /\ DOMAIN links' = DOMAIN links
      /\ \A p \in DOMAIN links :
           /\ links'[p] \in LinkRow
           /\ links'[p].is_deleted = links[p].is_deleted
           /\ links'[p].expired = links[p].is_deleted
  BY <1>1, <1>2, AgedRow
<1>5. TypeOK'
  <2>1. /\ notes' \in [Notes -> {"live", "deleted", "expired", "erased"}]
        /\ \A n \in Notes : notes[n] # "erased" => notes'[n] # "erased"
    BY <1>1 DEF IInv, TypeOK
  <2>2. IsTable(categories', 1..(serial' - 1), CategoryRow)
    BY <1>1, <1>3 DEF IInv, TypeOK, IsTable
  <2>3. IsTable(links', Pairs, LinkRow)
    BY <1>1, <1>4 DEF IInv, TypeOK, IsTable
  <2> QED BY <1>1, <1>2, <1>3, <1>4, <2>1, <2>2, <2>3 DEF IInv, TypeOK
<1>6. ExpiredAreDeleted'
  BY <1>3, <1>4 DEF ExpiredAreDeleted
<1>7. LiveNotes' = LiveNotes
  BY <1>1 DEF IInv, TypeOK, LiveNotes
<1>8. LiveCategories' = LiveCategories /\ LiveLinks' = LiveLinks
  BY <1>3, <1>4 DEF LiveCategories, LiveLinks
<1>9. LabelsSeen' = LabelsSeen /\ RetiredSeen' = RetiredSeen
  BY <1>1, <1>3, <1>8 DEF LabelsSeen, RetiredSeen, LiveCategories
<1>10. ShownLinks' = ShownLinks
  BY <1>4, <1>7, <1>8 DEF ShownLinks, Shown
<1> QED BY <1>5, <1>6, <1>7, <1>9, <1>10, Unseen DEF IInv

\* Every step keeps the invariant and is a step of Labels, or is invisible to it.
LEMMA NextImplements ==
  ASSUME IInv, [Next]_vars
  PROVE  IInv' /\ LabelStep
<1>1. CASE UNCHANGED vars
  <2>1. UNCHANGED <<notes, categories, links, serial>>
    BY <1>1 DEF vars
  <2>2. IInv'
    BY <2>1 DEF IInv, TypeOK, ExpiredAreDeleted
  <2>3. UNCHANGED <<LiveNotes, LabelsSeen, ShownLinks, RetiredSeen>>
    BY <2>1 DEF LiveNotes, LabelsSeen, ShownLinks, RetiredSeen, LiveCategories, Shown, LiveLinks
  <2> QED BY <2>2, <2>3, Unseen
<1> QED BY <1>1, RestImplements, SyncImplements, PurgeImplements, RetentionImplements DEF Next

-------------------------------------------------------------------------------
(* Rows only go forward. *)
\* A later state of the same row: versions do not fall, and what is deleted stays so.
Moves(row, new) == new.version >= row.version /\ (row.is_deleted => new.is_deleted)

\* What one step may do to the rows there are.  Only links may go while they are live, and
\* they take nothing along that is shown: their note or category is deleted.
RowsMove ==
  /\ \A c \in DOMAIN categories :
       IF c \in DOMAIN categories' THEN Moves(categories[c], categories'[c])
                                   ELSE categories[c].is_deleted
  /\ \A p \in DOMAIN links :
       IF p \in DOMAIN links' THEN Moves(links[p], links'[p])
       ELSE links[p].is_deleted \/ p[1] \notin LiveNotes \/ p[2] \notin LiveCategories

\* A row that is left alone, flushed, deleted or aged moves forward.
LEMMA RowMoves ==
  ASSUME NEW row \in CategoryRow \cup LinkRow
  PROVE  /\ Moves(row, row) /\ Moves(row, Tombstone(row)) /\ Moves(row, Aged(row))
         /\ \A new : Moves(row, new) /\ new \in CategoryRow \cup LinkRow =>
              Moves(row, Flush(row, new))
<1>1. row.version \in Nat
  BY BoundsAssumption DEF CategoryRow, LinkRow
<1>2. Moves(row, row)
  BY <1>1 DEF Moves
<1>3. Moves(row, Tombstone(row))
  <2>1. Tombstone(row).version = row.version + 1 /\ Tombstone(row).is_deleted = TRUE
    BY DEF CategoryRow, LinkRow, Tombstone
  <2> QED BY <1>1, <2>1 DEF Moves
<1>4. Moves(row, Aged(row))
  <2>1. Aged(row).version = row.version /\ Aged(row).is_deleted = row.is_deleted
    BY DEF CategoryRow, LinkRow, Aged
  <2> QED BY <1>1, <2>1 DEF Moves
<1>5. ASSUME NEW new \in CategoryRow \cup LinkRow, Moves(row, new)
      PROVE  Moves(row, Flush(row, new))
  <2>1. [new EXCEPT !.expired = FALSE].version = new.version
    BY DEF CategoryRow, LinkRow
  <2>2. [new EXCEPT !.expired = FALSE].is_deleted = new.is_deleted
    BY DEF CategoryRow, LinkRow
  <2> QED BY <1>2, <1>5, <2>1, <2>2 DEF Flush, Moves
<1> QED BY <1>2, <1>3, <1>4, <1>5

\* One category is written and moves forward, or is new.
LEMMA CategoryMoves ==
  ASSUME TypeOK, NEW c, NEW row, categories' = Put(categories, c, row), links' = links,
         c \in DOMAIN categories => Moves(categories[c], row)
  PROVE  RowsMove
<1>1. /\ \A d \in DOMAIN categories : categories[d] \in CategoryRow
      /\ \A p \in DOMAIN links : links[p] \in LinkRow
  BY TypeFacts
<1>2. \A p \in DOMAIN links : Moves(links[p], links'[p])
  BY <1>1, RowMoves
<1>3. ASSUME NEW d \in DOMAIN categories
      PROVE  d \in DOMAIN categories' /\ Moves(categories[d], categories'[d])
  <2>1. d \in DOMAIN categories' /\ categories'[d] = IF d = c THEN row ELSE categories[d]
    BY <1>3 DEF Put
  <2>2. Moves(categories[d], categories[d])
    BY <1>1, RowMoves
  <2> QED BY <2>1, <2>2
<1> QED BY <1>2, <1>3 DEF RowsMove

\* One link is written and moves forward, or is new.
LEMMA LinkMoves ==
  ASSUME TypeOK, NEW p, NEW row, WriteLink(p, row), p \in DOMAIN links => Moves(links[p], row)
  PROVE  RowsMove
<1>1. /\ \A d \in DOMAIN categories : categories[d] \in CategoryRow
      /\ \A q \in DOMAIN links : links[q] \in LinkRow
  BY TypeFacts
<1>2. links' = Put(links, p, row) /\ categories' = categories
  BY DEF WriteLink
<1>3. \A d \in DOMAIN categories : Moves(categories[d], categories'[d])
  BY <1>1, <1>2, RowMoves
<1>4. ASSUME NEW q \in DOMAIN links
      PROVE  q \in DOMAIN links' /\ Moves(links[q], links'[q])
  <2>1. q \in DOMAIN links' /\ links'[q] = IF q = p THEN row ELSE links[q]
    BY <1>2, <1>4 DEF Put
  <2>2. Moves(links[q], links[q])
    BY <1>1, RowMoves
  <2> QED BY <2>1, <2>2
<1> QED BY <1>2, <1>3, <1>4 DEF RowsMove

\* A step that writes neither categories nor links moves no row.
LEMMA StandingRows ==
  ASSUME TypeOK, UNCHANGED <<categories, links>>
  PROVE  RowsMove
<1>1. /\ \A d \in DOMAIN categories : categories[d] \in CategoryRow
      /\ \A q \in DOMAIN links : links[q] \in LinkRow
  BY TypeFacts
<1>2. /\ \A d \in DOMAIN categories : Moves(categories[d], categories'[d])
      /\ \A q \in DOMAIN links : Moves(links[q], links'[q])
  BY <1>1, RowMoves
<1> QED BY <1>2 DEF RowsMove

\* A new category moves no row that was there.
LEMMA InsertMoves ==
  ASSUME TypeOK, NEW row, InsertCategory(row)
  PROVE  RowsMove
<1>1. categories' = Put(categories, serial, row) /\ links' = links
  BY DEF InsertCategory
<1>2. serial \notin DOMAIN categories
  BY TypeFacts
<1> QED BY <1>1, <1>2, CategoryMoves

\* A category that is written in a later state moves forward.
LEMMA WriteMoves ==
  ASSUME TypeOK, NEW c \in DOMAIN categories, NEW row \in CategoryRow, WriteCategory(c, row),
         Moves(categories[c], row)
  PROVE  RowsMove
<1>1. categories' = Put(categories, c, Flush(categories[c], row)) /\ links' = links
  BY DEF WriteCategory
<1>2. Moves(categories[c], Flush(categories[c], row))
  BY TypeFacts, RowMoves
<1> QED BY <1>1, <1>2, CategoryMoves

\* Every request over REST or MCP moves rows forward.
LEMMA RestMoves ==
  ASSUME TypeOK, RestStep
  PROVE  RowsMove
<1>1. ASSUME NEW n \in Notes, DeleteNote(n) PROVE RowsMove
  BY <1>1, StandingRows DEF DeleteNote
<1>2. ASSUME NEW name \in Names, CreateCategory(name) PROVE RowsMove
  <2>1. CASE InsertCategory(NewCategory(name, 1, FALSE))
    BY <2>1, InsertMoves
  <2>2. CASE Refuse(name)
    BY <2>2, StandingRows DEF Refuse
  <2> QED BY <1>2, <2>1, <2>2 DEF CreateCategory
<1>3. ASSUME NEW c \in CategoryIds, NEW name \in Names, RenameCategory(c, name) PROVE RowsMove
  <2>1. CASE Refuse(name)
    BY <2>1, StandingRows DEF Refuse
  <2>2. CASE WriteCategory(c, [categories[c] EXCEPT !.name = name])
    <3>1. c \in DOMAIN categories /\ categories[c] \in CategoryRow
      BY <1>3, TypeFacts DEF RenameCategory, LiveCategories
    <3>2. [categories[c] EXCEPT !.name = name] \in CategoryRow
      BY <3>1 DEF CategoryRow
    <3>3. Moves(categories[c], [categories[c] EXCEPT !.name = name])
      <4>1. Moves(categories[c], categories[c])
        BY <3>1, RowMoves
      <4> QED BY <3>1, <4>1 DEF CategoryRow, Moves
    <3> QED BY <2>2, <3>1, <3>2, <3>3, WriteMoves
  <2> QED BY <1>3, <2>1, <2>2 DEF RenameCategory
<1>4. ASSUME NEW c \in CategoryIds, DeleteCategory(c) PROVE RowsMove
  <2>1. /\ c \in DOMAIN categories /\ categories[c].version <= MaxVersion
        /\ WriteCategory(c, Tombstone(categories[c]))
    BY <1>4 DEF DeleteCategory
  <2>2. categories[c] \in CategoryRow
    BY <2>1, TypeFacts
  <2>3. Tombstone(categories[c]) \in CategoryRow /\ Moves(categories[c], Tombstone(categories[c]))
    BY <2>1, <2>2, TombstoneRow, RowMoves
  <2> QED BY <2>1, <2>3, WriteMoves
<1>5. ASSUME NEW n \in Notes, NEW c \in CategoryIds, LinkNote(n, c) PROVE RowsMove
  <2>1. CASE Refuse(<<n, c>>)
    BY <2>1, StandingRows DEF Refuse
  <2>2. CASE <<n, c>> \notin DOMAIN links /\ WriteLink(<<n, c>>, NewLink(1, FALSE))
    BY <2>2, LinkMoves
  <2> QED BY <1>5, <2>1, <2>2 DEF LinkNote
<1>6. ASSUME NEW n \in Notes, NEW c \in CategoryIds, UnlinkNote(n, c) PROVE RowsMove
  <2>1. <<n, c>> \in DOMAIN links /\ WriteLink(<<n, c>>, Tombstone(links[<<n, c>>]))
    BY <1>6 DEF UnlinkNote
  <2>2. Moves(links[<<n, c>>], Tombstone(links[<<n, c>>]))
    BY <2>1, TypeFacts, RowMoves
  <2> QED BY <2>1, <2>2, LinkMoves
<1> QED BY <1>1, <1>2, <1>3, <1>4, <1>5, <1>6 DEF RestStep

\* Every push of a device moves rows forward: what it sends is not older than the row.
LEMMA SyncMoves ==
  ASSUME TypeOK, SyncStep
  PROVE  RowsMove
<1>1. ASSUME NEW name \in Names, NEW v \in Versions, NEW d \in BOOLEAN,
             PushNewCategory(name, v, d)
      PROVE  RowsMove
  BY <1>1, InsertMoves DEF PushNewCategory
<1>2. ASSUME NEW c \in CategoryIds, NEW name \in Names, NEW v \in Versions, NEW d \in BOOLEAN,
             PushCategory(c, name, v, d)
      PROVE  RowsMove
  <2> DEFINE row == categories[c]
             new == PushedCategory(row, name, v, d)
  <2>1. c \in DOMAIN categories /\ v >= row.version /\ WriteCategory(c, new)
    BY <1>2 DEF PushCategory
  <2>2. row \in CategoryRow
    BY <2>1, TypeFacts
  <2>3. v \in Nat /\ row.version \in Nat
    BY <2>2, BoundsAssumption DEF CategoryRow, Versions
  <2>4. new.version \in {v, v + 1}
    BY <2>2 DEF PushedCategory, CategoryRow
  <2>5. new \in CategoryRow /\ new.is_deleted = (row.is_deleted \/ d)
    BY <2>2, PushedCategoryRow
  <2>6. Moves(row, new)
    <3>1. row.is_deleted \in BOOLEAN
      BY <2>2 DEF CategoryRow
    <3> HIDE DEF row, new
    <3>2. new.version >= row.version
      BY <2>1, <2>3, <2>4
    <3>3. row.is_deleted => new.is_deleted
      BY <2>5, <3>1, Zenon
    <3> QED BY <3>2, <3>3 DEF Moves
  <2> HIDE DEF new
  <2> QED BY <2>1, <2>5, <2>6, WriteMoves
<1>3. ASSUME NEW n \in Notes, NEW c \in CategoryIds, NEW v \in Versions, NEW d \in BOOLEAN,
             PushLink(n, c, v, d)
      PROVE  RowsMove
  <2> DEFINE p == <<n, c>>
             row == links[p]
             sent == [row EXCEPT !.is_deleted = @ \/ d, !.version = v]
  <2>1. CASE p \notin DOMAIN links /\ WriteLink(p, NewLink(v, d))
    BY <2>1, LinkMoves
  <2>2. CASE p \in DOMAIN links /\ v >= row.version /\ WriteLink(p, Flush(row, sent))
    <3>1. row \in LinkRow
      BY <2>2, TypeFacts
    <3>2. sent.version = v /\ sent.is_deleted = (row.is_deleted \/ d) /\ sent \in LinkRow
      <4>1. v \in 1..(MaxVersion + 1) /\ (row.is_deleted \/ d) \in BOOLEAN
        BY <3>1, BoundsAssumption DEF Versions, LinkRow
      <4>2. sent \in LinkRow
        BY <3>1, <4>1 DEF LinkRow
      <4> QED BY <3>1, <4>2 DEF LinkRow
    <3>3. row.is_deleted \in BOOLEAN
      BY <3>1 DEF LinkRow
    <3> HIDE DEF sent
    <3>4. Moves(row, sent)
      BY <2>2, <3>2, <3>3 DEF Moves
    <3>5. Moves(row, Flush(row, sent))
      BY <3>1, <3>2, <3>4, RowMoves
    <3> QED BY <2>2, <3>5, LinkMoves
  <2> QED BY <1>3, <2>1, <2>2 DEF PushLink
<1> QED BY <1>1, <1>2, <1>3 DEF SyncStep

\* The purge erases categories that were deleted, and links of those and of deleted notes.
LEMMA PurgeMoves ==
  ASSUME IInv, Purge
  PROVE  RowsMove
<1>1. /\ categories' = Without(categories, ExpiredCategories)
      /\ links' = Without(links, {p \in DOMAIN links : Purged(p)})
  BY DEF Purge
<1>2. /\ \A c \in DOMAIN categories : categories[c] \in CategoryRow
      /\ \A p \in DOMAIN links : links[p] \in LinkRow /\ p[1] \in Notes
  BY TypeFacts DEF IInv
<1>3. ASSUME NEW c \in DOMAIN categories
      PROVE  IF c \in DOMAIN categories' THEN Moves(categories[c], categories'[c])
                                         ELSE categories[c].is_deleted
  <2>1. c \notin ExpiredCategories => c \in DOMAIN categories' /\ categories'[c] = categories[c]
    BY <1>1 DEF Without, Restrict
  <2>2. c \in ExpiredCategories => c \notin DOMAIN categories' /\ categories[c].is_deleted
    BY <1>1 DEF Without, Restrict, ExpiredCategories, IInv, ExpiredAreDeleted
  <2>3. Moves(categories[c], categories[c])
    BY <1>2, RowMoves
  <2> QED BY <2>1, <2>2, <2>3
<1>4. ASSUME NEW p \in DOMAIN links
      PROVE  IF p \in DOMAIN links' THEN Moves(links[p], links'[p])
             ELSE links[p].is_deleted \/ p[1] \notin LiveNotes \/ p[2] \notin LiveCategories
  <2>1. ~Purged(p) => p \in DOMAIN links' /\ links'[p] = links[p]
    BY <1>1 DEF Without, Restrict
  <2>2. Purged(p) => p \notin DOMAIN links'
    BY <1>1 DEF Without, Restrict
  <2>3. Purged(p) => links[p].is_deleted \/ p[1] \notin LiveNotes \/ p[2] \notin LiveCategories
    BY <1>2 DEF Purged, ExpiredCategories, LiveNotes, LiveCategories, IInv, ExpiredAreDeleted
  <2>4. Moves(links[p], links[p])
    BY <1>2, RowMoves
  <2> QED BY <2>1, <2>2, <2>3, <2>4
<1> QED BY <1>3, <1>4 DEF RowsMove

\* Rows that age are otherwise the same.
LEMMA RetentionMoves ==
  ASSUME TypeOK, RetentionElapses
  PROVE  RowsMove
<1>1. /\ categories' = [c \in DOMAIN categories |-> Aged(categories[c])]
      /\ links' = [p \in DOMAIN links |-> Aged(links[p])]
  BY DEF RetentionElapses
<1>2. /\ \A c \in DOMAIN categories : Moves(categories[c], Aged(categories[c]))
      /\ \A p \in DOMAIN links : Moves(links[p], Aged(links[p]))
  BY TypeFacts, RowMoves
<1> QED BY <1>1, <1>2 DEF RowsMove

\* The empty tables satisfy the invariant and show the initial state of Labels.
LEMMA InitImplements == Init => IInv /\ LabelsShown!LabelsInit
<1> SUFFICES ASSUME Init PROVE IInv /\ LabelsShown!LabelsInit
  OBVIOUS
<1>1. /\ DOMAIN categories = {} /\ DOMAIN links = {} /\ serial = 1
      /\ notes = [n \in Notes |-> "live"]
  BY DEF Init
<1>2. IsTable(categories, 1..(serial - 1), CategoryRow) /\ IsTable(links, Pairs, LinkRow)
  BY <1>1 DEF IsTable, Init
<1>3. TypeOK /\ ExpiredAreDeleted
  BY <1>1, <1>2, BoundsAssumption DEF TypeOK, ExpiredAreDeleted
<1>4. LiveNotes = Notes /\ LiveCategories = {} /\ ShownLinks = {} /\ 1..(serial - 1) = {}
  BY <1>1 DEF LiveNotes, LiveCategories, ShownLinks
<1> QED BY <1>3, <1>4 DEF IInv, LabelsShown!LabelsInit

\* Types, and that what expires was deleted: whatever requests and purges come.
THEOREM CategoriesInvariance == Spec => []IInv
<1>1. IInv /\ [Next]_vars => IInv'
  BY NextImplements
<1>2. Init => IInv
  BY InitImplements
<1> QED BY <1>1, <1>2, PTL DEF Spec

\* Category and link rows are well formed, and a link's ends have rows: the purge erases
\* no end before its links.
THEOREM CategoriesTyped == Spec => []TypeOK
<1>1. IInv => TypeOK
  BY DEF IInv
<1> QED BY <1>1, CategoriesInvariance, PTL

\* What readers are shown of categories is a labelling, which every request, push and
\* purge changes by one operation or not at all.
THEOREM CategoriesImplementLabels == Spec => ImplementsLabels
<1>1. Init => LabelsShown!LabelsInit
  BY InitImplements
<1>2. IInv /\ [Next]_vars => [LabelsShown!LabelsNext]_(LabelsShown!labelling)
  BY NextImplements DEF LabelStep
<1> QED
  BY <1>1, <1>2, CategoriesInvariance, PTL DEF Spec, ImplementsLabels, LabelsShown!LabelsSpec

\* No rename, push or late deletion takes a category or a link back: its version never
\* falls, what is deleted stays deleted, and the purge erases nothing that is shown.
DeletionsAreFinal == [][RowsMove]_vars

\* Deleting a category or a link is final, whatever names and versions devices push.
THEOREM CategoriesGoForward == Spec => DeletionsAreFinal
<1>1. IInv /\ [Next]_vars => [RowsMove]_vars
  <2> SUFFICES ASSUME IInv, Next PROVE RowsMove
    OBVIOUS
  <2>1. TypeOK
    BY DEF IInv
  <2> QED BY <2>1, RestMoves, SyncMoves, PurgeMoves, RetentionMoves DEF Next
<1> QED BY <1>1, CategoriesInvariance, PTL DEF Spec, DeletionsAreFinal
===============================================================================
