----------------------------- MODULE CategoryStore -----------------------------
(***************************************************************************)
(* One user's categories and the links of notes to them: the tables        *)
(* `categories` and `note_categories`, and every operation of the REST     *)
(* routes, the MCP tools, the device-sync routes and the purge script on   *)
(* them, each request one step.  Of a note it matters here whether it is   *)
(* live, a tombstone, or erased; notes only ever move on along that line.  *)
(*                                                                         *)
(* Names are unique over all rows of the user, deleted ones included.      *)
(* Deleting a note or a category does not touch its links: readers join    *)
(* through both ends and filter what is deleted there.                     *)
(***************************************************************************)
EXTENDS Naturals, Functions

CONSTANTS Notes,
          Names,
          MaxCategories,   \* bound: category ids handed out
          MaxVersion       \* bound: the highest version a device or an edit gives

CategoryIds == 1..MaxCategories
Versions == 1..MaxVersion
Pairs == Notes \X CategoryIds

ASSUME BoundsAssumption == MaxCategories \in Nat /\ MaxVersion \in Nat \ {0}

VARIABLES notes,        \* note -> "live", "deleted", "expired" or "erased"
          categories,   \* table categories, by id
          links,        \* table note_categories, by (note_id, category_id)
          serial,       \* the next category id
          conflict      \* what the last answer, a 409, said is there: {} or {it}

vars == <<notes, categories, links, serial, conflict>>

(***************************************************************************)
(* Rows.  `expired`: deleted, and not written since the retention window   *)
(* of the purge began.                                                     *)
(***************************************************************************)
CategoryRow == [name : Names, version : 1..(MaxVersion + 1),
                is_deleted : BOOLEAN, expired : BOOLEAN]
LinkRow == [version : 1..(MaxVersion + 1), is_deleted : BOOLEAN, expired : BOOLEAN]

NewCategory(name, version, deleted) ==
  [name |-> name, version |-> version, is_deleted |-> deleted, expired |-> FALSE]

NewLink(version, deleted) ==
  [version |-> version, is_deleted |-> deleted, expired |-> FALSE]

Put(table, key, row) ==
  [k \in DOMAIN table \cup {key} |-> IF k = key THEN row ELSE table[k]]
Without(table, keys) == Restrict(table, DOMAIN table \ keys)

\* An UPDATE is issued, and updated_at set, only if a column changed.
Flush(row, new) == IF new = row THEN row ELSE [new EXCEPT !.expired = FALSE]

Tombstone(row) ==
  [row EXCEPT !.is_deleted = TRUE, !.version = @ + 1, !.expired = FALSE]

LiveNotes == {n \in Notes : notes[n] = "live"}
LiveCategories == {c \in DOMAIN categories : ~categories[c].is_deleted}
LiveLinks == {p \in DOMAIN links : ~links[p].is_deleted}

\* uq_categories_user_id_name does not look at is_deleted.
NamesTaken(ids) == {categories[c].name : c \in ids}

\* What list_categories_for_note and the category filters of note lists show.
Shown(p) == p[1] \in LiveNotes /\ p[2] \in LiveCategories /\ p \in LiveLinks
ShownLinks == {p \in DOMAIN links : Shown(p)}

Init ==
  /\ notes = [n \in Notes |-> "live"]
  /\ categories = [c \in {} |-> c]
  /\ links = [p \in {} |-> p]
  /\ serial = 1
  /\ conflict = {}

\* service/note.py: the note's links stay as they are.
DeleteNote(n) ==
  /\ notes[n] \in {"live", "deleted", "expired"}
  /\ notes' = [notes EXCEPT ![n] = "deleted"]
  /\ conflict' = {}
  /\ UNCHANGED <<categories, links, serial>>

-------------------------------------------------------------------------------
(* Categories over REST and MCP. *)
InsertCategory(row) ==
  /\ serial <= MaxCategories
  /\ row.name \notin NamesTaken(DOMAIN categories)
  /\ categories' = Put(categories, serial, row)
  /\ serial' = serial + 1
  /\ conflict' = {}
  /\ UNCHANGED <<notes, links>>

WriteCategory(c, row) ==
  /\ categories' = Put(categories, c, Flush(categories[c], row))
  /\ conflict' = {}
  /\ UNCHANGED <<notes, links, serial>>

Refuse(what) ==
  /\ conflict' = {what}
  /\ UNCHANGED <<notes, categories, links, serial>>

CreateCategory(name) ==
  \/ InsertCategory(NewCategory(name, 1, FALSE))
  \/ /\ name \in NamesTaken(DOMAIN categories)
     /\ Refuse(name)

\* Mutant: a category that is deleted can be renamed, and is then live.
RenameCategoryReviving(c, name) ==
  /\ c \in DOMAIN categories /\ name # categories[c].name
  /\ name \notin NamesTaken(DOMAIN categories \ {c})
  /\ WriteCategory(c, [categories[c] EXCEPT !.name = name, !.is_deleted = FALSE])

\* The version stays as it is.
RenameCategory(c, name) ==
  /\ c \in LiveCategories /\ name # categories[c].name
  /\ \/ /\ name \notin NamesTaken(DOMAIN categories)
        /\ WriteCategory(c, [categories[c] EXCEPT !.name = name])
     \/ /\ name \in NamesTaken(DOMAIN categories)
        /\ Refuse(name)

DeleteCategory(c) ==
  /\ c \in DOMAIN categories /\ categories[c].version <= MaxVersion
  /\ WriteCategory(c, Tombstone(categories[c]))

-------------------------------------------------------------------------------
(* Links over REST and MCP. *)
WriteLink(p, row) ==
  /\ links' = Put(links, p, row)
  /\ conflict' = {}
  /\ UNCHANGED <<notes, categories, serial>>

LinkNote(n, c) ==
  /\ n \in LiveNotes /\ c \in LiveCategories
  /\ \/ /\ <<n, c>> \notin DOMAIN links
        /\ WriteLink(<<n, c>>, NewLink(1, FALSE))
     \/ /\ <<n, c>> \in DOMAIN links
        /\ Refuse(<<n, c>>)

\* The routes require both ends to be live; the link may be deleted already.
UnlinkNote(n, c) ==
  /\ n \in LiveNotes /\ c \in LiveCategories
  /\ <<n, c>> \in DOMAIN links /\ links[<<n, c>>].version <= MaxVersion
  /\ WriteLink(<<n, c>>, Tombstone(links[<<n, c>>]))

-------------------------------------------------------------------------------
(* Pushed by a device.  A name that is taken makes the push fail. *)
PushNewCategory(name, v, deleted) == InsertCategory(NewCategory(name, v, deleted))

\* A newer version or a deletion is taken; another name in an equal version is taken
\* too, and the version raised.
PushedCategory(row, name, v, deleted) ==
  IF v > row.version \/ deleted
    THEN [row EXCEPT !.name = IF deleted THEN @ ELSE name,
                     !.is_deleted = @ \/ deleted, !.version = v]
    ELSE [row EXCEPT !.name = name, !.version = IF name = row.name THEN v ELSE v + 1]

PushCategory(c, name, v, deleted) ==
  /\ c \in DOMAIN categories /\ v >= categories[c].version
  /\ deleted \/ name \notin NamesTaken(DOMAIN categories \ {c})
  /\ WriteCategory(c, PushedCategory(categories[c], name, v, deleted))

PushLink(n, c, v, deleted) ==
  /\ n \in LiveNotes /\ c \in LiveCategories
  /\ \/ /\ <<n, c>> \notin DOMAIN links
        /\ WriteLink(<<n, c>>, NewLink(v, deleted))
     \/ /\ <<n, c>> \in DOMAIN links /\ v >= links[<<n, c>>].version
        /\ WriteLink(<<n, c>>, Flush(links[<<n, c>>],
             [links[<<n, c>>] EXCEPT !.is_deleted = @ \/ deleted, !.version = v]))

-------------------------------------------------------------------------------
(* The purge, one transaction; links of an erased note or category cascade. *)
ExpiredCategories == {c \in DOMAIN categories : categories[c].expired}

\* Mutant: the links of erased notes and categories stay.
PurgedByFlag(p) == links[p].expired

Purged(p) == links[p].expired \/ notes[p[1]] = "expired" \/ p[2] \in ExpiredCategories

Purge ==
  /\ notes' = [n \in Notes |-> IF notes[n] = "expired" THEN "erased" ELSE notes[n]]
  /\ categories' = Without(categories, ExpiredCategories)
  /\ links' = Without(links, {p \in DOMAIN links : Purged(p)})
  /\ conflict' = {}
  /\ UNCHANGED serial

Aged(row) == [row EXCEPT !.expired = row.is_deleted]

RetentionElapses ==
  /\ notes' = [n \in Notes |-> IF notes[n] = "deleted" THEN "expired" ELSE notes[n]]
  /\ categories' = [c \in DOMAIN categories |-> Aged(categories[c])]
  /\ links' = [p \in DOMAIN links |-> Aged(links[p])]
  /\ conflict' = {}
  /\ UNCHANGED serial

-------------------------------------------------------------------------------
RestStep ==
  \/ \E n \in Notes : DeleteNote(n)
  \/ \E name \in Names : CreateCategory(name)
  \/ \E c \in CategoryIds, name \in Names : RenameCategory(c, name)
  \/ \E c \in CategoryIds : DeleteCategory(c)
  \/ \E n \in Notes, c \in CategoryIds : LinkNote(n, c)
  \/ \E n \in Notes, c \in CategoryIds : UnlinkNote(n, c)

SyncStep ==
  \/ \E name \in Names, v \in Versions, d \in BOOLEAN : PushNewCategory(name, v, d)
  \/ \E c \in CategoryIds, name \in Names, v \in Versions, d \in BOOLEAN :
       PushCategory(c, name, v, d)
  \/ \E n \in Notes, c \in CategoryIds, v \in Versions, d \in BOOLEAN : PushLink(n, c, v, d)

Next == RestStep \/ SyncStep \/ Purge \/ RetentionElapses

Spec == Init /\ [][Next]_vars

-------------------------------------------------------------------------------
(***************************************************************************)
(* Properties.                                                             *)
(***************************************************************************)
IsTable(table, keys, rows) ==
  /\ DOMAIN table \subseteq keys
  /\ table \in [DOMAIN table -> rows]

\* Rows are well formed, ids were handed out, and a link's ends have rows.
TypeOK ==
  /\ notes \in [Notes -> {"live", "deleted", "expired", "erased"}]
  /\ serial \in 1..(MaxCategories + 1)
  /\ IsTable(categories, 1..(serial - 1), CategoryRow)
  /\ IsTable(links, Pairs, LinkRow)
  /\ \A p \in DOMAIN links : p[2] \in DOMAIN categories /\ notes[p[1]] # "erased"

\* What readers are shown is the labelling of Labels, changed one operation at a
\* time: links left at deleted notes and categories never show again.
LabelsShown == INSTANCE Labels WITH
  LabelIds <- CategoryIds,
  present <- LiveNotes,
  labels <- [c \in LiveCategories |-> categories[c].name],
  marks <- ShownLinks,
  retired <- (1..(serial - 1)) \ LiveCategories

ImplementsLabels == LabelsShown!LabelsSpec

\* service/note_category.py:37 and service/category.py:30 answer 409 "Note already
\* has this category" and "Category with this name already exists for this user".
\* A link once removed, or a deleted category of that name, is in the way too.
ConflictsAreShown ==
  \A what \in conflict :
    what \in ShownLinks \cup {categories[c].name : c \in LiveCategories}
===============================================================================
