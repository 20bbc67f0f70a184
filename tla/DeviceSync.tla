------------------------------ MODULE DeviceSync ------------------------------
(***************************************************************************)
(* A user's notes on the server and on the devices that sync them.  A      *)
(* device sends the versions it holds to POST /sync/compare/notes and is   *)
(* told what to pull and what to push; it then GETs and POSTs those notes  *)
(* one request at a time, while the user goes on editing on the web, on    *)
(* this device and on others.                                              *)
(*                                                                         *)
(* The server is translated from service/sync.py and service/note.py, each *)
(* request one step.  The device is not in the repository: it is assumed   *)
(* to do what compare tells it, to take over what it GETs and the version  *)
(* in the answer to a push, and to raise a note's version by one when it   *)
(* is changed or deleted there, as the server does.                        *)
(***************************************************************************)
EXTENDS Naturals, Functions

CONSTANTS Devices,
          Contents,    \* all that a note shows, and what its hash and type tell apart
          MaxCoreIds,  \* bound: ids handed out
          TopVersion   \* bound: versions that edits lead to

CoreIds == 1..MaxCoreIds

ASSUME SyncBoundsAssumption == MaxCoreIds \in Nat /\ TopVersion \in Nat

VARIABLES server,     \* note id (core_id) -> row
          next_id,    \* the next id
          copy,       \* device -> note id -> row
          unsent,     \* device -> contents of notes written there that have no id yet
          to_pull,    \* device -> what compare told it to GET and it has not yet
          to_push,    \* device -> what compare told it to POST and it has not yet
          base,       \* history: device -> note changed there, a change the server does
                      \* not have yet -> version the change started from
          conflicted  \* history: notes with such a change from a version since passed

syncVars == <<server, next_id, copy, unsent, to_pull, to_push, base, conflicted>>
deviceLists == <<unsent, to_pull, to_push>>

Row(content, version, deleted) ==
  [content |-> content, version |-> version, is_deleted |-> deleted]

WithRow(table, key, row) ==
  [k \in DOMAIN table \cup {key} |-> IF k = key THEN row ELSE table[k]]
WithoutRow(table, key) == Restrict(table, DOMAIN table \ {key})
Empty == [k \in {} |-> k]

\* A device's change is in conflict once the server's row is no longer the one it
\* started from.
Conflicts(rows, bases) ==
  {n \in CoreIds : \E d \in Devices :
     n \in DOMAIN bases[d] /\ n \in DOMAIN rows /\ rows[n].version # bases[d][n]}

NoteConflicts == conflicted' = conflicted \cup Conflicts(server', base')

SyncInit ==
  /\ server = Empty
  /\ next_id = 1
  /\ copy = [d \in Devices |-> Empty]
  /\ unsent = [d \in Devices |-> {}]
  /\ to_pull = [d \in Devices |-> {}]
  /\ to_push = [d \in Devices |-> {}]
  /\ base = [d \in Devices |-> Empty]
  /\ conflicted = {}

-------------------------------------------------------------------------------
(* The web client: service/note.py. *)
\* Mutant: the id is handed out again.
InsertReusing(c) ==
  /\ next_id <= MaxCoreIds
  /\ server' = WithRow(server, next_id, Row(c, 1, FALSE))
  /\ UNCHANGED next_id

Insert(c) ==
  /\ next_id <= MaxCoreIds
  /\ server' = WithRow(server, next_id, Row(c, 1, FALSE))
  /\ next_id' = next_id + 1

WebCreate(c) ==
  /\ Insert(c)
  /\ UNCHANGED <<copy, deviceLists, base, conflicted>>

\* Mutant: an edit that leaves the version alone.
WebEditUnversioned(n, c) ==
  /\ n \in DOMAIN server
  /\ ~server[n].is_deleted /\ c # server[n].content
  /\ server' = [server EXCEPT ![n] = Row(c, @.version, FALSE)]
  /\ UNCHANGED <<next_id, copy, deviceLists, base>>
  /\ NoteConflicts

WebEdit(n, c) ==
  /\ n \in DOMAIN server
  /\ ~server[n].is_deleted /\ c # server[n].content
  /\ server[n].version < TopVersion
  /\ server' = [server EXCEPT ![n] = Row(c, @.version + 1, FALSE)]
  /\ UNCHANGED <<next_id, copy, deviceLists, base>>
  /\ NoteConflicts

WebDelete(n) ==
  /\ n \in DOMAIN server
  /\ server[n].version < TopVersion
  /\ server' = [server EXCEPT ![n] = Row(@.content, @.version + 1, TRUE)]
  /\ UNCHANGED <<next_id, copy, deviceLists, base>>
  /\ NoteConflicts

\* The retention window has passed and the purge script has run.
PurgeRow(n) ==
  /\ n \in DOMAIN server /\ server[n].is_deleted
  /\ server' = WithoutRow(server, n)
  /\ UNCHANGED <<next_id, copy, deviceLists, base, conflicted>>

-------------------------------------------------------------------------------
(* The user on a device. *)
LocalCreate(d, c) ==
  /\ unsent[d] = {} /\ next_id <= MaxCoreIds
  /\ unsent' = [unsent EXCEPT ![d] = {c}]
  /\ UNCHANGED <<server, next_id, copy, to_pull, to_push, base, conflicted>>

LocalChange(d, n, row) ==
  /\ row.version <= TopVersion
  /\ copy' = [copy EXCEPT ![d][n] = row]
  /\ base' = IF n \in DOMAIN base[d] THEN base
             ELSE [base EXCEPT ![d] = WithRow(@, n, copy[d][n].version)]
  /\ UNCHANGED <<server, next_id, deviceLists>>
  /\ NoteConflicts

LocalEdit(d, n, c) ==
  /\ n \in DOMAIN copy[d]
  /\ ~copy[d][n].is_deleted /\ c # copy[d][n].content
  /\ LocalChange(d, n, Row(c, copy[d][n].version + 1, FALSE))

LocalDelete(d, n) ==
  /\ n \in DOMAIN copy[d] /\ ~copy[d][n].is_deleted
  /\ LocalChange(d, n, Row(copy[d][n].content, copy[d][n].version + 1, TRUE))

-------------------------------------------------------------------------------
(***************************************************************************)
(* Compare looks at versions alone: what is newer on one side, or missing  *)
(* there and not deleted on the other.                                     *)
(***************************************************************************)
\* Mutant: whatever differs is pulled.
ToPullDiffering(held, rows) ==
  {n \in DOMAIN rows :
     IF n \in DOMAIN held THEN rows[n].version # held[n].version
                          ELSE ~rows[n].is_deleted}

ToPull(held, rows) ==
  {n \in DOMAIN rows :
     IF n \in DOMAIN held THEN rows[n].version > held[n].version
                          ELSE ~rows[n].is_deleted}

ToPush(held, rows) ==
  {n \in DOMAIN held :
     IF n \in DOMAIN rows THEN held[n].version > rows[n].version
                          ELSE ~held[n].is_deleted}

Compare(d) ==
  /\ to_pull[d] = {} /\ to_push[d] = {}
  /\ to_pull' = [to_pull EXCEPT ![d] = ToPull(copy[d], server)]
  /\ to_push' = [to_push EXCEPT ![d] = ToPush(copy[d], server)]
  /\ UNCHANGED <<server, next_id, copy, unsent, base, conflicted>>

Synced(d, n, row) ==
  /\ copy' = [copy EXCEPT ![d] = WithRow(@, n, row)]
  /\ base' = [base EXCEPT ![d] = WithoutRow(@, n)]

\* GET /sync/notes: deleted notes are returned too; a purged one is a 404.
Pull(d, n) ==
  /\ n \in to_pull[d]
  /\ to_pull' = [to_pull EXCEPT ![d] = @ \ {n}]
  /\ \/ /\ n \in DOMAIN server
        /\ Synced(d, n, server[n])
     \/ /\ n \notin DOMAIN server
        /\ UNCHANGED <<copy, base>>
  /\ UNCHANGED <<server, next_id, unsent, to_push, conflicted>>

(***************************************************************************)
(* POST /sync/notes.                                                       *)
(***************************************************************************)
Rejected(pushed, row) == pushed.version < row.version

\* What the row becomes: is_deleted is set by a push, never cleared, and an equal
\* version is raised unless the push deletes the note or changes nothing.
Pushed(pushed, row) ==
  IF Rejected(pushed, row) THEN row
  ELSE IF pushed.is_deleted THEN [row EXCEPT !.is_deleted = TRUE, !.version = pushed.version]
  ELSE IF pushed.version > row.version
    THEN [row EXCEPT !.content = pushed.content, !.version = pushed.version]
  ELSE IF pushed.content # row.content
    THEN [row EXCEPT !.content = pushed.content, !.version = @ + 1]
  ELSE row

Store(d, n) ==
  IF n \in DOMAIN server
    THEN server' = [server EXCEPT ![n] = Pushed(copy[d][n], @)]
    ELSE server' = server

Push(d, n) ==
  /\ n \in to_push[d]
  /\ to_push' = [to_push EXCEPT ![d] = @ \ {n}]
  /\ Store(d, n)
  /\ IF n \in DOMAIN server /\ ~Rejected(copy[d][n], server[n])
       THEN Synced(d, n, [copy[d][n] EXCEPT !.version = server'[n].version])
       ELSE UNCHANGED <<copy, base>>
  /\ UNCHANGED <<next_id, unsent, to_pull>>
  /\ NoteConflicts

\* The answer is lost on its way; the device will push again, without knowing that the
\* server has its change.
PushUnanswered(d, n) ==
  /\ n \in to_push[d]
  /\ Store(d, n)
  /\ base' = IF n \in DOMAIN server /\ server'[n].version = copy[d][n].version
               THEN [base EXCEPT ![d] = WithoutRow(@, n)]
               ELSE base
  /\ UNCHANGED <<next_id, copy, deviceLists>>
  /\ NoteConflicts

\* A push without a core_id inserts a note, however often it is sent.
PushNew(d, c) ==
  /\ c \in unsent[d]
  /\ Insert(c)
  /\ unsent' = [unsent EXCEPT ![d] = @ \ {c}]
  /\ Synced(d, next_id, Row(c, 1, FALSE))
  /\ UNCHANGED <<to_pull, to_push, conflicted>>

\* The new id is lost with the answer.
PushNewUnanswered(d, c) ==
  /\ c \in unsent[d]
  /\ Insert(c)
  /\ UNCHANGED <<copy, deviceLists, base, conflicted>>

-------------------------------------------------------------------------------
Web ==
  \/ \E c \in Contents : WebCreate(c)
  \/ \E n \in CoreIds, c \in Contents : WebEdit(n, c)
  \/ \E n \in CoreIds : WebDelete(n)
  \/ \E n \in CoreIds : PurgeRow(n)

Local(d) ==
  \/ \E c \in Contents : LocalCreate(d, c)
  \/ \E n \in CoreIds, c \in Contents : LocalEdit(d, n, c)
  \/ \E n \in CoreIds : LocalDelete(d, n)

Sync(d) ==
  \/ Compare(d)
  \/ \E n \in CoreIds : Pull(d, n)
  \/ \E n \in CoreIds : Push(d, n)
  \/ \E c \in Contents : PushNew(d, c)

SyncNext ==
  \/ Web
  \/ \E d \in Devices : Local(d) \/ Sync(d)
  \/ \E d \in Devices, n \in CoreIds : PushUnanswered(d, n)
  \/ \E d \in Devices, c \in Contents : PushNewUnanswered(d, c)

(***************************************************************************)
(* A device goes on syncing, and an answer gets through in the end.  Nobody *)
(* is obliged to edit, and the purge is not obliged to run.                *)
(***************************************************************************)
Fairness == \A d \in Devices : WF_syncVars(Sync(d))

SyncSpec == SyncInit /\ [][SyncNext]_syncVars /\ Fairness

-------------------------------------------------------------------------------
SyncRow == [content : Contents, version : 1..(TopVersion + 1), is_deleted : BOOLEAN]

\* Tables hold well-formed rows for ids that were handed out.
SyncTypeOK ==
  /\ DOMAIN server \subseteq 1..(next_id - 1) /\ server \in [DOMAIN server -> SyncRow]
  /\ \A d \in Devices :
       /\ DOMAIN copy[d] \subseteq 1..(next_id - 1)
       /\ copy[d] \in [DOMAIN copy[d] -> SyncRow]
       /\ to_pull[d] \subseteq CoreIds /\ to_push[d] \subseteq DOMAIN copy[d]
       /\ unsent[d] \subseteq Contents
       /\ DOMAIN base[d] \subseteq DOMAIN copy[d]

Visible(row) == IF row.is_deleted THEN {} ELSE {row.content}

\* Compare looks at versions alone, and that is enough: a copy in the server's version shows
\* what the server's row shows, unless the note was changed in two places at once.
EqualVersionsAgree ==
  \A d \in Devices : \A n \in DOMAIN copy[d] :
    n \in DOMAIN server /\ n \notin conflicted /\ copy[d][n].version = server[n].version =>
      Visible(copy[d][n]) = Visible(server[n])

KeepsChange(d, n) ==
  /\ copy'[d][n].version >= copy[d][n].version
  /\ n \in DOMAIN base[d] \ DOMAIN base'[d] =>
       n \in DOMAIN server' /\ Visible(server'[n]) = Visible(copy[d][n])

ShownUnderNewVersions(n) ==
  /\ server'[n].version >= server[n].version
  /\ Visible(server'[n]) # Visible(server[n]) => server'[n].version > server[n].version

\* Only a note changed in two places at once can lose a change: any other change made on a
\* device stays there until the server shows it, copies never go back to an older version,
\* and the server shows something new only under a new version, which other devices will
\* find by comparing; although lists of what to pull and push are worked off late, over
\* newer rows, pushes are repeated and a deletion may be pushed at the server's version.
ChangesSurvive ==
  [][/\ \A d \in Devices : \A n \in DOMAIN copy[d] \ conflicted' : KeepsChange(d, n)
     /\ \A n \in (DOMAIN server \cap DOMAIN server') \ conflicted' :
          ShownUnderNewVersions(n)]_syncVars

\* Once the user stops editing, every device holds every row the server has in the
\* server's version, except deleted ones it never had.  And what was not changed in two
\* places at once shows the same everywhere, and is deleted everywhere if it is anywhere.
CopiesConverge ==
  <>[](\A d \in Devices : \A n \in DOMAIN server :
         IF n \in DOMAIN copy[d]
           THEN /\ copy[d][n].version = server[n].version
                /\ n \notin conflicted => Visible(copy[d][n]) = Visible(server[n])
           ELSE server[n].is_deleted)
===============================================================================
