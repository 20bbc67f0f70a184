------------------------------ MODULE WebEditor ------------------------------
(***************************************************************************)
(* The note page of the web client: a note is edited in place and saved by *)
(* itself, 30 seconds after the last change, when the tab is hidden and    *)
(* when the page is left.  Translated from the compiled client, whose      *)
(* minified names are given where they help:                               *)
(*                                                                         *)
(*   note    o, the note the page holds     shown   T, g: title, content   *)
(*   base    m, _: what was last loaded or saved    set_up  Se             *)
(*   timer   Re, the debounced save         error   r is not ""            *)
(*   running ce, the last save's promise    latest  de, saves made so far  *)
(*                                                                         *)
(* The page talks to routes/note.py; a save, or the deletion of a draft,   *)
(* is sent, is carried out, and is answered in steps of their own, and     *)
(* other devices write the notes meanwhile.  JavaScript runs what awaits   *)
(* an answer before the next event (Quiet).  Texts stand for what          *)
(* normalising (trim, line ends) leaves of them; the color, which is saved *)
(* as title and content are, is left out.                                  *)
(***************************************************************************)
EXTENDS Naturals, FiniteSets

CONSTANTS Notes,
          NewNotes,     \* notes this tab created, which hold the default text
          Typing,       \* what the user may type
          MaxEdits,     \* bound: how often
          MaxOthers,    \* bound: changes made by other devices
          MaxEvents,    \* bound: navigations, tabs hidden, changes made by other
                        \* devices and failures, all together
          MaxSaves      \* bound: saves, which two loops of De can go on making

Fields == {"title", "content"}
Texts == Typing \cup {"default", "written", "blank", "theirs"}

Null == "null"    \* o = null
NoId == "no id"   \* an answer spread over null: an object without an id
List == "list"    \* any page but a note's

ASSUME NotesAssumption == NewNotes \subseteq Notes /\ Notes \cap {Null, NoId, List} = {}
ASSUME TypingAssumption == Null \notin Typing

VARIABLES rows,      \* the server's notes
          visiting,  \* the page's URL
          heading,   \* where a navigation under way goes
          note, set_up, shown, base, timer, error, running, latest,
          calls,     \* saves not answered or not carried out yet, by number
          drafts,    \* sessionStorage: ids of notes that may be discarded
          deletes,   \* DELETEs of drafts not answered or not carried out yet, by the
                     \* event of the navigation that sent them
          loads,     \* notes whose GET has not been answered, by the event before it
          flows,     \* De: the saves that a hidden tab or a navigation waits for, by event
          typed,     \* history: what the user last typed in each field
          edits,     \* history: how often
          others,    \* history: what other devices have written or deleted
          overtaken, \* history: fields where an older save came after a newer one
          misled,    \* history: notes shown with an answer that misleads
          given_up,  \* history: fields whose last text the page will not save
          resumed,   \* history: notes typed in while their DELETE was under way
          failures,  \* history: requests that failed
          events     \* how many of the MaxEvents have happened

server == <<rows, others, overtaken>>
page == <<note, set_up, shown, base, timer, error, running, latest, drafts>>
history == <<typed, edits, given_up, resumed>>
vars == <<rows, visiting, heading, note, set_up, shown, base, timer, error, running,
          latest, calls, drafts, deletes, loads, flows, typed, edits, given_up, resumed, others,
          overtaken, misled, failures, events>>

StoredText(n) == IF n \in NewNotes THEN "default" ELSE "written"
All(text) == [f \in Fields |-> text]
Nothing == [k \in {} |-> Null]

\* The tab has just created a note and gone to its page, which is empty, or has shown
\* another new note until now.
Init ==
  /\ rows = [n \in Notes |-> [text |-> All(StoredText(n)), live |-> TRUE]]
  /\ visiting \in NewNotes
  /\ heading = Null
  /\ note = Null /\ set_up = Null
  /\ shown \in {All("blank"), All("default")} /\ base = shown
  /\ timer = FALSE /\ error = FALSE
  /\ running = 0 /\ latest = 0 /\ calls = Nothing
  /\ drafts = NewNotes /\ deletes = Nothing
  /\ loads = [k \in {0} |-> visiting] /\ flows = Nothing
  /\ typed = [n \in Notes |-> All(Null)]
  /\ edits = 0
  /\ others = {} /\ overtaken = {} /\ misled = {} /\ given_up = {} /\ resumed = {}
  /\ failures = 0 /\ events = 0

-------------------------------------------------------------------------------
(* Saving. *)
Event == events < MaxEvents /\ events' = events + 1

Unsaved == {f \in Fields : shown[f] # base[f]}
Dirty == Unsaved # {}

\* Mutant: a field left blank is sent.
RefusedNever == FALSE
Refused == \E f \in Unsaved : shown[f] = "blank"
Sends == note # Null /\ Dirty /\ ~Refused
MaySave == Sends => latest < MaxSaves

\* Mutant: a save that sends the whole note.
ChangesAll == shown
Changes == [f \in Unsaved |-> shown[f]]

Put(table, key, row) ==
  [k \in DOMAIN table \cup {key} |-> IF k = key THEN row ELSE table[k]]
Without(table, keys) == [k \in DOMAIN table \ keys |-> table[k]]

Request == [to |-> note, sent |-> Changes, server |-> "under way", client |-> "waits",
            answer |-> All(Null), passed |-> FALSE]

\* $e, up to its await.
Save ==
  /\ latest' = IF Sends THEN latest + 1 ELSE latest
  /\ running' = IF Sends THEN latest' ELSE running
  /\ calls' = IF Sends THEN Put(calls, latest', Request) ELSE calls
  /\ error' = IF note # Null /\ Dirty THEN Refused ELSE error
NoSave == UNCHANGED <<latest, running, calls, error>>

\* lt's flush: a pending save is made at once.
Flush ==
  /\ timer => MaySave
  /\ timer' = FALSE
  /\ IF timer THEN Save ELSE NoSave

Awaited == IF timer /\ Sends THEN latest + 1 ELSE 0
Flow(why) == [why |-> why, at |-> "flush", waits |-> Awaited]

SaveAll(why) ==
  /\ flows' = Put(flows, events', Flow(why))
  /\ Flush

Ready(i) == flows[i].waits = 0
Quiet == \A i \in DOMAIN flows : ~Ready(i)

Goto(i, at, k) == flows' = [flows EXCEPT ![i].at = at, ![i].waits = k]
Over(i) == flows' = Without(flows, {i})

\* Mutant: the loop goes on after a save has failed.
StopsNever == FALSE
StopsAt == error

\* De: await Re.flush(), ce && await ce, then save until nothing is unsaved or a
\* save failed.
FlowStep(i) ==
  /\ Ready(i)
  /\ \/ flows[i].at = "flush" /\ Goto(i, "running", running) /\ NoSave
     \/ flows[i].at = "running" /\ Goto(i, "loop", 0) /\ NoSave
     \/ flows[i].at = "loop" /\ ~Dirty /\ Goto(i, "end", 0) /\ NoSave
     \/ /\ flows[i].at = "loop" /\ Dirty /\ MaySave
        /\ Goto(i, "saved", IF Sends THEN latest + 1 ELSE 0)
        /\ Save
     \/ flows[i].at = "saved" /\ Goto(i, IF StopsAt THEN "end" ELSE "loop", 0) /\ NoSave
  /\ UNCHANGED <<server, visiting, heading, note, set_up, shown, base, timer, drafts,
                 deletes, loads, history, misled, failures, events>>

\* The rest of what a navigation runs: a dialog when something is unsaved, and else
\* _t, which asks the server to delete a draft that still shows the default text, and
\* takes its id off the drafts when the server has.

\* Mutant: only the title is looked at.
IsDefaultTitle(text) == text["title"] = "default"
IsDefault(text) == text = All("default")

Discards == note \in drafts /\ IsDefault(shown)
Deletion == [to |-> note, server |-> "under way", client |-> "waits"]

Asks(i) == flows[i].why = "leave" /\ note # Null /\ Dirty

FlowEnds(i) ==
  /\ flows[i].at = "end"
  /\ Over(i)
  /\ \/ /\ flows[i].why = "hide" \/ note = Null \/ Asks(i)
        /\ UNCHANGED <<drafts, deletes>>
     \/ /\ flows[i].why = "leave" /\ note # Null /\ ~Dirty /\ ~Discards
        /\ drafts' = drafts \ {note}
        /\ UNCHANGED deletes
     \/ /\ flows[i].why = "leave" /\ ~Dirty /\ Discards
        /\ deletes' = Put(deletes, i, Deletion)
        /\ UNCHANGED drafts
  /\ UNCHANGED <<server, visiting, heading, note, set_up, shown, base, timer, error, running,
                 latest, calls, loads, history, misled, failures, events>>

Deleted(i) ==
  /\ Quiet
  /\ deletes[i].client = "waits" /\ deletes[i].server = "applied"
  /\ deletes' = Without(deletes, {i})
  /\ drafts' = drafts \ {deletes[i].to}
  /\ UNCHANGED <<server, visiting, heading, note, set_up, shown, base, timer, error, running,
                 latest, calls, loads, flows, history, misled, failures, events>>

\* It failed or timed out: what timed out may still be carried out.
NotDeleted(i) ==
  /\ Quiet /\ Event
  /\ deletes[i].client = "waits"
  /\ \/ deletes' = Without(deletes, {i})
     \/ deletes[i].server = "under way" /\ deletes' = [deletes EXCEPT ![i].client = "gone"]
  /\ failures' = failures + 1
  /\ UNCHANGED <<server, visiting, heading, page, calls, loads, flows, history, misled>>

-------------------------------------------------------------------------------
(* The user. *)
\* Saves of a field that may still be carried out.
UnderWay(n, f) ==
  {k \in DOMAIN calls : /\ calls[k].to = n /\ f \in DOMAIN calls[k].sent
                        /\ calls[k].server = "under way"}

\* Notes the server is still asked to delete.
Discarding == {deletes[i].to : i \in {j \in DOMAIN deletes : deletes[j].server = "under way"}}

\* Typed back to what the page takes for stored, when something else is stored, or will be.
TypedBack(f, text) ==
  text = base[f] /\ (rows[note].text[f] # text \/ UnderWay(note, f) # {})

\* Oe: a change clears the error and starts the timer again, or stops it when there is
\* nothing unsaved.
Edit(f, text) ==
  /\ Quiet /\ edits < MaxEdits
  /\ note = visiting /\ text # shown[f]
  /\ shown' = [shown EXCEPT ![f] = text]
  /\ error' = FALSE
  /\ timer' = (shown' # base)
  /\ drafts' = IF IsDefault(shown') THEN drafts ELSE drafts \ {note}
  /\ typed' = [typed EXCEPT ![note][f] = text]
  /\ edits' = edits + 1
  /\ given_up' = IF TypedBack(f, text) THEN given_up \cup {<<note, f>>}
                                       ELSE given_up \ {<<note, f>>}
  /\ resumed' = resumed \cup ({note} \cap Discarding)
  /\ UNCHANGED <<server, visiting, heading, note, set_up, base, running, latest, calls,
                 deletes, loads, flows, misled, failures, events>>

\* 30 seconds after the last change, when a save sent before it, which waits 10 seconds
\* at most, has returned.
TimerFires ==
  /\ Quiet /\ timer /\ MaySave /\ heading = Null
  /\ \A k \in DOMAIN calls : calls[k].client # "waits"
  /\ timer' = FALSE
  /\ Save
  /\ UNCHANGED <<server, visiting, heading, note, set_up, shown, base, drafts, deletes,
                 loads, flows, history, misled, failures, events>>

Hide ==
  /\ Quiet /\ Event
  /\ visiting \in Notes /\ note # Null /\ Dirty
  /\ SaveAll("hide")
  /\ UNCHANGED <<server, visiting, heading, note, set_up, shown, base, drafts, deletes,
                 loads, history, misled, failures>>

\* A link is followed.  The page's beforeNavigate is called and not waited for.
Leave(to) ==
  /\ Quiet /\ Event
  /\ visiting \in Notes /\ heading = Null /\ to # visiting
  /\ heading' = to
  /\ SaveAll("leave")
  /\ UNCHANGED <<server, visiting, note, set_up, shown, base, drafts, deletes, loads,
                 history, misled, failures>>

\* Mutant: what was typed while the navigation went on is dropped.
ArriveUnsaved ==
  /\ timer' = FALSE
  /\ NoSave
Arriving == Flush

\* The same component shows the next note; on another page it is destroyed, and its
\* functions run on.
Arrive ==
  /\ Quiet /\ heading # Null
  /\ visiting' = heading /\ heading' = Null
  /\ Arriving
  /\ IF heading \in Notes
       THEN note' = Null /\ loads' = Put(loads, events, heading)
       ELSE UNCHANGED <<note, loads>>
  /\ UNCHANGED <<server, set_up, shown, base, drafts, deletes, flows, history, misled,
                 failures, events>>

-------------------------------------------------------------------------------
(* Answers. *)
\* The fields are filled in when the page holds another note than it was set up for.
\* Before that, an effect takes the note off the drafts if the fields do not show the
\* default text, and it runs again after it.
Loaded(i) ==
  /\ Quiet
  /\ loads' = Without(loads, {i})
  /\ UNCHANGED <<server, visiting, heading, timer, error, running, latest, calls, deletes,
                 flows, typed, edits, resumed, misled>>
  /\ \/ /\ visiting # loads[i]
        /\ UNCHANGED <<note, set_up, shown, base, drafts, given_up, failures, events>>
     \/ /\ visiting = loads[i] /\ rows[visiting].live
        /\ note' = visiting /\ set_up' = visiting
        /\ IF set_up = visiting
             THEN UNCHANGED <<shown, base, given_up>>
             ELSE /\ shown' = rows[visiting].text /\ base' = shown'
                  /\ given_up' = IF Refused THEN given_up \cup ({set_up} \X Unsaved) ELSE given_up
        /\ drafts' = IF IsDefault(shown) /\ IsDefault(shown') THEN drafts ELSE drafts \ {visiting}
        /\ UNCHANGED <<failures, events>>
     \/ /\ visiting = loads[i]
        /\ IF rows[visiting].live THEN Event ELSE UNCHANGED events
        /\ note' = Null
        /\ failures' = failures + 1
        /\ UNCHANGED <<set_up, shown, base, drafts, given_up>>

Takes(k) == k = latest

\* Whoever awaits the save goes on, or ends where the save has thrown.
Return(k, threw) ==
  /\ running' = IF running = k THEN 0 ELSE running
  /\ flows' = IF threw
                THEN Without(flows, {i \in DOMAIN flows : flows[i].waits = k})
                ELSE [i \in DOMAIN flows |->
                        IF flows[i].waits = k THEN [flows[i] EXCEPT !.waits = 0] ELSE flows[i]]

\* What is taken for saved is another note's, or a field now looks edited that the user
\* did not type in.
Misleads(k) ==
  \/ calls[k].to # set_up
  \/ \E f \in Fields : shown[f] \notin {calls[k].answer[f], typed[set_up][f]}

Saved(k) ==
  /\ Quiet
  /\ calls[k].client = "waits" /\ calls[k].server = "applied"
  /\ calls' = Without(calls, {k})
  /\ Return(k, FALSE)
  /\ LET answer == calls[k].answer IN
     IF Takes(k)
       THEN /\ note' = IF note = Null THEN NoId ELSE note
            /\ base' = answer
            /\ drafts' = IF IsDefault(answer) THEN drafts ELSE drafts \ {note}
            /\ misled' = IF Misleads(k) THEN misled \cup {set_up} ELSE misled
       ELSE UNCHANGED <<note, base, drafts, misled>>
  /\ UNCHANGED <<server, visiting, heading, set_up, shown, timer, error, latest, deletes,
                 loads, history, failures, events>>

\* It was refused, or failed, or timed out: what timed out may still be carried out.
\* The handler reads o.id, and throws when o is null.
NotSaved(k) ==
  /\ Quiet
  /\ calls[k].client = "waits"
  /\ IF calls[k].server = "refused" THEN UNCHANGED events ELSE Event
  /\ \/ calls' = Without(calls, {k})
     \/ calls[k].server = "under way" /\ calls' = [calls EXCEPT ![k].client = "gone"]
  /\ Return(k, Takes(k) /\ note = Null)
  /\ error' = IF Takes(k) /\ note # Null THEN TRUE ELSE error
  /\ failures' = failures + 1
  /\ UNCHANGED <<server, visiting, heading, note, set_up, shown, base, timer, latest,
                 drafts, deletes, loads, history, misled>>

-------------------------------------------------------------------------------
(* The server and the other devices. *)
Passed(k) == {j \in DOMAIN calls : j < k /\ calls[j].to = calls[k].to
                                        /\ calls[j].server = "under way"}

\* update_note, of the fields sent.
Apply(k) ==
  /\ Quiet
  /\ calls[k].server = "under way"
  /\ LET n == calls[k].to
         sent == calls[k].sent
         found == n \in Notes /\ rows[n].live
         text == [f \in Fields |-> IF f \in DOMAIN sent THEN sent[f] ELSE rows[n].text[f]]
         marked == [j \in DOMAIN calls |->
                      IF found /\ j \in Passed(k) THEN [calls[j] EXCEPT !.passed = TRUE]
                      ELSE calls[j]]
     IN /\ rows' = IF found THEN [rows EXCEPT ![n].text = text] ELSE rows
        /\ overtaken' = IF found /\ calls[k].passed
                          THEN overtaken \cup {<<n, f>> : f \in DOMAIN sent} ELSE overtaken
        /\ calls' = IF calls[k].client = "gone" THEN Without(marked, {k})
                    ELSE IF found THEN [marked EXCEPT ![k].server = "applied",
                                                      ![k].answer = text]
                    ELSE [calls EXCEPT ![k].server = "refused"]
  /\ UNCHANGED <<visiting, heading, page, deletes, loads, flows, history, others, misled,
                 failures, events>>

\* delete_note, asked by _t: the row is there, deleted already or not.
Delete(i) ==
  /\ Quiet
  /\ deletes[i].server = "under way"
  /\ rows' = [rows EXCEPT ![deletes[i].to].live = FALSE]
  /\ deletes' = IF deletes[i].client = "gone" THEN Without(deletes, {i})
                ELSE [deletes EXCEPT ![i].server = "applied"]
  /\ UNCHANGED <<visiting, heading, page, calls, loads, flows, history, others, overtaken,
                 misled, failures, events>>

OtherWrites(n, f) ==
  /\ Quiet /\ Event /\ Cardinality(others) < MaxOthers
  /\ rows[n].live /\ rows[n].text[f] # "theirs"
  /\ rows' = [rows EXCEPT ![n].text[f] = "theirs"]
  /\ others' = others \cup {<<n, f>>}
  /\ UNCHANGED <<visiting, heading, page, calls, deletes, loads, flows, history, overtaken,
                 misled, failures>>

OtherDeletes(n) ==
  /\ Quiet /\ Event /\ Cardinality(others) < MaxOthers
  /\ rows[n].live
  /\ rows' = [rows EXCEPT ![n].live = FALSE]
  /\ others' = others \cup {<<n, "live">>}
  /\ UNCHANGED <<visiting, heading, page, calls, deletes, loads, flows, history, overtaken,
                 misled, failures>>

Next ==
  \/ \E i \in DOMAIN flows : FlowStep(i) \/ FlowEnds(i)
  \/ \E f \in Fields, text \in Typing : Edit(f, text)
  \/ TimerFires \/ Hide \/ Arrive
  \/ \E to \in Notes \cup {List} : Leave(to)
  \/ \E i \in DOMAIN loads : Loaded(i)
  \/ \E k \in DOMAIN calls : Saved(k) \/ NotSaved(k) \/ Apply(k)
  \/ \E i \in DOMAIN deletes : Deleted(i) \/ NotDeleted(i) \/ Delete(i)
  \/ \E n \in Notes : OtherDeletes(n) \/ \E f \in Fields : OtherWrites(n, f)

Spec == Init /\ [][Next]_vars

\* The browser runs what is ready, the timer fires, a navigation arrives, and every
\* request is answered or times out.
FairSpec ==
  /\ Spec
  /\ WF_vars(\E i \in DOMAIN flows : FlowStep(i) \/ FlowEnds(i))
  /\ WF_vars(TimerFires) /\ WF_vars(Arrive)
  /\ WF_vars(\E i \in DOMAIN loads : Loaded(i))
  /\ WF_vars(\E k \in DOMAIN calls : Apply(k))
  /\ WF_vars(\E k \in DOMAIN calls : Saved(k) \/ NotSaved(k))
  /\ WF_vars(\E i \in DOMAIN deletes : Delete(i))
  /\ WF_vars(\E i \in DOMAIN deletes : Deleted(i) \/ NotDeleted(i))

-------------------------------------------------------------------------------
(* Properties. *)
TypeOK ==
  /\ rows \in [Notes -> [text : [Fields -> Texts], live : BOOLEAN]]
  /\ visiting \in Notes \cup {List} /\ heading \in Notes \cup {List, Null}
  /\ note \in Notes \cup {Null, NoId} /\ set_up \in Notes \cup {Null}
  /\ shown \in [Fields -> Texts] /\ base \in [Fields -> Texts]
  /\ timer \in BOOLEAN /\ error \in BOOLEAN
  /\ running \in 0..latest /\ DOMAIN calls \subseteq 1..latest
  /\ drafts \subseteq NewNotes /\ \A i \in DOMAIN deletes : deletes[i].to \in NewNotes
  /\ \A k \in DOMAIN calls : \A f \in DOMAIN calls[k].sent : calls[k].sent[f] # "blank"
  /\ \A i \in DOMAIN flows : flows[i].waits \in {0} \cup DOMAIN calls

\* Nothing is left to run, and no save can still arrive.
Settled ==
  /\ ~timer /\ heading = Null
  /\ flows = Nothing /\ calls = Nothing

\* The editor saves by itself: once everything has come to rest and no request has
\* failed, what the user last typed is what the note's row stores.  Unless another
\* device wrote the field later, a save was carried out after a newer one, a field
\* left blank holds the note up or held it up when the user moved on (such a save is
\* refused whole), the field was typed back while another text was on its way, or an
\* answer has misled the page.
TypedTextIsStored ==
  Settled /\ failures = 0 =>
    \A n \in Notes \ misled, f \in Fields :
      typed[n][f] # Null =>
        \/ rows[n].text[f] = typed[n][f]
        \/ <<n, f>> \in others \cup overtaken \cup given_up
        \/ n = set_up /\ Refused

\* Only the fields that were changed are sent: what another device wrote to a field
\* the user did not touch stands.  An answer that has misled the page breaks it.
OthersTextStands ==
  \A n \in Notes \ misled, f \in Fields :
    <<n, f>> \in others /\ typed[n][f] = Null => rows[n].text[f] = "theirs"

\* Leaving a new note discards it only when nothing was written to it: what the
\* server deletes then holds the default text, or what another device wrote.  Unless
\* the user typed on, or came back and typed, while the DELETE was under way: nothing
\* calls it back, and what was saved in between goes with the note.
OnlyEmptyDraftsAreDiscarded ==
  \A n \in Notes :
    \/ rows[n].live \/ <<n, "live">> \in others
    \/ n \in NewNotes /\ (\/ rows[n].text = All("default")
                          \/ \E f \in Fields : <<n, f>> \in others
                          \/ n \in resumed)

\* De saves for ever: with no note there is nothing to send, and what is unsaved stays
\* unsaved.  The page hangs: nothing else runs any more.
Hung == \E i \in DOMAIN flows :
          flows[i].at \in {"loop", "saved"} /\ flows[i].waits = 0 /\ note = Null /\ Dirty /\ ~error

HungAfterFailure ==
  Hung /\ (failures > 0 \/ \E k \in DOMAIN calls : calls[k].client = "waits")

\* What waits for the saves gets past them, unless De hangs after a request has failed or
\* before another save is answered, or two of its loops go on making each other's answers
\* stale until no more saves are modelled.
FlowsEnd == (flows # Nothing) ~> (flows = Nothing \/ HungAfterFailure \/ latest = MaxSaves)

===============================================================================
