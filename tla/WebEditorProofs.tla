---------------------------- MODULE WebEditorProofs ----------------------------
(***************************************************************************)
(* The safety properties of the note page, for any notes and texts, and    *)
(* any number of edits, saves, navigations and failures.                   *)
(***************************************************************************)
EXTENDS WebEditor, TLAPS

(***************************************************************************)
(* The inductive invariant.                                                *)
(***************************************************************************)
Sent == UNION {[F -> Texts \ {"blank"}] : F \in SUBSET Fields}
CallRow == [to : Notes \cup {NoId}, sent : Sent,
            server : {"under way", "applied", "refused"}, client : {"waits", "gone"},
            answer : [Fields -> Texts \cup {Null}], passed : BOOLEAN]
FlowRow == [why : {"hide", "leave"}, at : {"flush", "running", "loop", "saved", "end"},
            waits : Nat]
DeleteRow == [to : NewNotes, server : {"under way", "applied"}, client : {"waits", "gone"}]

Types ==
  /\ rows \in [Notes -> [text : [Fields -> Texts], live : BOOLEAN]]
  /\ visiting \in Notes \cup {List} /\ heading \in Notes \cup {List, Null}
  /\ note \in Notes \cup {Null, NoId} /\ set_up \in Notes \cup {Null}
  /\ shown \in [Fields -> Texts] /\ base \in [Fields -> Texts]
  /\ timer \in BOOLEAN /\ error \in BOOLEAN
  /\ latest \in Nat /\ DOMAIN calls \subseteq 1..latest
  /\ \A k \in DOMAIN calls : calls[k] \in CallRow
  /\ drafts \subseteq NewNotes /\ \A i \in DOMAIN deletes : deletes[i] \in DeleteRow
  /\ \A i \in DOMAIN loads : loads[i] \in Notes
  /\ \A i \in DOMAIN flows : flows[i] \in FlowRow
  /\ typed \in [Notes -> [Fields -> Texts \cup {Null}]]
  /\ edits \in Nat /\ failures \in Nat /\ events \in Nat

\* What the page and its flows wait for will be answered.
Waiting == {k \in DOMAIN calls : calls[k].client = "waits"}
AwaitedIsWaiting ==
  /\ running \in {0} \cup Waiting
  /\ \A i \in DOMAIN flows : flows[i].waits \in {0} \cup Waiting
  /\ failures = 0 => Waiting = DOMAIN calls

\* No blank is stored, and so none is answered.
NothingIsBlank ==
  /\ \A n \in Notes, f \in Fields : rows[n].text[f] # "blank"
  /\ \A k \in DOMAIN calls : calls[k].server = "applied" =>
       calls[k].answer \in [Fields -> Texts \ {"blank"}]

\* The note the page holds is the one whose fields it shows, and the page's URL, until
\* the page is left for the list; and it holds one while the timer runs.
PageFits ==
  /\ note \in Notes => set_up = note /\ visiting \in {note, List}
  /\ timer /\ failures = 0 => note \in Notes

\* What is unsaved, and what was sent, the user has typed.
UnsavedIsTyped ==
  set_up \in Notes \ misled => \A f \in Unsaved : shown[f] = typed[set_up][f]
SentIsTyped ==
  \A k \in DOMAIN calls : calls[k].to \in Notes \ misled =>
    \A f \in DOMAIN calls[k].sent : typed[calls[k].to][f] # Null

\* A draft, and a note that the server is asked to delete and the user has not typed in
\* since, shows, is sent, and holds the default text, or what another device wrote.
Spared == drafts \cup (Discarding \ resumed)
Untouched(n, f, text) == text = "default" \/ <<n, f>> \in others
DraftsAreUntouched ==
  \A n \in Spared, f \in Fields :
    /\ n = set_up => Untouched(n, f, shown[f])
    /\ \A k \in DOMAIN calls : calls[k].to = n /\ f \in DOMAIN calls[k].sent =>
         Untouched(n, f, calls[k].sent[f])
    /\ Untouched(n, f, rows[n].text[f])

\* When the newest save has been carried out, the row is what it answers; older saves
\* will count as overtaken.
Overwritten(n, f) == <<n, f>> \in others \cup overtaken
NewestIsStored ==
  \A k \in DOMAIN calls : k = latest /\ calls[k].server = "applied" /\ calls[k].to \in Notes =>
    \A f \in Fields :
      /\ rows[calls[k].to].text[f] = calls[k].answer[f] \/ Overwritten(calls[k].to, f)
      /\ \A j \in UnderWay(calls[k].to, f) : calls[j].passed

\* Where the text the user typed last is: stored, on its way, about to be sent, or held
\* up by a blank field.
Stored(n, f) ==
  rows[n].text[f] = typed[n][f] /\ \A j \in UnderWay(n, f) : calls[j].passed
OnItsWay(n, f) ==
  \E k \in UnderWay(n, f) :
    calls[k].sent[f] = typed[n][f] /\ \A j \in UnderWay(n, f) : j <= k
ToSend(n, f) == n = set_up /\ f \in Unsaved /\ (timer \/ Refused)
Refusal == \E k \in DOMAIN calls : calls[k].server = "refused"

TypedIsKept ==
  failures = 0 =>
    \A n \in Notes \ misled, f \in Fields :
      typed[n][f] # Null =>
        \/ Overwritten(n, f) \/ <<n, f>> \in given_up
        \/ Stored(n, f) \/ OnItsWay(n, f) \/ ToSend(n, f) \/ Refusal

IInv == /\ Types /\ AwaitedIsWaiting /\ NothingIsBlank /\ PageFits /\ UnsavedIsTyped
        /\ SentIsTyped /\ DraftsAreUntouched /\ NewestIsStored /\ TypedIsKept
        /\ OthersTextStands /\ OnlyEmptyDraftsAreDiscarded

-------------------------------------------------------------------------------
(***************************************************************************)
(* Saving.                                                                 *)
(***************************************************************************)

\* What $e sends when it sends something.
LEMMA Sending ==
  ASSUME Types, Save, Sends
  PROVE  /\ latest' = latest + 1 /\ latest' \notin DOMAIN calls /\ running' = latest'
         /\ DOMAIN calls' = DOMAIN calls \cup {latest'}
         /\ \A k \in DOMAIN calls : calls'[k] = calls[k]
         /\ calls'[latest'] \in CallRow
         /\ calls'[latest'].to = note /\ calls'[latest'].server = "under way"
         /\ calls'[latest'].client = "waits"
         /\ DOMAIN calls'[latest'].sent = Unsaved
         /\ \A f \in Unsaved : calls'[latest'].sent[f] = shown[f]
<1>1. latest' = latest + 1 /\ running' = latest' /\ calls' = Put(calls, latest', Request)
  BY DEF Save
<1>2. latest' \notin DOMAIN calls
  BY <1>1 DEF Types
<1>3. Changes \in Sent
  <2>1. Unsaved \subseteq Fields
    BY DEF Unsaved
  <2>2. Changes \in [Unsaved -> Texts \ {"blank"}]
    BY <2>1 DEF Changes, Types, Sends, Refused
  <2> QED BY <2>1, <2>2 DEF Sent
<1>4. Request \in CallRow
  <2>1. note \in Notes \cup {NoId}
    BY DEF Types, Sends
  <2>2. All(Null) \in [Fields -> Texts \cup {Null}]
    BY DEF All
  <2> QED BY <1>3, <2>1, <2>2 DEF Request, CallRow
<1>5. /\ DOMAIN calls' = DOMAIN calls \cup {latest'}
      /\ \A k \in DOMAIN calls : calls'[k] = calls[k]
      /\ calls'[latest'] = Request
  BY <1>1, <1>2 DEF Put
<1>6. DOMAIN Request.sent = Unsaved /\ \A f \in Unsaved : Request.sent[f] = shown[f]
  BY DEF Request, Changes
<1>7. Request.to = note /\ Request.server = "under way" /\ Request.client = "waits"
  BY DEF Request
<1> HIDE DEF Request
<1> QED BY <1>1, <1>2, <1>4, <1>5, <1>6, <1>7

\* What may still be discarded are new notes.
LEMMA SparedFits ==
  ASSUME Types
  PROVE  Spared \subseteq NewNotes /\ Spared \subseteq Notes
<1>1. Discarding \subseteq NewNotes
  BY DEF Types, Discarding, DeleteRow
<1> QED BY <1>1, NotesAssumption DEF Types, Spared

\* Whether or not something is sent, the calls made before are as they were.
LEMMA SaveKeepsCalls ==
  ASSUME IInv, Save \/ NoSave
  PROVE  /\ latest' \in Nat /\ DOMAIN calls' \subseteq 1..latest'
         /\ \A k \in DOMAIN calls' : calls'[k] \in CallRow
         /\ DOMAIN calls \subseteq DOMAIN calls'
         /\ \A k \in DOMAIN calls : calls'[k] = calls[k]
         /\ Waiting \subseteq Waiting' /\ running' \in {0} \cup Waiting'
         /\ Waiting = DOMAIN calls => Waiting' = DOMAIN calls'
         /\ error' \in BOOLEAN
<1>1. Types /\ AwaitedIsWaiting
  BY DEF IInv
<1>2. CASE Save /\ Sends
  <2>1. error' \in BOOLEAN
    BY <1>1, <1>2 DEF Save, Refused, Types
  <2>2. latest \in Nat /\ DOMAIN calls \subseteq 1..latest
    BY <1>1 DEF Types
  <2>3. DOMAIN calls' \subseteq 1..latest'
    <3>1. latest' = latest + 1 /\ DOMAIN calls' = DOMAIN calls \cup {latest + 1}
      BY <1>1, <1>2, Sending
    <3> QED BY <2>2, <3>1
  <2>4. Waiting' = Waiting \cup {latest'}
    BY <1>1, <1>2, Sending DEF Waiting
  <2>5. /\ latest' = latest + 1 /\ running' = latest' /\ latest' \in Waiting'
        /\ DOMAIN calls' = DOMAIN calls \cup {latest'}
        /\ \A k \in DOMAIN calls : calls'[k] = calls[k]
        /\ calls'[latest'] \in CallRow
    BY <1>1, <1>2, <2>4, Sending
  <2>6. \A k \in DOMAIN calls' : calls'[k] \in CallRow
    BY <1>1, <2>5 DEF Types
  <2> QED BY <2>1, <2>2, <2>3, <2>4, <2>5, <2>6
<1>3. CASE ~(Save /\ Sends)
  <2>1. latest' = latest /\ running' = running /\ calls' = calls
    BY <1>3 DEF Save, NoSave
  <2>2. error' \in BOOLEAN
    BY <1>1 DEF Save, NoSave, Refused, Types
  <2>3. Waiting' = Waiting
    BY <2>1 DEF Waiting
  <2> QED BY <1>1, <2>1, <2>2, <2>3 DEF Types, AwaitedIsWaiting
<1> QED BY <1>2, <1>3

\* Saves under way, after a save.
LEMMA SaveUnderWay ==
  ASSUME IInv, Save \/ NoSave, NEW n, NEW f
  PROVE  \/ UnderWay(n, f)' = UnderWay(n, f)
         \/ /\ Save /\ Sends /\ n = note /\ f \in Unsaved
            /\ UnderWay(n, f)' = UnderWay(n, f) \cup {latest'}
<1>1. CASE Save /\ Sends
  <2>1. Types
    BY DEF IInv
  <2>2. UnderWay(n, f)' = UnderWay(n, f)
                            \cup (IF n = note /\ f \in Unsaved THEN {latest'} ELSE {})
    BY <1>1, <2>1, Sending DEF UnderWay
  <2> QED BY <1>1, <2>2
<1>2. CASE ~(Save /\ Sends)
  <2>1. calls' = calls
    BY <1>2 DEF Save, NoSave
  <2> QED BY <2>1 DEF UnderWay
<1> QED BY <1>1, <1>2

\* A save keeps the invariant, and so may stop the timer.
Saves ==
  /\ Save \/ NoSave
  /\ UNCHANGED <<server, set_up, shown, base, drafts, deletes, history, misled, failures>>
  /\ note' \in {note, Null}
  /\ (timer' /\ timer) \/ (~timer' /\ ~timer) \/ (timer /\ ~timer' /\ Save)

\* Sending the fields loses nothing that was typed: it is on its way.
LEMMA SavesKeepsTyped ==
  ASSUME IInv, Saves
  PROVE  TypedIsKept'
<1> USE DEF Saves
<1> SUFFICES ASSUME failures' = 0, NEW n \in (Notes \ misled)', NEW f \in Fields, typed'[n][f] # Null
             PROVE  \/ Overwritten(n, f)' \/ <<n, f>> \in given_up'
                    \/ Stored(n, f)' \/ OnItsWay(n, f)' \/ ToSend(n, f)' \/ Refusal'
  BY DEF TypedIsKept
<1>1. /\ rows' = rows /\ others' = others /\ overtaken' = overtaken /\ given_up' = given_up
      /\ typed' = typed /\ set_up' = set_up /\ shown' = shown /\ base' = base
      /\ misled' = misled /\ failures' = failures
  BY DEF server, history
<1>2. Unsaved' = Unsaved /\ Refused' = Refused
  BY <1>1 DEF Unsaved, Refused
<1>3. \/ Overwritten(n, f) \/ <<n, f>> \in given_up
      \/ Stored(n, f) \/ OnItsWay(n, f) \/ ToSend(n, f) \/ Refusal
  BY <1>1 DEF IInv, TypedIsKept
<1>4. UnderWay(n, f)' = UnderWay(n, f) => UnderWay(n, f) \subseteq DOMAIN calls
  BY DEF UnderWay
<1>5. /\ DOMAIN calls \subseteq DOMAIN calls' /\ latest' \in Nat
      /\ \A k \in DOMAIN calls : calls'[k] = calls[k]
  BY SaveKeepsCalls
<1>6. CASE Save /\ Sends /\ n = note /\ f \in Unsaved
  <2>1. n = set_up
    BY <1>1, <1>6 DEF IInv, PageFits
  <2>2. shown[f] = typed[n][f]
    BY <1>1, <1>6, <2>1 DEF IInv, UnsavedIsTyped
  <2>3. Types
    BY DEF IInv
  <2>4. latest' \in UnderWay(n, f)' /\ calls'[latest'].sent[f] = typed[n][f]
    BY <1>6, <2>2, <2>3, Sending DEF UnderWay
  <2>5. \A j \in UnderWay(n, f)' : j <= latest'
    <3>1. latest' \in Nat /\ DOMAIN calls' \subseteq 1..latest'
      BY SaveKeepsCalls
    <3>2. \A j \in 1..latest' : j <= latest'
      BY <3>1
    <3> QED BY <3>1, <3>2 DEF UnderWay
  <2>6. OnItsWay(n, f)'
    BY <1>1, <2>4, <2>5 DEF OnItsWay
  <2> QED BY <2>6
<1>7. CASE UnderWay(n, f)' = UnderWay(n, f)
  <2>1. Stored(n, f) => Stored(n, f)'
    BY <1>1, <1>4, <1>5, <1>7 DEF Stored
  <2>2. OnItsWay(n, f) => OnItsWay(n, f)'
    BY <1>1, <1>4, <1>5, <1>7 DEF OnItsWay
  <2>3. Refusal => Refusal'
    BY <1>5 DEF Refusal
  <2>4. Overwritten(n, f) => Overwritten(n, f)'
    BY <1>1 DEF Overwritten
  <2>5. CASE ToSend(n, f)
    <3>1. CASE timer' \/ Refused
      BY <1>1, <1>2, <2>5, <3>1 DEF ToSend
    <3>2. CASE ~timer' /\ ~Refused
      <4>1. timer /\ Save
        BY <2>5, <3>2 DEF ToSend
      <4>2. note \in Notes
        BY <1>1, <4>1 DEF IInv, PageFits
      <4>3. note = n /\ note # Null
        BY <2>5, <4>2, NotesAssumption DEF IInv, PageFits, ToSend
      <4>4. Sends
        BY <2>5, <3>2, <4>3 DEF Sends, Dirty, ToSend
      <4> QED BY <1>6, <2>5, <4>1, <4>3, <4>4 DEF ToSend
    <3> QED BY <3>1, <3>2
  <2> QED BY <1>1, <1>3, <2>1, <2>2, <2>3, <2>4, <2>5
<1> QED BY <1>6, <1>7, SaveUnderWay

\* Sending the fields keeps the invariant.
LEMMA SavesInv ==
  ASSUME IInv, Saves
  PROVE  /\ NothingIsBlank' /\ UnsavedIsTyped' /\ SentIsTyped' /\ DraftsAreUntouched'
         /\ NewestIsStored' /\ TypedIsKept' /\ OthersTextStands' /\ OnlyEmptyDraftsAreDiscarded'
<1>1. /\ rows' = rows /\ others' = others /\ overtaken' = overtaken /\ given_up' = given_up
      /\ typed' = typed /\ set_up' = set_up /\ shown' = shown /\ base' = base
      /\ misled' = misled /\ failures' = failures /\ drafts' = drafts
      /\ deletes' = deletes /\ resumed' = resumed
  BY DEF Saves, server, history
<1>2. Save \/ NoSave
  BY DEF Saves
<1>3. Types /\ PageFits /\ UnsavedIsTyped /\ SentIsTyped /\ DraftsAreUntouched /\ NewestIsStored
  BY DEF IInv
<1>4. \A k \in DOMAIN calls' :
        \/ k \in DOMAIN calls /\ calls'[k] = calls[k]
        \/ /\ Save /\ Sends /\ k = latest'
           /\ calls'[k].to = note /\ calls'[k].server = "under way"
           /\ DOMAIN calls'[k].sent = Unsaved
           /\ \A f \in Unsaved : calls'[k].sent[f] = shown[f]
  <2>1. CASE Save /\ Sends
    BY <1>3, <2>1, Sending
  <2>2. CASE ~(Save /\ Sends)
    BY <1>2, <2>2 DEF Save, NoSave
  <2> QED BY <2>1, <2>2
<1>5. NothingIsBlank'
  BY <1>1, <1>4 DEF IInv, NothingIsBlank
<1>6. Unsaved' = Unsaved
  BY <1>1 DEF Unsaved
<1>7. UnsavedIsTyped'
  BY <1>1, <1>3, <1>6 DEF UnsavedIsTyped
<1>8. SentIsTyped'
  <2> SUFFICES ASSUME NEW k \in DOMAIN calls', calls'[k].to \in Notes \ misled,
                      NEW f \in DOMAIN calls'[k].sent
               PROVE  typed[calls'[k].to][f] # Null
    BY <1>1 DEF SentIsTyped
  <2>1. CASE k \in DOMAIN calls /\ calls'[k] = calls[k]
    BY <1>3, <2>1 DEF SentIsTyped
  <2>2. CASE calls'[k].to = note /\ DOMAIN calls'[k].sent = Unsaved
    <3>1. f \in Unsaved /\ note = set_up /\ f \in Fields
      BY <1>3, <2>2 DEF PageFits, Unsaved
    <3>2. typed[note][f] = shown[f] /\ shown[f] \in Texts
      BY <1>3, <2>2, <3>1 DEF UnsavedIsTyped, Types
    <3>3. Null \notin Texts
      BY TypingAssumption DEF Texts, Null
    <3> QED BY <2>2, <3>2, <3>3
  <2> QED BY <1>4, <2>1, <2>2
<1>9. DraftsAreUntouched'
  <2>1. Spared' = Spared
    BY <1>1 DEF Spared, Discarding
  <2> SUFFICES ASSUME NEW n \in Spared, NEW f \in Fields,
                      NEW k \in DOMAIN calls', calls'[k].to = n, f \in DOMAIN calls'[k].sent
               PROVE  Untouched(n, f, calls'[k].sent[f])
    BY <1>1, <1>3, <2>1 DEF DraftsAreUntouched, Untouched
  <2>2. n \in Notes
    BY <1>3, SparedFits
  <2>3. CASE k \in DOMAIN calls /\ calls'[k] = calls[k]
    BY <1>3, <2>3 DEF DraftsAreUntouched
  <2>4. CASE calls'[k].to = note /\ DOMAIN calls'[k].sent = Unsaved
             /\ \A g \in Unsaved : calls'[k].sent[g] = shown[g]
    <3>1. n = set_up
      BY <1>3, <2>2, <2>4 DEF PageFits
    <3> QED BY <1>3, <2>4, <3>1 DEF DraftsAreUntouched
  <2> QED BY <1>4, <2>3, <2>4
<1>10. NewestIsStored'
  <2> SUFFICES ASSUME NEW k \in DOMAIN calls', k = latest', calls'[k].server = "applied",
                      NEW n \in Notes, n = calls'[k].to, NEW f \in Fields
               PROVE  /\ rows[n].text[f] = calls'[k].answer[f] \/ Overwritten(n, f)'
                      /\ \A j \in UnderWay(n, f)' : calls'[j].passed
    <3>1. \A n, f : Overwritten(n, f)' <=> Overwritten(n, f)
      BY <1>1 DEF Overwritten
    <3> QED BY <1>1, <3>1 DEF NewestIsStored, Overwritten, UnderWay
  <2>1. k \in DOMAIN calls /\ calls'[k] = calls[k]
    BY <1>4
  <2>2. ~(Save /\ Sends)
    BY <1>3, <2>1, Sending
  <2>3. latest' = latest /\ calls' = calls
    BY <1>2, <2>2 DEF Save, NoSave
  <2>4. Overwritten(n, f)' <=> Overwritten(n, f)
    BY <1>1 DEF Overwritten
  <2>5. UnderWay(n, f)' = UnderWay(n, f)
    BY <2>3 DEF UnderWay
  <2>6. /\ rows[n].text[f] = calls[k].answer[f] \/ Overwritten(n, f)
        /\ \A j \in UnderWay(n, f) : calls[j].passed
    BY <1>3, <2>1, <2>3 DEF NewestIsStored
  <2> QED BY <2>3, <2>4, <2>5, <2>6
<1>11. OthersTextStands' /\ OnlyEmptyDraftsAreDiscarded'
  BY <1>1 DEF IInv, OthersTextStands, OnlyEmptyDraftsAreDiscarded
<1> QED BY <1>5, <1>7, <1>8, <1>9, <1>10, <1>11, SavesKeepsTyped

\* The page goes on with what it awaits, or to another page.
LEMMA SavesKeepsAll ==
  ASSUME IInv, Saves, timer' \in BOOLEAN,
         visiting' \in Notes \cup {List}, heading' \in Notes \cup {List, Null}, events' \in Nat,
         \A i \in DOMAIN loads' : loads'[i] \in Notes,
         \A i \in DOMAIN flows' : flows'[i] \in FlowRow /\ flows'[i].waits \in {0} \cup Waiting',
         \/ note' = note /\ visiting' \in {visiting, List}
         \/ note' = Null /\ ~timer'
  PROVE  IInv'
<1>1. /\ rows' = rows /\ typed' = typed /\ set_up' = set_up /\ shown' = shown /\ base' = base
      /\ failures' = failures /\ drafts' = drafts /\ deletes' = deletes /\ edits' = edits
      /\ note' \in {note, Null} /\ (timer' => timer)
  BY DEF Saves, server, history
<1>2. Save \/ NoSave
  BY DEF Saves
<1>3. Types'
  BY <1>1, <1>2, SaveKeepsCalls DEF IInv, Types
<1>4. AwaitedIsWaiting'
  <2>1. failures' = 0 => Waiting' = DOMAIN calls'
    BY <1>1, <1>2, SaveKeepsCalls DEF IInv, AwaitedIsWaiting
  <2> QED BY <1>2, <2>1, SaveKeepsCalls DEF AwaitedIsWaiting
<1>5. PageFits'
  <2>1. Null \notin Notes
    BY NotesAssumption
  <2> QED BY <1>1, <2>1 DEF IInv, PageFits
<1> QED BY <1>3, <1>4, <1>5, SavesInv DEF IInv

\* Saving, with the timer as it is, or stopped.
LEMMA SavesFacts ==
  ASSUME IInv,
         UNCHANGED <<server, set_up, shown, base, drafts, deletes, history, misled, failures>>,
         note' \in {note, Null}
  PROVE  /\ timer' = timer /\ (Save \/ NoSave) => Saves /\ timer' \in BOOLEAN
         /\ timer' = FALSE /\ timer /\ Save => Saves /\ timer' \in BOOLEAN
         /\ Flush => Saves /\ timer' = FALSE
<1>1. timer \in BOOLEAN
  BY DEF IInv, Types
<1>2. timer' = timer /\ (Save \/ NoSave) => Saves /\ timer' \in BOOLEAN
  BY <1>1 DEF Saves
<1>3. timer' = FALSE /\ timer /\ Save => Saves /\ timer' \in BOOLEAN
  BY <1>1 DEF Saves
<1>4. Flush => Saves /\ timer' = FALSE
  BY <1>1 DEF Saves, Flush
<1> QED BY <1>2, <1>3, <1>4

\* A step of a flow, which waits for a save under way and then saves what is left, keeps
\* the invariant.
LEMMA FlowStepInv ==
  ASSUME IInv, NEW i \in DOMAIN flows, FlowStep(i)
  PROVE  IInv'
<1> DEFINE Ats == {"flush", "running", "loop", "saved", "end"}
<1>1. UNCHANGED <<server, visiting, heading, note, set_up, shown, base, timer, drafts, deletes,
                  loads, history, misled, failures, events>>
  BY DEF FlowStep
<1>2. Save \/ NoSave
  BY DEF FlowStep
<1>3. Saves /\ timer' \in BOOLEAN
  BY <1>1, <1>2, SavesFacts
<1>4. PICK at, k : Goto(i, at, k) /\ at \in Ats /\ k \in {0} \cup Waiting'
  <2>1. CASE Goto(i, "running", running) /\ NoSave
    <3>1. running \in {0} \cup Waiting
      BY DEF IInv, AwaitedIsWaiting
    <3>2. running \in {0} \cup Waiting'
      BY <1>2, <3>1, SaveKeepsCalls
    <3> QED BY <2>1, <3>2
  <2>2. CASE Goto(i, "loop", 0) \/ Goto(i, "end", 0)
    BY <2>2
  <2>3. CASE Goto(i, "saved", IF Sends THEN latest + 1 ELSE 0) /\ Save
    <3>1. Sends => latest + 1 \in Waiting'
      <4>1. Types
        BY DEF IInv
      <4> QED BY <2>3, <4>1, Sending DEF Waiting
    <3>2. (IF Sends THEN latest + 1 ELSE 0) \in {0} \cup Waiting'
      BY <3>1
    <3> QED BY <2>3, <3>2
  <2>4. CASE Goto(i, IF StopsAt THEN "end" ELSE "loop", 0)
    BY <2>4
  <2> QED BY <2>1, <2>2, <2>3, <2>4 DEF FlowStep
<1>5. k \in Nat
  <2>1. latest' \in Nat /\ DOMAIN calls' \subseteq 1..latest'
    BY <1>2, SaveKeepsCalls
  <2> QED BY <1>4, <2>1 DEF Waiting
<1>6. \A j \in DOMAIN flows' : flows'[j] \in FlowRow /\ flows'[j].waits \in {0} \cup Waiting'
  <2>1. \A j \in DOMAIN flows : flows[j] \in FlowRow /\ flows[j].waits \in {0} \cup Waiting
    BY DEF IInv, Types, AwaitedIsWaiting
  <2>2. Waiting \subseteq Waiting'
    BY <1>2, SaveKeepsCalls
  <2>3. PICK old \in FlowRow : old = flows[i]
    BY <2>1
  <2>4. DOMAIN flows' = DOMAIN flows /\ \A j \in DOMAIN flows \ {i} : flows'[j] = flows[j]
    BY <1>4 DEF Goto
  <2>5. flows'[i] = [old EXCEPT !.at = at, !.waits = k]
    BY <1>4, <2>3 DEF Goto
  <2>6. flows'[i] \in FlowRow /\ flows'[i].waits = k
    BY <1>4, <1>5, <2>3, <2>5 DEF FlowRow
  <2> QED BY <1>4, <2>1, <2>2, <2>4, <2>6
<1> HIDE DEF Ats
<1>7. /\ visiting' \in Notes \cup {List} /\ heading' \in Notes \cup {List, Null} /\ events' \in Nat
      /\ \A j \in DOMAIN loads' : loads'[j] \in Notes
  BY <1>1 DEF IInv, Types
<1> QED BY <1>1, <1>3, <1>6, <1>7, SavesKeepsAll

\* The timer that saves after a pause in typing keeps the invariant.
LEMMA TimerFiresInv ==
  ASSUME IInv, TimerFires
  PROVE  IInv'
<1>1. UNCHANGED <<server, visiting, heading, note, set_up, shown, base, drafts, deletes, loads,
                  flows, history, misled, failures, events>>
  BY DEF TimerFires
<1>2. Saves /\ timer' \in BOOLEAN
  BY <1>1, SavesFacts DEF TimerFires
<1>3. Waiting \subseteq Waiting'
  BY SaveKeepsCalls DEF TimerFires
<1>4. \A i \in DOMAIN flows' : flows'[i] \in FlowRow /\ flows'[i].waits \in {0} \cup Waiting'
  BY <1>1, <1>3 DEF IInv, Types, AwaitedIsWaiting
<1>5. /\ visiting' \in Notes \cup {List} /\ heading' \in Notes \cup {List, Null} /\ events' \in Nat
      /\ \A j \in DOMAIN loads' : loads'[j] \in Notes
  BY <1>1 DEF IInv, Types
<1> QED BY <1>1, <1>2, <1>4, <1>5, SavesKeepsAll

\* A flow begins.
LEMMA SaveAllFits ==
  ASSUME IInv, NEW why \in {"hide", "leave"}, SaveAll(why)
  PROVE  \A i \in DOMAIN flows' : flows'[i] \in FlowRow /\ flows'[i].waits \in {0} \cup Waiting'
<1>1. Save \/ NoSave
  BY DEF SaveAll, Flush
<1>2. Waiting \subseteq Waiting'
  BY <1>1, SaveKeepsCalls
<1>3. Awaited \in {0} \cup Waiting'
  <2>1. CASE timer /\ Sends
    <3>1. Types /\ Save
      BY <2>1 DEF IInv, SaveAll, Flush
    <3> QED BY <2>1, <3>1, Sending DEF Awaited, Waiting
  <2>2. CASE ~(timer /\ Sends)
    BY <2>2 DEF Awaited
  <2> QED BY <2>1, <2>2
<1>4. Awaited \in Nat
  BY DEF Awaited, IInv, Types
<1>5. Flow(why) \in FlowRow /\ Flow(why).waits = Awaited
  BY <1>4 DEF Flow, FlowRow
<1>6. \A i \in DOMAIN flows' :
        (i \in DOMAIN flows /\ flows'[i] = flows[i]) \/ flows'[i] = Flow(why)
  BY DEF SaveAll, Put
<1> QED BY <1>2, <1>3, <1>5, <1>6 DEF IInv, Types, AwaitedIsWaiting

\* Hiding the page, which saves at once, keeps the invariant.
LEMMA HideInv ==
  ASSUME IInv, Hide
  PROVE  IInv'
<1>1. UNCHANGED <<server, visiting, heading, note, set_up, shown, base, drafts, deletes, loads,
                  history, misled, failures>> /\ SaveAll("hide") /\ events' = events + 1
  BY DEF Hide, Event
<1>2. Saves /\ timer' \in BOOLEAN
  BY <1>1, SavesFacts DEF SaveAll
<1>3. /\ visiting' \in Notes \cup {List} /\ heading' \in Notes \cup {List, Null} /\ events' \in Nat
      /\ \A j \in DOMAIN loads' : loads'[j] \in Notes
  BY <1>1 DEF IInv, Types
<1>4. \A i \in DOMAIN flows' : flows'[i] \in FlowRow /\ flows'[i].waits \in {0} \cup Waiting'
  BY <1>1, SaveAllFits
<1> QED BY <1>1, <1>2, <1>3, <1>4, SavesKeepsAll

\* Leaving the note for another page keeps the invariant.
LEMMA LeaveInv ==
  ASSUME IInv, NEW to \in Notes \cup {List}, Leave(to)
  PROVE  IInv'
<1>1. UNCHANGED <<server, visiting, note, set_up, shown, base, drafts, deletes, loads, history,
                  misled, failures>> /\ SaveAll("leave") /\ events' = events + 1 /\ heading' = to
  BY DEF Leave, Event
<1>2. Saves /\ timer' \in BOOLEAN
  BY <1>1, SavesFacts DEF SaveAll
<1>3. /\ visiting' \in Notes \cup {List} /\ heading' \in Notes \cup {List, Null} /\ events' \in Nat
      /\ \A j \in DOMAIN loads' : loads'[j] \in Notes
  BY <1>1 DEF IInv, Types
<1>4. \A i \in DOMAIN flows' : flows'[i] \in FlowRow /\ flows'[i].waits \in {0} \cup Waiting'
  BY <1>1, SaveAllFits
<1> QED BY <1>1, <1>2, <1>3, <1>4, SavesKeepsAll

\* The end of a navigation, which shows another note or leaves the page, keeps the invariant.
LEMMA ArriveInv ==
  ASSUME IInv, Arrive
  PROVE  IInv'
<1>1. UNCHANGED <<server, set_up, shown, base, drafts, deletes, flows, history, misled, failures,
                  events>>
      /\ Flush /\ visiting' = heading /\ heading # Null /\ heading' = Null
  BY DEF Arrive, Arriving
<1>2. \/ heading \in Notes /\ note' = Null /\ loads' = Put(loads, events, heading)
      \/ heading \notin Notes /\ note' = note /\ loads' = loads
  BY DEF Arrive
<1>3. Saves /\ timer' = FALSE
  BY <1>1, <1>2, SavesFacts
<1>4. visiting' \in Notes \cup {List} /\ (heading \notin Notes => visiting' = List)
  BY <1>1 DEF IInv, Types
<1>5. events' \in Nat /\ \A j \in DOMAIN loads' : loads'[j] \in Notes
  BY <1>1, <1>2 DEF IInv, Types, Put
<1>6. Waiting \subseteq Waiting'
  BY <1>1, SaveKeepsCalls DEF Flush
<1>7. \A i \in DOMAIN flows' : flows'[i] \in FlowRow /\ flows'[i].waits \in {0} \cup Waiting'
  BY <1>1, <1>6 DEF IInv, Types, AwaitedIsWaiting
<1> QED BY <1>1, <1>2, <1>3, <1>4, <1>5, <1>7, SavesKeepsAll

-------------------------------------------------------------------------------
(***************************************************************************)
(* The user types, and notes are loaded.                                   *)
(***************************************************************************)

\* No text is the absent one.
LEMMA TextsAreNotNull == Null \notin Texts
  BY TypingAssumption DEF Texts, Null

\* What is sent are fields of a note.
LEMMA SentFields == \A sent \in Sent : DOMAIN sent \subseteq Fields
  BY DEF Sent

\* Typing into a field keeps the invariant.
LEMMA EditInv ==
  ASSUME IInv, NEW f \in Fields, NEW text \in Typing, Edit(f, text)
  PROVE  IInv'
<1>1. /\ UNCHANGED <<rows, others, overtaken, visiting, heading, note, set_up, base, running,
                     latest, calls, deletes, loads, flows, misled, failures, events>>
      /\ resumed' = resumed \cup ({note} \cap Discarding)
      /\ drafts' = IF IsDefault(shown') THEN drafts ELSE drafts \ {note}
      /\ edits' = edits + 1 /\ error' = FALSE
  BY DEF Edit, server
<1>2. Types /\ PageFits /\ UnsavedIsTyped /\ SentIsTyped /\ DraftsAreUntouched
  BY DEF IInv
<1>3. note \in Notes /\ set_up = note
  BY <1>2, NotesAssumption DEF Edit, Types, PageFits, List, Null, NoId
<1>4. text \in Texts /\ text # Null
  BY TextsAreNotNull DEF Texts
<1>5. /\ shown' \in [Fields -> Texts] /\ shown'[f] = text
      /\ \A g \in Fields \ {f} : shown'[g] = shown[g]
  BY <1>2, <1>4 DEF Edit, Types
<1>6. /\ typed' \in [Notes -> [Fields -> Texts \cup {Null}]] /\ typed'[note][f] = text
      /\ \A n \in Notes, g \in Fields : <<n, g>> # <<note, f>> => typed'[n][g] = typed[n][g]
  <2>1. typed' = [typed EXCEPT ![note][f] = text]
    BY DEF Edit
  <2> QED BY <1>2, <1>3, <1>4, <2>1 DEF Types
<1>7. timer' \in BOOLEAN /\ (timer' <=> shown' # base)
  BY DEF Edit
<1>8. Types'
  <2>1. drafts' \subseteq drafts
    BY <1>1
  <2>2. drafts' \subseteq NewNotes
    BY <1>2, <2>1 DEF Types
  <2>3. edits' \in Nat
    BY <1>1, <1>2 DEF Types
  <2>4. error' \in BOOLEAN
    BY <1>1
  <2> QED BY <1>1, <1>2, <1>5, <1>6, <1>7, <2>2, <2>3, <2>4 DEF Types
<1>9. Waiting' = Waiting /\ \A n, g : UnderWay(n, g)' = UnderWay(n, g)
  BY <1>1 DEF Waiting, UnderWay
<1>10. AwaitedIsWaiting' /\ NothingIsBlank'
  BY <1>1, <1>9 DEF IInv, AwaitedIsWaiting, NothingIsBlank
<1>11. PageFits'
  BY <1>1, <1>2, <1>3 DEF PageFits
<1>12. UnsavedIsTyped'
  <2> SUFFICES ASSUME set_up \in Notes \ misled, NEW g \in Fields, shown'[g] # base[g]
               PROVE  shown'[g] = typed'[set_up][g]
    BY <1>1 DEF UnsavedIsTyped, Unsaved
  <2>1. CASE g = f
    BY <1>3, <1>5, <1>6, <2>1
  <2>2. CASE g # f
    BY <1>2, <1>3, <1>5, <1>6, <2>2 DEF UnsavedIsTyped, Unsaved
  <2> QED BY <2>1, <2>2
<1>13. SentIsTyped'
  <2> SUFFICES ASSUME NEW k \in DOMAIN calls, calls[k].to \in Notes \ misled,
                      NEW g \in DOMAIN calls[k].sent
               PROVE  typed'[calls[k].to][g] # Null
    BY <1>1 DEF SentIsTyped
  <2>1. g \in Fields
    BY <1>2, SentFields DEF Types, CallRow
  <2>2. typed[calls[k].to][g] # Null
    BY <1>2 DEF SentIsTyped
  <2>3. CASE <<calls[k].to, g>> = <<note, f>>
    BY <1>4, <1>6, <2>3
  <2>4. CASE <<calls[k].to, g>> # <<note, f>>
    BY <1>6, <2>1, <2>2, <2>4
  <2> QED BY <2>3, <2>4
<1>14. drafts' \subseteq drafts /\ (note \in drafts' => shown' = All("default"))
  BY <1>1 DEF IsDefault
<1>15. DraftsAreUntouched'
  <2>1. Discarding' = Discarding
    BY <1>1 DEF Discarding
  <2>2. Spared' \subseteq Spared /\ (note \in Spared' => note \in drafts')
    BY <1>1, <1>14, <2>1 DEF Spared
  <2>3. \A g \in Fields : note \in Spared' => shown'[g] = "default"
    BY <1>14, <2>2 DEF All
  <2> SUFFICES ASSUME NEW n \in Spared', NEW g \in Fields
               PROVE  /\ n = set_up => Untouched(n, g, shown'[g])
                      /\ \A k \in DOMAIN calls : calls[k].to = n /\ g \in DOMAIN calls[k].sent =>
                           Untouched(n, g, calls[k].sent[g])
                      /\ Untouched(n, g, rows[n].text[g])
    BY <1>1 DEF DraftsAreUntouched, Untouched
  <2>4. n = set_up => Untouched(n, g, shown'[g])
    BY <1>3, <2>3 DEF Untouched
  <2> QED BY <1>2, <2>2, <2>4 DEF DraftsAreUntouched
<1>16. NewestIsStored'
  BY <1>1, <1>9 DEF IInv, NewestIsStored, Overwritten
<1>17. OthersTextStands'
  <2>1. \A n \in Notes, g \in Fields : typed'[n][g] = Null => typed[n][g] = Null
    BY <1>4, <1>6
  <2> QED BY <1>1, <2>1 DEF IInv, OthersTextStands
<1>18. OnlyEmptyDraftsAreDiscarded'
  BY <1>1 DEF IInv, OnlyEmptyDraftsAreDiscarded
<1>19. TypedIsKept'
  <2> SUFFICES ASSUME failures = 0, NEW n \in Notes \ misled, NEW g \in Fields,
                      typed'[n][g] # Null
               PROVE  \/ Overwritten(n, g)' \/ <<n, g>> \in given_up'
                      \/ Stored(n, g)' \/ OnItsWay(n, g)' \/ ToSend(n, g)' \/ Refusal'
    BY <1>1 DEF TypedIsKept
  <2>1. given_up' = IF TypedBack(f, text) THEN given_up \cup {<<note, f>>}
                                           ELSE given_up \ {<<note, f>>}
    BY DEF Edit
  <2>2. CASE <<n, g>> = <<note, f>>
    <3>1. CASE text # base[f]
      <4>1. f \in Unsaved' /\ timer'
        BY <1>1, <1>5, <1>7, <3>1 DEF Unsaved
      <4> QED BY <1>1, <1>3, <2>2, <4>1 DEF ToSend
    <3>2. CASE text = base[f] /\ TypedBack(f, text)
      BY <2>1, <2>2, <3>2
    <3>3. CASE text = base[f] /\ ~TypedBack(f, text)
      <4>1. rows[note].text[f] = text /\ UnderWay(note, f) = {}
        BY <3>3 DEF TypedBack
      <4> QED BY <1>1, <1>6, <1>9, <2>2, <4>1 DEF Stored
    <3> QED BY <3>1, <3>2, <3>3
  <2>3. CASE <<n, g>> # <<note, f>>
    <3>1. typed'[n][g] = typed[n][g]
      BY <1>6, <2>3
    <3>2. \/ Overwritten(n, g) \/ <<n, g>> \in given_up
          \/ Stored(n, g) \/ OnItsWay(n, g) \/ ToSend(n, g) \/ Refusal
      BY <3>1 DEF IInv, TypedIsKept
    <3>3. <<n, g>> \in given_up => <<n, g>> \in given_up'
      BY <2>1, <2>3
    <3>4. Stored(n, g) => Stored(n, g)'
      BY <1>1, <1>9, <3>1 DEF Stored
    <3>5. OnItsWay(n, g) => OnItsWay(n, g)'
      BY <1>1, <1>9, <3>1 DEF OnItsWay
    <3>6. ToSend(n, g) => ToSend(n, g)'
      <4> SUFFICES ASSUME ToSend(n, g)
                   PROVE  ToSend(n, g)'
        OBVIOUS
      <4>1. g # f /\ g \in Unsaved
        BY <1>3, <2>3 DEF ToSend
      <4>2. g \in Unsaved' /\ timer'
        BY <1>1, <1>5, <1>7, <4>1 DEF Unsaved
      <4> QED BY <1>1, <4>2 DEF ToSend
    <3>7. (Overwritten(n, g) => Overwritten(n, g)') /\ (Refusal => Refusal')
      BY <1>1 DEF Overwritten, Refusal
    <3> QED BY <3>2, <3>3, <3>4, <3>5, <3>6, <3>7
  <2> QED BY <2>2, <2>3
<1> QED BY <1>8, <1>10, <1>11, <1>12, <1>13, <1>15, <1>16, <1>17, <1>18, <1>19 DEF IInv

\* The page takes another note, or none.
LEMMA LoadedInv ==
  ASSUME IInv, NEW i \in DOMAIN loads, Loaded(i)
  PROVE  IInv'
<1>1. /\ UNCHANGED <<rows, others, overtaken, visiting, heading, timer, error, running, latest,
                     calls, deletes, flows, typed, edits, resumed, misled>>
      /\ loads' = Without(loads, {i})
  BY DEF Loaded, server
<1>2. Types /\ PageFits /\ UnsavedIsTyped /\ DraftsAreUntouched
  BY DEF IInv
<1>3. Waiting' = Waiting /\ \A n, g : UnderWay(n, g)' = UnderWay(n, g)
  BY <1>1 DEF Waiting, UnderWay
<1>4. \A j \in DOMAIN loads' : loads'[j] \in Notes
  BY <1>1, <1>2 DEF Types, Without
<1>5. loads[i] \in Notes
  BY <1>2 DEF Types
<1>6. NothingIsBlank' /\ SentIsTyped' /\ OthersTextStands' /\ OnlyEmptyDraftsAreDiscarded'
  BY <1>1 DEF IInv, NothingIsBlank, SentIsTyped, OthersTextStands, OnlyEmptyDraftsAreDiscarded
<1>7. NewestIsStored'
  BY <1>1, <1>3 DEF IInv, NewestIsStored, Overwritten
<1>8. CASE visiting # loads[i] /\ UNCHANGED <<note, set_up, shown, base, drafts, given_up, failures, events>>
  <2>1. Types'
    BY <1>1, <1>2, <1>4, <1>8 DEF Types
  <2>2. AwaitedIsWaiting' /\ PageFits'
    BY <1>1, <1>3, <1>8 DEF IInv, AwaitedIsWaiting, PageFits
  <2>3. Unsaved' = Unsaved /\ Refused' = Refused
    BY <1>8 DEF Unsaved, Refused
  <2>4. UnsavedIsTyped' /\ DraftsAreUntouched'
    <3>1. Spared' = Spared
      BY <1>1, <1>8 DEF Spared, Discarding
    <3> QED BY <1>1, <1>2, <1>8, <2>3, <3>1 DEF UnsavedIsTyped, DraftsAreUntouched, Untouched
  <2>5. TypedIsKept'
    BY <1>1, <1>3, <1>8, <2>3 DEF IInv, TypedIsKept, Overwritten, Stored, OnItsWay, ToSend, Refusal
  <2> QED BY <1>6, <1>7, <2>1, <2>2, <2>4, <2>5 DEF IInv
<1>9. CASE visiting = loads[i] /\ note' = Null /\ failures' = failures + 1
           /\ UNCHANGED <<set_up, shown, base, drafts, given_up>> /\ events' \in Nat
  <2>1. failures' \in Nat /\ failures' # 0
    BY <1>2, <1>9 DEF Types
  <2>2. Types'
    BY <1>1, <1>2, <1>4, <1>9, <2>1 DEF Types
  <2>3. AwaitedIsWaiting' /\ PageFits' /\ TypedIsKept'
    BY <1>1, <1>3, <1>9, <2>1, NotesAssumption DEF IInv, AwaitedIsWaiting, PageFits, TypedIsKept
  <2>4. Unsaved' = Unsaved
    BY <1>9 DEF Unsaved
  <2>5. UnsavedIsTyped'
    BY <1>1, <1>2, <1>9, <2>4 DEF UnsavedIsTyped
  <2>6. DraftsAreUntouched'
    <3>1. Spared' = Spared
      BY <1>1, <1>9 DEF Spared, Discarding
    <3> QED BY <1>1, <1>2, <1>9, <3>1 DEF DraftsAreUntouched, Untouched
  <2> QED BY <1>6, <1>7, <2>2, <2>3, <2>5, <2>6 DEF IInv
<1>10. CASE /\ visiting = loads[i] /\ note' = visiting /\ set_up' = visiting
            /\ IF set_up = visiting
                 THEN UNCHANGED <<shown, base, given_up>>
                 ELSE /\ shown' = rows[visiting].text /\ base' = shown'
                      /\ given_up' = IF Refused THEN given_up \cup ({set_up} \X Unsaved)
                                                ELSE given_up
            /\ drafts' = IF IsDefault(shown) /\ IsDefault(shown') THEN drafts
                                                                  ELSE drafts \ {visiting}
            /\ UNCHANGED <<failures, events>>
  <2>1. visiting \in Notes /\ visiting # Null
    BY <1>5, <1>10, NotesAssumption
  <2>2. shown' \in [Fields -> Texts] /\ base' \in [Fields -> Texts]
    BY <1>2, <1>10, <2>1 DEF Types
  <2>3. drafts' \subseteq drafts
    BY <1>10
  <2>4. Types'
    BY <1>1, <1>2, <1>4, <1>10, <2>1, <2>2, <2>3 DEF Types
  <2>5. AwaitedIsWaiting' /\ PageFits'
    BY <1>1, <1>3, <1>10, <2>1 DEF IInv, AwaitedIsWaiting, PageFits
  <2>6. ASSUME set_up = visiting
        PROVE  UnsavedIsTyped' /\ TypedIsKept'
    <3>1. Unsaved' = Unsaved /\ Refused' = Refused
      BY <1>10, <2>6 DEF Unsaved, Refused
    <3>2. UnsavedIsTyped'
      BY <1>1, <1>2, <1>10, <2>6, <3>1 DEF UnsavedIsTyped
    <3>3. TypedIsKept'
      BY <1>1, <1>3, <1>10, <2>6, <3>1
         DEF IInv, TypedIsKept, Overwritten, Stored, OnItsWay, ToSend, Refusal
    <3> QED BY <3>2, <3>3
  <2>7. ASSUME set_up # visiting
        PROVE  UnsavedIsTyped' /\ TypedIsKept'
    <3>1. note \notin Notes
      BY <1>2, <2>1, <2>7, NotesAssumption DEF PageFits
    <3>2. failures = 0 => ~timer
      BY <1>2, <3>1 DEF PageFits
    <3>3. Unsaved' = {}
      BY <1>10, <2>7 DEF Unsaved
    <3>4. UnsavedIsTyped'
      BY <3>3 DEF UnsavedIsTyped
    <3>5. \A n, g : ToSend(n, g) /\ failures = 0 => <<n, g>> \in given_up'
      BY <1>10, <2>7, <3>2 DEF ToSend
    <3>6. given_up \subseteq given_up'
      BY <1>10, <2>7
    <3>7. TypedIsKept'
      <4> SUFFICES ASSUME failures = 0, NEW n \in Notes \ misled, NEW g \in Fields,
                          typed[n][g] # Null
                   PROVE  \/ Overwritten(n, g)' \/ <<n, g>> \in given_up'
                          \/ Stored(n, g)' \/ OnItsWay(n, g)' \/ ToSend(n, g)' \/ Refusal'
        BY <1>1, <1>10 DEF TypedIsKept
      <4>1. \/ Overwritten(n, g) \/ <<n, g>> \in given_up
            \/ Stored(n, g) \/ OnItsWay(n, g) \/ ToSend(n, g) \/ Refusal
        BY DEF IInv, TypedIsKept
      <4>2. /\ Overwritten(n, g) => Overwritten(n, g)'
            /\ Stored(n, g) => Stored(n, g)'
            /\ OnItsWay(n, g) => OnItsWay(n, g)'
            /\ Refusal => Refusal'
        BY <1>1, <1>3 DEF Overwritten, Stored, OnItsWay, Refusal
      <4> QED BY <3>5, <3>6, <4>1, <4>2
    <3> QED BY <3>4, <3>7
  <2>8. DraftsAreUntouched'
    <3>1. Spared' \subseteq Spared
      BY <1>1, <2>3 DEF Spared, Discarding
    <3>2. \A f \in Fields :
            (shown'[f] = shown[f] /\ set_up = visiting) \/ shown'[f] = rows[visiting].text[f]
      BY <1>10
    <3> SUFFICES ASSUME NEW n \in Spared', NEW f \in Fields
                 PROVE  /\ n = visiting => Untouched(n, f, shown'[f])
                        /\ \A k \in DOMAIN calls : calls[k].to = n /\ f \in DOMAIN calls[k].sent =>
                             Untouched(n, f, calls[k].sent[f])
                        /\ Untouched(n, f, rows[n].text[f])
      BY <1>1, <1>10 DEF DraftsAreUntouched, Untouched
    <3> QED BY <1>2, <3>1, <3>2 DEF DraftsAreUntouched
  <2> QED BY <1>6, <1>7, <2>4, <2>5, <2>6, <2>7, <2>8 DEF IInv
<1>11. events \in Nat
  BY <1>2 DEF Types
<1> QED BY <1>8, <1>9, <1>10, <1>11 DEF Loaded, Event

-------------------------------------------------------------------------------
(***************************************************************************)
(* Answers.                                                                *)
(***************************************************************************)

\* Whoever waits for the save waits no longer.
LEMMA Returned ==
  ASSUME IInv, NEW k \in DOMAIN calls, NEW threw, Return(k, threw),
         Waiting' = Waiting \ {k}
  PROVE  /\ running' \in {0} \cup Waiting'
         /\ \A i \in DOMAIN flows' : flows'[i] \in FlowRow /\ flows'[i].waits \in {0} \cup Waiting'
<1>1. \A i \in DOMAIN flows : flows[i] \in FlowRow /\ flows[i].waits \in {0} \cup Waiting
  BY DEF IInv, Types, AwaitedIsWaiting
<1>2. running' \in {0} \cup Waiting'
  BY DEF Return, IInv, AwaitedIsWaiting
<1>3. CASE threw
  <2>1. \A i \in DOMAIN flows' : i \in DOMAIN flows /\ flows'[i] = flows[i] /\ flows[i].waits # k
    BY <1>3 DEF Return, Without
  <2> QED BY <1>1, <1>2, <2>1
<1>4. CASE ~threw
  <2> SUFFICES ASSUME NEW i \in DOMAIN flows'
               PROVE  flows'[i] \in FlowRow /\ flows'[i].waits \in {0} \cup Waiting'
    BY <1>2
  <2>1. i \in DOMAIN flows
    BY <1>4 DEF Return
  <2>2. PICK old \in FlowRow : old = flows[i] /\ old.waits \in {0} \cup Waiting
    BY <1>1, <2>1
  <2>3. flows'[i] = IF old.waits = k THEN [old EXCEPT !.waits = 0] ELSE old
    BY <1>4, <2>1, <2>2 DEF Return
  <2>4. CASE old.waits = k
    BY <2>2, <2>3, <2>4 DEF FlowRow
  <2>5. CASE old.waits # k
    BY <2>2, <2>3, <2>5
  <2> QED BY <2>4, <2>5
<1> QED BY <1>3, <1>4

\* The answer to a save keeps the invariant.
LEMMA SavedInv ==
  ASSUME IInv, NEW k \in DOMAIN calls, Saved(k)
  PROVE  IInv'
<1>1. /\ UNCHANGED <<rows, others, overtaken, visiting, heading, set_up, shown, timer, error,
                     latest, deletes, loads, typed, edits, given_up, resumed, failures, events>>
      /\ calls' = Without(calls, {k}) /\ Return(k, FALSE)
      /\ calls[k].client = "waits" /\ calls[k].server = "applied"
  BY DEF Saved, server, history
<1>2. /\ Types /\ PageFits /\ UnsavedIsTyped /\ SentIsTyped /\ DraftsAreUntouched
      /\ NewestIsStored /\ NothingIsBlank
  BY DEF IInv
<1>3. DOMAIN calls' = DOMAIN calls \ {k} /\ \A j \in DOMAIN calls' : calls'[j] = calls[j]
  BY <1>1 DEF Without
<1>4. Waiting' = Waiting \ {k}
  BY <1>3 DEF Waiting
<1>5. \A n, f : UnderWay(n, f)' = UnderWay(n, f) /\ k \notin UnderWay(n, f)
  BY <1>1, <1>3 DEF UnderWay
<1>6. PICK answer \in [Fields -> Texts \ {"blank"}] : answer = calls[k].answer
  BY <1>1, <1>2 DEF NothingIsBlank
<1>7. ASSUME Takes(k)
      PROVE  /\ base' \in [Fields -> Texts] /\ drafts' \subseteq drafts /\ misled \subseteq misled'
             /\ note' \in Notes \cup {Null, NoId} /\ (note' \in Notes => note' = note)
             /\ (note \in Notes => note' = note)
             /\ UnsavedIsTyped' /\ NewestIsStored' /\ TypedIsKept'
  <2>1. /\ note' = IF note = Null THEN NoId ELSE note
        /\ base' = answer
        /\ drafts' = IF IsDefault(answer) THEN drafts ELSE drafts \ {note}
        /\ misled' = IF Misleads(k) THEN misled \cup {set_up} ELSE misled
    BY <1>6, <1>7 DEF Saved
  <2>2. /\ base' \in [Fields -> Texts] /\ drafts' \subseteq drafts /\ misled \subseteq misled'
        /\ note' \in Notes \cup {Null, NoId} /\ (note' \in Notes => note' = note)
        /\ (note \in Notes => note' = note)
    BY <1>2, <1>6, <2>1, NotesAssumption DEF Types
  <2>3. k = latest
    BY <1>7 DEF Takes
  <2>4. ~Misleads(k) => calls[k].to = set_up
                        /\ \A f \in Fields : shown[f] \in {answer[f], typed[set_up][f]}
    BY <1>6 DEF Misleads
  <2>5. UnsavedIsTyped'
    <3> SUFFICES ASSUME set_up \in Notes \ misled', NEW f \in Fields, shown[f] # answer[f]
                 PROVE  shown[f] = typed[set_up][f]
      BY <1>1, <2>1 DEF UnsavedIsTyped, Unsaved
    <3> QED BY <2>1, <2>4
  <2>6. NewestIsStored'
    BY <1>1, <1>3, <2>3 DEF NewestIsStored
  <2>7. TypedIsKept'
    <3> SUFFICES ASSUME failures = 0, NEW n \in Notes \ misled', NEW f \in Fields,
                        typed[n][f] # Null
                 PROVE  \/ Overwritten(n, f)' \/ <<n, f>> \in given_up'
                        \/ Stored(n, f)' \/ OnItsWay(n, f)' \/ ToSend(n, f)' \/ Refusal'
      BY <1>1 DEF TypedIsKept
    <3>1. \/ Overwritten(n, f) \/ <<n, f>> \in given_up
          \/ Stored(n, f) \/ OnItsWay(n, f) \/ ToSend(n, f) \/ Refusal
      BY <2>2 DEF IInv, TypedIsKept
    <3>2. /\ Overwritten(n, f) => Overwritten(n, f)'
          /\ <<n, f>> \in given_up => <<n, f>> \in given_up'
      BY <1>1 DEF Overwritten
    <3>3. Stored(n, f) => Stored(n, f)'
      BY <1>1, <1>3, <1>5 DEF Stored, UnderWay
    <3>4. OnItsWay(n, f) => OnItsWay(n, f)'
      BY <1>1, <1>3, <1>5 DEF OnItsWay, UnderWay
    <3>5. Refusal => Refusal'
      BY <1>1, <1>3 DEF Refusal
    <3>6. ASSUME ToSend(n, f)
          PROVE  ToSend(n, f)' \/ Stored(n, f)' \/ Overwritten(n, f)'
      <4>1. n = set_up /\ f \in Unsaved /\ (timer \/ Refused) /\ ~Misleads(k)
        BY <2>1, <3>6 DEF ToSend
      <4>2. Refused => Refused'
        BY <1>1, <1>6, <2>1 DEF Refused, Unsaved
      <4>3. CASE shown[f] # answer[f]
        <5>1. f \in Unsaved'
          BY <1>1, <2>1, <4>3 DEF Unsaved
        <5> QED BY <1>1, <4>1, <4>2, <5>1 DEF ToSend
      <4>4. CASE shown[f] = answer[f]
        <5>1. typed[n][f] = answer[f]
          BY <1>2, <2>2, <4>1, <4>4 DEF UnsavedIsTyped
        <5>2. /\ rows[n].text[f] = answer[f] \/ Overwritten(n, f)
              /\ \A j \in UnderWay(n, f) : calls[j].passed
          BY <1>1, <1>2, <1>6, <2>3, <2>4, <4>1 DEF NewestIsStored
        <5>3. \A j \in UnderWay(n, f)' : calls'[j].passed
          BY <1>3, <1>5, <5>2 DEF UnderWay
        <5> QED BY <1>1, <3>2, <5>1, <5>2, <5>3 DEF Stored
      <4> QED BY <4>3, <4>4
    <3> QED BY <3>1, <3>2, <3>3, <3>4, <3>5, <3>6
  <2> QED BY <2>2, <2>5, <2>6, <2>7
<1>8. ASSUME ~Takes(k)
      PROVE  /\ base' \in [Fields -> Texts] /\ drafts' \subseteq drafts /\ misled \subseteq misled'
             /\ note' \in Notes \cup {Null, NoId} /\ (note' \in Notes => note' = note)
             /\ (note \in Notes => note' = note)
             /\ UnsavedIsTyped' /\ NewestIsStored' /\ TypedIsKept'
  <2>1. UNCHANGED <<note, base, drafts, misled>>
    BY <1>8 DEF Saved
  <2>2. Unsaved' = Unsaved /\ Refused' = Refused
    BY <1>1, <2>1 DEF Unsaved, Refused
  <2>3. /\ base' \in [Fields -> Texts] /\ drafts' \subseteq drafts /\ misled \subseteq misled'
        /\ note' \in Notes \cup {Null, NoId} /\ (note' \in Notes => note' = note)
        /\ (note \in Notes => note' = note)
    BY <1>2, <2>1 DEF Types
  <2>4. UnsavedIsTyped'
    BY <1>1, <1>2, <2>1, <2>2 DEF UnsavedIsTyped
  <2>5. NewestIsStored'
    <3>1. \A n, f : /\ Overwritten(n, f)' <=> Overwritten(n, f)
                    /\ \A j \in UnderWay(n, f) : calls'[j] = calls[j]
      BY <1>1, <1>3, <1>5 DEF Overwritten, UnderWay
    <3> QED BY <1>1, <1>2, <1>3, <1>5, <3>1 DEF NewestIsStored
  <2>6. TypedIsKept'
    <3> SUFFICES ASSUME failures = 0, NEW n \in Notes \ misled, NEW f \in Fields,
                        typed[n][f] # Null
                 PROVE  \/ Overwritten(n, f)' \/ <<n, f>> \in given_up'
                        \/ Stored(n, f)' \/ OnItsWay(n, f)' \/ ToSend(n, f)' \/ Refusal'
      BY <1>1, <2>1 DEF TypedIsKept
    <3>1. \/ Overwritten(n, f) \/ <<n, f>> \in given_up
          \/ Stored(n, f) \/ OnItsWay(n, f) \/ ToSend(n, f) \/ Refusal
      BY DEF IInv, TypedIsKept
    <3>2. /\ Overwritten(n, f) => Overwritten(n, f)'
          /\ <<n, f>> \in given_up => <<n, f>> \in given_up'
      BY <1>1 DEF Overwritten
    <3>3. Stored(n, f) => Stored(n, f)'
      BY <1>1, <1>3, <1>5 DEF Stored, UnderWay
    <3>4. OnItsWay(n, f) => OnItsWay(n, f)'
      BY <1>1, <1>3, <1>5 DEF OnItsWay, UnderWay
    <3>5. (Refusal => Refusal') /\ (ToSend(n, f) => ToSend(n, f)')
      BY <1>1, <1>3, <2>2 DEF Refusal, ToSend
    <3> QED BY <3>1, <3>2, <3>3, <3>4, <3>5
  <2> QED BY <2>3, <2>4, <2>5, <2>6
<1>9. /\ base' \in [Fields -> Texts] /\ drafts' \subseteq drafts /\ misled \subseteq misled'
      /\ note' \in Notes \cup {Null, NoId} /\ (note' \in Notes => note' = note)
      /\ (note \in Notes => note' = note)
      /\ UnsavedIsTyped' /\ NewestIsStored' /\ TypedIsKept'
  BY <1>7, <1>8
<1>10. /\ running' \in {0} \cup Waiting'
       /\ \A i \in DOMAIN flows' : flows'[i] \in FlowRow /\ flows'[i].waits \in {0} \cup Waiting'
  BY <1>1, <1>4, Returned
<1>11. Types'
  BY <1>1, <1>2, <1>3, <1>9, <1>10 DEF Types
<1>12. AwaitedIsWaiting'
  BY <1>1, <1>3, <1>4, <1>10 DEF IInv, AwaitedIsWaiting
<1>13. NothingIsBlank' /\ PageFits'
  BY <1>1, <1>2, <1>3, <1>9 DEF NothingIsBlank, PageFits
<1>14. SentIsTyped'
  <2> SUFFICES ASSUME NEW j \in DOMAIN calls', calls'[j].to \in Notes \ misled',
                      NEW f \in DOMAIN calls'[j].sent
               PROVE  typed[calls'[j].to][f] # Null
    BY <1>1 DEF SentIsTyped
  <2>1. j \in DOMAIN calls /\ calls'[j] = calls[j] /\ calls[j].to \in Notes \ misled
    BY <1>3, <1>9
  <2> QED BY <1>2, <2>1 DEF SentIsTyped
<1>15. DraftsAreUntouched'
  <2>1. Spared' \subseteq Spared
    BY <1>1, <1>9 DEF Spared, Discarding
  <2> QED BY <1>1, <1>2, <1>3, <2>1 DEF DraftsAreUntouched, Untouched
<1>16. OthersTextStands' /\ OnlyEmptyDraftsAreDiscarded'
  BY <1>1, <1>9 DEF IInv, OthersTextStands, OnlyEmptyDraftsAreDiscarded
<1> QED BY <1>9, <1>11, <1>12, <1>13, <1>14, <1>15, <1>16 DEF IInv

\* The failure of a save keeps the invariant.
LEMMA NotSavedInv ==
  ASSUME IInv, NEW k \in DOMAIN calls, NotSaved(k)
  PROVE  IInv'
<1>1. /\ UNCHANGED <<rows, others, overtaken, visiting, heading, note, set_up, shown, base, timer,
                     latest, drafts, deletes, loads, typed, edits, given_up, resumed, misled>>
      /\ Return(k, Takes(k) /\ note = Null)
      /\ error' = IF Takes(k) /\ note # Null THEN TRUE ELSE error
      /\ failures' = failures + 1
  BY DEF NotSaved, server, history
<1>2. /\ Types /\ NewestIsStored /\ NothingIsBlank /\ SentIsTyped /\ DraftsAreUntouched
  BY DEF IInv
<1>3. failures' \in Nat /\ failures' # 0 /\ events' \in Nat /\ error' \in BOOLEAN
  <2>1. failures' \in Nat /\ failures' # 0
    BY <1>1, <1>2 DEF Types
  <2>2. events' \in Nat
    <3>1. events' = events \/ events' = events + 1
      BY DEF NotSaved, Event
    <3> QED BY <1>2, <3>1 DEF Types
  <2>3. error' \in BOOLEAN
    BY <1>1, <1>2 DEF Types
  <2> QED BY <2>1, <2>2, <2>3
<1>4. /\ DOMAIN calls' \subseteq DOMAIN calls
      /\ \A j \in DOMAIN calls' :
           \/ calls'[j] = calls[j] /\ j # k
           \/ j = k /\ calls'[j] = [calls[j] EXCEPT !.client = "gone"]
  BY DEF NotSaved, Without
<1>5. \A j \in DOMAIN calls' :
        /\ calls'[j] \in CallRow
        /\ calls'[j].to = calls[j].to /\ calls'[j].sent = calls[j].sent
        /\ calls'[j].server = calls[j].server /\ calls'[j].answer = calls[j].answer
        /\ calls'[j].passed = calls[j].passed
        /\ calls'[j].client = IF j = k THEN "gone" ELSE calls[j].client
  <2> SUFFICES ASSUME NEW j \in DOMAIN calls'
               PROVE  /\ calls'[j] \in CallRow
                      /\ calls'[j].to = calls[j].to /\ calls'[j].sent = calls[j].sent
                      /\ calls'[j].server = calls[j].server /\ calls'[j].answer = calls[j].answer
                      /\ calls'[j].passed = calls[j].passed
                      /\ calls'[j].client = IF j = k THEN "gone" ELSE calls[j].client
    OBVIOUS
  <2>1. PICK old \in CallRow : old = calls[j]
    BY <1>2, <1>4 DEF Types
  <2>2. CASE calls'[j] = calls[j] /\ j # k
    BY <2>1, <2>2
  <2>3. CASE j = k /\ calls'[j] = [old EXCEPT !.client = "gone"]
    BY <2>1, <2>3 DEF CallRow
  <2> QED BY <1>4, <2>1, <2>2, <2>3
<1>6. Waiting' = Waiting \ {k}
  <2>1. \A j \in DOMAIN calls \ {k} : j \in DOMAIN calls'
    BY DEF NotSaved, Without
  <2> QED BY <1>4, <1>5, <2>1 DEF Waiting
<1>7. /\ running' \in {0} \cup Waiting'
      /\ \A i \in DOMAIN flows' : flows'[i] \in FlowRow /\ flows'[i].waits \in {0} \cup Waiting'
  BY <1>1, <1>6, Returned
<1>8. Types'
  BY <1>1, <1>2, <1>3, <1>4, <1>5, <1>7 DEF Types
<1>9. AwaitedIsWaiting' /\ TypedIsKept'
  BY <1>3, <1>7 DEF AwaitedIsWaiting, TypedIsKept
<1>10. NothingIsBlank' /\ PageFits'
  BY <1>1, <1>2, <1>3, <1>4, <1>5 DEF IInv, NothingIsBlank, PageFits
<1>11. Unsaved' = Unsaved
  BY <1>1 DEF Unsaved
<1>12. UnsavedIsTyped' /\ SentIsTyped'
  BY <1>1, <1>2, <1>4, <1>5, <1>11 DEF IInv, UnsavedIsTyped, SentIsTyped
<1>13. DraftsAreUntouched'
  <2>1. Spared' = Spared
    BY <1>1 DEF Spared, Discarding
  <2> QED BY <1>1, <1>2, <1>4, <1>5, <2>1 DEF DraftsAreUntouched, Untouched
<1>14. NewestIsStored'
  <2>1. \A n, f : /\ Overwritten(n, f)' <=> Overwritten(n, f)
                  /\ \A j \in UnderWay(n, f)' : j \in UnderWay(n, f) /\ calls'[j].passed = calls[j].passed
    BY <1>1, <1>4, <1>5 DEF Overwritten, UnderWay
  <2>2. \A j \in DOMAIN calls' :
           /\ j \in DOMAIN calls /\ calls'[j].to = calls[j].to
           /\ calls'[j].server = calls[j].server /\ calls'[j].answer = calls[j].answer
    BY <1>4, <1>5
  <2> QED BY <1>1, <1>2, <2>1, <2>2 DEF NewestIsStored
<1>15. OthersTextStands' /\ OnlyEmptyDraftsAreDiscarded'
  BY <1>1 DEF IInv, OthersTextStands, OnlyEmptyDraftsAreDiscarded
<1> QED BY <1>8, <1>9, <1>10, <1>12, <1>13, <1>14, <1>15 DEF IInv

-------------------------------------------------------------------------------
(***************************************************************************)
(* The server and the other devices.                                       *)
(***************************************************************************)

\* What a save that is carried out does to the calls.
Found(k) == calls[k].to \in Notes /\ rows[calls[k].to].live

\* What a save does on the server: the sent fields are stored, and only they.
LEMMA Applied ==
  ASSUME IInv, NEW k \in DOMAIN calls, Apply(k)
  PROVE  /\ calls[k].server = "under way"
         /\ DOMAIN calls' \subseteq DOMAIN calls
         /\ \A j \in DOMAIN calls : j # k \/ calls[k].client = "waits" => j \in DOMAIN calls'
         /\ \A j \in DOMAIN calls' :
              /\ calls'[j] \in CallRow /\ calls'[j].to = calls[j].to
              /\ calls'[j].sent = calls[j].sent /\ calls'[j].client = calls[j].client
         /\ \A j \in DOMAIN calls' \ {k} :
              /\ calls'[j].server = calls[j].server /\ calls'[j].answer = calls[j].answer
              /\ calls[j].passed \/ (Found(k) /\ j \in Passed(k)) => calls'[j].passed
         /\ k \in DOMAIN calls' /\ Found(k) =>
              /\ calls'[k].server = "applied"
              /\ \A f \in Fields : calls'[k].answer[f] =
                   IF f \in DOMAIN calls[k].sent THEN calls[k].sent[f]
                   ELSE rows[calls[k].to].text[f]
         /\ k \in DOMAIN calls' /\ ~Found(k) => calls'[k].server = "refused"
<1>0. PICK n, sent : n = calls[k].to /\ sent = calls[k].sent
  OBVIOUS
<1> DEFINE text == [f \in Fields |-> IF f \in DOMAIN sent THEN sent[f] ELSE rows[n].text[f]]
           marked == [j \in DOMAIN calls |->
                        IF Found(k) /\ j \in Passed(k) THEN [calls[j] EXCEPT !.passed = TRUE]
                        ELSE calls[j]]
<1>1. Types
  BY DEF IInv
<1>2. /\ calls[k].server = "under way"
      /\ calls' = IF calls[k].client = "gone" THEN Without(marked, {k})
                  ELSE IF Found(k) THEN [marked EXCEPT ![k].server = "applied", ![k].answer = text]
                  ELSE [calls EXCEPT ![k].server = "refused"]
  BY <1>0 DEF Apply, Found
<1>3. \A j \in DOMAIN calls : calls[j] \in CallRow
  BY <1>1 DEF Types
<1>4. sent \in Sent /\ calls[k].client \in {"waits", "gone"}
  BY <1>0, <1>3 DEF CallRow
<1>5. Found(k) => text \in [Fields -> Texts]
  <2>1. \A f \in DOMAIN sent : sent[f] \in Texts
    BY <1>4 DEF Sent
  <2> QED BY <1>0, <1>1, <2>1 DEF Types, Found
<1>6. \A j \in DOMAIN calls :
        /\ marked[j] \in CallRow /\ marked[j].to = calls[j].to /\ marked[j].sent = calls[j].sent
        /\ marked[j].client = calls[j].client /\ marked[j].server = calls[j].server
        /\ marked[j].answer = calls[j].answer
        /\ calls[j].passed \/ (Found(k) /\ j \in Passed(k)) => marked[j].passed
  <2> SUFFICES ASSUME NEW j \in DOMAIN calls
               PROVE  /\ marked[j] \in CallRow /\ marked[j].to = calls[j].to
                      /\ marked[j].sent = calls[j].sent
                      /\ marked[j].client = calls[j].client /\ marked[j].server = calls[j].server
                      /\ marked[j].answer = calls[j].answer
                      /\ calls[j].passed \/ (Found(k) /\ j \in Passed(k)) => marked[j].passed
    OBVIOUS
  <2>1. PICK old \in CallRow : old = calls[j]
    BY <1>3
  <2>2. marked[j] = IF Found(k) /\ j \in Passed(k) THEN [old EXCEPT !.passed = TRUE] ELSE old
    BY <2>1
  <2> HIDE DEF marked
  <2>3. CASE Found(k) /\ j \in Passed(k)
    BY <2>1, <2>2, <2>3 DEF CallRow
  <2>4. CASE ~(Found(k) /\ j \in Passed(k))
    BY <2>1, <2>2, <2>4
  <2> QED BY <2>3, <2>4
<1>7. DOMAIN marked = DOMAIN calls
  OBVIOUS
<1>8. Found(k) => \A f \in Fields : text[f] = IF f \in DOMAIN sent THEN sent[f] ELSE rows[n].text[f]
  OBVIOUS
<1> HIDE DEF marked, text
<1>9. CASE calls[k].client = "gone"
  <2>1. calls' = Without(marked, {k})
    BY <1>2, <1>9
  <2>2. DOMAIN calls' = DOMAIN calls \ {k} /\ \A j \in DOMAIN calls' : calls'[j] = marked[j]
    BY <1>7, <2>1 DEF Without
  <2> QED BY <1>2, <1>6, <1>9, <2>2
<1>10. CASE calls[k].client # "gone" /\ Found(k)
  <2>1. PICK old \in CallRow : old = marked[k]
    BY <1>6
  <2>2. /\ DOMAIN calls' = DOMAIN calls
        /\ \A j \in DOMAIN calls \ {k} : calls'[j] = marked[j]
        /\ calls'[k] = [old EXCEPT !.server = "applied", !.answer = text]
    BY <1>2, <1>7, <1>10, <2>1
  <2>3. text \in [Fields -> Texts \cup {Null}]
    BY <1>5, <1>10
  <2>4. calls'[k] \in CallRow
    BY <2>1, <2>2, <2>3 DEF CallRow
  <2>5. /\ calls'[k].to = old.to /\ calls'[k].sent = old.sent /\ calls'[k].client = old.client
        /\ calls'[k].server = "applied" /\ calls'[k].answer = text
    BY <2>1, <2>2 DEF CallRow
  <2>6. \A j \in DOMAIN calls' :
          /\ calls'[j] \in CallRow /\ calls'[j].to = calls[j].to
          /\ calls'[j].sent = calls[j].sent /\ calls'[j].client = calls[j].client
    <3>1. ASSUME NEW j \in DOMAIN calls', j # k
          PROVE  /\ calls'[j] \in CallRow /\ calls'[j].to = calls[j].to
                 /\ calls'[j].sent = calls[j].sent /\ calls'[j].client = calls[j].client
      BY <1>6, <2>2, <3>1
    <3>2. /\ old.to = calls[k].to /\ old.sent = calls[k].sent /\ old.client = calls[k].client
      BY <1>6, <2>1
    <3> QED BY <2>4, <2>5, <3>1, <3>2
  <2>7. \A j \in DOMAIN calls' \ {k} :
          /\ calls'[j].server = calls[j].server /\ calls'[j].answer = calls[j].answer
          /\ calls[j].passed \/ (Found(k) /\ j \in Passed(k)) => calls'[j].passed
    BY <1>6, <2>2
  <2>8. \A f \in Fields : calls'[k].answer[f] =
          IF f \in DOMAIN calls[k].sent THEN calls[k].sent[f] ELSE rows[calls[k].to].text[f]
    BY <1>0, <1>8, <1>10, <2>5
  <2> QED BY <1>2, <1>10, <2>2, <2>5, <2>6, <2>7, <2>8
<1>11. CASE calls[k].client # "gone" /\ ~Found(k)
  <2>1. PICK old \in CallRow : old = calls[k]
    BY <1>3
  <2>2. /\ DOMAIN calls' = DOMAIN calls
        /\ \A j \in DOMAIN calls \ {k} : calls'[j] = calls[j]
        /\ calls'[k] = [old EXCEPT !.server = "refused"]
    BY <1>2, <1>11, <2>1
  <2>3. /\ calls'[k] \in CallRow /\ calls'[k].to = old.to /\ calls'[k].sent = old.sent
        /\ calls'[k].client = old.client /\ calls'[k].server = "refused"
    BY <2>1, <2>2 DEF CallRow
  <2> QED BY <1>2, <1>3, <1>11, <2>1, <2>2, <2>3
<1> QED BY <1>9, <1>10, <1>11

\* A save is carried out.  The texts it sends are stored; older saves of the note count
\* as passed; and if it had been passed itself, its fields are overtaken.
LEMMA ApplyInv ==
  ASSUME IInv, NEW k \in DOMAIN calls, Apply(k)
  PROVE  IInv'
<1>1. PICK n, sent : n = calls[k].to /\ sent = calls[k].sent
  OBVIOUS
<1>2. /\ UNCHANGED <<visiting, heading, note, set_up, shown, base, timer, error, running, latest,
                     drafts, deletes, loads, flows, typed, edits, given_up, resumed, others, misled,
                     failures, events>>
      /\ Found(k) => overtaken' = IF calls[k].passed THEN overtaken \cup {<<n, f>> : f \in DOMAIN sent}
                                                  ELSE overtaken
      /\ ~Found(k) => rows' = rows /\ overtaken' = overtaken
  BY <1>1 DEF Apply, Found, page, history
<1>3. /\ Types /\ AwaitedIsWaiting /\ NothingIsBlank /\ SentIsTyped /\ DraftsAreUntouched
      /\ NewestIsStored
  BY DEF IInv
<1>4. /\ calls[k].server = "under way"
      /\ DOMAIN calls' \subseteq DOMAIN calls
      /\ \A j \in DOMAIN calls : j # k \/ calls[k].client = "waits" => j \in DOMAIN calls'
      /\ \A j \in DOMAIN calls' :
           /\ calls'[j] \in CallRow /\ calls'[j].to = calls[j].to
           /\ calls'[j].sent = calls[j].sent /\ calls'[j].client = calls[j].client
      /\ \A j \in DOMAIN calls' \ {k} :
           /\ calls'[j].server = calls[j].server /\ calls'[j].answer = calls[j].answer
           /\ calls[j].passed \/ (Found(k) /\ j \in Passed(k)) => calls'[j].passed
      /\ k \in DOMAIN calls' /\ Found(k) => calls'[k].server = "applied"
      /\ k \in DOMAIN calls' /\ ~Found(k) => calls'[k].server = "refused"
  BY Applied
<1>4a. k \in DOMAIN calls' /\ Found(k) =>
         \A f \in Fields : calls'[k].answer[f] =
           IF f \in DOMAIN sent THEN sent[f] ELSE rows[n].text[f]
  BY <1>1, Applied
<1>5. /\ DOMAIN sent \subseteq Fields
      /\ \A f \in DOMAIN sent : sent[f] \in Texts \ {"blank"}
  <2>1. sent \in Sent
    BY <1>1, <1>3 DEF Types, CallRow
  <2> QED BY <2>1 DEF Sent
<1>6. /\ rows' \in [Notes -> [text : [Fields -> Texts], live : BOOLEAN]]
      /\ \A m \in Notes : rows'[m].live = rows[m].live
      /\ \A m \in Notes, f \in Fields : rows'[m].text[f] =
           IF Found(k) /\ m = n /\ f \in DOMAIN sent THEN sent[f] ELSE rows[m].text[f]
  <2>1. CASE Found(k)
    <3> DEFINE text == [f \in Fields |-> IF f \in DOMAIN sent THEN sent[f] ELSE rows[n].text[f]]
    <3>1. n \in Notes /\ rows' = [rows EXCEPT ![n].text = text]
      BY <1>1, <2>1 DEF Apply, Found
    <3>2. text \in [Fields -> Texts]
      BY <1>3, <1>5, <3>1 DEF Types
    <3>3. \A f \in Fields : text[f] = IF f \in DOMAIN sent THEN sent[f] ELSE rows[n].text[f]
      OBVIOUS
    <3> HIDE DEF text
    <3>4. /\ rows' \in [Notes -> [text : [Fields -> Texts], live : BOOLEAN]]
          /\ \A m \in Notes \ {n} : rows'[m] = rows[m]
          /\ rows'[n].text = text /\ rows'[n].live = rows[n].live
      BY <1>3, <3>1, <3>2 DEF Types
    <3> QED BY <2>1, <3>3, <3>4
  <2>2. CASE ~Found(k)
    BY <1>2, <1>3, <2>2 DEF Types
  <2> QED BY <2>1, <2>2
<1>7. \A m, f : /\ UnderWay(m, f)' = UnderWay(m, f) \ {k}
                /\ \A j \in UnderWay(m, f) : calls[j].passed /\ j # k => calls'[j].passed
  <2>1. k \in DOMAIN calls' => calls'[k].server # "under way"
    BY <1>4
  <2>2. \A m, f : UnderWay(m, f)' = UnderWay(m, f) \ {k}
    BY <1>4, <2>1 DEF UnderWay
  <2> QED BY <1>4, <2>2 DEF UnderWay
<1>8. Waiting' = Waiting
  <2>1. k \in Waiting => k \in DOMAIN calls'
    BY <1>4 DEF Waiting
  <2> QED BY <1>4, <2>1 DEF Waiting
<1>9. \A m, f : Overwritten(m, f) => Overwritten(m, f)'
  BY <1>2 DEF Overwritten
<1>10. \A f \in DOMAIN sent : Found(k) /\ calls[k].passed => Overwritten(n, f)'
  BY <1>2 DEF Overwritten
<1>11. \A f : f \in DOMAIN sent => k \in UnderWay(n, f)
  BY <1>1, <1>4 DEF UnderWay
<1>12. Types'
  BY <1>2, <1>3, <1>4, <1>6 DEF Types
<1>13. AwaitedIsWaiting'
  <2>1. failures = 0 => DOMAIN calls' = DOMAIN calls
    BY <1>3, <1>4 DEF AwaitedIsWaiting, Waiting
  <2> QED BY <1>2, <1>3, <1>8, <2>1 DEF AwaitedIsWaiting
<1>14. NothingIsBlank'
  <2>1. \A m \in Notes, f \in Fields : rows'[m].text[f] # "blank"
    BY <1>3, <1>5, <1>6 DEF NothingIsBlank
  <2> SUFFICES ASSUME NEW j \in DOMAIN calls', calls'[j].server = "applied"
               PROVE  calls'[j].answer \in [Fields -> Texts \ {"blank"}]
    BY <2>1 DEF NothingIsBlank
  <2>2. CASE j # k
    BY <1>3, <1>4, <2>2 DEF NothingIsBlank
  <2>3. CASE j = k
    <3>1. Found(k) /\ n \in Notes
      <4>1. Found(k)
        BY <1>4, <2>3
      <4> QED BY <1>1, <4>1 DEF Found
    <3>2. ASSUME NEW f \in Fields
          PROVE  calls'[j].answer[f] \in Texts \ {"blank"}
      <4>1. calls'[j].answer[f] = IF f \in DOMAIN sent THEN sent[f] ELSE rows[n].text[f]
        BY <1>4a, <2>3, <3>1
      <4>2. rows[n].text[f] \in Texts \ {"blank"}
        BY <1>3, <3>1 DEF NothingIsBlank, Types
      <4> QED BY <1>5, <4>1, <4>2
    <3>3. calls'[j].answer \in [Fields -> Texts \cup {Null}]
      BY <1>4 DEF CallRow
    <3> QED BY <3>2, <3>3
  <2> QED BY <2>2, <2>3
<1>15. Unsaved' = Unsaved /\ Refused' = Refused
  BY <1>2 DEF Unsaved, Refused
<1>16. PageFits' /\ UnsavedIsTyped'
  BY <1>2, <1>15 DEF IInv, PageFits, UnsavedIsTyped
<1>17. SentIsTyped'
  <2> SUFFICES ASSUME NEW j \in DOMAIN calls', calls'[j].to \in Notes \ misled,
                      NEW f \in DOMAIN calls'[j].sent
               PROVE  typed[calls'[j].to][f] # Null
    BY <1>2 DEF SentIsTyped
  <2>1. /\ j \in DOMAIN calls /\ calls'[j].to = calls[j].to /\ f \in DOMAIN calls[j].sent
        /\ calls[j].to \in Notes \ misled
    BY <1>4
  <2> QED BY <1>3, <2>1 DEF SentIsTyped
<1>18. DraftsAreUntouched'
  <2>1. Spared' = Spared /\ Spared \subseteq Notes
    BY <1>2, <1>3, SparedFits DEF Spared, Discarding
  <2> SUFFICES ASSUME NEW m \in Spared, NEW f \in Fields
               PROVE  /\ m = set_up => Untouched(m, f, shown[f])
                      /\ \A j \in DOMAIN calls' : calls'[j].to = m /\ f \in DOMAIN calls'[j].sent =>
                           Untouched(m, f, calls'[j].sent[f])
                      /\ Untouched(m, f, rows'[m].text[f])
    BY <1>2, <2>1 DEF DraftsAreUntouched, Untouched
  <2>2. m = n /\ f \in DOMAIN sent => Untouched(m, f, sent[f])
    BY <1>1, <1>3 DEF DraftsAreUntouched
  <2>3. Untouched(m, f, rows'[m].text[f])
    BY <1>3, <1>6, <2>1, <2>2 DEF DraftsAreUntouched
  <2>4. ASSUME NEW j \in DOMAIN calls', calls'[j].to = m, f \in DOMAIN calls'[j].sent
        PROVE  Untouched(m, f, calls'[j].sent[f])
    <3>1. j \in DOMAIN calls /\ calls[j].to = m /\ calls'[j].sent = calls[j].sent
      BY <1>4, <2>4
    <3> QED BY <1>3, <2>4, <3>1 DEF DraftsAreUntouched
  <2> QED BY <1>3, <2>3, <2>4 DEF DraftsAreUntouched
<1>19. \A j \in Passed(k) : j \in DOMAIN calls /\ j # k
  <2>1. DOMAIN calls \subseteq Nat
    BY <1>3 DEF Types
  <2> SUFFICES ASSUME NEW j \in DOMAIN calls, j < k PROVE j # k
    BY DEF Passed
  <2>2. j \in Nat /\ k \in Nat
    BY <2>1
  <2> QED BY <2>2
<1>20. NewestIsStored'
  <2> SUFFICES ASSUME NEW j \in DOMAIN calls', j = latest, calls'[j].server = "applied",
                      NEW m \in Notes, m = calls'[j].to, NEW f \in Fields
               PROVE  /\ rows'[m].text[f] = calls'[j].answer[f] \/ Overwritten(m, f)'
                      /\ \A i \in UnderWay(m, f)' : calls'[i].passed
    BY <1>2 DEF NewestIsStored, Overwritten, UnderWay
  <2>1. CASE j # k
    <3>1. /\ rows[m].text[f] = calls[j].answer[f] \/ Overwritten(m, f)
          /\ \A i \in UnderWay(m, f) : calls[i].passed
      <4>1. j \in DOMAIN calls /\ calls[j].server = "applied" /\ calls[j].to = m
        BY <1>4, <2>1
      <4> QED BY <1>3, <4>1 DEF NewestIsStored
    <3>2. \A i \in UnderWay(m, f)' : calls'[i].passed
      BY <1>7, <3>1
    <3>3. CASE Found(k) /\ m = n /\ f \in DOMAIN sent
      <4>1. Overwritten(m, f)'
        BY <1>10, <1>11, <3>1, <3>3
      <4> QED BY <3>2, <4>1
    <3>4. CASE ~(Found(k) /\ m = n /\ f \in DOMAIN sent)
      <4>1. rows'[m].text[f] = rows[m].text[f]
        BY <1>6, <3>4
      <4>2. calls'[j].answer = calls[j].answer
        BY <1>4, <2>1
      <4> QED BY <1>9, <3>1, <3>2, <4>1, <4>2
    <3> QED BY <3>3, <3>4
  <2>2. CASE j = k
    <3>1. Found(k) /\ m = n
      BY <1>1, <1>4, <2>2
    <3>2. rows'[m].text[f] = calls'[j].answer[f]
      <4>1. rows'[m].text[f] = IF f \in DOMAIN sent THEN sent[f] ELSE rows[n].text[f]
        BY <1>6, <3>1
      <4>2. calls'[k].answer[f] = IF f \in DOMAIN sent THEN sent[f] ELSE rows[n].text[f]
        BY <1>4a, <2>2, <3>1
      <4> QED BY <2>2, <4>1, <4>2
    <3>3. ASSUME NEW i \in UnderWay(m, f)'
          PROVE  i \in Passed(k) /\ i \in DOMAIN calls' \ {k}
      <4>1. i \in UnderWay(m, f) /\ i # k /\ i \in DOMAIN calls'
        <5>1. i \in UnderWay(m, f) \ {k}
          BY <1>7
        <5> QED BY <5>1 DEF UnderWay
      <4>2. i \in DOMAIN calls /\ calls[i].to = calls[k].to /\ calls[i].server = "under way"
        BY <1>1, <3>1, <4>1 DEF UnderWay
      <4>3. i \in 1..latest /\ latest \in Nat /\ k = latest
        BY <1>3, <2>2, <4>2 DEF Types
      <4>4. i < k
        BY <4>1, <4>3
      <4> QED BY <4>1, <4>2, <4>4 DEF Passed
    <3>4. \A i \in UnderWay(m, f)' : calls'[i].passed
      BY <1>4, <3>1, <3>3
    <3> QED BY <3>2, <3>4
  <2> QED BY <2>1, <2>2
<1>21. TypedIsKept'
  <2> SUFFICES ASSUME failures = 0, NEW m \in Notes \ misled, NEW g \in Fields, typed[m][g] # Null
               PROVE  \/ Overwritten(m, g)' \/ <<m, g>> \in given_up'
                      \/ Stored(m, g)' \/ OnItsWay(m, g)' \/ ToSend(m, g)' \/ Refusal'
    BY <1>2 DEF TypedIsKept
  <2>1. \/ Overwritten(m, g) \/ <<m, g>> \in given_up
        \/ Stored(m, g) \/ OnItsWay(m, g) \/ ToSend(m, g) \/ Refusal
    BY DEF IInv, TypedIsKept
  <2>2. k \in DOMAIN calls'
    BY <1>3, <1>4 DEF AwaitedIsWaiting, Waiting
  <2>3. (ToSend(m, g) => ToSend(m, g)') /\ (<<m, g>> \in given_up => <<m, g>> \in given_up')
    BY <1>2, <1>15 DEF ToSend
  <2>4. Refusal => Refusal'
    BY <1>4, <2>2 DEF Refusal
  <2>5. CASE ~Found(k)
    BY <1>4, <2>2, <2>5 DEF Refusal
  <2>6. ASSUME Found(k), Stored(m, g)
        PROVE  Stored(m, g)' \/ Overwritten(m, g)'
    <3>1. \A j \in UnderWay(m, g)' : calls'[j].passed
      BY <1>7, <2>6 DEF Stored
    <3>2. CASE m = n /\ g \in DOMAIN sent
      <4>1. calls[k].passed
        BY <1>11, <2>6, <3>2 DEF Stored
      <4> QED BY <1>10, <2>6, <3>2, <4>1
    <3>3. CASE ~(m = n /\ g \in DOMAIN sent)
      BY <1>2, <1>6, <2>6, <3>1, <3>3 DEF Stored
    <3> QED BY <3>2, <3>3
  <2>7. ASSUME Found(k), OnItsWay(m, g)
        PROVE  OnItsWay(m, g)' \/ Stored(m, g)'
    <3>1. PICK j \in UnderWay(m, g) :
            calls[j].sent[g] = typed[m][g] /\ \A i \in UnderWay(m, g) : i <= j
      BY <2>7 DEF OnItsWay
    <3>2. CASE j # k
      <4>1. j \in UnderWay(m, g)' /\ calls'[j].sent[g] = typed[m][g]
        BY <1>4, <1>7, <3>1, <3>2 DEF UnderWay
      <4>2. \A i \in UnderWay(m, g)' : i <= j
        BY <1>7, <3>1
      <4> QED BY <1>2, <4>1, <4>2 DEF OnItsWay
    <3>3. CASE j = k
      <4>1. m = n /\ g \in DOMAIN sent
        BY <1>1, <3>1, <3>3 DEF UnderWay
      <4>2. rows'[m].text[g] = typed[m][g]
        BY <1>1, <1>6, <2>7, <3>1, <3>3, <4>1
      <4>3. ASSUME NEW i \in UnderWay(m, g)'
            PROVE  i \in Passed(k) /\ i \in DOMAIN calls' \ {k}
        <5>1. i \in UnderWay(m, g) /\ i # k /\ i <= k /\ i \in DOMAIN calls'
          <6>1. i \in UnderWay(m, g) \ {k}
            BY <1>7
          <6>2. i \in DOMAIN calls'
            BY DEF UnderWay
          <6> QED BY <3>1, <3>3, <6>1, <6>2
        <5>2. i \in DOMAIN calls /\ calls[i].to = calls[k].to /\ calls[i].server = "under way"
          BY <1>1, <4>1, <5>1 DEF UnderWay
        <5>3. i \in Nat /\ k \in Nat
          <6>1. DOMAIN calls \subseteq Nat
            BY <1>3 DEF Types
          <6> QED BY <5>2, <6>1
        <5>4. i < k
          BY <5>1, <5>3
        <5> QED BY <5>1, <5>2, <5>4 DEF Passed
      <4>4. \A i \in UnderWay(m, g)' : calls'[i].passed
        BY <1>4, <2>7, <4>3
      <4> QED BY <1>2, <4>2, <4>4 DEF Stored
    <3> QED BY <3>2, <3>3
  <2> QED BY <1>9, <2>1, <2>3, <2>4, <2>5, <2>6, <2>7
<1>22. OthersTextStands'
  <2> SUFFICES ASSUME NEW m \in Notes \ misled, NEW f \in Fields, <<m, f>> \in others,
                      typed[m][f] = Null
               PROVE  rows'[m].text[f] = "theirs"
    BY <1>2 DEF OthersTextStands
  <2>1. rows[m].text[f] = "theirs"
    BY DEF IInv, OthersTextStands
  <2>2. ~(m = n /\ f \in DOMAIN sent)
    BY <1>1, <1>3 DEF SentIsTyped
  <2> QED BY <1>6, <2>1, <2>2
<1>23. OnlyEmptyDraftsAreDiscarded'
  <2> SUFFICES ASSUME NEW m \in Notes, ~rows'[m].live, <<m, "live">> \notin others
               PROVE  m \in NewNotes /\ (\/ rows'[m].text = All("default")
                                         \/ \E f \in Fields : <<m, f>> \in others
                                         \/ m \in resumed)
    BY <1>2 DEF OnlyEmptyDraftsAreDiscarded
  <2>1. ~rows[m].live
    BY <1>6
  <2>2. m \in NewNotes /\ (\/ rows[m].text = All("default")
                           \/ \E f \in Fields : <<m, f>> \in others
                           \/ m \in resumed)
    BY <2>1 DEF IInv, OnlyEmptyDraftsAreDiscarded
  <2>3. ~(Found(k) /\ m = n)
    BY <1>1, <2>1 DEF Found
  <2>4. rows'[m].text = rows[m].text
    <3>1. \A f \in Fields : rows'[m].text[f] = rows[m].text[f]
      BY <1>6, <2>3
    <3>2. rows'[m].text \in [Fields -> Texts] /\ rows[m].text \in [Fields -> Texts]
      BY <1>3, <1>6 DEF Types
    <3> QED BY <3>1, <3>2
  <2> QED BY <2>2, <2>4
<1> QED BY <1>12, <1>13, <1>14, <1>16, <1>17, <1>18, <1>20, <1>21, <1>22, <1>23 DEF IInv

\* What changes a row, or takes notes off the drafts, where the page does not see it.
LEMMA RowsInv ==
  ASSUME IInv,
         UNCHANGED <<visiting, heading, note, set_up, shown, base, timer, error, running, latest,
                     calls, loads, typed, edits, overtaken, misled, given_up>>,
         Spared' \subseteq Spared, \A i \in DOMAIN deletes' : deletes'[i] \in DeleteRow,
         DOMAIN flows' \subseteq DOMAIN flows, \A i \in DOMAIN flows' : flows'[i] = flows[i],
         drafts' \subseteq drafts, others \subseteq others',
         failures' \in Nat, failures' = 0 => failures = 0, events' \in Nat,
         rows' \in [Notes -> [text : [Fields -> Texts], live : BOOLEAN]],
         \A n \in Notes, f \in Fields :
           \/ rows'[n].text[f] = rows[n].text[f] /\ (<<n, f>> \in others' => <<n, f>> \in others)
           \/ rows'[n].text[f] = "theirs" /\ <<n, f>> \in others',
         OnlyEmptyDraftsAreDiscarded'
  PROVE  IInv'
<1>1. /\ Types /\ AwaitedIsWaiting /\ NothingIsBlank /\ SentIsTyped /\ DraftsAreUntouched
      /\ NewestIsStored /\ TypedIsKept /\ OthersTextStands
  BY DEF IInv
<1>2. Unsaved' = Unsaved /\ Refused' = Refused /\ Waiting' = Waiting /\ Refusal' = Refusal
      /\ \A n, f : UnderWay(n, f)' = UnderWay(n, f)
  BY DEF Unsaved, Refused, Waiting, Refusal, UnderWay
<1>3. Types'
  <2>1. drafts' \subseteq NewNotes
    BY <1>1 DEF Types
  <2> QED BY <1>1, <2>1 DEF Types
<1>4. AwaitedIsWaiting'
  BY <1>1, <1>2 DEF AwaitedIsWaiting
<1>5. NothingIsBlank'
  BY <1>1 DEF NothingIsBlank
<1>6. PageFits'
  BY DEF IInv, PageFits
<1>7. UnsavedIsTyped'
  BY <1>2 DEF IInv, UnsavedIsTyped
<1>8. SentIsTyped'
  BY <1>1 DEF SentIsTyped
<1>9. DraftsAreUntouched'
  <2>1. Spared \subseteq Notes
    BY <1>1, SparedFits
  <2> SUFFICES ASSUME NEW n \in Spared', NEW f \in Fields
               PROVE  /\ n = set_up => Untouched(n, f, shown[f])'
                      /\ \A k \in DOMAIN calls : calls[k].to = n /\ f \in DOMAIN calls[k].sent =>
                           Untouched(n, f, calls[k].sent[f])'
                      /\ Untouched(n, f, rows[n].text[f])'
    BY DEF DraftsAreUntouched
  <2>2. n \in Spared /\ n \in Notes
    BY <2>1
  <2> QED BY <1>1, <2>2 DEF DraftsAreUntouched, Untouched
<1>10. \A n, f : Overwritten(n, f) => Overwritten(n, f)'
  BY DEF Overwritten
<1>11. NewestIsStored'
  <2> SUFFICES ASSUME NEW k \in DOMAIN calls, k = latest, calls[k].server = "applied",
                      NEW n \in Notes, n = calls[k].to, NEW f \in Fields
               PROVE  /\ rows'[n].text[f] = calls[k].answer[f] \/ Overwritten(n, f)'
                      /\ \A j \in UnderWay(n, f) : calls[j].passed
    BY <1>2 DEF NewestIsStored
  <2>1. /\ rows[n].text[f] = calls[k].answer[f] \/ Overwritten(n, f)
        /\ \A j \in UnderWay(n, f) : calls[j].passed
    BY <1>1 DEF NewestIsStored
  <2>2. CASE rows'[n].text[f] = rows[n].text[f]
    BY <1>10, <2>1, <2>2
  <2>3. CASE <<n, f>> \in others'
    BY <2>1, <2>3 DEF Overwritten
  <2> QED BY <2>2, <2>3
<1>12. TypedIsKept'
  <2> SUFFICES ASSUME failures' = 0, NEW n \in Notes \ misled, NEW f \in Fields,
                      typed[n][f] # Null
               PROVE  \/ Overwritten(n, f)' \/ <<n, f>> \in given_up'
                      \/ Stored(n, f)' \/ OnItsWay(n, f)' \/ ToSend(n, f)' \/ Refusal'
    BY DEF TypedIsKept
  <2>1. \/ Overwritten(n, f) \/ <<n, f>> \in given_up
        \/ Stored(n, f) \/ OnItsWay(n, f) \/ ToSend(n, f) \/ Refusal
    BY <1>1 DEF TypedIsKept
  <2>2. Stored(n, f) => Stored(n, f)' \/ Overwritten(n, f)'
    <3>1. CASE rows'[n].text[f] = rows[n].text[f]
      BY <1>2, <3>1 DEF Stored
    <3>2. CASE <<n, f>> \in others'
      BY <3>2 DEF Overwritten
    <3> QED BY <3>1, <3>2
  <2>3. OnItsWay(n, f)' = OnItsWay(n, f)
    BY <1>2 DEF OnItsWay
  <2>4. ToSend(n, f)' = ToSend(n, f)
    BY <1>2 DEF ToSend
  <2> QED BY <1>2, <1>10, <2>1, <2>2, <2>3, <2>4
<1>13. OthersTextStands'
  BY <1>1 DEF OthersTextStands
<1> QED BY <1>3, <1>4, <1>5, <1>6, <1>7, <1>8, <1>9, <1>11, <1>12, <1>13 DEF IInv

\* A navigation ends.  The note it asks to delete was a draft.
LEMMA FlowEndsInv ==
  ASSUME IInv, NEW i \in DOMAIN flows, FlowEnds(i)
  PROVE  IInv'
<1>1. /\ UNCHANGED <<rows, visiting, heading, note, set_up, shown, base, timer, error, running,
                     latest, calls, loads, typed, edits, given_up, resumed, others, overtaken,
                     misled, failures, events>>
      /\ flows' = Without(flows, {i})
  BY DEF FlowEnds, Over, server, history
<1>2. Types
  BY DEF IInv
<1>3. drafts' \subseteq drafts
  BY DEF FlowEnds
<1>4. (\A j \in DOMAIN deletes' : deletes'[j] \in DeleteRow) /\ Spared' \subseteq Spared
  <2>1. CASE deletes' = deletes
    BY <1>1, <1>2, <1>3, <2>1 DEF Types, Spared, Discarding
  <2>2. CASE Discards /\ deletes' = Put(deletes, i, Deletion)
    <3>1. note \in drafts /\ note \in NewNotes
      BY <1>2, <2>2 DEF Discards, Types
    <3>2. Deletion \in DeleteRow /\ Deletion.to = note
      BY <3>1 DEF Deletion, DeleteRow
    <3>3. \A j \in DOMAIN deletes' :
            (j \in DOMAIN deletes /\ deletes'[j] = deletes[j]) \/ deletes'[j] = Deletion
      BY <2>2 DEF Put
    <3>4. Discarding' \subseteq Discarding \cup {note}
      BY <3>2, <3>3 DEF Discarding
    <3> QED BY <1>1, <1>2, <1>3, <3>1, <3>2, <3>3, <3>4 DEF Types, Spared
  <2> QED BY <2>1, <2>2 DEF FlowEnds
<1>5. OnlyEmptyDraftsAreDiscarded'
  BY <1>1 DEF IInv, OnlyEmptyDraftsAreDiscarded
<1>6. DOMAIN flows' \subseteq DOMAIN flows /\ \A j \in DOMAIN flows' : flows'[j] = flows[j]
  BY <1>1 DEF Without
<1>7. /\ failures' \in Nat /\ events' \in Nat
      /\ rows' \in [Notes -> [text : [Fields -> Texts], live : BOOLEAN]]
  BY <1>1, <1>2 DEF Types
<1> QED BY <1>1, <1>3, <1>4, <1>5, <1>6, <1>7, RowsInv

\* Deletions that are carried out, answered or given up leave fewer under way.
LEMMA DeletesShrink ==
  ASSUME drafts' \subseteq drafts, resumed' = resumed, DOMAIN deletes' \subseteq DOMAIN deletes,
         \A j \in DOMAIN deletes' :
           deletes'[j].to = deletes[j].to /\ (deletes'[j].server = "under way" =>
                                               deletes[j].server = "under way")
  PROVE  Spared' \subseteq Spared
<1>1. Discarding' \subseteq Discarding
  BY DEF Discarding
<1> QED BY <1>1 DEF Spared

\* The answer to a deletion keeps the invariant.
LEMMA DeletedInv ==
  ASSUME IInv, NEW i \in DOMAIN deletes, Deleted(i)
  PROVE  IInv'
<1>1. /\ UNCHANGED <<rows, visiting, heading, note, set_up, shown, base, timer, error, running,
                     latest, calls, loads, flows, typed, edits, given_up, resumed, others,
                     overtaken, misled, failures, events>>
      /\ deletes' = Without(deletes, {i}) /\ drafts' \subseteq drafts
  BY DEF Deleted, server, history
<1>2. Types
  BY DEF IInv
<1>3. DOMAIN deletes' \subseteq DOMAIN deletes /\ \A j \in DOMAIN deletes' : deletes'[j] = deletes[j]
  BY <1>1 DEF Without
<1>4. Spared' \subseteq Spared
  BY <1>1, <1>3, DeletesShrink
<1>5. OnlyEmptyDraftsAreDiscarded'
  BY <1>1 DEF IInv, OnlyEmptyDraftsAreDiscarded
<1>6. /\ failures' \in Nat /\ events' \in Nat
      /\ rows' \in [Notes -> [text : [Fields -> Texts], live : BOOLEAN]]
      /\ \A j \in DOMAIN deletes' : deletes'[j] \in DeleteRow
  BY <1>1, <1>2, <1>3 DEF Types
<1> QED BY <1>1, <1>4, <1>5, <1>6, RowsInv

\* The failure of a deletion keeps the invariant.
LEMMA NotDeletedInv ==
  ASSUME IInv, NEW i \in DOMAIN deletes, NotDeleted(i)
  PROVE  IInv'
<1>1. /\ UNCHANGED <<rows, visiting, heading, note, set_up, shown, base, timer, error, running,
                     latest, drafts, calls, loads, flows, typed, edits, given_up, resumed, others,
                     overtaken, misled>>
      /\ failures' = failures + 1
  BY DEF NotDeleted, server, page, history
<1>2. Types
  BY DEF IInv
<1>3. /\ DOMAIN deletes' \subseteq DOMAIN deletes
      /\ \A j \in DOMAIN deletes' :
           /\ deletes'[j] \in DeleteRow /\ deletes'[j].to = deletes[j].to
           /\ deletes'[j].server = deletes[j].server
  <2>1. CASE deletes' = Without(deletes, {i})
    BY <1>2, <2>1 DEF Without, Types
  <2>2. CASE deletes' = [deletes EXCEPT ![i].client = "gone"]
    <3>1. PICK old \in DeleteRow : old = deletes[i]
      BY <1>2 DEF Types
    <3>2. /\ DOMAIN deletes' = DOMAIN deletes /\ deletes'[i] = [old EXCEPT !.client = "gone"]
          /\ \A j \in DOMAIN deletes \ {i} : deletes'[j] = deletes[j]
      BY <2>2, <3>1
    <3>3. /\ deletes'[i] \in DeleteRow /\ deletes'[i].to = old.to
          /\ deletes'[i].server = old.server
      BY <3>1, <3>2 DEF DeleteRow
    <3> QED BY <1>2, <3>1, <3>2, <3>3 DEF Types
  <2> QED BY <2>1, <2>2 DEF NotDeleted
<1>4. Spared' \subseteq Spared
  BY <1>1, <1>3, DeletesShrink
<1>5. OnlyEmptyDraftsAreDiscarded'
  BY <1>1 DEF IInv, OnlyEmptyDraftsAreDiscarded
<1>6. failures' \in Nat /\ failures' # 0 /\ events' \in Nat
  <2>1. events' = events \/ events' = events + 1
    BY DEF NotDeleted, Event
  <2> QED BY <1>1, <1>2, <2>1 DEF Types
<1>7. rows' \in [Notes -> [text : [Fields -> Texts], live : BOOLEAN]]
  BY <1>1, <1>2 DEF Types
<1> QED BY <1>1, <1>3, <1>4, <1>5, <1>6, <1>7, RowsInv

\* A note's row is deleted; what it stores stays as it is.
LEMMA RowDies ==
  ASSUME Types, NEW n \in Notes, rows' = [rows EXCEPT ![n].live = FALSE]
  PROVE  /\ rows' \in [Notes -> [text : [Fields -> Texts], live : BOOLEAN]]
         /\ \A m \in Notes : rows'[m].text = rows[m].text
         /\ \A m \in Notes \ {n} : rows'[m] = rows[m]
<1>1. PICK old \in [text : [Fields -> Texts], live : BOOLEAN] : old = rows[n]
  BY DEF Types
<1>2. rows' = [rows EXCEPT ![n] = [old EXCEPT !.live = FALSE]]
  BY <1>1 DEF Types
<1>3. PICK new : /\ new = [old EXCEPT !.live = FALSE] /\ new.text = old.text
                 /\ new \in [text : [Fields -> Texts], live : BOOLEAN]
  <2>1. [old EXCEPT !.live = FALSE] \in [text : [Fields -> Texts], live : BOOLEAN]
    OBVIOUS
  <2>2. [old EXCEPT !.live = FALSE].text = old.text
    OBVIOUS
  <2> QED BY <2>1, <2>2
<1>4. /\ rows' \in [Notes -> [text : [Fields -> Texts], live : BOOLEAN]]
      /\ rows'[n] = new /\ \A m \in Notes \ {n} : rows'[m] = rows[m]
  BY <1>2, <1>3 DEF Types
<1> QED BY <1>1, <1>3, <1>4

\* The deletion of a draft is carried out: each of its fields holds the default text, or
\* what another device wrote, or the user has typed since.
LEMMA DeleteInv ==
  ASSUME IInv, NEW i \in DOMAIN deletes, Delete(i)
  PROVE  IInv'
<1>1. /\ UNCHANGED <<visiting, heading, note, set_up, shown, base, timer, error, running, latest,
                     drafts, calls, loads, flows, typed, edits, given_up, resumed, others,
                     overtaken, misled, failures, events>>
      /\ deletes[i].server = "under way"
  BY DEF Delete, page, history
<1>2. Types /\ DraftsAreUntouched
  BY DEF IInv
<1>3. PICK old \in DeleteRow : old = deletes[i]
  BY <1>2 DEF Types
<1>4. PICK n \in NewNotes : n = old.to /\ n \in Notes
  BY <1>3, NotesAssumption DEF DeleteRow
<1>5. /\ rows' \in [Notes -> [text : [Fields -> Texts], live : BOOLEAN]]
      /\ \A m \in Notes : rows'[m].text = rows[m].text
      /\ \A m \in Notes \ {n} : rows'[m] = rows[m]
  <2>1. rows' = [rows EXCEPT ![n].live = FALSE]
    BY <1>3, <1>4 DEF Delete
  <2> QED BY <1>2, <1>4, <2>1, RowDies
<1>6. /\ DOMAIN deletes' \subseteq DOMAIN deletes
      /\ \A j \in DOMAIN deletes' :
           /\ deletes'[j] \in DeleteRow /\ deletes'[j].to = deletes[j].to
           /\ deletes'[j].server = "under way" => deletes[j].server = "under way"
  <2>1. CASE deletes' = Without(deletes, {i})
    BY <1>2, <2>1 DEF Without, Types
  <2>2. CASE deletes' = [deletes EXCEPT ![i].server = "applied"]
    <3>1. /\ DOMAIN deletes' = DOMAIN deletes /\ deletes'[i] = [old EXCEPT !.server = "applied"]
          /\ \A j \in DOMAIN deletes \ {i} : deletes'[j] = deletes[j]
      BY <1>3, <2>2
    <3>2. deletes'[i] \in DeleteRow /\ deletes'[i].to = old.to
      BY <1>3, <3>1 DEF DeleteRow
    <3> QED BY <1>1, <1>2, <1>3, <3>1, <3>2 DEF Types
  <2> QED BY <2>1, <2>2 DEF Delete
<1>7. Spared' \subseteq Spared
  BY <1>1, <1>6, DeletesShrink
<1>8. OnlyEmptyDraftsAreDiscarded'
  <2> SUFFICES ASSUME NEW m \in Notes, ~rows'[m].live, <<m, "live">> \notin others
               PROVE  m \in NewNotes /\ (\/ rows[m].text = All("default")
                                         \/ \E f \in Fields : <<m, f>> \in others
                                         \/ m \in resumed)
    BY <1>1, <1>5 DEF OnlyEmptyDraftsAreDiscarded
  <2>1. CASE ~rows[m].live
    BY <2>1 DEF IInv, OnlyEmptyDraftsAreDiscarded
  <2>2. CASE rows[m].live
    <3>1. m = n
      BY <1>5, <2>2
    <3>2. n \in Discarding
      BY <1>1, <1>3, <1>4 DEF Discarding
    <3>3. n \in resumed \/ \A f \in Fields : rows[n].text[f] = "default" \/ <<n, f>> \in others
      BY <1>2, <3>2 DEF DraftsAreUntouched, Untouched, Spared
    <3>4. rows[n].text \in [Fields -> Texts]
      BY <1>2, <1>4 DEF Types
    <3>5. ASSUME \A f \in Fields : rows[n].text[f] = "default"
          PROVE  rows[n].text = All("default")
      BY <3>4, <3>5 DEF All
    <3> QED BY <1>4, <3>1, <3>3, <3>5
  <2> QED BY <2>1, <2>2
<1>9. failures' \in Nat /\ events' \in Nat
  BY <1>1, <1>2 DEF Types
<1>10. \A m \in Notes, f \in Fields : rows'[m].text[f] = rows[m].text[f]
  BY <1>5
<1> QED BY <1>1, <1>5, <1>6, <1>7, <1>8, <1>9, <1>10, RowsInv

\* An edit from elsewhere keeps the invariant.
LEMMA OtherWritesInv ==
  ASSUME IInv, NEW n \in Notes, NEW f \in Fields, OtherWrites(n, f)
  PROVE  IInv'
<1>1. /\ UNCHANGED <<visiting, heading, note, set_up, shown, base, timer, error, running, latest,
                     calls, loads, flows, drafts, typed, edits, given_up, overtaken, misled,
                     failures>>
      /\ rows' = [rows EXCEPT ![n].text[f] = "theirs"] /\ others' = others \cup {<<n, f>>}
      /\ events' = events + 1 /\ rows[n].live
      /\ deletes' = deletes /\ resumed' = resumed
  BY DEF OtherWrites, Event, page, history
<1>2. Types
  BY DEF IInv
<1>3. PICK old \in [text : [Fields -> Texts], live : BOOLEAN] : old = rows[n]
  BY <1>2 DEF Types
<1>4. PICK text \in [Fields -> Texts] : text = [old.text EXCEPT ![f] = "theirs"]
  BY DEF Texts
<1>5. rows' = [rows EXCEPT ![n] = [old EXCEPT !.text = text]]
  BY <1>1, <1>2, <1>3, <1>4 DEF Types
<1>6. PICK new : /\ new = [old EXCEPT !.text = text] /\ new.text = text /\ new.live = old.live
                 /\ new \in [text : [Fields -> Texts], live : BOOLEAN]
  <2>1. [old EXCEPT !.text = text] \in [text : [Fields -> Texts], live : BOOLEAN]
    OBVIOUS
  <2>2. [old EXCEPT !.text = text].text = text /\ [old EXCEPT !.text = text].live = old.live
    OBVIOUS
  <2> QED BY <2>1, <2>2
<1>7. /\ rows' \in [Notes -> [text : [Fields -> Texts], live : BOOLEAN]]
      /\ rows'[n] = new /\ \A m \in Notes \ {n} : rows'[m] = rows[m]
  BY <1>2, <1>5, <1>6 DEF Types
<1>8. \A m \in Notes, g \in Fields :
        \/ rows'[m].text[g] = rows[m].text[g] /\ (<<m, g>> \in others' => <<m, g>> \in others)
        \/ rows'[m].text[g] = "theirs" /\ <<m, g>> \in others'
  BY <1>1, <1>3, <1>4, <1>6, <1>7
<1>9. OnlyEmptyDraftsAreDiscarded'
  <2> SUFFICES ASSUME NEW m \in Notes, ~rows'[m].live, <<m, "live">> \notin others'
               PROVE  m \in NewNotes /\ (\/ rows'[m].text = All("default")
                                         \/ \E g \in Fields : <<m, g>> \in others'
                                         \/ m \in resumed')
    BY DEF OnlyEmptyDraftsAreDiscarded
  <2>1. m # n /\ rows'[m] = rows[m]
    BY <1>1, <1>3, <1>6, <1>7
  <2> QED BY <1>1, <2>1 DEF IInv, OnlyEmptyDraftsAreDiscarded
<1>10. events' \in Nat /\ failures' \in Nat
  BY <1>1, <1>2 DEF Types
<1>11. others \subseteq others'
  BY <1>1
<1>12. (\A j \in DOMAIN deletes' : deletes'[j] \in DeleteRow) /\ Spared' \subseteq Spared
  BY <1>1, <1>2 DEF Types, Spared, Discarding
<1> QED BY <1>1, <1>7, <1>8, <1>9, <1>10, <1>11, <1>12, RowsInv

\* A deletion from elsewhere keeps the invariant.
LEMMA OtherDeletesInv ==
  ASSUME IInv, NEW n \in Notes, OtherDeletes(n)
  PROVE  IInv'
<1>1. /\ UNCHANGED <<visiting, heading, note, set_up, shown, base, timer, error, running, latest,
                     calls, loads, flows, drafts, typed, edits, given_up, overtaken, misled,
                     failures>>
      /\ rows' = [rows EXCEPT ![n].live = FALSE] /\ others' = others \cup {<<n, "live">>}
      /\ events' = events + 1
      /\ deletes' = deletes /\ resumed' = resumed
  BY DEF OtherDeletes, Event, page, history
<1>2. Types
  BY DEF IInv
<1>3. /\ rows' \in [Notes -> [text : [Fields -> Texts], live : BOOLEAN]]
      /\ \A m \in Notes : rows'[m].text = rows[m].text
      /\ \A m \in Notes \ {n} : rows'[m] = rows[m]
  BY <1>1, <1>2, RowDies
<1>4. "live" \notin Fields
  BY DEF Fields
<1>5. \A m \in Notes, f \in Fields :
        rows'[m].text[f] = rows[m].text[f] /\ (<<m, f>> \in others' => <<m, f>> \in others)
  BY <1>1, <1>3, <1>4
<1>6. OnlyEmptyDraftsAreDiscarded'
  <2> SUFFICES ASSUME NEW m \in Notes, ~rows'[m].live, <<m, "live">> \notin others'
               PROVE  m \in NewNotes /\ (\/ rows'[m].text = All("default")
                                         \/ \E g \in Fields : <<m, g>> \in others'
                                         \/ m \in resumed')
    BY DEF OnlyEmptyDraftsAreDiscarded
  <2>1. m # n /\ rows'[m] = rows[m]
    BY <1>1, <1>3
  <2> QED BY <1>1, <2>1 DEF IInv, OnlyEmptyDraftsAreDiscarded
<1>7. events' \in Nat /\ failures' \in Nat
  BY <1>1, <1>2 DEF Types
<1>8. others \subseteq others'
  BY <1>1
<1>9. (\A j \in DOMAIN deletes' : deletes'[j] \in DeleteRow) /\ Spared' \subseteq Spared
  BY <1>1, <1>2 DEF Types, Spared, Discarding
<1> QED BY <1>1, <1>3, <1>5, <1>6, <1>7, <1>8, <1>9, RowsInv

-------------------------------------------------------------------------------
(***************************************************************************)
(* The theorems.                                                           *)
(***************************************************************************)
LEMMA InitInv == Init => IInv
<1> SUFFICES ASSUME Init PROVE IInv
  OBVIOUS
<1>1. calls = Nothing /\ flows = Nothing /\ deletes = Nothing /\ DOMAIN Nothing = {}
  BY DEF Init, Nothing
<1>2. visiting \in NewNotes /\ visiting \in Notes
  BY NotesAssumption DEF Init
<1>3. \A text \in Texts : All(text) \in [Fields -> Texts]
  BY DEF All
<1>4. \A n \in Notes : StoredText(n) \in {"default", "written"}
  BY DEF StoredText
<1>5. /\ rows \in [Notes -> [text : [Fields -> Texts], live : BOOLEAN]]
      /\ \A n \in Notes : rows[n].text = All(StoredText(n)) /\ rows[n].live
  <2>1. \A n \in Notes : All(StoredText(n)) \in [Fields -> Texts]
    BY <1>3, <1>4 DEF Texts
  <2> QED BY <2>1 DEF Init
<1>6. shown \in [Fields -> Texts] /\ base \in [Fields -> Texts]
  BY <1>3 DEF Init, Texts
<1>7. typed \in [Notes -> [Fields -> Texts \cup {Null}]]
  BY DEF Init, All
<1>8. \A i \in DOMAIN loads : loads[i] \in Notes
  BY <1>2 DEF Init
<1>9. Types
  <2>1. DOMAIN calls = {} /\ DOMAIN flows = {} /\ DOMAIN deletes = {}
    BY <1>1
  <2> QED BY <1>2, <1>5, <1>6, <1>7, <1>8, <2>1 DEF Init, Types
<1>10. AwaitedIsWaiting
  BY <1>1 DEF Init, AwaitedIsWaiting, Waiting
<1>11. NothingIsBlank
  <2>1. \A n \in Notes, f \in Fields : rows[n].text[f] # "blank"
    <3> SUFFICES ASSUME NEW n \in Notes, NEW f \in Fields PROVE rows[n].text[f] # "blank"
      OBVIOUS
    <3>1. rows[n].text = [g \in Fields |-> StoredText(n)]
      BY <1>5 DEF All
    <3>2. rows[n].text[f] = StoredText(n)
      BY <3>1
    <3> QED BY <1>4, <3>2
  <2> QED BY <1>1, <2>1 DEF NothingIsBlank
<1>12. PageFits
  BY NotesAssumption DEF Init, PageFits
<1>13. UnsavedIsTyped /\ SentIsTyped
  BY <1>1, NotesAssumption DEF Init, UnsavedIsTyped, SentIsTyped
<1>14. DraftsAreUntouched
  <2>1. \A n \in NewNotes : n # Null /\ n \in Notes /\ StoredText(n) = "default"
    BY NotesAssumption DEF StoredText
  <2>2. Spared = NewNotes
    BY <1>1 DEF Init, Spared, Discarding
  <2> QED BY <1>1, <1>5, <2>1, <2>2 DEF Init, DraftsAreUntouched, Untouched, All
<1>15. NewestIsStored
  BY <1>1 DEF NewestIsStored
<1>16. TypedIsKept
  BY DEF Init, TypedIsKept, All
<1>17. OthersTextStands
  BY DEF Init, OthersTextStands
<1>18. OnlyEmptyDraftsAreDiscarded
  BY <1>5 DEF OnlyEmptyDraftsAreDiscarded
<1> QED BY <1>9, <1>10, <1>11, <1>12, <1>13, <1>14, <1>15, <1>16, <1>17, <1>18 DEF IInv

\* Every step keeps the invariant.
LEMMA NextInv == IInv /\ [Next]_vars => IInv'
<1> SUFFICES ASSUME IInv, [Next]_vars PROVE IInv'
  OBVIOUS
<1>1. ASSUME NEW i \in DOMAIN flows, FlowStep(i) PROVE IInv'
  BY <1>1, FlowStepInv
<1>2. ASSUME NEW i \in DOMAIN flows, FlowEnds(i) PROVE IInv'
  BY <1>2, FlowEndsInv
<1>3. ASSUME NEW f \in Fields, NEW text \in Typing, Edit(f, text) PROVE IInv'
  BY <1>3, EditInv
<1>4. ASSUME TimerFires PROVE IInv'
  BY <1>4, TimerFiresInv
<1>5. ASSUME Hide PROVE IInv'
  BY <1>5, HideInv
<1>6. ASSUME Arrive PROVE IInv'
  BY <1>6, ArriveInv
<1>7. ASSUME NEW to \in Notes \cup {List}, Leave(to) PROVE IInv'
  BY <1>7, LeaveInv
<1>8. ASSUME NEW i \in DOMAIN loads, Loaded(i) PROVE IInv'
  BY <1>8, LoadedInv
<1>9. ASSUME NEW k \in DOMAIN calls, Saved(k) PROVE IInv'
  BY <1>9, SavedInv
<1>10. ASSUME NEW k \in DOMAIN calls, NotSaved(k) PROVE IInv'
  BY <1>10, NotSavedInv
<1>11. ASSUME NEW k \in DOMAIN calls, Apply(k) PROVE IInv'
  BY <1>11, ApplyInv
<1>12. ASSUME NEW n \in Notes, OtherDeletes(n) PROVE IInv'
  BY <1>12, OtherDeletesInv
<1>13. ASSUME NEW n \in Notes, NEW f \in Fields, OtherWrites(n, f) PROVE IInv'
  BY <1>13, OtherWritesInv
<1>14. ASSUME NEW i \in DOMAIN deletes, Deleted(i) \/ NotDeleted(i) \/ Delete(i) PROVE IInv'
  BY <1>14, DeletedInv, NotDeletedInv, DeleteInv
<1>15. ASSUME UNCHANGED vars PROVE IInv'
  <2>1. UNCHANGED <<rows, visiting, heading, note, set_up, shown, base, timer, error, running,
                    latest, calls, drafts, deletes, loads, flows, typed, edits, given_up, resumed,
                    others, overtaken, misled, failures, events>>
    BY <1>15 DEF vars
  <2>2. OnlyEmptyDraftsAreDiscarded'
    BY <2>1 DEF IInv, OnlyEmptyDraftsAreDiscarded
  <2>3. /\ failures' \in Nat /\ events' \in Nat
        /\ rows' \in [Notes -> [text : [Fields -> Texts], live : BOOLEAN]]
        /\ \A i \in DOMAIN deletes' : deletes'[i] \in DeleteRow
        /\ Spared' \subseteq Spared
    BY <2>1 DEF IInv, Types, Spared, Discarding
  <2> QED BY <2>1, <2>2, <2>3, RowsInv
<1> QED BY <1>1, <1>2, <1>3, <1>4, <1>5, <1>6, <1>7, <1>8, <1>9, <1>10, <1>11, <1>12, <1>13,
           <1>14, <1>15 DEF Next

\* The inductive invariant holds of every behaviour.
THEOREM WebEditorInvariance == Spec => []IInv
<1> QED BY InitInv, NextInv, PTL DEF Spec

\* The types of the variables; what the page and its navigations wait for is a save that
\* was made, and no blank text is sent.
THEOREM WebEditorTyped == Spec => []TypeOK
<1>1. IInv => TypeOK
  <2> SUFFICES ASSUME IInv PROVE TypeOK
    OBVIOUS
  <2>1. Types /\ AwaitedIsWaiting
    BY DEF IInv
  <2>2. latest \in Nat /\ DOMAIN calls \subseteq 1..latest /\ running \in {0} \cup DOMAIN calls
    BY <2>1 DEF Types, AwaitedIsWaiting, Waiting
  <2>3. running \in 0..latest
    BY <2>2
  <2>4. \A i \in DOMAIN flows : flows[i].waits \in {0} \cup DOMAIN calls
    BY <2>1 DEF AwaitedIsWaiting, Waiting
  <2>5. \A k \in DOMAIN calls : \A f \in DOMAIN calls[k].sent : calls[k].sent[f] # "blank"
    <3> SUFFICES ASSUME NEW k \in DOMAIN calls, NEW f \in DOMAIN calls[k].sent
                 PROVE  calls[k].sent[f] # "blank"
      OBVIOUS
    <3>1. calls[k].sent \in Sent
      BY <2>1 DEF Types, CallRow
    <3> QED BY <3>1 DEF Sent
  <2>6. \A i \in DOMAIN deletes : deletes[i].to \in NewNotes
    BY <2>1 DEF Types, DeleteRow
  <2> QED BY <2>1, <2>3, <2>4, <2>5, <2>6 DEF Types, TypeOK
<1> QED BY <1>1, WebEditorInvariance, PTL

\* The editor saves by itself, however often the user types, moves between notes and
\* hides the tab, and whatever order the saves are carried out and answered in.
THEOREM TypedIsStored == Spec => []TypedTextIsStored
<1>1. IInv => TypedTextIsStored
  <2> SUFFICES ASSUME IInv, Settled, failures = 0, NEW n \in Notes \ misled, NEW f \in Fields,
                      typed[n][f] # Null
               PROVE  \/ rows[n].text[f] = typed[n][f]
                      \/ <<n, f>> \in others \cup overtaken \cup given_up
                      \/ n = set_up /\ Refused
    BY DEF TypedTextIsStored
  <2>1. DOMAIN calls = {} /\ ~timer
    BY DEF Settled, Nothing
  <2>2. ~OnItsWay(n, f) /\ ~Refusal
    BY <2>1 DEF OnItsWay, UnderWay, Refusal
  <2>3. Overwritten(n, f) \/ <<n, f>> \in given_up \/ Stored(n, f) \/ ToSend(n, f)
    BY <2>2 DEF IInv, TypedIsKept
  <2> QED BY <2>1, <2>3 DEF Overwritten, Stored, ToSend
<1> QED BY <1>1, WebEditorInvariance, PTL

\* A save never overwrites a field that the user did not touch, unless an answer has
\* misled the page.
THEOREM OthersStand == Spec => []OthersTextStands
<1>1. IInv => OthersTextStands
  BY DEF IInv
<1> QED BY <1>1, WebEditorInvariance, PTL

\* Leaving a new note never deletes what the user wrote before, and what the user wrote
\* afterwards only where it was typed while the DELETE was under way.
THEOREM DiscardsAreEmpty == Spec => []OnlyEmptyDraftsAreDiscarded
<1>1. IInv => OnlyEmptyDraftsAreDiscarded
  BY DEF IInv
<1> QED BY <1>1, WebEditorInvariance, PTL
===============================================================================
