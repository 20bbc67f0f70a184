------------------------------ MODULE Newsletter ------------------------------
(***************************************************************************)
(* Newsletter campaigns: written as drafts, scheduled, sent at once or by  *)
(* the job that a cron calls.  Translated from                             *)
(* service/newsletter_campaign.py.                                         *)
(*                                                                         *)
(* Each request is one transaction, which keeps the rows as it has read    *)
(* them, writes the columns it has changed, and commits at its end; the    *)
(* job flushes each campaign it has sent and holds its row until it has    *)
(* been through all of them.  Mails go out one at a time meanwhile, and    *)
(* nothing takes them back.  A request runs in one of a few workers.       *)
(***************************************************************************)
EXTENDS Naturals, FiniteSets

CONSTANTS Campaigns,      \* numbers: the job goes through its rows in their order
          Subscribers,
          Workers,
          MaxEvents       \* bound: mails that fail, requests that end before they commit,
                          \* subscriptions made or given up, all together

ASSUME CampaignsAssumption == Campaigns \subseteq Nat
ASSUME BoundAssumption == MaxEvents \in Nat

Texts == {"first", "second"}   \* a newsletter is edited once

VARIABLES rows,       \* newsletter_campaigns: status, scheduled_at, the text
          list,       \* subscriptions
          jobs,       \* what each worker is at
          got,        \* the mails of each campaign: to whom, once or more often
          mailed,     \* and with what text
          disturbed,  \* history: campaigns of which a sending has overlapped another
                      \* request, or has ended before its commit; got and mailed
                      \* are not kept for them
          events

vars == <<rows, list, jobs, got, mailed, disturbed, events>>

Idle == [kind |-> "idle"]

Init ==
  /\ rows = [c \in Campaigns |-> [status |-> "draft", due |-> "never", text |-> "first"]]
  /\ list = Subscribers
  /\ jobs = [w \in Workers |-> Idle]
  /\ got = [c \in Campaigns |-> [s \in Subscribers |-> 0]]
  /\ mailed = [c \in Campaigns |-> {}]
  /\ disturbed = {} /\ events = 0

Event == events < MaxEvents /\ events' = events + 1

-------------------------------------------------------------------------------
(* Requests. *)
Sending == {"send now", "process due"}

\* Mutants: a newsletter that was sent can be scheduled, edited.
SchedulableAlways(row) == TRUE
Schedulable(row) == row.status # "sent"
EditableAlways(row) == TRUE
Editable(row) == row.status \in {"draft", "scheduled"}
Sendable(row) == row.status # "sent"
Due(row) == row.status = "scheduled" /\ row.due = "past"

Uses(w, c) == jobs[w].kind # "idle" /\ c \in DOMAIN jobs[w].seen
Sends(w, c) == Uses(w, c) /\ jobs[w].kind \in Sending
Holds(w, c) == Sends(w, c) /\ c \in jobs[w].sent
Free(c) == \A w \in Workers : ~Holds(w, c)

Nobody == [s \in Subscribers |-> 0]
Disturb(cs) ==
  /\ disturbed' = disturbed \cup cs
  /\ got' = [c \in Campaigns |-> IF c \in cs THEN Nobody ELSE got[c]]
  /\ mailed' = [c \in Campaigns |-> IF c \in cs THEN {} ELSE mailed[c]]

\* What a request reads, it goes by until its end.
Seen(kind, row) == CASE kind = "schedule" -> [status |-> row.status]
                     [] kind = "edit" -> [text |-> row.text]
                     [] OTHER -> [timed |-> row.due # "never", text |-> row.text]

Begin(w, kind, cs) ==
  /\ jobs[w] = Idle
  /\ jobs' = [jobs EXCEPT ![w] =
                [kind |-> kind, seen |-> [c \in cs |-> Seen(kind, rows[c])], todo |-> cs, at |-> "next",
                 left |-> {}, some |-> FALSE, sent |-> {}, out |-> {}]]
  /\ Disturb({c \in cs : \E v \in Workers :
                IF kind \in Sending THEN Uses(v, c) ELSE Sends(v, c)})
  /\ UNCHANGED <<rows, list, events>>

Schedule(w, c) == Schedulable(rows[c]) /\ Begin(w, "schedule", {c})
Edit(w, c) == Editable(rows[c]) /\ rows[c].text = "first" /\ Begin(w, "edit", {c})
SendNow(w, c) == Sendable(rows[c]) /\ Begin(w, "send now", {c})

DueCampaigns == {c \in Campaigns : Due(rows[c])}
ProcessDue(w) == DueCampaigns # {} /\ Begin(w, "process due", DueCampaigns)

\* The columns that were changed, to the row as it is then.
Scheduled(row, seen) ==
  [row EXCEPT !.due = "later",
              !.status = IF seen.status = "scheduled" THEN @ ELSE "scheduled"]

\* Mutant: the row stays scheduled with no time.
SentUnmarked(row, seen) == [row EXCEPT !.due = "never"]
Sent(row, seen) ==
  [row EXCEPT !.status = "sent", !.due = IF seen.timed THEN "never" ELSE @]

CommitSchedule(w, c) ==
  /\ jobs[w].kind = "schedule" /\ Uses(w, c) /\ Free(c)
  /\ rows' = [rows EXCEPT ![c] = Scheduled(@, jobs[w].seen[c])]
  /\ jobs' = [jobs EXCEPT ![w] = Idle]
  /\ UNCHANGED <<list, got, mailed, disturbed, events>>

CommitEdit(w, c) ==
  /\ jobs[w].kind = "edit" /\ Uses(w, c) /\ Free(c)
  /\ rows' = [rows EXCEPT ![c].text = "second"]
  /\ jobs' = [jobs EXCEPT ![w] = Idle]
  /\ UNCHANGED <<list, got, mailed, disturbed, events>>

-------------------------------------------------------------------------------
(* Sending. *)
IsSending(w) == jobs[w].kind \in Sending
Current(w) == CHOOSE c \in jobs[w].todo : \A d \in jobs[w].todo : c <= d
At(w, point) == IsSending(w) /\ jobs[w].todo # {} /\ jobs[w].at = point

\* Mutant: an empty list counts as a failure.
NothingToDoNever == FALSE
NothingToDo == list = {}

\* The list is read once for each campaign.
ReadList(w) ==
  /\ At(w, "next")
  /\ jobs' = [jobs EXCEPT ![w].at = "mailing", ![w].left = list, ![w].some = NothingToDo]
  /\ UNCHANGED <<rows, list, got, mailed, disturbed, events>>

Mail(w, s) ==
  /\ At(w, "mailing") /\ s \in jobs[w].left
  /\ LET c == Current(w) IN
     \/ /\ IF c \in disturbed THEN UNCHANGED <<got, mailed>>
           ELSE /\ got' = [got EXCEPT ![c][s] = IF @ = 0 THEN 1 ELSE 2]
                /\ mailed' = [mailed EXCEPT ![c] = @ \cup {jobs[w].seen[c].text}]
        /\ jobs' = [jobs EXCEPT ![w].left = @ \ {s}, ![w].some = TRUE, ![w].out = @ \cup ({c} \ disturbed)]
        /\ UNCHANGED events
     \/ /\ Event
        /\ jobs' = [jobs EXCEPT ![w].left = @ \ {s}]
        /\ UNCHANGED <<got, mailed>>
  /\ UNCHANGED <<rows, list, disturbed>>

\* Nobody on the list is no failure.
Undelivered(w) == ~jobs[w].some

\* A campaign that no mail of was accepted stays as it is, and its row is left alone
\* (send now then rolls back, having changed nothing).
Flush(w) ==
  /\ At(w, "mailing") /\ jobs[w].left = {}
  /\ Undelivered(w) \/ Free(Current(w))
  /\ jobs' = [jobs EXCEPT ![w].at = "next", ![w].todo = @ \ {Current(w)},
                ![w].sent = IF Undelivered(w) THEN @ ELSE @ \cup {Current(w)}]
  /\ UNCHANGED <<rows, list, got, mailed, disturbed, events>>

CommitSent(w) ==
  /\ IsSending(w) /\ jobs[w].todo = {}
  /\ rows' = [c \in Campaigns |-> IF c \in jobs[w].sent THEN Sent(rows[c], jobs[w].seen[c])
                                  ELSE rows[c]]
  /\ jobs' = [jobs EXCEPT ![w] = Idle]
  /\ UNCHANGED <<list, got, mailed, disturbed, events>>

\* A crash, a lost connection, a commit that fails: what the whole batch wrote is gone.
End(w) ==
  /\ Event
  /\ IsSending(w)
  /\ Disturb(jobs[w].out)
  /\ jobs' = [jobs EXCEPT ![w] = Idle]
  /\ UNCHANGED <<rows, list>>

-------------------------------------------------------------------------------
TimeComes(c) ==
  /\ rows[c].due = "later"
  /\ rows' = [rows EXCEPT ![c].due = "past"]
  /\ UNCHANGED <<list, jobs, got, mailed, disturbed, events>>

\* create_subscription, delete_subscription_by_email.
Subscription(s) ==
  /\ Event
  /\ list' = IF s \in list THEN list \ {s} ELSE list \cup {s}
  /\ UNCHANGED <<rows, jobs, got, mailed, disturbed>>

Work(w) ==
  \/ \E c \in Campaigns : CommitSchedule(w, c) \/ CommitEdit(w, c)
  \/ ReadList(w) \/ (\E s \in Subscribers : Mail(w, s)) \/ Flush(w) \/ CommitSent(w)

Next ==
  \/ \E w \in Workers, c \in Campaigns :
       Schedule(w, c) \/ SendNow(w, c) \/ Edit(w, c)
  \/ \E w \in Workers : ProcessDue(w) \/ Work(w) \/ End(w)
  \/ \E c \in Campaigns : TimeComes(c)
  \/ \E s \in Subscribers : Subscription(s)

Spec == Init /\ [][Next]_vars

\* Requests run on, time passes, and the cron calls again and again.
FairSpec ==
  /\ Spec
  /\ \A w \in Workers : WF_vars(Work(w))
  /\ \A c \in Campaigns : WF_vars(TimeComes(c))
  /\ SF_vars(\E w \in Workers : ProcessDue(w))

-------------------------------------------------------------------------------
(* Properties. *)
\* The types of the variables; a scheduled newsletter has a time.
TypeOK ==
  /\ rows \in [Campaigns -> [status : {"draft", "scheduled", "sent"},
                             due : {"never", "later", "past"}, text : Texts]]
  /\ \A c \in Campaigns : rows[c].status = "scheduled" => rows[c].due # "never"
  /\ list \subseteq Subscribers /\ disturbed \subseteq Campaigns
  /\ got \in [Campaigns -> [Subscribers -> 0..2]]
  /\ \A w \in Workers : jobs[w].kind \in Sending \cup {"idle", "schedule", "edit"}

\* Nobody is mailed a newsletter twice, unless its sending has overlapped another request
\* for it (a second sending, or a schedule that read it before it was sent) or its
\* transaction was lost after mails had gone out: the cron then sends it again.
NobodyIsMailedTwice ==
  \A c \in Campaigns \ disturbed, s \in Subscribers : got[c][s] < 2

\* The row of a newsletter shows what was mailed, with the same exceptions.
RowsShowWhatWasMailed ==
  \A c \in Campaigns \ disturbed : rows[c].status = "sent" => mailed[c] \subseteq {rows[c].text}

\* A newsletter whose time has come is sent in the end, or given another time, as long as
\* mails and transactions fail finitely often; to nobody, when nobody is on the list.
DueIsSent == \A c \in Campaigns : Due(rows[c]) ~> ~Due(rows[c])
===============================================================================
