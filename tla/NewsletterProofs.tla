---------------------------- MODULE NewsletterProofs ----------------------------
(***************************************************************************)
(* The safety of Newsletter for any campaigns, subscribers and workers:    *)
(* a campaign that only one request at a time has to do with is mailed to  *)
(* nobody twice, and its row shows what was mailed.                        *)
(***************************************************************************)
EXTENDS Newsletter, FiniteSetTheorems, WellFoundedInduction, TLAPS

Statuses == {"draft", "scheduled", "sent"}
Row == [status : Statuses, due : {"never", "later", "past"}, text : Texts]

SeenRow == [status : Statuses] \cup [text : Texts] \cup [timed : BOOLEAN, text : Texts]

Job ==
  [kind : Sending \cup {"schedule", "edit"},
   seen : UNION {[cs -> SeenRow] : cs \in SUBSET Campaigns},
   todo : SUBSET Campaigns, at : {"next", "mailing"}, left : SUBSET Subscribers,
   some : BOOLEAN, sent : SUBSET Campaigns, out : SUBSET Campaigns]

Types ==
  /\ rows \in [Campaigns -> Row]
  /\ list \subseteq Subscribers /\ disturbed \subseteq Campaigns
  /\ jobs \in [Workers -> Job \cup {Idle}]
  /\ got \in [Campaigns -> [Subscribers -> 0..2]]
  /\ mailed \in [Campaigns -> SUBSET Texts]

ScheduledHaveTimes == \A c \in Campaigns : rows[c].status = "scheduled" => rows[c].due # "never"

Undisturbed == Campaigns \ disturbed

\* Current(w), for the job of the worker.
Least(S) == CHOOSE c \in S : \A d \in S : c <= d

\* A request goes through what it has read; what it has mailed, and has not written yet,
\* is what it is at.
Tracks(job) ==
  /\ job.todo \cup job.sent \cup job.out \subseteq DOMAIN job.seen
  /\ job.sent \cap job.todo = {}
  /\ \A c \in job.out :
       c \in job.sent \/ (c \in job.todo /\ c = Least(job.todo) /\ job.at = "mailing" /\ job.some)

JobsTrack == \A w \in Workers : jobs[w] # Idle => Tracks(jobs[w])

\* Who sends a campaign is alone with it.
SendersAreAlone ==
  \A c \in Undisturbed, w, v \in Workers : w # v /\ Sends(w, c) => ~Uses(v, c)

\* Nobody has anything to do with a campaign that was sent.
SentIsSettled ==
  \A c \in Undisturbed, w \in Workers : rows[c].status = "sent" => ~Uses(w, c)

\* Before it is sent, a campaign's mails are those its sender has to account for.
UnmailedUntilSent ==
  \A c \in Undisturbed :
    /\ rows[c].status # "sent"
    /\ \A w \in Workers : Sends(w, c) => c \notin jobs[w].out
    => got[c] = Nobody /\ mailed[c] = {}

LeftAreUnmailed ==
  \A c \in Undisturbed, w \in Workers :
    Sends(w, c) /\ jobs[w].at = "mailing" /\ c \in jobs[w].todo /\ c = Least(jobs[w].todo)
      => \A s \in jobs[w].left : got[c][s] = 0

SendersHaveTheText ==
  \A c \in Undisturbed, w \in Workers : Sends(w, c) => jobs[w].seen[c].text = rows[c].text

MailedIsTheText == \A c \in Undisturbed : mailed[c] \subseteq {rows[c].text}

IInv ==
  /\ Types /\ ScheduledHaveTimes /\ JobsTrack
  /\ SendersAreAlone /\ SentIsSettled
  /\ UnmailedUntilSent /\ LeftAreUnmailed
  /\ SendersHaveTheText /\ MailedIsTheText
  /\ NobodyIsMailedTwice

-------------------------------------------------------------------------------
\* A set of numbers that is not empty has a least one.
LEMMA LeastNumber ==
  ASSUME NEW S, S \subseteq Nat, S # {}
  PROVE  \E x \in S : \A y \in S : x <= y
<1>1. PICK n \in S : TRUE
  OBVIOUS
<1> DEFINE Below(x) == {y \in S : y < x}
           Prefixes == {Below(x) : x \in {y \in S : y <= n}}
           R == StrictSubsetOrdering(0..n)
<1>2. n \in Nat /\ \A y \in S : y \in Nat
  BY <1>1
<1>3. Prefixes \subseteq SUBSET (0..n)
  <2>1. ASSUME NEW x \in S, x <= n PROVE \A y \in Below(x) : y \in 0..n
    BY <1>2, <2>1
  <2> QED BY <2>1
<1>4. Below(n) \in Prefixes
  BY <1>1, <1>2
<1>5. IsFiniteSet(0..n)
  BY <1>2, FS_Interval
<1>6. IsWellFoundedOn(R, SUBSET (0..n))
  BY <1>5, FS_FiniteSubsetsOfFinite, FS_StrictSubsetOrderingWellFounded
<1>7. PICK T \in Prefixes : \A U \in Prefixes : <<U, T>> \notin R
  <2> HIDE DEF Prefixes, R
  <2> QED BY <1>3, <1>4, <1>6, WFMin, Zenon
<1>8. PICK x \in S : x <= n /\ T = Below(x)
  BY <1>7
<1>9. ASSUME NEW y \in S, y < x PROVE FALSE
  <2>1. Below(y) \in Prefixes
    BY <1>2, <1>8, <1>9
  <2>2. y \in Below(x) /\ y \notin Below(y)
    BY <1>2, <1>9
  <2>3. \A z \in Below(y) : z \in Below(x)
    BY <1>2, <1>9
  <2> HIDE DEF Below, Prefixes
  <2>4. <<Below(y), Below(x)>> \in R
    BY <2>1, <2>2, <2>3, <1>3, <1>7, <1>8 DEF StrictSubsetOrdering
  <2> QED BY <2>1, <2>4, <1>7, <1>8
<1> QED BY <1>2, <1>9

-------------------------------------------------------------------------------
\* The campaign a sender is at is the first of those it has yet to send.
LEMMA CurrentIsLeast ==
  ASSUME IInv, NEW w \in Workers, jobs[w] # Idle, jobs[w].todo # {}
  PROVE  /\ Current(w) = Least(jobs[w].todo)
         /\ Current(w) \in jobs[w].todo /\ Current(w) \in Campaigns
<1> DEFINE todo == jobs[w].todo
<1>1. todo \subseteq Campaigns /\ todo # {}
  BY DEF IInv, Types, Job
<1>2. todo \subseteq Nat
  BY <1>1, CampaignsAssumption
<1>3. PICK c \in todo : \A d \in todo : c <= d
  <2> HIDE DEF todo
  <2> QED BY <1>1, <1>2, LeastNumber
<1>4. Current(w) \in todo
  BY <1>3 DEF Current
<1>5. Current(w) = Least(todo)
  BY DEF Current, Least
<1> QED BY <1>1, <1>4, <1>5

\* What a worker's job is.
LEMMA JobFacts ==
  ASSUME IInv, NEW w \in Workers, jobs[w].kind # "idle"
  PROVE  jobs[w] # Idle /\ jobs[w] \in Job /\ Tracks(jobs[w])
<1>1. jobs[w] # Idle
  BY DEF Idle
<1> QED BY <1>1 DEF IInv, Types, JobsTrack

\* No campaign is scheduled and no worker runs: the invariant holds at the start.
LEMMA InitInv == Init => IInv
<1> SUFFICES ASSUME Init PROVE IInv
  OBVIOUS
<1>1. rows \in [Campaigns -> Row]
  BY DEF Init, Row, Statuses, Texts
<1>2. /\ got \in [Campaigns -> [Subscribers -> 0..2]] /\ mailed \in [Campaigns -> SUBSET Texts]
      /\ \A c \in Campaigns : got[c] = Nobody /\ mailed[c] = {}
  BY DEF Init, Nobody
<1>3. \A c \in Campaigns : rows[c].status = "draft"
  BY DEF Init
<1>4. \A w \in Workers : jobs[w] = Idle /\ Idle.kind = "idle"
  BY DEF Init, Idle
<1>5. Types
  BY <1>1, <1>2 DEF Init, Types
<1>6. \A w \in Workers, c \in Campaigns : ~Uses(w, c) /\ ~Sends(w, c)
  BY <1>4 DEF Uses, Sends
<1>7. NobodyIsMailedTwice
  BY <1>2 DEF NobodyIsMailedTwice, Nobody
<1> QED
  BY <1>2, <1>3, <1>4, <1>5, <1>6, <1>7
  DEF IInv, ScheduledHaveTimes, Undisturbed, JobsTrack, SendersAreAlone, SentIsSettled,
      UnmailedUntilSent, LeftAreUnmailed, SendersHaveTheText, MailedIsTheText

-------------------------------------------------------------------------------
\* The job of one worker changes; the others' are as they were.
LEMMA OtherJobs ==
  ASSUME IInv, NEW w \in Workers, NEW job \in Job \cup {Idle},
         jobs' = [jobs EXCEPT ![w] = job]
  PROVE  /\ jobs' \in [Workers -> Job \cup {Idle}]
         /\ jobs'[w] = job
         /\ \A v \in Workers \ {w} : jobs'[v] = jobs[v]
         /\ \A v \in Workers \ {w} : \A c : /\ Uses(v, c)' <=> Uses(v, c)
                                            /\ Sends(v, c)' <=> Sends(v, c)
<1>1. jobs \in [Workers -> Job \cup {Idle}]
  BY DEF IInv, Types
<1>2. jobs' \in [Workers -> Job \cup {Idle}] /\ jobs'[w] = job
  BY <1>1
<1>3. \A v \in Workers \ {w} : jobs'[v] = jobs[v]
  BY <1>1
<1>4. \A v \in Workers \ {w} : \A c : (Uses(v, c)' <=> Uses(v, c)) /\ (Sends(v, c)' <=> Sends(v, c))
  BY <1>3 DEF Uses, Sends
<1> QED BY <1>2, <1>3, <1>4

\* A worker goes on with its job: nothing is mailed, and nothing stored.
Goes(w, job) ==
  /\ jobs' = [jobs EXCEPT ![w] = job]
  /\ job \in Job /\ Tracks(job)
  /\ job.kind = jobs[w].kind /\ job.seen = jobs[w].seen /\ job.out = jobs[w].out
  /\ UNCHANGED <<rows, list, got, mailed, disturbed>>

\* A sender that goes on in its loop without writing keeps the invariant.
LEMMA GoesInv ==
  ASSUME IInv, NEW w \in Workers, jobs[w].kind \in Sending, NEW job, Goes(w, job),
         \A c \in Undisturbed :
           job.at = "mailing" /\ c \in job.todo /\ c = Least(job.todo)
             => \A s \in job.left : got[c][s] = 0
  PROVE  IInv'
<1>1. UNCHANGED <<rows, list, got, mailed, disturbed>> /\ Undisturbed' = Undisturbed
  BY DEF Goes, Undisturbed
<1>2. /\ jobs' \in [Workers -> Job \cup {Idle}]
      /\ jobs'[w] = job
      /\ \A v \in Workers \ {w} : jobs'[v] = jobs[v]
  BY OtherJobs DEF Goes
<1>3. /\ \A v \in Workers : jobs'[v].kind = jobs[v].kind /\ jobs'[v].out = jobs[v].out
      /\ \A v \in Workers : jobs'[v].seen = jobs[v].seen
      /\ \A v \in Workers : \A c : (Uses(v, c)' <=> Uses(v, c)) /\ (Sends(v, c)' <=> Sends(v, c))
  <2>1. \A v \in Workers : /\ jobs'[v].kind = jobs[v].kind /\ jobs'[v].out = jobs[v].out
                           /\ jobs'[v].seen = jobs[v].seen
    BY <1>2 DEF Goes
  <2> QED BY <2>1 DEF Uses, Sends
<1>4. Types' /\ ScheduledHaveTimes' /\ NobodyIsMailedTwice'
  BY <1>1, <1>2 DEF IInv, Types, ScheduledHaveTimes, NobodyIsMailedTwice
<1>5. JobsTrack'
  BY <1>2 DEF IInv, JobsTrack, Goes
<1>6. SendersAreAlone' /\ SentIsSettled' /\ UnmailedUntilSent'
  BY <1>1, <1>3 DEF IInv, SendersAreAlone, SentIsSettled, UnmailedUntilSent
<1>7. LeftAreUnmailed'
  BY <1>1, <1>2, <1>3 DEF IInv, LeftAreUnmailed
<1>8. SendersHaveTheText' /\ MailedIsTheText'
  BY <1>1, <1>3 DEF IInv, SendersHaveTheText, MailedIsTheText
<1> QED BY <1>4, <1>5, <1>6, <1>7, <1>8 DEF IInv

\* Nobody is mailed before the list is read.
LEMMA ReadListInv ==
  ASSUME IInv, NEW w \in Workers, ReadList(w)
  PROVE  IInv'
<1> DEFINE old == jobs[w]
           job == [old EXCEPT !.at = "mailing", !.left = list, !.some = NothingToDo]
<1>1. old.kind \in Sending /\ old.todo # {} /\ old.at = "next"
  BY DEF ReadList, At, IsSending
<1>2. old # Idle /\ old \in Job /\ Tracks(old)
  BY <1>1, JobFacts DEF Sending
<1>3. list \subseteq Subscribers /\ NothingToDo \in BOOLEAN
  BY DEF IInv, Types, NothingToDo
<1>4. /\ job \in Job
      /\ job.kind = old.kind /\ job.seen = old.seen /\ job.todo = old.todo /\ job.out = old.out
      /\ job.sent = old.sent /\ job.at = "mailing" /\ job.left = list
  BY <1>2, <1>3 DEF Job
<1>5. jobs' = [jobs EXCEPT ![w] = job]
  BY <1>2 DEF ReadList, Job
<1> HIDE DEF job
<1>6. \A c \in job.out : c \in job.sent
  BY <1>1, <1>2, <1>4 DEF Tracks
<1>7. Tracks(job)
  BY <1>2, <1>4, <1>6 DEF Tracks
<1>8. ASSUME NEW c \in Undisturbed, c \in job.todo PROVE \A s \in Subscribers : got[c][s] = 0
  <2>1. Sends(w, c) /\ c \notin old.out
    BY <1>1, <1>2, <1>4, <1>6, <1>7, <1>8 DEF Sends, Uses, Tracks, Sending
  <2>2. \A v \in Workers : Sends(v, c) => c \notin jobs[v].out
    BY <1>8, <2>1 DEF IInv, SendersAreAlone, Sends
  <2>3. rows[c].status # "sent"
    BY <1>8, <2>1 DEF IInv, SentIsSettled, Sends
  <2>4. got[c] = Nobody
    BY <1>8, <2>2, <2>3 DEF IInv, UnmailedUntilSent
  <2> QED BY <2>4 DEF Nobody
<1>9. Goes(w, job)
  BY <1>4, <1>5, <1>7 DEF Goes, ReadList
<1> QED BY <1>1, <1>3, <1>4, <1>8, <1>9, GoesInv

\* Marking a campaign sent, once nobody on its list is left, keeps the invariant.
LEMMA FlushInv ==
  ASSUME IInv, NEW w \in Workers, Flush(w)
  PROVE  IInv'
<1> DEFINE old == jobs[w]
           current == Current(w)
           sent == IF Undelivered(w) THEN old.sent ELSE old.sent \cup {current}
           job == [old EXCEPT !.at = "next", !.todo = old.todo \ {current}, !.sent = sent]
<1>1. old.kind \in Sending /\ old.todo # {} /\ old.at = "mailing"
  BY DEF Flush, At, IsSending
<1>2. old # Idle /\ old \in Job /\ Tracks(old)
  BY <1>1, JobFacts DEF Sending
<1>3. current = Least(old.todo) /\ current \in old.todo /\ current \in Campaigns
  BY <1>1, <1>2, CurrentIsLeast
<1>4. sent \subseteq old.sent \cup {current} /\ old.sent \subseteq sent /\ sent \subseteq Campaigns
  BY <1>2, <1>3 DEF Job
<1>5. /\ job \in Job
      /\ job.kind = old.kind /\ job.seen = old.seen /\ job.out = old.out /\ job.at = "next"
      /\ job.todo = old.todo \ {current} /\ job.sent = sent
  <2> HIDE DEF sent, current
  <2> QED BY <1>2, <1>4 DEF Job
<1>6. jobs' = [jobs EXCEPT ![w] = job]
  BY <1>2 DEF Flush, Job
<1>7. \A c \in old.out : c \in sent
  BY <1>2, <1>3 DEF Tracks, Undelivered
<1> HIDE DEF job, sent, current
<1>8. Tracks(job)
  BY <1>2, <1>3, <1>4, <1>5, <1>7 DEF Tracks
<1>9. Goes(w, job)
  BY <1>5, <1>6, <1>8 DEF Goes, Flush
<1> QED BY <1>1, <1>5, <1>9, GoesInv

\* Those that a worker has left for its campaign were not mailed it.
LEMMA LeftFacts ==
  ASSUME IInv, NEW w \in Workers, At(w, "mailing")
  PROVE  /\ jobs[w].kind \in Sending /\ jobs[w] # Idle /\ jobs[w] \in Job /\ Tracks(jobs[w])
         /\ jobs[w].at = "mailing" /\ Sends(w, Current(w))
         /\ Current(w) = Least(jobs[w].todo)
         /\ Current(w) \in jobs[w].todo /\ Current(w) \in Campaigns
         /\ \A c \in Undisturbed : c = Current(w) => \A s \in jobs[w].left : got[c][s] = 0
<1>1. jobs[w].kind \in Sending /\ jobs[w].todo # {} /\ jobs[w].at = "mailing"
  BY DEF At, IsSending
<1>2. jobs[w] # Idle /\ jobs[w] \in Job /\ Tracks(jobs[w])
  BY <1>1, JobFacts DEF Sending
<1>3. /\ Current(w) = Least(jobs[w].todo)
      /\ Current(w) \in jobs[w].todo /\ Current(w) \in Campaigns
  BY <1>1, <1>2, CurrentIsLeast
<1>4. Sends(w, Current(w))
  BY <1>1, <1>2, <1>3 DEF Sends, Uses, Tracks, Sending
<1>5. \A c \in Undisturbed : c = Current(w) => \A s \in jobs[w].left : got[c][s] = 0
  BY <1>1, <1>3, <1>4 DEF IInv, LeftAreUnmailed
<1> QED BY <1>1, <1>2, <1>3, <1>4, <1>5

\* A mail that is accepted, of a campaign that no other request has to do with.
LEMMA MailedInv ==
  ASSUME IInv, NEW w \in Workers, NEW s \in jobs[w].left, At(w, "mailing"),
         NEW c \in Undisturbed, c = Current(w),
         got' = [got EXCEPT ![c][s] = IF @ = 0 THEN 1 ELSE 2],
         mailed' = [mailed EXCEPT ![c] = @ \cup {jobs[w].seen[c].text}],
         jobs' = [jobs EXCEPT ![w] = [jobs[w] EXCEPT !.left = @ \ {s}, !.some = TRUE,
                                                     !.out = @ \cup {c}]],
         UNCHANGED <<rows, list, disturbed>>
  PROVE  IInv'
<1> DEFINE old == jobs[w]
           job == [old EXCEPT !.left = @ \ {s}, !.some = TRUE, !.out = @ \cup {c}]
<1>1. /\ old.kind \in Sending /\ old # Idle /\ old \in Job /\ Tracks(old)
      /\ old.at = "mailing" /\ Sends(w, c) /\ c = Least(old.todo) /\ c \in old.todo
      /\ c \in Campaigns /\ \A x \in old.left : got[c][x] = 0
  BY LeftFacts
<1>2. /\ job \in Job
      /\ job.kind = old.kind /\ job.seen = old.seen /\ job.todo = old.todo /\ job.at = old.at
      /\ job.sent = old.sent /\ job.left = old.left \ {s} /\ job.some = TRUE
      /\ job.out = old.out \cup {c}
  BY <1>1 DEF Job
<1> HIDE DEF job
<1>3. /\ jobs' \in [Workers -> Job \cup {Idle}]
      /\ jobs'[w] = job
      /\ \A v \in Workers \ {w} : jobs'[v] = jobs[v]
      /\ \A v \in Workers \ {w} : \A d : /\ Uses(v, d)' <=> Uses(v, d)
                                         /\ Sends(v, d)' <=> Sends(v, d)
  BY <1>2, OtherJobs DEF job
<1>4. \A v \in Workers : \A d : (Uses(v, d)' <=> Uses(v, d)) /\ (Sends(v, d)' <=> Sends(v, d))
  <2>1. \A d : (Uses(w, d)' <=> Uses(w, d)) /\ (Sends(w, d)' <=> Sends(w, d))
    <3>1. jobs'[w].kind = old.kind /\ jobs'[w].seen = old.seen
      BY <1>2, <1>3
    <3>2. old.kind # "idle"
      BY <1>1 DEF Sending
    <3>3. \A d : (Uses(w, d)' <=> Uses(w, d))
      BY <3>1 DEF Uses
    <3> QED BY <3>1, <3>3 DEF Sends
  <2> QED BY <1>3, <2>1
<1>5. UNCHANGED <<rows, list, disturbed>> /\ Undisturbed' = Undisturbed
  BY DEF Undisturbed
<1>6. s \in Subscribers /\ got[c][s] = 0
  BY <1>1 DEF Job
<1>7. /\ got' \in [Campaigns -> [Subscribers -> 0..2]]
      /\ \A d \in Campaigns \ {c} : got'[d] = got[d]
      /\ got'[c][s] = 1
      /\ \A x \in Subscribers \ {s} : got'[c][x] = got[c][x]
  <2>1. got \in [Campaigns -> [Subscribers -> 0..2]]
    BY DEF IInv, Types
  <2>2. got' = [got EXCEPT ![c][s] = 1]
    BY <1>6
  <2>3. \A d \in Campaigns \ {c} : got'[d] = got[d]
    BY <2>1, <2>2
  <2>4. got'[c] = [got[c] EXCEPT ![s] = 1]
    BY <1>1, <2>1, <2>2
  <2>5. got[c] \in [Subscribers -> 0..2]
    BY <1>1, <2>1
  <2>6. got'[c] \in [Subscribers -> 0..2]
    BY <1>6, <2>4, <2>5
  <2>7. got' \in [Campaigns -> [Subscribers -> 0..2]]
    BY <1>1, <2>1, <2>2, <2>6
  <2> QED BY <1>6, <2>3, <2>4, <2>5, <2>7
<1>8. old.seen[c].text = rows[c].text /\ rows[c].text \in Texts
  <2>1. rows[c] \in Row
    BY <1>1 DEF IInv, Types
  <2> QED BY <1>1, <2>1 DEF IInv, SendersHaveTheText, Row
<1>9. /\ mailed' \in [Campaigns -> SUBSET Texts]
      /\ \A d \in Campaigns \ {c} : mailed'[d] = mailed[d]
      /\ mailed'[c] \subseteq {rows[c].text}
  <2>1. mailed \in [Campaigns -> SUBSET Texts] /\ mailed[c] \subseteq {rows[c].text}
    BY DEF IInv, Types, MailedIsTheText
  <2>2. mailed' = [mailed EXCEPT ![c] = mailed[c] \cup {rows[c].text}]
    BY <1>8
  <2>3. mailed[c] \cup {rows[c].text} \in SUBSET Texts
    BY <1>1, <1>8, <2>1
  <2> QED BY <1>1, <2>1, <2>2, <2>3
<1>10. Types' /\ ScheduledHaveTimes'
  BY <1>3, <1>5, <1>7, <1>9 DEF IInv, Types, ScheduledHaveTimes
<1>11. JobsTrack'
  <2>1. Tracks(job)
    <3>1. c \in DOMAIN old.seen
      BY <1>1 DEF Tracks
    <3>2. \A d \in old.out : d \in old.sent \/ (d \in old.todo /\ d = Least(old.todo))
      BY <1>1 DEF Tracks
    <3> QED BY <1>1, <1>2, <3>1, <3>2 DEF Tracks
  <2> QED BY <1>3, <2>1 DEF IInv, JobsTrack
<1>12. SendersAreAlone' /\ SentIsSettled'
  BY <1>4, <1>5 DEF IInv, SendersAreAlone, SentIsSettled
<1>13. UnmailedUntilSent'
  <2> SUFFICES ASSUME NEW d \in Undisturbed, rows[d].status # "sent",
                      \A v \in Workers : Sends(v, d) => d \notin jobs'[v].out
               PROVE  got'[d] = Nobody /\ mailed'[d] = {}
    BY <1>4, <1>5 DEF UnmailedUntilSent, Nobody
  <2>1. d # c
    BY <1>1, <1>2, <1>3
  <2>2. \A v \in Workers : Sends(v, d) => d \notin jobs[v].out
    BY <1>2, <1>3
  <2>3. got[d] = Nobody /\ mailed[d] = {}
    BY <2>2 DEF IInv, UnmailedUntilSent
  <2> QED BY <1>7, <1>9, <2>1, <2>3 DEF Undisturbed
<1>14. LeftAreUnmailed'
  <2> SUFFICES ASSUME NEW d \in Undisturbed, NEW v \in Workers, Sends(v, d),
                      jobs'[v].at = "mailing", d \in jobs'[v].todo, d = Least(jobs'[v].todo),
                      NEW x \in jobs'[v].left
               PROVE  got'[d][x] = 0
    BY <1>4, <1>5 DEF LeftAreUnmailed
  <2>1. CASE v = w
    <3>1. d = c
      BY <1>1, <1>2, <1>3, <2>1
    <3>2. x \in old.left /\ x # s /\ x \in Subscribers
      BY <1>1, <1>2, <1>3, <2>1 DEF Job
    <3> QED BY <1>1, <1>7, <3>1, <3>2
  <2>2. CASE v # w
    <3>1. d # c
      BY <1>1, <2>2 DEF IInv, SendersAreAlone, Sends
    <3>2. got[d][x] = 0
      BY <1>3, <2>2 DEF IInv, LeftAreUnmailed
    <3> QED BY <1>7, <3>1, <3>2 DEF Undisturbed
  <2> QED BY <2>1, <2>2
<1>15. SendersHaveTheText'
  <2>1. \A v \in Workers : jobs'[v].seen = jobs[v].seen
    BY <1>2, <1>3
  <2> QED BY <1>4, <1>5, <2>1 DEF IInv, SendersHaveTheText
<1>16. MailedIsTheText'
  BY <1>5, <1>9 DEF IInv, MailedIsTheText, Undisturbed
<1>17. NobodyIsMailedTwice'
  <2>1. \A x \in Subscribers : got'[c][x] < 2
    BY <1>7 DEF IInv, NobodyIsMailedTwice, Undisturbed
  <2> QED BY <1>5, <1>7, <2>1 DEF IInv, NobodyIsMailedTwice
<1> QED BY <1>10, <1>11, <1>12, <1>13, <1>14, <1>15, <1>16, <1>17 DEF IInv

\* A mail that fails, and one of a campaign whose mails are not kept.
LEMMA UntoldInv ==
  ASSUME IInv, NEW w \in Workers, NEW s, At(w, "mailing"), NEW some \in BOOLEAN,
         jobs[w].some => some,
         jobs' = [jobs EXCEPT ![w] = [jobs[w] EXCEPT !.left = @ \ {s}, !.some = some]],
         UNCHANGED <<rows, list, got, mailed, disturbed>>
  PROVE  IInv'
<1> DEFINE old == jobs[w]
           job == [old EXCEPT !.left = @ \ {s}, !.some = some]
<1>1. /\ old.kind \in Sending /\ old # Idle /\ old \in Job /\ Tracks(old)
      /\ old.at = "mailing" /\ Current(w) = Least(old.todo)
      /\ \A d \in Undisturbed : d = Current(w) => \A x \in old.left : got[d][x] = 0
  BY LeftFacts
<1>2. /\ job \in Job
      /\ job.kind = old.kind /\ job.seen = old.seen /\ job.todo = old.todo /\ job.at = old.at
      /\ job.sent = old.sent /\ job.left = old.left \ {s} /\ job.some = some
      /\ job.out = old.out
  BY <1>1 DEF Job
<1> HIDE DEF job
<1>3. Tracks(job)
  BY <1>1, <1>2 DEF Tracks
<1>4. Goes(w, job)
  BY <1>2, <1>3 DEF Goes, job
<1>5. \A d \in Undisturbed :
        d = Least(job.todo) => \A x \in job.left : got[d][x] = 0
  BY <1>1, <1>2
<1> QED BY <1>1, <1>4, <1>5, GoesInv

\* Mailing a subscriber keeps the invariant.
LEMMA MailInv ==
  ASSUME IInv, NEW w \in Workers, NEW s \in Subscribers, Mail(w, s)
  PROVE  IInv'
<1> DEFINE old == jobs[w]
           c == Current(w)
<1>1. At(w, "mailing") /\ s \in old.left /\ UNCHANGED <<rows, list, disturbed>>
  BY DEF Mail
<1>2. old \in Job /\ c \in Campaigns
  BY <1>1, LeftFacts
<1>3. CASE /\ c \notin disturbed
           /\ got' = [got EXCEPT ![c][s] = IF @ = 0 THEN 1 ELSE 2]
           /\ mailed' = [mailed EXCEPT ![c] = @ \cup {old.seen[c].text}]
           /\ jobs' = [jobs EXCEPT ![w].left = @ \ {s}, ![w].some = TRUE,
                                   ![w].out = @ \cup ({c} \ disturbed)]
  <2>1. {c} \ disturbed = {c} /\ c \in Undisturbed
    BY <1>2, <1>3 DEF Undisturbed
  <2>2. jobs' = [jobs EXCEPT ![w] = [old EXCEPT !.left = @ \ {s}, !.some = TRUE,
                                                !.out = @ \cup {c}]]
    BY <1>2, <1>3, <2>1 DEF Job
  <2> QED BY <1>1, <1>3, <2>1, <2>2, MailedInv
<1>4. CASE /\ c \in disturbed /\ UNCHANGED <<got, mailed>>
           /\ jobs' = [jobs EXCEPT ![w].left = @ \ {s}, ![w].some = TRUE,
                                   ![w].out = @ \cup ({c} \ disturbed)]
  <2>1. old.out \cup ({c} \ disturbed) = old.out
    BY <1>4
  <2>2. jobs' = [jobs EXCEPT ![w] = [old EXCEPT !.left = @ \ {s}, !.some = TRUE]]
    BY <1>2, <1>4, <2>1 DEF Job
  <2> QED BY <1>1, <1>4, <2>2, UntoldInv
<1>5. CASE UNCHANGED <<got, mailed>> /\ jobs' = [jobs EXCEPT ![w].left = @ \ {s}]
  <2>1. jobs' = [jobs EXCEPT ![w] = [old EXCEPT !.left = @ \ {s}, !.some = old.some]]
    BY <1>2, <1>5 DEF Job
  <2>2. old.some \in BOOLEAN
    BY <1>2 DEF Job
  <2> QED BY <1>1, <1>5, <2>1, <2>2, UntoldInv
<1> QED BY <1>3, <1>4, <1>5 DEF Mail

-------------------------------------------------------------------------------
\* What a sending and another request have both to do with is disturbed.
LEMMA BeginInv ==
  ASSUME IInv, NEW w \in Workers, NEW kind \in Sending \cup {"schedule", "edit"},
         NEW cs \in SUBSET Campaigns, \A c \in cs : rows[c].status # "sent",
         Begin(w, kind, cs)
  PROVE  IInv'
<1> DEFINE seen == [c \in cs |-> Seen(kind, rows[c])]
           job == [kind |-> kind, seen |-> seen, todo |-> cs, at |-> "next", left |-> {},
                   some |-> FALSE, sent |-> {}, out |-> {}]
           shared == {c \in cs : \E v \in Workers :
                        IF kind \in Sending THEN Uses(v, c) ELSE Sends(v, c)}
<1>1. /\ jobs[w] = Idle /\ jobs' = [jobs EXCEPT ![w] = job]
      /\ UNCHANGED <<rows, list>> /\ Disturb(shared)
  BY DEF Begin
<1>2. /\ disturbed' = disturbed \cup shared
      /\ got' = [c \in Campaigns |-> IF c \in shared THEN Nobody ELSE got[c]]
      /\ mailed' = [c \in Campaigns |-> IF c \in shared THEN {} ELSE mailed[c]]
  BY <1>1 DEF Disturb
<1>3. /\ Undisturbed' \subseteq Undisturbed
      /\ \A c \in Undisturbed' : got'[c] = got[c] /\ mailed'[c] = mailed[c] /\ c \notin shared
  BY <1>2 DEF Undisturbed
<1>4. seen \in UNION {[ds -> SeenRow] : ds \in SUBSET Campaigns} /\ DOMAIN seen = cs
  <2>1. \A c \in cs : rows[c] \in Row
    BY DEF IInv, Types
  <2>2. \A c \in cs : Seen(kind, rows[c]) \in SeenRow
    <3>1. ASSUME NEW c \in cs PROVE Seen(kind, rows[c]) \in SeenRow
      <4>1. rows[c].status \in Statuses /\ rows[c].text \in Texts
        BY <2>1 DEF Row
      <4> QED BY <4>1 DEF Seen, SeenRow
    <3> QED BY <3>1
  <2>3. seen \in [cs -> SeenRow]
    BY <2>2
  <2> QED BY <2>3
<1>5. kind \in Sending => \A c \in cs : seen[c].text = rows[c].text
  BY DEF Seen, Sending
<1>6. job \in Job /\ job.kind # "idle"
  <2> HIDE DEF seen
  <2> QED BY <1>4 DEF Job, Sending
<1>7. Tracks(job)
  <2> HIDE DEF seen
  <2> QED BY <1>4 DEF Tracks
<1>8. /\ job.kind = kind /\ job.seen = seen /\ job.out = {} /\ job.at = "next"
  OBVIOUS
<1> HIDE DEF seen, shared, job
<1>9. /\ jobs' \in [Workers -> Job \cup {Idle}]
      /\ jobs'[w] = job
      /\ \A v \in Workers \ {w} : jobs'[v] = jobs[v]
      /\ \A v \in Workers \ {w} : \A c : /\ Uses(v, c)' <=> Uses(v, c)
                                         /\ Sends(v, c)' <=> Sends(v, c)
  BY <1>1, <1>6, OtherJobs
<1>10. \A c : (Uses(w, c)' <=> c \in cs) /\ (Sends(w, c)' <=> c \in cs /\ kind \in Sending)
  <2>1. \A c : Uses(w, c)' <=> c \in cs
    BY <1>4, <1>6, <1>8, <1>9 DEF Uses
  <2> QED BY <1>8, <1>9, <2>1 DEF Sends
<1>11. \A c : ~Uses(w, c) /\ ~Sends(w, c)
  BY <1>1 DEF Uses, Sends, Idle
<1>12. Types' /\ ScheduledHaveTimes' /\ NobodyIsMailedTwice'
  <2>1. Nobody \in [Subscribers -> 0..2] /\ \A s \in Subscribers : Nobody[s] < 2
    BY DEF Nobody
  <2>2. disturbed' \subseteq Campaigns
    BY <1>2 DEF IInv, Types, shared
  <2>3. got' \in [Campaigns -> [Subscribers -> 0..2]]
    BY <1>2, <2>1 DEF IInv, Types
  <2>4. mailed' \in [Campaigns -> SUBSET Texts]
    BY <1>2 DEF IInv, Types
  <2>5. Types' /\ ScheduledHaveTimes'
    BY <1>1, <1>9, <2>2, <2>3, <2>4 DEF IInv, Types, ScheduledHaveTimes
  <2>6. NobodyIsMailedTwice'
    BY <1>3 DEF IInv, NobodyIsMailedTwice, Undisturbed
  <2> QED BY <2>5, <2>6
<1>13. JobsTrack'
  BY <1>7, <1>9 DEF IInv, JobsTrack
<1>14. SendersAreAlone'
  <2> SUFFICES ASSUME NEW c \in Undisturbed', NEW u \in Workers, NEW v \in Workers, u # v,
                      Sends(u, c)', Uses(v, c)'
               PROVE  FALSE
    BY DEF SendersAreAlone
  <2>1. CASE u = w
    <3>1. c \in shared
      BY <1>9, <1>10, <2>1 DEF shared
    <3> QED BY <1>3, <3>1
  <2>2. CASE v = w
    <3>1. Sends(u, c) /\ Uses(u, c) /\ c \in cs
      BY <1>9, <1>10, <2>2 DEF Sends
    <3>2. c \in shared
      BY <3>1 DEF shared
    <3> QED BY <1>3, <3>2
  <2>3. CASE u # w /\ v # w
    BY <1>3, <1>9, <2>3 DEF IInv, SendersAreAlone
  <2> QED BY <2>1, <2>2, <2>3
<1>15. SentIsSettled'
  BY <1>1, <1>3, <1>9, <1>10 DEF IInv, SentIsSettled
<1>16. UnmailedUntilSent'
  <2> SUFFICES ASSUME NEW c \in Undisturbed', rows[c].status # "sent",
                      \A v \in Workers : Sends(v, c)' => c \notin jobs'[v].out
               PROVE  got'[c] = Nobody /\ mailed'[c] = {}
    BY <1>1 DEF UnmailedUntilSent, Nobody
  <2>1. \A v \in Workers : Sends(v, c) => c \notin jobs[v].out
    BY <1>9, <1>11
  <2> QED BY <1>3, <2>1 DEF IInv, UnmailedUntilSent
<1>17. LeftAreUnmailed'
  BY <1>3, <1>8, <1>9 DEF IInv, LeftAreUnmailed
<1>18. SendersHaveTheText' /\ MailedIsTheText'
  <2>1. SendersHaveTheText'
    BY <1>1, <1>3, <1>5, <1>8, <1>9, <1>10 DEF IInv, SendersHaveTheText
  <2> QED BY <1>1, <1>3, <2>1 DEF IInv, MailedIsTheText
<1> QED BY <1>12, <1>13, <1>14, <1>15, <1>16, <1>17, <1>18 DEF IInv

-------------------------------------------------------------------------------
\* A worker that is done is idle.  What it leaves behind, the rest of the state has to
\* account for: it may have sent campaigns, or written one that nobody sends.
LEMMA DoneFacts ==
  ASSUME IInv, NEW w \in Workers, jobs' = [jobs EXCEPT ![w] = Idle]
  PROVE  /\ jobs' \in [Workers -> Job \cup {Idle}]
         /\ jobs'[w] = Idle
         /\ \A v \in Workers \ {w} : jobs'[v] = jobs[v]
         /\ \A v \in Workers : \A c : /\ Uses(v, c)' <=> v # w /\ Uses(v, c)
                                      /\ Sends(v, c)' <=> v # w /\ Sends(v, c)
         /\ JobsTrack'
<1>1. /\ jobs' \in [Workers -> Job \cup {Idle}]
      /\ jobs'[w] = Idle
      /\ \A v \in Workers \ {w} : jobs'[v] = jobs[v]
      /\ \A v \in Workers \ {w} : \A c : /\ Uses(v, c)' <=> Uses(v, c)
                                         /\ Sends(v, c)' <=> Sends(v, c)
  BY OtherJobs
<1>2. \A c : ~Uses(w, c)' /\ ~Sends(w, c)'
  BY <1>1 DEF Uses, Sends, Idle
<1>3. JobsTrack'
  BY <1>1 DEF IInv, JobsTrack
<1> QED BY <1>1, <1>2, <1>3

\* The commit of a schedule or of an edit writes one row.
LEMMA StoredInv ==
  ASSUME IInv, NEW w \in Workers, NEW c \in Campaigns, NEW row \in Row,
         Uses(w, c), jobs[w].kind \notin Sending,
         row.status = "scheduled" => row.due # "never",
         row.status = "sent" => rows[c].status = "sent",
         rows' = [rows EXCEPT ![c] = row],
         jobs' = [jobs EXCEPT ![w] = Idle],
         UNCHANGED <<list, got, mailed, disturbed>>
  PROVE  IInv'
<1>1. /\ jobs' \in [Workers -> Job \cup {Idle}]
      /\ \A v \in Workers \ {w} : jobs'[v] = jobs[v]
      /\ \A v \in Workers : \A d : /\ Uses(v, d)' <=> v # w /\ Uses(v, d)
                                   /\ Sends(v, d)' <=> v # w /\ Sends(v, d)
      /\ JobsTrack'
  BY DoneFacts
<1>2. /\ rows' \in [Campaigns -> Row] /\ rows'[c] = row
      /\ \A d \in Campaigns \ {c} : rows'[d] = rows[d]
      /\ Undisturbed' = Undisturbed
  BY DEF IInv, Types, Undisturbed
<1>3. \A d : ~Sends(w, d)
  BY DEF Sends
<1>4. c \in Undisturbed =>
        /\ rows[c].status # "sent" /\ \A v \in Workers : ~Sends(v, c)
        /\ got[c] = Nobody /\ mailed[c] = {}
  <2> SUFFICES ASSUME c \in Undisturbed
               PROVE  /\ rows[c].status # "sent" /\ \A v \in Workers : ~Sends(v, c)
                      /\ got[c] = Nobody /\ mailed[c] = {}
    OBVIOUS
  <2>1. rows[c].status # "sent"
    BY DEF IInv, SentIsSettled
  <2>2. \A v \in Workers : ~Sends(v, c)
    BY <1>3 DEF IInv, SendersAreAlone
  <2> QED BY <2>1, <2>2 DEF IInv, UnmailedUntilSent
<1>5. Types' /\ ScheduledHaveTimes' /\ NobodyIsMailedTwice'
  BY <1>1, <1>2 DEF IInv, Types, ScheduledHaveTimes, NobodyIsMailedTwice
<1>6. SendersAreAlone'
  BY <1>1, <1>2 DEF IInv, SendersAreAlone
<1>7. SentIsSettled'
  BY <1>1, <1>2, <1>4 DEF IInv, SentIsSettled, Undisturbed
<1>8. UnmailedUntilSent'
  <2> SUFFICES ASSUME NEW d \in Undisturbed, d # c, rows[d].status # "sent",
                      \A v \in Workers : Sends(v, d)' => d \notin jobs'[v].out
               PROVE  got[d] = Nobody /\ mailed[d] = {}
    BY <1>2, <1>4 DEF UnmailedUntilSent, Undisturbed, Nobody
  <2>1. \A v \in Workers : Sends(v, d) => d \notin jobs[v].out
    BY <1>1, <1>3
  <2> QED BY <2>1 DEF IInv, UnmailedUntilSent
<1>9. LeftAreUnmailed'
  BY <1>1, <1>2 DEF IInv, LeftAreUnmailed
<1>10. SendersHaveTheText'
  BY <1>1, <1>2, <1>4 DEF IInv, SendersHaveTheText, Undisturbed
<1>11. MailedIsTheText'
  BY <1>2, <1>4 DEF IInv, MailedIsTheText, Undisturbed
<1> QED BY <1>1, <1>5, <1>6, <1>7, <1>8, <1>9, <1>10, <1>11 DEF IInv

\* The commit of a schedule keeps the invariant.
LEMMA CommitScheduleInv ==
  ASSUME IInv, NEW w \in Workers, NEW c \in Campaigns, CommitSchedule(w, c)
  PROVE  IInv'
<1> DEFINE row == Scheduled(rows[c], jobs[w].seen[c])
<1>1. rows[c] \in Row /\ rows \in [Campaigns -> Row]
  BY DEF IInv, Types
<1>2. /\ row \in Row /\ row.due = "later"
      /\ row.status = rows[c].status \/ row.status = "scheduled"
  BY <1>1 DEF Scheduled, Row, Statuses
<1>3. rows' = [rows EXCEPT ![c] = row]
  BY <1>1 DEF CommitSchedule
<1>4. Uses(w, c) /\ jobs[w].kind \notin Sending
  BY DEF CommitSchedule, Sending
<1> HIDE DEF row
<1> QED BY <1>2, <1>3, <1>4, StoredInv DEF CommitSchedule

\* The commit of an edit keeps the invariant.
LEMMA CommitEditInv ==
  ASSUME IInv, NEW w \in Workers, NEW c \in Campaigns, CommitEdit(w, c)
  PROVE  IInv'
<1> DEFINE row == [rows[c] EXCEPT !.text = "second"]
<1>1. rows[c] \in Row /\ rows \in [Campaigns -> Row]
  BY DEF IInv, Types
<1>2. /\ row \in Row /\ row.due = rows[c].due /\ row.status = rows[c].status
  BY <1>1 DEF Row, Texts
<1>3. rows' = [rows EXCEPT ![c] = row]
  BY DEF CommitEdit
<1>4. Uses(w, c) /\ jobs[w].kind \notin Sending
  BY DEF CommitEdit, Sending
<1>5. row.status = "scheduled" => row.due # "never"
  BY <1>2 DEF IInv, ScheduledHaveTimes
<1> HIDE DEF row
<1> QED BY <1>2, <1>3, <1>4, <1>5, StoredInv DEF CommitEdit

\* All that a worker has mailed, it writes that it has sent, when it commits.
LEMMA CommitSentInv ==
  ASSUME IInv, NEW w \in Workers, CommitSent(w)
  PROVE  IInv'
<1> DEFINE old == jobs[w]
<1>1. /\ old.kind \in Sending /\ old.todo = {}
      /\ rows' = [c \in Campaigns |-> IF c \in old.sent THEN Sent(rows[c], old.seen[c])
                                      ELSE rows[c]]
      /\ jobs' = [jobs EXCEPT ![w] = Idle]
      /\ UNCHANGED <<list, got, mailed, disturbed>>
  BY DEF CommitSent, IsSending
<1>2. old # Idle /\ old \in Job /\ Tracks(old)
  BY <1>1, JobFacts DEF Sending
<1>3. /\ jobs' \in [Workers -> Job \cup {Idle}]
      /\ \A v \in Workers \ {w} : jobs'[v] = jobs[v]
      /\ \A v \in Workers : \A d : /\ Uses(v, d)' <=> v # w /\ Uses(v, d)
                                   /\ Sends(v, d)' <=> v # w /\ Sends(v, d)
      /\ JobsTrack'
  BY <1>1, DoneFacts
<1>4. rows \in [Campaigns -> Row] /\ Undisturbed' = Undisturbed
  BY <1>1 DEF IInv, Types, Undisturbed
<1>5. \A c \in Campaigns : /\ rows'[c] \in Row /\ rows'[c].text = rows[c].text
                           /\ c \in old.sent => rows'[c].status = "sent"
                           /\ c \notin old.sent => rows'[c] = rows[c]
  <2>1. ASSUME NEW c \in Campaigns
        PROVE  LET row == Sent(rows[c], old.seen[c])
               IN  row \in Row /\ row.text = rows[c].text /\ row.status = "sent"
    BY <1>4 DEF Sent, Row, Statuses
  <2> QED BY <1>1, <1>4, <2>1
<1>6. \A c \in old.out : c \in old.sent
  BY <1>1, <1>2 DEF Tracks
<1>7. \A c \in old.sent : Sends(w, c) /\ c \in Campaigns
  BY <1>1, <1>2 DEF Sends, Uses, Tracks, Job, Sending
<1>8. Types' /\ ScheduledHaveTimes'
  <2>1. rows' \in [Campaigns -> Row]
    BY <1>1, <1>5
  <2>2. ScheduledHaveTimes'
    BY <1>5 DEF IInv, ScheduledHaveTimes
  <2> QED BY <1>1, <1>3, <2>1, <2>2 DEF IInv, Types
<1>9. SendersAreAlone'
  BY <1>3, <1>4 DEF IInv, SendersAreAlone
<1>10. SentIsSettled'
  <2> SUFFICES ASSUME NEW c \in Undisturbed, NEW v \in Workers, rows'[c].status = "sent",
                      v # w, Uses(v, c)
               PROVE  FALSE
    BY <1>3, <1>4 DEF SentIsSettled
  <2>1. CASE c \in old.sent
    BY <1>7, <2>1 DEF IInv, SendersAreAlone
  <2>2. CASE c \notin old.sent
    BY <1>5, <2>2 DEF IInv, SentIsSettled, Undisturbed
  <2> QED BY <2>1, <2>2
<1>11. UnmailedUntilSent'
  <2> SUFFICES ASSUME NEW c \in Undisturbed, rows'[c].status # "sent",
                      \A v \in Workers : Sends(v, c)' => c \notin jobs'[v].out
               PROVE  got[c] = Nobody /\ mailed[c] = {}
    BY <1>1, <1>4 DEF UnmailedUntilSent, Nobody
  <2>1. c \notin old.sent /\ rows[c].status # "sent"
    BY <1>5 DEF Undisturbed
  <2>2. \A v \in Workers : Sends(v, c) => c \notin jobs[v].out
    BY <1>3, <1>6, <2>1
  <2> QED BY <2>1, <2>2 DEF IInv, UnmailedUntilSent
<1>12. LeftAreUnmailed'
  BY <1>1, <1>3, <1>4 DEF IInv, LeftAreUnmailed
<1>13. SendersHaveTheText' /\ MailedIsTheText'
  BY <1>1, <1>3, <1>4, <1>5 DEF IInv, SendersHaveTheText, MailedIsTheText, Undisturbed
<1>14. NobodyIsMailedTwice'
  BY <1>1 DEF IInv, NobodyIsMailedTwice
<1> QED BY <1>3, <1>8, <1>9, <1>10, <1>11, <1>12, <1>13, <1>14 DEF IInv

\* What was mailed for nothing is disturbed.
LEMMA EndInv ==
  ASSUME IInv, NEW w \in Workers, End(w)
  PROVE  IInv'
<1> DEFINE out == jobs[w].out
<1>1. /\ disturbed' = disturbed \cup out
      /\ got' = [c \in Campaigns |-> IF c \in out THEN Nobody ELSE got[c]]
      /\ mailed' = [c \in Campaigns |-> IF c \in out THEN {} ELSE mailed[c]]
      /\ jobs' = [jobs EXCEPT ![w] = Idle]
      /\ UNCHANGED <<rows, list>>
  BY DEF End, Disturb
<1>2. jobs[w] \in Job
  BY JobFacts DEF End, IsSending, Sending
<1>3. /\ jobs' \in [Workers -> Job \cup {Idle}]
      /\ \A v \in Workers \ {w} : jobs'[v] = jobs[v]
      /\ \A v \in Workers : \A d : /\ Uses(v, d)' <=> v # w /\ Uses(v, d)
                                   /\ Sends(v, d)' <=> v # w /\ Sends(v, d)
      /\ JobsTrack'
  BY <1>1, DoneFacts
<1>4. out \subseteq Campaigns
  BY <1>2 DEF Job
<1> HIDE DEF out
<1>5. /\ Undisturbed' \subseteq Undisturbed
      /\ \A c \in Undisturbed' : got'[c] = got[c] /\ mailed'[c] = mailed[c] /\ c \notin out
  BY <1>1 DEF Undisturbed
<1>6. Types' /\ ScheduledHaveTimes'
  <2>1. Nobody \in [Subscribers -> 0..2]
    BY DEF Nobody
  <2>2. got' \in [Campaigns -> [Subscribers -> 0..2]]
    BY <1>1, <2>1 DEF IInv, Types
  <2>3. mailed' \in [Campaigns -> SUBSET Texts]
    BY <1>1 DEF IInv, Types
  <2>4. disturbed' \subseteq Campaigns
    BY <1>1, <1>4 DEF IInv, Types
  <2> QED BY <1>1, <1>3, <2>2, <2>3, <2>4 DEF IInv, Types, ScheduledHaveTimes
<1>7. SendersAreAlone' /\ SentIsSettled'
  BY <1>1, <1>3, <1>5 DEF IInv, SendersAreAlone, SentIsSettled
<1>8. UnmailedUntilSent'
  <2> SUFFICES ASSUME NEW c \in Undisturbed', rows[c].status # "sent",
                      \A v \in Workers : Sends(v, c)' => c \notin jobs'[v].out
               PROVE  got'[c] = Nobody /\ mailed'[c] = {}
    BY <1>1 DEF UnmailedUntilSent, Nobody
  <2>1. \A v \in Workers : Sends(v, c) => c \notin jobs[v].out
    BY <1>3, <1>5 DEF out
  <2> QED BY <1>5, <2>1 DEF IInv, UnmailedUntilSent
<1>9. LeftAreUnmailed'
  BY <1>3, <1>5 DEF IInv, LeftAreUnmailed
<1>10. SendersHaveTheText' /\ MailedIsTheText'
  BY <1>1, <1>3, <1>5 DEF IInv, SendersHaveTheText, MailedIsTheText
<1>11. NobodyIsMailedTwice'
  BY <1>5 DEF IInv, NobodyIsMailedTwice, Undisturbed
<1> QED BY <1>3, <1>6, <1>7, <1>8, <1>9, <1>10, <1>11 DEF IInv

-------------------------------------------------------------------------------
\* The time of a campaign comes: the invariant stands.
LEMMA TimeComesInv ==
  ASSUME IInv, NEW c \in Campaigns, TimeComes(c)
  PROVE  IInv'
<1>1. UNCHANGED <<list, jobs, got, mailed, disturbed>> /\ Undisturbed' = Undisturbed
  BY DEF TimeComes, Undisturbed
<1>2. /\ rows' \in [Campaigns -> Row]
      /\ \A d \in Campaigns : /\ rows'[d].status = rows[d].status /\ rows'[d].text = rows[d].text
                              /\ rows'[d].due = rows[d].due \/ rows'[d].due = "past"
  <2>1. rows \in [Campaigns -> Row] /\ rows[c] \in Row
    BY DEF IInv, Types
  <2>2. /\ rows'[c] = [rows[c] EXCEPT !.due = "past"]
        /\ \A d \in Campaigns \ {c} : rows'[d] = rows[d]
        /\ rows' = [d \in Campaigns |-> rows'[d]]
    BY <2>1 DEF TimeComes
  <2>3. /\ rows'[c] \in Row /\ rows'[c].status = rows[c].status
        /\ rows'[c].text = rows[c].text /\ rows'[c].due = "past"
    BY <2>1, <2>2 DEF Row
  <2> QED BY <2>1, <2>2, <2>3
<1>3. \A v \in Workers : \A d : (Uses(v, d)' <=> Uses(v, d)) /\ (Sends(v, d)' <=> Sends(v, d))
  BY <1>1 DEF Uses, Sends
<1>4. Types' /\ ScheduledHaveTimes' /\ NobodyIsMailedTwice'
  BY <1>1, <1>2 DEF IInv, Types, ScheduledHaveTimes, NobodyIsMailedTwice
<1>5. JobsTrack'
  BY <1>1 DEF IInv, JobsTrack
<1>6. SendersAreAlone' /\ SentIsSettled'
  BY <1>1, <1>2, <1>3 DEF IInv, SendersAreAlone, SentIsSettled, Undisturbed
<1>7. UnmailedUntilSent' /\ LeftAreUnmailed'
  BY <1>1, <1>2, <1>3 DEF IInv, UnmailedUntilSent, LeftAreUnmailed, Undisturbed, Nobody
<1>8. SendersHaveTheText' /\ MailedIsTheText'
  BY <1>1, <1>2, <1>3 DEF IInv, SendersHaveTheText, MailedIsTheText, Undisturbed
<1> QED BY <1>4, <1>5, <1>6, <1>7, <1>8 DEF IInv

\* The list matters to the types alone.
LEMMA ListInv ==
  ASSUME IInv, UNCHANGED <<rows, jobs, got, mailed, disturbed>>, list' \subseteq Subscribers
  PROVE  IInv'
<1>1. \A v \in Workers : \A d : (Uses(v, d)' <=> Uses(v, d)) /\ (Sends(v, d)' <=> Sends(v, d))
  BY DEF Uses, Sends
<1>2. Types' /\ ScheduledHaveTimes' /\ NobodyIsMailedTwice' /\ JobsTrack'
  BY DEF IInv, Types, ScheduledHaveTimes, NobodyIsMailedTwice, JobsTrack
<1>3. SendersAreAlone' /\ SentIsSettled' /\ SendersHaveTheText' /\ MailedIsTheText'
  BY <1>1 DEF IInv, SendersAreAlone, SentIsSettled, SendersHaveTheText, MailedIsTheText,
              Undisturbed
<1>4. UnmailedUntilSent' /\ LeftAreUnmailed'
  BY <1>1 DEF IInv, UnmailedUntilSent, LeftAreUnmailed, Undisturbed, Nobody
<1> QED BY <1>2, <1>3, <1>4 DEF IInv

\* Every step keeps the invariant.
LEMMA NextInv ==
  ASSUME IInv, [Next]_vars
  PROVE  IInv'
<1>1. ASSUME NEW w \in Workers, NEW c \in Campaigns, Schedule(w, c) PROVE IInv'
  BY <1>1, BeginInv DEF Schedule, Schedulable
<1>2. ASSUME NEW w \in Workers, NEW c \in Campaigns, SendNow(w, c) PROVE IInv'
  <2>1. "send now" \in Sending \cup {"schedule", "edit"}
    BY DEF Sending
  <2>2. Begin(w, "send now", {c})
    BY <1>2 DEF SendNow
  <2>3. {c} \in SUBSET Campaigns /\ \A d \in {c} : rows[d].status # "sent"
    BY <1>2 DEF SendNow, Sendable
  <2> QED BY <2>1, <2>2, <2>3, BeginInv
<1>3. ASSUME NEW w \in Workers, NEW c \in Campaigns, Edit(w, c) PROVE IInv'
  BY <1>3, BeginInv DEF Edit, Editable
<1>4. ASSUME NEW w \in Workers, ProcessDue(w) PROVE IInv'
  <2>1. "process due" \in Sending \cup {"schedule", "edit"}
    BY DEF Sending
  <2>2. DueCampaigns \in SUBSET Campaigns /\ \A c \in DueCampaigns : rows[c].status # "sent"
    BY DEF DueCampaigns, Due
  <2>3. Begin(w, "process due", DueCampaigns)
    BY <1>4 DEF ProcessDue
  <2> QED BY <2>1, <2>2, <2>3, BeginInv
<1>5. ASSUME NEW w \in Workers, Work(w) PROVE IInv'
  BY <1>5, CommitScheduleInv, CommitEditInv, ReadListInv, MailInv, FlushInv, CommitSentInv
     DEF Work
<1>6. ASSUME NEW w \in Workers, End(w) PROVE IInv'
  BY <1>6, EndInv
<1>7. ASSUME NEW c \in Campaigns, TimeComes(c) PROVE IInv'
  BY <1>7, TimeComesInv
<1>8. ASSUME NEW s \in Subscribers, Subscription(s) PROVE IInv'
  <2>1. list' \subseteq Subscribers
    BY <1>8 DEF IInv, Types, Subscription
  <2> QED BY <1>8, <2>1, ListInv DEF Subscription
<1>9. CASE UNCHANGED vars
  BY <1>9, ListInv DEF vars, IInv, Types
<1> QED BY <1>1, <1>2, <1>3, <1>4, <1>5, <1>6, <1>7, <1>8, <1>9 DEF Next

-------------------------------------------------------------------------------
\* The inductive invariant holds of every behaviour.
THEOREM NewsletterInvariance == Spec => []IInv
<1>1. IInv /\ [Next]_vars => IInv'
  BY NextInv
<1> QED BY InitInv, <1>1, PTL DEF Spec

\* The columns keep their values; whatever requests overlap, a scheduled newsletter has
\* a time.
THEOREM NewsletterTyped == Spec => []TypeOK
<1>1. IInv => TypeOK
  <2> SUFFICES ASSUME IInv PROVE TypeOK
    OBVIOUS
  <2>1. \A w \in Workers : jobs[w].kind \in Sending \cup {"idle", "schedule", "edit"}
    BY DEF IInv, Types, Job, Idle
  <2> QED BY <2>1 DEF IInv, Types, ScheduledHaveTimes, Row, Statuses, TypeOK
<1> QED BY <1>1, NewsletterInvariance, PTL

\* send_campaign_now and process_due_scheduled_campaigns mail nobody a newsletter twice,
\* as long as nothing else is done with it meanwhile and the transaction is not lost.
THEOREM MailedAtMostOnce == Spec => []NobodyIsMailedTwice
<1>1. IInv => NobodyIsMailedTwice
  BY DEF IInv
<1> QED BY <1>1, NewsletterInvariance, PTL

\* The text in the row of a newsletter that was sent is the text that was mailed.
THEOREM RowsShowTheMails == Spec => []RowsShowWhatWasMailed
<1>1. IInv => RowsShowWhatWasMailed
  BY DEF IInv, MailedIsTheText, RowsShowWhatWasMailed, Undisturbed
<1> QED BY <1>1, NewsletterInvariance, PTL
===============================================================================
