--------------------------------- MODULE Billing --------------------------------
(***************************************************************************)
(* One user's row of `plan_subscriptions`, kept in step with the payment   *)
(* provider by webhooks and by the completion that the web client sends    *)
(* after a checkout (service/billing.py, routes/billing.py).               *)
(*                                                                         *)
(* A webhook is delivered until it is answered, in any order and more than *)
(* once; its id is inserted first, in the transaction that stores the      *)
(* event.  The row is read without a lock and written with the columns     *)
(* that differ.  A completion has its row loaded with the user, before the *)
(* provider is asked.  The session commits after the response has been     *)
(* sent (database/session.py under FastAPI 0.118 and later), so that an    *)
(* event can be answered and then not stored.                              *)
(*                                                                         *)
(* The provider is not part of the repository.  It is assumed to have one  *)
(* subscription of the user running at a time and to send one event for    *)
(* every change of it; event n is the n-th change.                         *)
(***************************************************************************)
EXTENDS Naturals, Sequences, FiniteSets, SequencesExt

CONSTANTS Workers,     \* requests that can be in progress for webhooks
          Completions, \* and for completions
          MaxSubs,     \* bound: subscriptions the user takes out
          MaxEvents,   \* bound: changes at the provider
          MaxCrashes   \* bound: requests cut off by a crash, and answers lost

ASSUME BoundsAssumption ==
  /\ MaxSubs \in Nat \ {0} /\ MaxEvents \in Nat /\ MaxCrashes \in Nat
  /\ Workers \cap Completions = {}

Requests == Workers \cup Completions
Status == {"pending", "active", "on_hold", "cancelled"}
Row == [sub : 1..MaxSubs, status : Status]
Columns == {"sub", "status"}

VARIABLES events,      \* the provider's changes, each the row it asks for
          unanswered,  \* events whose webhook has not been answered with 2xx
          plan,        \* table plan_subscriptions: {} or {the user's row}
          processed,   \* table processed_dodo_webhooks
          request,     \* the transaction of each request
          crashes,
          newest,      \* history: the latest change that was stored
          disordered,  \* history: an older change was stored after a newer one
          overlapped   \* history: a request stored or failed on a row read too early

vars == <<events, unanswered, plan, processed, request, crashes,
          newest, disordered, overlapped>>

-------------------------------------------------------------------------------
(* A transaction.  `says` is the row it wants, true as of change `asof`; `event`  *)
(* is 0 for a completion; `seen` the row as the session knows it; `stale`         *)
(* (history): that is not what is there any more.                                 *)
Idle == [stage |-> "idle"]
Stages == {"begun", "asked", "read", "answered"}

Begun(event, asof, stage, seen) ==
  [stage |-> stage, event |-> event, asof |-> asof, says |-> events[asof],
   seen |-> seen, written |-> FALSE, stale |-> FALSE]

Running == {r \in Requests : request[r] # Idle}
Claimed == {request[r].event : r \in Running}

\* The handler queries again once it has changed the row, and so flushes it before the
\* answer, unless the status has no admin event.
FlushedLate(status) == status = "pending"

WritesIn(t) == IF FlushedLate(t.says.status) THEN "answered" ELSE "read"

\* The columns an UPDATE sets.
Changed(t) == {c \in Columns : \E row \in t.seen : row[c] # t.says[c]}

Writes(t) == t.seen = {} \/ Changed(t) # {}

\* An UPDATE waits for the row's lock, an INSERT for one of the same user.
RowFree == \A r \in Running : ~request[r].written

\* Also a mutant of Lookup: the user's row of an earlier subscription is not found.
BySubscription(sub) == {row \in plan : row.sub = sub}

\* By dodo_subscription_id, then by user_id: all rows here are the user's.
Lookup(sub) == IF BySubscription(sub) # {} THEN BySubscription(sub) ELSE plan

\* What a lookup gives a session that has loaded the user's row before: that object, whose
\* attributes no later SELECT refreshes.
Found(loaded, sub) ==
  IF Lookup(sub) # {} /\ loaded # {} THEN loaded ELSE Lookup(sub)

\* Mutant: the row keeps its dodo_subscription_id.
UpsertedStatus(row, t) == [row EXCEPT !.status = t.says.status]

Upserted(row, t) == [c \in Columns |-> IF c \in Changed(t) THEN t.says[c] ELSE row[c]]

-------------------------------------------------------------------------------
Init ==
  /\ events = <<>> /\ unanswered = {}
  /\ plan = {} /\ processed = {}
  /\ request = [r \in Requests |-> Idle]
  /\ crashes = 0
  /\ newest = 0 /\ disordered = FALSE /\ overlapped = FALSE

\* The provider.
Following(last) ==
  CASE last.status = "pending"   -> {[last EXCEPT !.status = s] : s \in {"active", "cancelled"}}
    [] last.status = "active"    -> {[last EXCEPT !.status = s] : s \in {"on_hold", "cancelled"}}
    [] last.status = "on_hold"   -> {[last EXCEPT !.status = s] : s \in {"active", "cancelled"}}
    [] last.status = "cancelled" -> {[sub |-> last.sub + 1, status |-> s] : s \in {"pending", "active"}}

ProviderChanges ==
  /\ Len(events) < MaxEvents
  /\ \E row \in IF events = <<>> THEN {[sub |-> 1, status |-> s] : s \in {"pending", "active"}}
                                 ELSE Following(Last(events)) :
       /\ row.sub <= MaxSubs
       /\ events' = Append(events, row)
  /\ unanswered' = unanswered \cup {Len(events')}
  /\ UNCHANGED <<plan, processed, request, crashes, newest, disordered, overlapped>>

Advance(r, t) ==
  /\ request' = [request EXCEPT ![r] = t]
  /\ UNCHANGED <<events, plan, processed, crashes, newest, disordered, overlapped>>

\* Mutant: the id is looked up, and inserted at the end.
ClaimUnlocked(w, e) ==
  /\ e \notin processed
  /\ Advance(w, Begun(e, e, "read", Lookup(events[e].sub))) /\ UNCHANGED unanswered

\* The INSERT of the id waits for a transaction that has inserted it; then the row is read.
Claim(w, e) ==
  /\ e \notin processed /\ e \notin Claimed
  /\ Advance(w, Begun(e, e, "read", Lookup(events[e].sub))) /\ UNCHANGED unanswered

Deliver(w, e) ==
  /\ e \in unanswered /\ request[w] = Idle
  /\ \/ Claim(w, e)
     \/ /\ e \in processed
        /\ unanswered' = unanswered \ {e}
        /\ UNCHANGED <<events, plan, processed, request, crashes, newest, disordered, overlapped>>

\* The transaction is rolled back.
Abandon(r) ==
  /\ request' = [request EXCEPT ![r] = Idle]
  /\ UNCHANGED <<events, unanswered, plan, processed, newest, disordered>>

\* The client reports what it was redirected with.  get_current_user loads the user, and the
\* user's row with it (User.plan_subscription).
Complete(c) ==
  /\ request[c] = Idle
  /\ \E claim \in DOMAIN events :
       /\ events[claim].status \in {"pending", "active"}
       /\ Advance(c, Begun(0, claim, "begun", plan))
  /\ UNCHANGED unanswered

\* The provider answers; the request is refused if it does not say the same.
Asked(c) ==
  /\ request[c] # Idle /\ request[c].stage = "begun"
  /\ \/ /\ Last(events) = request[c].says
        /\ Advance(c, [request[c] EXCEPT !.stage = "asked", !.asof = Len(events)])
        /\ UNCHANGED unanswered
     \/ /\ Last(events) # request[c].says
        /\ Abandon(c)
        /\ UNCHANGED <<crashes, overlapped>>

\* The row is looked up when the answer is there.
Verified(c) ==
  LET t == request[c] IN
  /\ t # Idle /\ t.stage = "asked"
  /\ Advance(c, [t EXCEPT !.stage = "read", !.seen = Found(@, t.says.sub),
                          !.stale = @ /\ t.seen # {}])
  /\ UNCHANGED unanswered

\* Mutant: user_id is not unique, only dodo_subscription_id is.
WriteRowManyPerUser(r) ==
  LET t == request[r]
      there == BySubscription(t.says.sub)
  IN
  /\ t # Idle /\ t.stage = WritesIn(t) /\ ~t.written /\ Writes(t)
  /\ RowFree
  /\ \/ /\ t.seen # {} \/ there = {}
        /\ Advance(r, [t EXCEPT !.written = TRUE]) /\ UNCHANGED unanswered
     \/ /\ t.seen = {} /\ there # {}
        /\ Abandon(r)
        /\ overlapped' = (overlapped \/ t.stale)
        /\ UNCHANGED crashes

\* An INSERT fails if the user has a row by now.
WriteRow(r) ==
  LET t == request[r] IN
  /\ t # Idle /\ t.stage = WritesIn(t) /\ ~t.written /\ Writes(t)
  /\ RowFree
  /\ \/ /\ t.seen # {} \/ plan = {}
        /\ Advance(r, [t EXCEPT !.written = TRUE]) /\ UNCHANGED unanswered
     \/ /\ t.seen = {} /\ plan # {}
        /\ Abandon(r)
        /\ overlapped' = (overlapped \/ t.stale)
        /\ UNCHANGED crashes

ReadyIn(t, stage) ==
  t # Idle /\ t.stage = stage /\ (stage = WritesIn(t) /\ Writes(t) => t.written)

Answer(r) ==
  /\ ReadyIn(request[r], "read")
  /\ Advance(r, [request[r] EXCEPT !.stage = "answered"])
  /\ unanswered' = unanswered \ {request[r].event}

\* The answer does not get through.
AnswerInVain(w) ==
  /\ ReadyIn(request[w], "read") /\ crashes < MaxCrashes
  /\ request' = [request EXCEPT ![w].stage = "answered"]
  /\ crashes' = crashes + 1
  /\ UNCHANGED <<events, unanswered, plan, processed, newest, disordered, overlapped>>

Commit(r) ==
  LET t == request[r] IN
  /\ ReadyIn(t, "answered")
  /\ plan' = IF ~t.written THEN plan
             ELSE IF t.seen = {} THEN plan \cup {t.says}
             ELSE {Upserted(row, t) : row \in plan}
  /\ processed' = processed \cup ({t.event} \ {0})
  /\ request' = [q \in Requests |->
       IF q = r THEN Idle
       ELSE IF q \in Running /\ plan' # plan
            THEN [request[q] EXCEPT !.stale = TRUE] ELSE request[q]]
  /\ newest' = IF t.asof > newest THEN t.asof ELSE newest
  /\ disordered' = (disordered \/ t.asof < newest)
  /\ overlapped' = (overlapped \/ t.stale)
  /\ UNCHANGED <<events, unanswered, crashes>>

Crash(r) ==
  /\ request[r] # Idle /\ crashes < MaxCrashes
  /\ crashes' = crashes + 1
  /\ Abandon(r)
  /\ UNCHANGED overlapped

Next ==
  \/ ProviderChanges
  \/ \E w \in Workers, e \in 1..MaxEvents : Deliver(w, e)
  \/ \E w \in Workers : AnswerInVain(w)
  \/ \E c \in Completions : Complete(c) \/ Asked(c) \/ Verified(c)
  \/ \E r \in Requests : WriteRow(r) \/ Answer(r) \/ Commit(r) \/ Crash(r)

\* A request in progress goes on; locks are granted in the order they were asked for;
\* the provider delivers again what is not answered.
Fairness ==
  /\ \A c \in Completions : WF_vars(Asked(c)) /\ WF_vars(Verified(c))
  /\ \A r \in Requests : SF_vars(WriteRow(r)) /\ WF_vars(Answer(r)) /\ WF_vars(Commit(r))
  /\ \A e \in 1..MaxEvents : SF_vars(\E w \in Workers : Deliver(w, e))

Spec == Init /\ [][Next]_vars
FairSpec == Spec /\ Fairness

-------------------------------------------------------------------------------
(***************************************************************************)
(* Properties.                                                             *)
(***************************************************************************)
Transaction ==
  [stage : Stages, event : 0..Len(events), asof : 1..Len(events), says : Row,
   seen : SUBSET Row, written : BOOLEAN, stale : BOOLEAN]

\* Rows and transactions are well formed, and the user has at most one row: of requests
\* that found none and insert one each, the unique user_id fails all but the first.
TypeOK ==
  /\ events \in Seq(Row) /\ Len(events) <= MaxEvents
  /\ unanswered \subseteq DOMAIN events /\ processed \subseteq DOMAIN events
  /\ plan \subseteq Row /\ Cardinality(plan) <= 1
  /\ \A r \in Running : request[r] \in Transaction
  /\ crashes \in 0..MaxCrashes /\ newest \in 0..Len(events)
  /\ disordered \in BOOLEAN /\ overlapped \in BOOLEAN

\* try_claim_dodo_webhook_id: of any number of deliveries of an event, also at once and
\* after crashes, one transaction gets to store it.
EventsAreStoredOnce ==
  /\ \A r \in Running : request[r].event \notin processed
  /\ \A r, q \in Running : request[r].event = request[q].event /\ request[r].event # 0 => r = q

\* As long as changes are stored in order and no request goes by a row it has loaded too
\* early, the row is the latest change stored, of one subscription, whichever of webhook
\* and completion won.  A completion loads the row before it asks the provider: one stored
\* meanwhile is an overlap, which can leave one change's id with another's status.
RowIsOneChange ==
  ~disordered /\ ~overlapped =>
    plan = IF newest = 0 THEN {} ELSE {events[newest]}

\* Events that were answered, are not stored, and never will be.
Lost == {e \in DOMAIN events : e \notin unanswered \cup processed \cup Claimed}

\* An answered event is stored unless the server crashed between answer and commit or
\* its first row lost against another request's.
EventsAreLostOnlyByCrashOrOverlap == Lost # {} => crashes > 0 \/ overlapped

UpToDate == events = <<>> \/ plan = {Last(events)}

\* If changes are stored in order, without overlap and loss, the row ends up as the
\* provider's last change, after renewals, holds and new subscriptions alike.
RowSettles ==
  \/ <>[]UpToDate
  \/ <>(disordered \/ overlapped \/ Lost # {})

===============================================================================
