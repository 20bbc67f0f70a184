------------------------------ MODULE BillingProofs ------------------------------
(***************************************************************************)
(* The safety of Billing for any number of requests, subscriptions and     *)
(* events: its four invariants are consequences of one inductive           *)
(* invariant.                                                              *)
(***************************************************************************)
EXTENDS Billing, FiniteSetTheorems, TLAPS

\* A request is idle or a transaction, which knows what the provider said at `asof`.
RequestsAreTransactions ==
  /\ request = [r \in Requests |-> request[r]]
  /\ \A r \in Running : request[r] \in Transaction /\ request[r].says = events[request[r].asof]

Types ==
  /\ events \in Seq(Row) /\ Len(events) <= MaxEvents
  /\ unanswered \subseteq DOMAIN events /\ processed \subseteq DOMAIN events
  /\ plan \subseteq Row /\ \A row, other \in plan : row = other
  /\ crashes \in 0..MaxCrashes /\ newest \in 0..Len(events)
  /\ disordered \in BOOLEAN /\ overlapped \in BOOLEAN
  /\ RequestsAreTransactions

\* What a transaction has loaded is there as long as nothing has been stored since.
ReadsHoldUnlessStale ==
  \A r \in Running : ~request[r].stale => request[r].seen = plan

\* Only completions ask the provider; they are about no event, and write afterwards.
Asking(t) == t.stage \in {"begun", "asked"} => t.event = 0 /\ ~t.written

CompletionsAsk == \A r \in Running : Asking(request[r])

\* What is not flushed late is written when the request is answered.
InTime(t) == t.stage = "answered" /\ WritesIn(t) = "read" /\ Writes(t) => t.written

WrittenInTime == \A r \in Running : InTime(request[r])

\* One transaction at a time has written the row, and none has inserted one beside another.
OneWriter ==
  \A r \in Running : request[r].written =>
    /\ \A q \in Running : request[q].written => q = r
    /\ request[r].seen = {} => plan = {}

IInv ==
  /\ Types
  /\ WrittenInTime
  /\ CompletionsAsk
  /\ OneWriter
  /\ EventsAreStoredOnce
  /\ ReadsHoldUnlessStale
  /\ RowIsOneChange
  /\ EventsAreLostOnlyByCrashOrOverlap

-------------------------------------------------------------------------------
\* A row is given by its two columns.
LEMMA RowsAreFunctions == Row = {row \in [Columns -> (1..MaxSubs) \cup Status] :
                                   row.sub \in 1..MaxSubs /\ row.status \in Status}
  BY DEF Row, Columns, Status

\* No transaction looks like an idle request.
LEMMA TransactionsAreNotIdle == Idle \notin Transaction
  BY DEF Idle, Transaction, Stages

\* With one row per user both lookups find it, or neither.
LEMMA LookupFindsTheRow ==
  ASSUME \A row, other \in plan : row = other, NEW sub
  PROVE  Lookup(sub) = plan
  BY DEF Lookup, BySubscription

\* The UPDATE of a row by a transaction that has read it gives the row asked for.
LEMMA UpsertedIsSaid ==
  ASSUME NEW row \in Row, NEW t, t.says \in Row, t.seen = {row}
  PROVE  Upserted(row, t) = t.says
  <1>1. row \in [Columns -> (1..MaxSubs) \cup Status] /\ t.says \in [Columns -> (1..MaxSubs) \cup Status]
    BY RowsAreFunctions
  <1>2. \A c \in Columns : c \in Changed(t) \/ row[c] = t.says[c]
    BY DEF Changed
  <1>3. Upserted(row, t) \in [Columns -> (1..MaxSubs) \cup Status]
    BY <1>1 DEF Upserted
  <1>4. \A c \in Columns : Upserted(row, t)[c] = t.says[c]
    BY <1>2 DEF Upserted
  <1> QED BY <1>1, <1>3, <1>4

\* An UPDATE that would set no column is of the row that is asked for.
LEMMA UnchangedIsSaid ==
  ASSUME NEW row \in Row, NEW t, t.says \in Row, t.seen = {row}, Changed(t) = {}
  PROVE  row = t.says
  <1>1. row \in [Columns -> (1..MaxSubs) \cup Status] /\ t.says \in [Columns -> (1..MaxSubs) \cup Status]
    BY RowsAreFunctions
  <1>2. \A c \in Columns : row[c] = t.says[c]
    BY DEF Changed
  <1> QED BY <1>1, <1>2

-------------------------------------------------------------------------------
\* A request begins or goes on: it keeps its event, and has loaded the row that is there or
\* is marked.  Of the other state only the answer to its event may change, and the count
\* of crashes.
Proceeds(r, t) ==
  /\ request' = [request EXCEPT ![r] = t]
  /\ UNCHANGED <<events, plan, processed, newest, disordered, overlapped>>
  /\ unanswered \ {t.event} \subseteq unanswered' /\ unanswered' \subseteq unanswered
  /\ crashes' \in crashes..MaxCrashes
  /\ t \in Transaction /\ t.says = events[t.asof]
  /\ IF request[r] # Idle THEN t.event = request[r].event
     ELSE t.event # 0 => t.event \notin processed /\ t.event \notin Claimed
  /\ InTime(t) /\ Asking(t)
  /\ ~t.stale => t.seen = plan
  /\ t.written => \/ request[r] # Idle /\ request[r].written /\ t.seen = request[r].seen
                  \/ RowFree /\ (t.seen = {} => plan = {})

\* No request runs and nothing is stored: the invariant holds at the start.
LEMMA InitInv == Init => IInv
  <1> SUFFICES ASSUME Init PROVE IInv
    OBVIOUS
  <1> USE DEF Init
  <1>1. Running = {} /\ Claimed = {}
    BY DEF Running, Claimed
  <1>2. Types
    <2>1. request = [r \in Requests |-> request[r]]
      OBVIOUS
    <2>2. RequestsAreTransactions
      BY <1>1, <2>1 DEF RequestsAreTransactions
    <2>3. events \in Seq(Row) /\ Len(events) = 0
      OBVIOUS
    <2>4. Len(events) <= MaxEvents /\ crashes \in 0..MaxCrashes /\ newest \in 0..Len(events)
      BY <2>3, BoundsAssumption
    <2> QED BY <2>2, <2>3, <2>4 DEF Types
  <1>3. EventsAreLostOnlyByCrashOrOverlap
    BY DEF EventsAreLostOnlyByCrashOrOverlap, Lost
  <1> QED BY <1>1, <1>2, <1>3
       DEF IInv, WrittenInTime, CompletionsAsk, OneWriter, EventsAreStoredOnce,
           ReadsHoldUnlessStale, RowIsOneChange

\* A request that goes on to its next statement keeps the invariant.
LEMMA ProceedsInv ==
  ASSUME IInv, NEW r \in Requests, NEW t, Proceeds(r, t)
  PROVE  IInv'
  <1> USE DEF IInv
  <1>0. t # Idle /\ t.written \in BOOLEAN /\ t.event \in 0..Len(events) /\ t.asof \in 1..Len(events)
    <2>1. t \in Transaction
      BY DEF Proceeds
    <2> QED BY <2>1, TransactionsAreNotIdle DEF Transaction
  <1>1. /\ Running' = Running \cup {r}
        /\ request'[r] = t
        /\ \A q \in Requests : q # r => request'[q] = request[q]
    <2>1. request = [q \in Requests |-> request[q]]
      BY DEF Types, RequestsAreTransactions
    <2> QED BY <1>0, <2>1 DEF Proceeds, Running
  <1>2. Running \subseteq Requests
    BY DEF Running
  <1>3. Types'
    <2>1. request' = [q \in Requests |-> request'[q]]
      BY DEF Types, RequestsAreTransactions, Proceeds
    <2>2. Transaction' = Transaction
      BY DEF Proceeds, Transaction
    <2>3. RequestsAreTransactions'
      BY <1>1, <1>2, <2>1, <2>2 DEF Types, RequestsAreTransactions, Proceeds
    <2>4. crashes' \in 0..MaxCrashes
      BY BoundsAssumption DEF Types, Proceeds
    <2> QED BY <2>3, <2>4 DEF Types, Proceeds
  <1>4. CompletionsAsk'
    <2>1. \A q \in Running' : Asking(request'[q])
      BY <1>1, <1>2 DEF CompletionsAsk, Proceeds
    <2> QED BY <2>1 DEF CompletionsAsk, Asking
  <1>5. EventsAreStoredOnce'
    <2>1. processed' = processed /\ 0 \notin processed
      BY DEF Types, Proceeds
    <2>2. t.event \notin processed
      BY <2>1 DEF Proceeds, EventsAreStoredOnce, Running
    <2>3. \A q \in Running \ {r} : request'[q] = request[q]
      BY <1>1, <1>2
    <2>4. \A q \in Running \ {r} : request[q].event = t.event => t.event = 0
      BY DEF Proceeds, EventsAreStoredOnce, Running, Claimed
    <2> QED BY <1>1, <2>1, <2>2, <2>3, <2>4 DEF EventsAreStoredOnce
  <1>6. ReadsHoldUnlessStale'
    BY <1>1, <1>2 DEF ReadsHoldUnlessStale, Proceeds
  <1>7. RowIsOneChange'
    BY DEF RowIsOneChange, Proceeds
  <1>8. EventsAreLostOnlyByCrashOrOverlap'
    <2>1. Claimed \cup {t.event} \subseteq Claimed'
      <3>1. \A q \in Running : request'[q].event = request[q].event
        BY <1>1, <1>2 DEF Proceeds, Running
      <3> QED BY <1>1, <3>1 DEF Claimed
    <2>2. Lost' \subseteq Lost
      <3>1. events' = events /\ processed' = processed /\ unanswered \ {t.event} \subseteq unanswered'
        BY DEF Proceeds
      <3> QED BY <2>1, <3>1 DEF Lost
    <2>3. crashes > 0 => crashes' > 0
      BY DEF Proceeds, Types
    <2> QED BY <2>2, <2>3 DEF EventsAreLostOnlyByCrashOrOverlap, Proceeds
  <1>9. WrittenInTime'
    <2>1. \A q \in Requests : request'[q] = request[q] \/ request'[q] = t
      BY <1>1
    <2>2. \A q \in Running' : InTime(request'[q])
      BY <1>1, <1>2, <2>1 DEF WrittenInTime, Proceeds
    <2> QED BY <2>2 DEF WrittenInTime, InTime, Writes, WritesIn, FlushedLate, Changed
  <1>10. OneWriter'
    <2>1. plan' = plan
      BY DEF Proceeds
    <2>2. CASE t.written /\ request[r] # Idle /\ request[r].written /\ t.seen = request[r].seen
      BY <1>1, <1>2, <2>1, <2>2 DEF OneWriter, Running
    <2>3. CASE t.written /\ RowFree /\ (t.seen = {} => plan = {})
      BY <1>1, <1>2, <2>1, <2>3 DEF OneWriter, RowFree
    <2>4. CASE ~t.written
      BY <1>1, <1>2, <2>1, <2>4 DEF OneWriter
    <2> QED BY <2>2, <2>3, <2>4 DEF Proceeds
  <1> QED BY <1>3, <1>4, <1>5, <1>6, <1>7, <1>8, <1>9, <1>10

\* A request is rolled back: after a crash, because another one stored a row first, or
\* because the provider does not confirm what a completion reports.
Fails(r) ==
  /\ Abandon(r) /\ r \in Running
  /\ \/ crashes' \in (crashes + 1)..MaxCrashes /\ UNCHANGED overlapped
     \/ /\ UNCHANGED crashes
        /\ overlapped' = (overlapped \/ request[r].stale)
        /\ request[r].seen # plan
     \/ /\ UNCHANGED <<crashes, overlapped>>
        /\ request[r].event = 0

\* A request that fails, and so loses what it had not committed, keeps the invariant.
LEMMA FailsInv ==
  ASSUME IInv, NEW r \in Requests, Fails(r)
  PROVE  IInv'
  <1> USE DEF IInv
  <1>1. /\ Running' = Running \ {r}
        /\ \A q \in Running' : request'[q] = request[q]
    <2>1. request = [q \in Requests |-> request[q]]
      BY DEF Types, RequestsAreTransactions
    <2> QED BY <2>1 DEF Fails, Abandon, Running
  <1>2. /\ UNCHANGED <<events, unanswered, plan, processed, newest, disordered>>
        /\ overlapped' \in BOOLEAN /\ (overlapped => overlapped')
        /\ crashes' \in 0..MaxCrashes
    <2>1. r \in Running => request[r].stale \in BOOLEAN
      BY DEF Types, RequestsAreTransactions, Transaction
    <2>2. crashes' \in 0..MaxCrashes
      BY BoundsAssumption DEF Types, Fails
    <2> QED BY <2>1, <2>2 DEF Fails, Abandon, Types
  <1>3. Types'
    <2>1. request' = [q \in Requests |-> request'[q]]
      BY DEF Types, RequestsAreTransactions, Fails, Abandon
    <2>2. Transaction' = Transaction
      BY <1>2 DEF Transaction
    <2>3. RequestsAreTransactions'
      BY <1>1, <1>2, <2>1, <2>2 DEF Types, RequestsAreTransactions
    <2> QED BY <1>2, <2>3 DEF Types
  <1>4. /\ CompletionsAsk' /\ OneWriter' /\ EventsAreStoredOnce' /\ ReadsHoldUnlessStale'
        /\ RowIsOneChange'
    BY <1>1, <1>2 DEF CompletionsAsk, Asking, OneWriter, EventsAreStoredOnce,
         ReadsHoldUnlessStale, RowIsOneChange
  <1>5. EventsAreLostOnlyByCrashOrOverlap'
    <2>1. CASE crashes' \in (crashes + 1)..MaxCrashes
      BY <2>1 DEF EventsAreLostOnlyByCrashOrOverlap, Types
    <2>2. CASE request[r].seen # plan /\ overlapped' = (overlapped \/ request[r].stale)
      BY <2>2 DEF EventsAreLostOnlyByCrashOrOverlap, ReadsHoldUnlessStale, Fails
    <2>3. CASE UNCHANGED <<crashes, overlapped>> /\ request[r].event = 0
      <3>1. Claimed \subseteq Claimed' \cup {0}
        BY <1>1, <2>3 DEF Claimed
      <3>2. 0 \notin DOMAIN events
        BY DEF Types
      <3>3. Lost' \subseteq Lost
        BY <1>2, <3>1, <3>2 DEF Lost
      <3> QED BY <2>3, <3>3 DEF EventsAreLostOnlyByCrashOrOverlap
    <2> QED BY <2>1, <2>2, <2>3 DEF Fails
  <1>6. WrittenInTime'
    BY <1>1 DEF WrittenInTime, InTime, Writes, WritesIn, FlushedLate, Changed
  <1> QED BY <1>3, <1>4, <1>5, <1>6

\* If nothing was stored since the request read, its commit leaves the row it was asked for.
LEMMA CommitStoresWhatIsSaid ==
  ASSUME IInv, NEW r \in Requests, Commit(r), ~request[r].stale
  PROVE  plan' = {request[r].says}
  <1> DEFINE t == request[r]
  <1>1. /\ t \in Transaction /\ t.stage = "answered"
        /\ t.says \in Row /\ t.seen = plan /\ plan \subseteq Row
        /\ Writes(t) => t.written
    <2>1. t # Idle /\ t.stage = "answered"
      BY DEF Commit, ReadyIn
    <2>2. t \in Transaction
      BY <2>1 DEF IInv, Types, RequestsAreTransactions, Running
    <2>3. Writes(t) => t.written
      <3>1. InTime(t)
        BY <2>1 DEF IInv, WrittenInTime, Running
      <3>2. WritesIn(t) \in {"read", "answered"}
        BY DEF WritesIn
      <3> QED BY <2>1, <3>1, <3>2 DEF Commit, ReadyIn, InTime
    <2> QED BY <2>1, <2>2, <2>3 DEF IInv, Types, ReadsHoldUnlessStale, Running, Transaction
  <1>2. plan = {} \/ \E row \in Row : plan = {row}
    BY <1>1 DEF IInv, Types
  <1>3. CASE plan = {}
    <2>1. t.written
      BY <1>1, <1>3 DEF Writes
    <2>2. plan' = plan \cup {t.says}
      BY <1>1, <1>3, <2>1 DEF Commit
    <2> QED BY <1>3, <2>2
  <1>4. CASE \E row \in Row : plan = {row}
    <2> PICK row \in Row : plan = {row}
      BY <1>4
    <2>1. CASE t.written
      <3>1. plan' = {Upserted(row, t)}
        BY <1>1, <2>1 DEF Commit
      <3> QED BY <1>1, <3>1, UpsertedIsSaid
    <2>2. CASE ~t.written
      <3>1. Changed(t) = {}
        BY <1>1, <2>2 DEF Writes
      <3>2. plan' = plan
        BY <2>2, Zenon DEF Commit
      <3> QED BY <1>1, <3>1, <3>2, UnchangedIsSaid
    <2> QED BY <2>1, <2>2
  <1> QED BY <1>2, <1>3, <1>4

\* A commit, which is where rows change, keeps the invariant.
LEMMA CommitInv ==
  ASSUME IInv, NEW r \in Requests, Commit(r)
  PROVE  IInv'
  <1> USE DEF IInv
  <1> DEFINE t == request[r]
  <1>1. /\ r \in Running /\ t \in Transaction /\ t.says = events[t.asof]
        /\ t.event \in 0..Len(events) /\ t.asof \in 1..Len(events) /\ t.says \in Row
        /\ t.seen \in SUBSET Row /\ t.stale \in BOOLEAN
    <2>1. r \in Running
      BY DEF Commit, ReadyIn, Running
    <2> QED BY <2>1 DEF Types, RequestsAreTransactions, Transaction
  <1>2. /\ UNCHANGED <<events, unanswered, crashes>>
        /\ processed' = processed \cup ({t.event} \ {0})
        /\ newest' = (IF t.asof > newest THEN t.asof ELSE newest)
        /\ disordered' = (disordered \/ t.asof < newest)
        /\ overlapped' = (overlapped \/ t.stale)
    BY DEF Commit
  <1>3. \A q \in Running \ {r} :
          \/ request'[q] = [request[q] EXCEPT !.stale = TRUE]
          \/ /\ request'[q] = request[q]
             /\ plan' = plan
    BY DEF Commit, Running
  <1>4. Running' = Running \ {r}
    <2>1. request'[r] = Idle
      BY DEF Commit
    <2>2. \A q \in Requests \ Running : request'[q] = Idle
      BY DEF Commit, Running
    <2>3. \A q \in Running \ {r} : request'[q] # Idle
      <3>1. \A q \in Running : request[q] \in Transaction
        BY DEF Types, RequestsAreTransactions
      <3>2. \A q \in Running : [request[q] EXCEPT !.stale = TRUE] \in Transaction
        BY <3>1 DEF Transaction
      <3>3. \A q \in Running : request[q] # Idle
        BY DEF Running
      <3> QED BY <1>3, <3>2, <3>3, TransactionsAreNotIdle
    <2> QED BY <2>1, <2>2, <2>3 DEF Running
  <1>5. \A q \in Running' :
          /\ request'[q] \in Transaction
          /\ \A f \in {"stage", "event", "asof", "says", "seen", "written"} :
               request'[q][f] = request[q][f]
          /\ ~request'[q].stale => ~request[q].stale /\ plan' = plan
    <2> SUFFICES ASSUME NEW q \in Running \ {r}
                 PROVE  /\ request'[q] \in Transaction
                        /\ \A f \in {"stage", "event", "asof", "says", "seen", "written"} :
                             request'[q][f] = request[q][f]
                        /\ ~request'[q].stale => ~request[q].stale /\ plan' = plan
      BY <1>4
    <2>1. request[q] \in Transaction
      BY DEF Types, RequestsAreTransactions
    <2> QED BY <1>3, <2>1 DEF Transaction
  <1>6. Types'
    <2>1. request' = [q \in Requests |-> request'[q]]
      BY DEF Commit
    <2>2. Transaction' = Transaction
      BY <1>2 DEF Transaction
    <2>3. RequestsAreTransactions'
      BY <1>2, <1>4, <1>5, <2>1, <2>2 DEF Types, RequestsAreTransactions
    <2>4. plan' \subseteq Row /\ \A row, other \in plan' : row = other
      <3>1. CASE ~t.written
        BY <3>1 DEF Types, Commit
      <3>2. CASE t.written /\ plan = {}
        BY <1>1, <3>2 DEF Commit
      <3>3. CASE t.written /\ plan # {}
        <4>1. PICK row \in Row : plan = {row}
          BY <3>3 DEF Types
        <4>2. plan' = {Upserted(row, t)}
          <5>1. t.seen # {}
            BY <1>1, <3>3 DEF OneWriter
          <5> QED BY <3>3, <4>1, <5>1 DEF Commit
        <4>3. Upserted(row, t) \in Row
          <5>1. \A c \in Columns : Upserted(row, t)[c] \in {row[c], t.says[c]}
            BY DEF Upserted
          <5>2. /\ Upserted(row, t).sub \in 1..MaxSubs /\ Upserted(row, t).status \in Status
            <6>1. /\ row.sub \in 1..MaxSubs /\ row.status \in Status
                  /\ t.says.sub \in 1..MaxSubs /\ t.says.status \in Status
              BY <1>1 DEF Row
            <6> QED BY <5>1, <6>1 DEF Columns
          <5>3. Upserted(row, t) \in [Columns -> (1..MaxSubs) \cup Status]
            BY <5>2 DEF Upserted, Columns
          <5> QED BY <5>2, <5>3, RowsAreFunctions
        <4> QED BY <4>2, <4>3
      <3> QED BY <3>1, <3>2, <3>3
    <2>5. processed' \subseteq DOMAIN events' /\ newest' \in 0..Len(events')
      <3>1. DOMAIN events = 1..Len(events) /\ Len(events) \in Nat
        BY DEF Types
      <3> QED BY <1>1, <1>2, <3>1 DEF Types
    <2> QED BY <1>1, <1>2, <2>3, <2>4, <2>5 DEF Types
  <1>7. WrittenInTime' /\ CompletionsAsk'
    BY <1>4, <1>5 DEF WrittenInTime, CompletionsAsk, Asking, InTime, Writes, WritesIn,
         FlushedLate, Changed
  <1>8. EventsAreStoredOnce'
    <2>1. \A q \in Running' : request'[q].event = request[q].event
      BY <1>5
    <2>2. \A q \in Running' : request[q].event \notin {t.event} \ {0}
      BY <1>1, <1>4 DEF EventsAreStoredOnce
    <2> QED BY <1>2, <1>4, <2>1, <2>2 DEF EventsAreStoredOnce
  <1>9. ReadsHoldUnlessStale'
    BY <1>4, <1>5 DEF ReadsHoldUnlessStale
  <1>10. RowIsOneChange'
    <2> SUFFICES ASSUME ~t.stale, ~(t.asof < newest)
                 PROVE  plan' = (IF newest' = 0 THEN {} ELSE {events'[newest']})
      BY <1>1, <1>2 DEF RowIsOneChange, Types
    <2>1. newest' = t.asof
      BY <1>1, <1>2 DEF Types
    <2>2. plan' = {t.says}
      BY CommitStoresWhatIsSaid
    <2> QED BY <1>1, <1>2, <2>1, <2>2
  <1>11. EventsAreLostOnlyByCrashOrOverlap'
    <2>1. Claimed \subseteq Claimed' \cup {t.event}
      BY <1>4, <1>5 DEF Claimed
    <2>2. 0 \notin DOMAIN events
      BY DEF Types
    <2>3. Lost' \subseteq Lost
      BY <1>2, <2>1, <2>2 DEF Lost
    <2> QED BY <1>2, <2>3 DEF EventsAreLostOnlyByCrashOrOverlap
  <1>12. OneWriter'
    <2>1. \A q \in Running' :
            request'[q].written = request[q].written /\ request'[q].seen = request[q].seen
      BY <1>5
    <2>2. CASE t.written
      <3>1. \A q \in Running' : ~request'[q].written
        BY <1>1, <1>4, <2>1, <2>2 DEF OneWriter
      <3> QED BY <3>1 DEF OneWriter
    <2>3. CASE ~t.written
      <3>1. plan' = plan
        BY <2>3, Zenon DEF Commit
      <3> QED BY <1>4, <2>1, <3>1 DEF OneWriter
    <2> QED BY <2>2, <2>3
  <1> QED BY <1>6, <1>7, <1>8, <1>9, <1>10, <1>11, <1>12

\* Up to the bound on subscriptions, what follows a row is a row.
LEMMA FollowingAreRows ==
  ASSUME NEW last \in Row, NEW row \in Following(last), row.sub <= MaxSubs
  PROVE  row \in Row
  <1>1. last.sub \in 1..MaxSubs /\ last.status \in Status
    BY DEF Row
  <1>2. \/ \E s \in Status : row = [last EXCEPT !.status = s]
        \/ \E s \in Status : row = [sub |-> last.sub + 1, status |-> s]
    BY <1>1 DEF Following, Status
  <1>3. CASE \E s \in Status : row = [last EXCEPT !.status = s]
    BY <1>3 DEF Row
  <1>4. CASE \E s \in Status : row = [sub |-> last.sub + 1, status |-> s]
    <2>1. row.sub = last.sub + 1
      BY <1>4
    <2>2. row.sub \in 1..MaxSubs
      BY <1>1, <2>1, BoundsAssumption
    <2> QED BY <1>4, <2>1, <2>2 DEF Row
  <1> QED BY <1>2, <1>3, <1>4

\* A change at the provider, which announces a new event, keeps the invariant.
LEMMA ProviderChangesInv ==
  ASSUME IInv, ProviderChanges
  PROVE  IInv'
  <1> USE DEF IInv
  <1>1. PICK row : row \in Row /\ events' = Append(events, row)
    <2>1. PICK row : /\ row \in IF events = <<>>
                                THEN {[sub |-> 1, status |-> s] : s \in {"pending", "active"}}
                                ELSE Following(Last(events))
                    /\ row.sub <= MaxSubs /\ events' = Append(events, row)
      BY DEF ProviderChanges
    <2>2. CASE events = <<>>
      BY <2>1, <2>2, BoundsAssumption DEF Row, Status
    <2>3. CASE events # <<>>
      <3>1. Last(events) \in Row
        BY <2>3 DEF Last, Types
      <3> QED BY <2>1, <2>3, <3>1, FollowingAreRows
    <2> QED BY <2>1, <2>2, <2>3
  <1>2. /\ Len(events) \in Nat /\ Len(events') = Len(events) + 1 /\ events' \in Seq(Row)
        /\ DOMAIN events = 1..Len(events) /\ DOMAIN events' = 1..(Len(events) + 1)
        /\ \A i \in 1..Len(events) : events'[i] = events[i]
    BY <1>1 DEF Types
  <1>3. /\ unanswered' = unanswered \cup {Len(events) + 1}
        /\ UNCHANGED <<plan, processed, request, crashes, newest, disordered, overlapped>>
    BY <1>2 DEF ProviderChanges
  <1>4. Running' = Running /\ Claimed' = Claimed
    BY <1>3 DEF Running, Claimed
  <1>5. Types'
    <2>1. \A t \in Transaction : t \in Transaction' /\ t.asof \in 1..Len(events)
      BY <1>2 DEF Transaction
    <2>2. RequestsAreTransactions'
      BY <1>2, <1>3, <1>4, <2>1 DEF Types, RequestsAreTransactions
    <2>3. Len(events') <= MaxEvents
      BY <1>2, BoundsAssumption DEF ProviderChanges
    <2>4. newest' \in 0..Len(events')
      BY <1>2, <1>3 DEF Types
    <2> QED BY <1>2, <1>3, <2>2, <2>3, <2>4 DEF Types
  <1>6. /\ WrittenInTime' /\ CompletionsAsk' /\ OneWriter' /\ EventsAreStoredOnce'
        /\ ReadsHoldUnlessStale'
    BY <1>3, <1>4 DEF WrittenInTime, CompletionsAsk, Asking, OneWriter, EventsAreStoredOnce,
         ReadsHoldUnlessStale, InTime, Writes, WritesIn, FlushedLate, Changed
  <1>7. RowIsOneChange'
    BY <1>2, <1>3 DEF RowIsOneChange, Types
  <1>8. EventsAreLostOnlyByCrashOrOverlap'
    BY <1>2, <1>3, <1>4 DEF EventsAreLostOnlyByCrashOrOverlap, Lost
  <1> QED BY <1>5, <1>6, <1>7, <1>8

\* A delivery that finds its id inserted by a committed transaction is answered.
LEMMA DuplicateInv ==
  ASSUME IInv, NEW e \in processed, unanswered' = unanswered \ {e},
         UNCHANGED <<events, plan, processed, request, crashes, newest, disordered, overlapped>>
  PROVE  IInv'
  <1> USE DEF IInv
  <1>1. Running' = Running /\ Claimed' = Claimed
    BY DEF Running, Claimed
  <1>2. Types'
    BY <1>1 DEF Types, RequestsAreTransactions, Transaction
  <1>3. /\ WrittenInTime' /\ CompletionsAsk' /\ OneWriter' /\ EventsAreStoredOnce'
        /\ ReadsHoldUnlessStale' /\ RowIsOneChange'
    BY <1>1 DEF WrittenInTime, CompletionsAsk, Asking, OneWriter, EventsAreStoredOnce,
         ReadsHoldUnlessStale, RowIsOneChange,
         InTime, Writes, WritesIn, FlushedLate, Changed
  <1>4. EventsAreLostOnlyByCrashOrOverlap'
    BY <1>1 DEF EventsAreLostOnlyByCrashOrOverlap, Lost
  <1> QED BY <1>2, <1>3, <1>4

-------------------------------------------------------------------------------
\* A transaction that begins is one, and has written nothing.
LEMMA BegunIsTransaction ==
  ASSUME IInv, NEW event \in 0..Len(events), NEW asof \in 1..Len(events),
         NEW stage \in {"begun", "read"}, stage = "begun" => event = 0
  PROVE  LET t == Begun(event, asof, stage, plan) IN
         /\ t \in Transaction /\ t.says = events[t.asof] /\ t.event = event
         /\ t.seen = plan /\ ~t.written /\ InTime(t) /\ Asking(t)
  <1>1. events[asof] \in Row /\ plan \subseteq Row
    BY DEF IInv, Types
  <1> QED BY <1>1 DEF Begun, Transaction, Stages, InTime, Asking

\* So is one that has been answered.
LEMMA AnsweredIsTransaction ==
  ASSUME IInv, NEW r \in Running, ReadyIn(request[r], "read")
  PROVE  LET t == [request[r] EXCEPT !.stage = "answered"] IN
         /\ t \in Transaction /\ t.says = events[t.asof] /\ t.event = request[r].event
         /\ t.written = request[r].written /\ t.seen = request[r].seen
         /\ InTime(t) /\ Asking(t)
         /\ ~t.stale => t.seen = plan
  <1> DEFINE old == request[r]
             t == [old EXCEPT !.stage = "answered"]
  <1>1. old \in Transaction /\ old.says = events[old.asof] /\ old.stage = "read"
    BY DEF IInv, Types, RequestsAreTransactions, ReadyIn
  <1>2. ~old.stale => old.seen = plan
    BY <1>1 DEF IInv, ReadsHoldUnlessStale
  <1>3. "read" = WritesIn(old) /\ Writes(old) => old.written
    BY DEF ReadyIn
  <1> HIDE DEF old
  <1>4. /\ t \in Transaction /\ t.says = old.says /\ t.event = old.event /\ t.asof = old.asof
        /\ t.written = old.written /\ t.stale = old.stale /\ t.seen = old.seen
    BY <1>1 DEF Transaction, Stages
  <1>5. InTime(t)
    <2> HIDE DEF t
    <2>1. WritesIn(t) = (IF FlushedLate(t.says.status) THEN "answered" ELSE "read")
      BY DEF WritesIn
    <2> QED BY <1>3, <1>4 DEF InTime, WritesIn, Writes, Changed
  <1>6. t.stage = "answered"
    BY <1>1 DEF Transaction
  <1> HIDE DEF t
  <1>7. /\ t \in Transaction /\ t.says = events[t.asof] /\ t.event = old.event
        /\ t.written = old.written /\ t.seen = old.seen
        /\ InTime(t) /\ Asking(t)
        /\ ~t.stale => t.seen = plan
    BY <1>1, <1>2, <1>4, <1>5, <1>6 DEF Asking
  <1> QED BY <1>7 DEF t, old

\* Every step keeps the invariant.
LEMMA NextInv == IInv /\ [Next]_vars => IInv'
  <1> SUFFICES ASSUME IInv, [Next]_vars PROVE IInv'
    OBVIOUS
  <1>0. /\ plan \subseteq Row /\ \A sub : Lookup(sub) = plan
        /\ DOMAIN events = 1..Len(events) /\ crashes \in 0..MaxCrashes
    BY LookupFindsTheRow DEF IInv, Types
  <1>1. CASE ProviderChanges
    BY <1>1, ProviderChangesInv
  <1>2. ASSUME NEW w \in Workers, NEW e \in 1..MaxEvents, Deliver(w, e)
        PROVE  IInv'
    <2>1. CASE e \in processed
      <3>1. /\ unanswered' = unanswered \ {e}
            /\ UNCHANGED <<events, plan, processed, request, crashes, newest, disordered, overlapped>>
        BY <1>2, <2>1 DEF Deliver, Claim
      <3> QED BY <2>1, <3>1, DuplicateInv
    <2>2. CASE e \notin processed
      <3> DEFINE t == Begun(e, e, "read", plan)
      <3>1. Claim(w, e) /\ request[w] = Idle /\ e \in 1..Len(events)
        BY <1>0, <1>2, <2>2 DEF Deliver, IInv, Types
      <3>2. /\ t \in Transaction /\ t.says = events[t.asof] /\ t.event = e /\ t.seen = plan
            /\ ~t.written /\ InTime(t) /\ Asking(t)
        <4>1. Len(events) \in Nat
          BY DEF IInv, Types
        <4>2. e \in 0..Len(events)
          BY <3>1, <4>1
        <4> QED BY <1>0, <3>1, <4>2, BegunIsTransaction
      <3>3. Proceeds(w, t)
        <4>1. crashes' \in crashes..MaxCrashes
          BY <1>0, <3>1, BoundsAssumption DEF Claim, Advance
        <4> HIDE DEF t
        <4>2. request' = [request EXCEPT ![w] = t] /\ unanswered' = unanswered
              /\ UNCHANGED <<events, plan, processed, newest, disordered, overlapped>>
          BY <1>0, <3>1 DEF Claim, Advance, t
        <4> QED BY <3>1, <3>2, <4>1, <4>2 DEF Proceeds, Claim
      <3> QED BY <3>3, ProceedsInv DEF Requests
    <2> QED BY <2>1, <2>2
  <1>3. ASSUME NEW w \in Workers, AnswerInVain(w)
        PROVE  IInv'
    <2>1. Proceeds(w, [request[w] EXCEPT !.stage = "answered"])
      <3>1. /\ w \in Running /\ ReadyIn(request[w], "read")
            /\ request' = [request EXCEPT ![w] = [request[w] EXCEPT !.stage = "answered"]]
        BY <1>3 DEF AnswerInVain, ReadyIn, Running, Requests
      <3>2. crashes' \in crashes..MaxCrashes
        BY <1>0, <1>3, BoundsAssumption DEF AnswerInVain
      <3> QED BY <1>3, <3>1, <3>2, AnsweredIsTransaction DEF Proceeds, AnswerInVain, Running
    <2> QED BY <2>1, ProceedsInv DEF Requests
  <1>4. ASSUME NEW c \in Completions, Complete(c)
        PROVE  IInv'
    <2> PICK claim \in DOMAIN events : Advance(c, Begun(0, claim, "begun", plan))
      BY <1>4 DEF Complete
    <2> DEFINE t == Begun(0, claim, "begun", plan)
    <2>1. /\ t \in Transaction /\ t.says = events[t.asof] /\ t.event = 0 /\ t.seen = plan
          /\ ~t.written /\ InTime(t) /\ Asking(t)
      <3>1. Len(events) \in Nat /\ 0 \in 0..Len(events) /\ claim \in 1..Len(events)
        BY <1>0 DEF IInv, Types
      <3> QED BY <3>1, BegunIsTransaction
    <2>2. crashes' \in crashes..MaxCrashes
      BY <1>0, BoundsAssumption DEF Advance
    <2>3. /\ request[c] = Idle /\ request' = [request EXCEPT ![c] = t]
          /\ UNCHANGED <<events, plan, processed, newest, disordered, overlapped, unanswered>>
      BY <1>4 DEF Complete, Advance
    <2> HIDE DEF t
    <2>4. Proceeds(c, t)
      BY <2>1, <2>2, <2>3 DEF Proceeds
    <2> QED BY <2>4, ProceedsInv DEF Requests
  <1>5. ASSUME NEW c \in Completions, Asked(c)
        PROVE  IInv'
    <2> DEFINE old == request[c]
               t == [old EXCEPT !.stage = "asked", !.asof = Len(events)]
    <2>1. /\ c \in Running /\ old \in Transaction /\ old.stage = "begun" /\ old.event = 0 /\ ~old.written
          /\ ~old.stale => old.seen = plan
      BY <1>5 DEF Asked, Running, Requests, IInv, Types, RequestsAreTransactions,
                   CompletionsAsk, Asking, ReadsHoldUnlessStale
    <2>2. CASE Last(events) = old.says /\ Advance(c, t) /\ UNCHANGED unanswered
      <3>1. /\ t \in Transaction /\ t.stage = "asked" /\ t.asof = Len(events)
            /\ t.event = old.event /\ t.says = old.says /\ t.seen = old.seen /\ t.stale = old.stale
            /\ ~t.written
        <4>1. Len(events) \in 1..Len(events)
          BY <2>1 DEF IInv, Types, Transaction
        <4> HIDE DEF old
        <4> QED BY <2>1, <4>1 DEF Transaction, Stages
      <3>2. crashes' \in crashes..MaxCrashes
        BY <1>0, <2>2, BoundsAssumption DEF Advance
      <3>3. /\ old # Idle /\ request' = [request EXCEPT ![c] = t]
            /\ UNCHANGED <<events, plan, processed, newest, disordered, overlapped, unanswered>>
        BY <1>5, <2>2 DEF Asked, Advance
      <3>4. events[Len(events)] = old.says
        BY <2>2 DEF Last
      <3> HIDE DEF t
      <3>5. Proceeds(c, t)
        BY <2>1, <3>1, <3>2, <3>3, <3>4 DEF Proceeds, InTime, Asking
      <3> QED BY <3>5, ProceedsInv DEF Requests
    <2>3. CASE Abandon(c) /\ UNCHANGED <<crashes, overlapped>>
      <3>1. Fails(c)
        BY <2>1, <2>3 DEF Fails
      <3> QED BY <3>1, FailsInv DEF Requests
    <2> QED BY <1>5, <2>2, <2>3 DEF Asked
  <1>6. ASSUME NEW c \in Completions, Verified(c)
        PROVE  IInv'
    <2> DEFINE old == request[c]
               found == Found(old.seen, old.says.sub)
               t == [old EXCEPT !.stage = "read", !.seen = found,
                                !.stale = old.stale /\ old.seen # {}]
    <2>1. /\ c \in Running /\ old \in Transaction /\ old.stage = "asked"
          /\ old.says = events[old.asof] /\ ~old.written
          /\ ~old.stale => old.seen = plan
      BY <1>6 DEF Verified, Running, Requests, IInv, Types, RequestsAreTransactions,
                  CompletionsAsk, Asking, ReadsHoldUnlessStale
    <2>2. found \in SUBSET Row /\ found \in {old.seen, plan} /\ (old.seen = {} => found = plan)
      BY <1>0, <2>1 DEF Found, Transaction
    <2>3. /\ t \in Transaction /\ t.stage = "read" /\ t.event = old.event /\ t.asof = old.asof
          /\ t.says = old.says /\ t.seen = found /\ t.stale = (old.stale /\ old.seen # {})
          /\ ~t.written
      <3> HIDE DEF old, found
      <3> QED BY <2>1, <2>2 DEF Transaction, Stages
    <2>4. crashes' \in crashes..MaxCrashes
      BY <1>0, <1>6, BoundsAssumption DEF Verified, Advance
    <2>5. /\ old # Idle /\ request' = [request EXCEPT ![c] = t]
          /\ UNCHANGED <<events, plan, processed, newest, disordered, overlapped, unanswered>>
      BY <1>6 DEF Verified, Advance
    <2> HIDE DEF t, found
    <2>6. ~t.stale => t.seen = plan
      BY <2>1, <2>2, <2>3
    <2>7. Proceeds(c, t)
      BY <2>1, <2>3, <2>4, <2>5, <2>6 DEF Proceeds, InTime, Asking
    <2> QED BY <2>7, ProceedsInv DEF Requests
  <1>7. ASSUME NEW r \in Requests, WriteRow(r)
        PROVE  IInv'
    <2> DEFINE t == [request[r] EXCEPT !.written = TRUE]
    <2>1. r \in Running /\ request[r] \in Transaction /\ request[r].stage \in {"read", "answered"}
      BY <1>7 DEF WriteRow, WritesIn, Running, IInv, Types, RequestsAreTransactions
    <2>2. CASE Advance(r, t) /\ UNCHANGED unanswered /\ (request[r].seen = {} => plan = {})
      <3>1. /\ t \in Transaction /\ t.written /\ t.event = request[r].event
            /\ t.says = events[t.asof] /\ t.stage \in {"read", "answered"}
            /\ t.seen = request[r].seen /\ (~t.stale => t.seen = plan)
        BY <2>1 DEF Transaction, IInv, Types, RequestsAreTransactions, ReadsHoldUnlessStale
      <3>2. crashes' \in crashes..MaxCrashes
        BY <1>0, <2>2, BoundsAssumption DEF Advance
      <3>3. /\ request' = [request EXCEPT ![r] = t] /\ RowFree /\ request[r] # Idle
            /\ UNCHANGED <<events, plan, processed, newest, disordered, overlapped, unanswered>>
        BY <1>7, <2>2 DEF WriteRow, Advance
      <3>5. t.seen = {} => plan = {}
        BY <2>2, <3>1
      <3> HIDE DEF t
      <3>4. Proceeds(r, t)
        BY <3>1, <3>2, <3>3, <3>5 DEF Proceeds, InTime, Asking
      <3> QED BY <3>4, ProceedsInv
    <2>3. CASE /\ request[r].seen = {} /\ plan # {} /\ Abandon(r) /\ UNCHANGED crashes
               /\ overlapped' = (overlapped \/ request[r].stale)
      <3>1. Fails(r)
        BY <2>1, <2>3 DEF Fails
      <3> QED BY <3>1, FailsInv
    <2> QED BY <1>7, <2>2, <2>3 DEF WriteRow
  <1>8. ASSUME NEW r \in Requests, Answer(r)
        PROVE  IInv'
    <2>1. Proceeds(r, [request[r] EXCEPT !.stage = "answered"])
      <3>1. /\ r \in Running /\ ReadyIn(request[r], "read")
            /\ request' = [request EXCEPT ![r] = [request[r] EXCEPT !.stage = "answered"]]
            /\ unanswered' = unanswered \ {request[r].event}
            /\ UNCHANGED <<events, plan, processed, crashes, newest, disordered, overlapped>>
        BY <1>8 DEF Answer, Advance, ReadyIn, Running
      <3>2. crashes' \in crashes..MaxCrashes
        BY <1>0, <3>1, BoundsAssumption
      <3> QED BY <3>1, <3>2, AnsweredIsTransaction DEF Proceeds, Running
    <2> QED BY <2>1, ProceedsInv
  <1>9. ASSUME NEW r \in Requests, Commit(r)
        PROVE  IInv'
    BY <1>9, CommitInv
  <1>10. ASSUME NEW r \in Requests, Crash(r)
        PROVE  IInv'
    <2>1. crashes' \in (crashes + 1)..MaxCrashes
      BY <1>0, <1>10, BoundsAssumption DEF Crash
    <2>2. Fails(r)
      BY <1>10, <2>1 DEF Fails, Crash, Running
    <2> QED BY <2>2, FailsInv
  <1>11. CASE UNCHANGED vars
    BY <1>11 DEF vars, IInv, Types, RequestsAreTransactions, Transaction, Running, WrittenInTime,
         InTime, Writes, WritesIn, Changed, FlushedLate, CompletionsAsk, Asking, OneWriter,
         EventsAreStoredOnce, ReadsHoldUnlessStale, RowIsOneChange,
         EventsAreLostOnlyByCrashOrOverlap, Lost, Claimed
  <1> QED BY <1>1, <1>2, <1>3, <1>4, <1>5, <1>6, <1>7, <1>8, <1>9, <1>10, <1>11 DEF Next

-------------------------------------------------------------------------------
\* The inductive invariant, for any number of requests, events and subscriptions.
THEOREM BillingInvariance == Spec => []IInv
  BY InitInv, NextInv, PTL DEF Spec

\* A set whose members are all equal holds at most one.
LEMMA AtMostOne ==
  ASSUME NEW S, \A x, y \in S : x = y
  PROVE  Cardinality(S) <= 1
  <1>1. S = {} \/ \E x : S = {x}
    OBVIOUS
  <1>2. Cardinality(S) = 0 \/ Cardinality(S) = 1
    BY <1>1, FS_EmptySet, FS_Singleton, Zenon
  <1> QED BY <1>2

\* Tables and transactions are well formed, and plan_subscriptions has one row per user:
\* an INSERT fails if another transaction has committed one.
THEOREM BillingTypes == Spec => []TypeOK
  <1>1. IInv => TypeOK
    <2> SUFFICES ASSUME IInv PROVE TypeOK
      OBVIOUS
    <2>1. Cardinality(plan) <= 1
      BY AtMostOne DEF IInv, Types
    <2> QED BY <2>1 DEF IInv, Types, RequestsAreTransactions, TypeOK
  <1> QED BY <1>1, BillingInvariance, PTL

\* try_claim_dodo_webhook_id lets one delivery of an event through, whatever overlaps.
THEOREM OneTransactionPerEvent == Spec => []EventsAreStoredOnce
  <1>1. IInv => EventsAreStoredOnce
    BY DEF IInv
  <1> QED BY <1>1, BillingInvariance, PTL

\* _upsert_plan_subscription leaves the columns of one change, which both its columns
\* come from, if no two requests overlap and changes come in order.
THEOREM RowsAreChanges == Spec => []RowIsOneChange
  <1>1. IInv => RowIsOneChange
    BY DEF IInv
  <1> QED BY <1>1, BillingInvariance, PTL

\* dodo_webhook answers before the commit: an event is lost by a crash in between, or
\* by an INSERT that another request's has overtaken, and by nothing else.
THEOREM LossNeedsCrashOrOverlap == Spec => []EventsAreLostOnlyByCrashOrOverlap
  <1>1. IInv => EventsAreLostOnlyByCrashOrOverlap
    BY DEF IInv
  <1> QED BY <1>1, BillingInvariance, PTL

===============================================================================
