--------------------------- MODULE DeviceTokensProofs ---------------------------
(***************************************************************************)
(* The safety of DeviceTokens for any codes and any number of requests:    *)
(* its five invariants are consequences of one inductive invariant, and so *)
(* is that waiting circles of any length mix the two orders of locking.    *)
(***************************************************************************)
EXTENDS DeviceTokens, FiniteSetTheorems, WellFoundedInduction, TLAPS

\* Which requests write access tokens before the refresh token.
AccessFirst == {"refresh", "revoke access"}
RefreshFirst == {"revoke app", "revoke refresh"}
Single == {"activate", "deactivate"}
Kinds == {"exchange"} \cup AccessFirst \cup RefreshFirst \cup Single

Points == {"begin", "token", "flush", "refresh tokens", "access tokens", "access", "refresh",
           "commit"}

\* The rows that are updated; codes are locked besides.
Rows == {"app", "refresh", "access"} \X Nat
CodeRows == {"code"} \X Codes
AccessRows == {"access"} \X Nat

RequestRecord ==
  [kind : Kinds, on : Codes \cup Nat, app : Nat, at : Points, old : Nat, marks : SUBSET Nat,
   ends : BOOLEAN, want : SUBSET Rows, holds : SUBSET (Rows \cup CodeRows)]

\* The order in which the revocation of an app or of a refresh token writes.
Precedes(row, other) ==
  \/ row[1] = "app" /\ other[1] \in {"refresh", "access"}
  \/ row[1] = "refresh" /\ other[1] = "access"
  \/ row[1] = "access" /\ other[1] = "access" /\ row[2] < other[2]

\* What a request may hold and want, by where it is.  The other way round, nobody that
\* waits for the refresh token holds more than access tokens.
AccessThenRefresh(r) ==
  /\ \A row, other \in r.want : row = other
  /\ r.at # "commit" => r.holds \cup r.want \subseteq AccessRows
  /\ r.want # {} /\ r.holds # {} => r.holds \subseteq AccessRows /\ r.want = {RefreshRow(r.app)}

RefreshThenAccess(r) ==
  /\ \A row \in r.holds, other \in r.want : Precedes(row, other)
  /\ r.at = "refresh tokens" => r.holds \cup r.want \subseteq {AppRow(r.app)}
  /\ r.at = "access tokens" =>
       r.want \subseteq {RefreshRow(r.app)} /\ r.holds \subseteq {AppRow(r.app), RefreshRow(r.app)}
  /\ r.at = "access" => r.holds \cup r.want \subseteq {RefreshRow(r.app)}
  /\ r.at = "commit" => r.want \subseteq AccessRows
  /\ r.at \in {"begin", "refresh tokens", "access tokens", "access", "commit"}

Locks(r) ==
  /\ r.at \in {"begin", "token"} => r.want = {} /\ r.holds = {}
  /\ r.kind \in AccessFirst => AccessThenRefresh(r)
  /\ r.kind \in RefreshFirst => RefreshThenAccess(r)
  /\ r.kind \in Single => r.want \subseteq {AppRow(r.app)} /\ (r.want = {} \/ r.holds = {})
  /\ r.kind = "exchange" => r.want = {}

\* A request is about rows there are.
AboutRows(r) ==
  /\ r.kind = "exchange" => r.on \in Codes
  /\ r.kind # "exchange" => r.app \in Apps
  /\ r.kind = "revoke access" => r.on \in DOMAIN access

ExchangeFits(r) ==
  r.kind = "exchange" /\ r.at # "begin" =>
    r.at = "commit" /\ CodeRow(r.on) \in r.holds /\ r.on \notin used

\* What was revoked before the refresh read its token, it has seen.  The token that it
\* replaces is the only one there is, but for forgotten ones.
RefreshFits(t, r) ==
  r.kind = "refresh" /\ r.at # "begin" =>
    /\ r.old \in DOMAIN access
    /\ r.app \in withdrawn => t \in overlapped
    /\ Live(r.app) \ doubled \subseteq {r.old}
    /\ r.at # "token" => r.old \in r.marks \/ r.old \notin Live(r.app)

\* A revocation that is about to commit has marked every token but those of refreshes
\* that it overlaps.
RevokeFits(r) ==
  r.kind = "revoke app" =>
    /\ r.at \in {"access tokens", "commit"} => r.ends \/ refresh[r.app].revoked
    /\ r.at = "commit" => Live(r.app) \subseteq r.marks \cup overlapped

Fits(t, r) ==
  /\ r \in RequestRecord /\ AboutRows(r) /\ Locks(r)
  /\ ExchangeFits(r) /\ RefreshFits(t, r) /\ RevokeFits(r)

RequestsFit == \A t \in DOMAIN running : Fits(t, running[t])

Types ==
  /\ used \subseteq Codes /\ active \subseteq Apps
  /\ origin \in [Apps -> used \cup {"earlier"}]
  /\ refresh \in [Apps -> [access : DOMAIN access, revoked : BOOLEAN]]
  /\ access \in [DOMAIN access -> [app : Apps, revoked : BOOLEAN]]
  /\ \A a \in Apps : access[refresh[a].access].app = a
  /\ requests \in 0..MaxRequests
  /\ running = [t \in DOMAIN running |-> running[t]]
  /\ DOMAIN running \subseteq 1..requests
  /\ Apps \cup DOMAIN access \subseteq (0..requests) \ DOMAIN running
  /\ withdrawn \subseteq Apps /\ overlapped \cup doubled \subseteq 1..requests

\* Nobody else holds the row of a code that an exchange has taken.
CodesAreHeldOnce ==
  \A t, u \in DOMAIN running :
    running[t].kind = "exchange" /\ running[t].at # "begin"
      /\ CodeRow(running[t].on) \in running[u].holds => t = u

RevokedForGood == \A a \in withdrawn : refresh[a].revoked

\* The token that is not forgotten is the one the refresh token points to.
OneIsCurrent == \A a \in Apps : Live(a) \ doubled \subseteq {refresh[a].access}

IInv ==
  /\ Types /\ RequestsFit
  /\ CodesAreHeldOnce /\ OneDevicePerCode
  /\ RevokedForGood /\ RevocationStands
  /\ OneIsCurrent
  /\ DeadlocksMixOrders

-------------------------------------------------------------------------------
\* A set of numbers that is not empty has a least one.
LEMMA LeastNumber ==
  ASSUME NEW S, S \subseteq Nat, S # {}
  PROVE  \E x \in S : \A y \in S : x <= y
<1>1. PICK n \in S : TRUE
  OBVIOUS
<1> DEFINE Below(x) == {y \in S : y < x}
           Prefixes == {Below(x) : x \in {y \in S : y <= n}}
           R == StrictSubsetOrdering(0..n)
<1>2. n \in Nat /\ \A y \in S : y \in Nat
  BY <1>1
<1>3. Prefixes \subseteq SUBSET (0..n)
  <2>1. ASSUME NEW x \in S, x <= n PROVE \A y \in Below(x) : y \in 0..n
    BY <1>2, <2>1
  <2> QED BY <2>1
<1>4. Below(n) \in Prefixes
  BY <1>1, <1>2
<1>5. IsFiniteSet(0..n)
  BY <1>2, FS_Interval
<1>6. IsWellFoundedOn(R, SUBSET (0..n))
  BY <1>5, FS_FiniteSubsetsOfFinite, FS_StrictSubsetOrderingWellFounded
<1>7. PICK T \in Prefixes : \A U \in Prefixes : <<U, T>> \notin R
  <2> HIDE DEF Prefixes, R
  <2> QED BY <1>3, <1>4, <1>6, WFMin, Zenon
<1>8. PICK x \in S : x <= n /\ T = Below(x)
  BY <1>7
<1>9. ASSUME NEW y \in S, y < x PROVE FALSE
  <2>1. Below(y) \in Prefixes
    BY <1>2, <1>8, <1>9
  <2>2. y \in Below(x) /\ y \notin Below(y)
    BY <1>2, <1>9
  <2>3. \A z \in Below(y) : z \in Below(x)
    BY <1>2, <1>9
  <2> HIDE DEF Below, Prefixes
  <2>4. <<Below(y), Below(x)>> \in R
    BY <2>1, <2>2, <2>3, <1>3, <1>7, <1>8 DEF StrictSubsetOrdering
  <2> QED BY <2>1, <2>4, <1>7, <1>8
<1> QED BY <1>2, <1>9

\* Putting a row into a table.
LEMMA PutFacts ==
  ASSUME NEW table, NEW key, NEW row
  PROVE  /\ DOMAIN Put(table, key, row) = DOMAIN table \cup {key}
         /\ Put(table, key, row)[key] = row
         /\ \A k \in DOMAIN table \ {key} : Put(table, key, row)[k] = table[k]
         /\ Put(table, key, row) = [k \in DOMAIN table \cup {key} |-> Put(table, key, row)[k]]
BY DEF Put

-------------------------------------------------------------------------------
\* Nothing runs and nothing is issued: the invariant holds at the start.
LEMMA InitInv == Init => IInv
<1> SUFFICES ASSUME Init PROVE IInv
  OBVIOUS
<1>1. Apps = {0} /\ DOMAIN access = {0} /\ DOMAIN running = {} /\ Live(0) = {0}
  BY DEF Init, Apps, Live
<1>2. Types
  BY <1>1, BoundAssumption DEF Init, Types
<1>3. OneIsCurrent
  BY <1>1 DEF Init, OneIsCurrent
<1>4. OneDevicePerCode
  BY <1>1 DEF OneDevicePerCode
<1> QED
  BY <1>1, <1>2, <1>3, <1>4
  DEF Init, IInv, RequestsFit, CodesAreHeldOnce, RevokedForGood, RevocationStands,
      DeadlocksMixOrders

\* What does not change the rows or the history changes nothing for a request.
LEMMA StillFits ==
  ASSUME NEW t \in DOMAIN running', t \in DOMAIN running, running'[t] = running[t],
         RequestsFit, UNCHANGED <<used, refresh, access, withdrawn, overlapped, doubled>>
  PROVE  Fits(t, running[t])'
<1> DEFINE r == running[t]
<1>1. Fits(t, r)
  BY DEF RequestsFit
<1>2. AboutRows(running[t])'
  BY <1>1 DEF Fits, AboutRows, Apps
<1>3. ExchangeFits(running[t])'
  BY <1>1 DEF Fits, ExchangeFits
<1>4. RefreshFits(t, running[t])'
  BY <1>1 DEF Fits, RefreshFits, Live
<1>5. RevokeFits(running[t])'
  BY <1>1 DEF Fits, RevokeFits, Live
<1> QED BY <1>1, <1>2, <1>3, <1>4, <1>5 DEF Fits

\* A request begins.
Starts(r) ==
  /\ requests < MaxRequests /\ requests' = requests + 1
  /\ running' = Put(running, requests', r)
  /\ UNCHANGED <<rows, history>>
  /\ r.at = "begin" /\ r \in RequestRecord /\ AboutRows(r) /\ Locks(r)

\* A request that starts keeps the invariant.
LEMMA StartsInv ==
  ASSUME IInv, NEW r, Starts(r)
  PROVE  IInv'
<1>1. /\ UNCHANGED <<used, active, origin, refresh, access, withdrawn, overlapped, doubled,
                     deadlocks>>
      /\ requests' = requests + 1 /\ requests' \in 0..MaxRequests /\ requests \in Nat
  BY BoundAssumption DEF Starts, rows, history, IInv, Types
<1>2. /\ DOMAIN running' = DOMAIN running \cup {requests'}
      /\ running'[requests'] = r
      /\ running' = [t \in DOMAIN running' |-> running'[t]]
      /\ requests' \notin DOMAIN running
      /\ \A t \in DOMAIN running : running'[t] = running[t]
  <2>1. DOMAIN running \subseteq 1..requests
    BY DEF IInv, Types
  <2>2. requests' \notin DOMAIN running
    BY <2>1, <1>1
  <2> QED BY <2>2 DEF Put, Starts
<1>3. Types'
  <2>1. Types
    BY DEF IInv
  <2>2. DOMAIN running' \subseteq 1..requests'
    BY <2>1, <1>1, <1>2 DEF Types
  <2>3. Apps \cup DOMAIN access \subseteq (0..requests') \ DOMAIN running'
    BY <2>1, <1>1, <1>2 DEF Types
  <2>4. overlapped \cup doubled \subseteq 1..requests'
    BY <2>1, <1>1 DEF Types
  <2> QED BY <2>1, <2>2, <2>3, <2>4, <1>1, <1>2 DEF Types, Apps
<1>4. RequestsFit'
  <2> SUFFICES ASSUME NEW t \in DOMAIN running' PROVE Fits(t, running[t])'
    BY DEF RequestsFit
  <2>1. CASE t \in DOMAIN running
    BY <2>1, <1>1, <1>2, StillFits DEF IInv
  <2>2. CASE t = requests'
    <3>1. running'[t] = r
      BY <2>2, <1>2
    <3> QED BY <3>1, <1>1
        DEF Starts, Fits, AboutRows, ExchangeFits, RefreshFits, RevokeFits, Apps, RequestRecord
  <2> QED BY <2>1, <2>2, <1>2
<1>5. r.holds = {}
  BY DEF Starts, Locks
<1>6. CodesAreHeldOnce'
  BY <1>1, <1>2, <1>5 DEF IInv, CodesAreHeldOnce, Starts
<1> QED
  BY <1>1, <1>3, <1>4, <1>6
  DEF IInv, OneDevicePerCode, RevokedForGood, RevocationStands, OneIsCurrent, DeadlocksMixOrders,
      Apps, Live

\* Whatever kind of request begins, and on whatever row, the invariant holds.
LEMMA BeginInv ==
  ASSUME IInv, NEW kind \in Kinds, NEW on \in Codes \cup Nat, NEW app \in Nat,
         kind = "exchange" => on \in Codes,
         kind # "exchange" => app \in Apps,
         kind = "revoke access" => on \in DOMAIN access,
         Begin(kind, on, app)
  PROVE  IInv'
<1> DEFINE r == Request(kind, on, app)
<1>1. /\ r.kind = kind /\ r.on = on /\ r.app = app /\ r.at = "begin"
      /\ r.want = {} /\ r.holds = {}
      /\ r \in RequestRecord
  BY DEF Request, RequestRecord, Points
<1>2. AboutRows(r) /\ Locks(r)
  BY <1>1 DEF AboutRows, Locks, AccessThenRefresh, RefreshThenAccess
<1>3. Starts(r)
  BY <1>1, <1>2 DEF Starts, Begin
<1> QED BY <1>3, StartsInv

\* A request that goes on: it stays what it is, and takes no code's row but a free one
\* that is its own.
Proceeds(t, r) ==
  /\ Step(t, r) /\ Fits(t, r)
  /\ r.kind = running[t].kind /\ r.on = running[t].on /\ r.app = running[t].app
  /\ \A row \in r.holds \ running[t].holds :
       row[1] = "code" => r.kind = "exchange" /\ row = CodeRow(r.on) /\ ~Hidden(r.on)
  /\ running[t].at # "begin" \/ r.kind # "exchange" \/ ~Hidden(r.on)

\* A request that goes on, its locks as they were or more, keeps the invariant.
LEMMA ProceedsInv ==
  ASSUME IInv, NEW t \in DOMAIN running, NEW r, Proceeds(t, r)
  PROVE  IInv'
<1>1. UNCHANGED <<used, active, origin, refresh, access, requests, withdrawn, overlapped, doubled,
                  deadlocks>>
  BY DEF Proceeds, Step, rows, history
<1>2. /\ DOMAIN running' = DOMAIN running /\ running'[t] = r
      /\ running' = [u \in DOMAIN running' |-> running'[u]]
      /\ \A u \in DOMAIN running \ {t} : running'[u] = running[u]
  BY DEF Proceeds, Step, IInv, Types
<1>3. Types'
  BY <1>1, <1>2 DEF IInv, Types, Apps
<1>4. RequestsFit'
  <2> SUFFICES ASSUME NEW u \in DOMAIN running' PROVE Fits(u, running[u])'
    BY DEF RequestsFit
  <2>1. CASE u # t
    BY <2>1, <1>1, <1>2, StillFits DEF IInv
  <2>2. CASE u = t
    <3>1. running'[u] = r /\ Fits(u, r)
      BY <2>2, <1>2 DEF Proceeds
    <3>2. AboutRows(running[u])'
      BY <3>1, <1>1 DEF Fits, AboutRows, Apps
    <3>3. ExchangeFits(running[u])'
      BY <3>1, <1>1 DEF Fits, ExchangeFits
    <3>4. RefreshFits(u, running[u])'
      BY <3>1, <1>1 DEF Fits, RefreshFits, Live
    <3>5. RevokeFits(running[u])'
      BY <3>1, <1>1 DEF Fits, RevokeFits, Live
    <3> QED BY <3>1, <3>2, <3>3, <3>4, <3>5 DEF Fits
  <2> QED BY <2>1, <2>2
<1>5. CodesAreHeldOnce'
  <2> SUFFICES ASSUME NEW u \in DOMAIN running, NEW v \in DOMAIN running, u # v,
                      running'[u].kind = "exchange", running'[u].at # "begin",
                      CodeRow(running'[u].on) \in running'[v].holds
               PROVE  FALSE
    BY <1>2 DEF CodesAreHeldOnce
  <2>1. CodeRow(running'[u].on)[1] = "code" /\ running'[u].on = running[u].on
        /\ running'[u].kind = running[u].kind
    BY <1>2 DEF CodeRow, Proceeds
  <2>2. CASE v = t
    <3>1. running'[u] = running[u] /\ running'[v] = r
      BY <2>2, <1>2
    <3>2. CodeRow(running[u].on) \in running[u].holds
      BY <3>1 DEF IInv, RequestsFit, Fits, ExchangeFits
    <3>3. CodeRow(running[u].on) \notin running[t].holds
      BY <2>2, <3>1 DEF IInv, CodesAreHeldOnce
    <3> QED BY <2>1, <2>2, <3>1, <3>2, <3>3 DEF Proceeds, Hidden, Holder, CodeRow
  <2>3. CASE v # t
    <3>1. CodeRow(running[u].on) \in running[v].holds
      BY <2>1, <2>3, <1>2
    <3>2. running[u].at = "begin"
      BY <2>1, <3>1 DEF IInv, CodesAreHeldOnce
    <3>3. u = t
      BY <3>2, <1>2
    <3> QED BY <2>1, <3>1, <3>2, <3>3, <1>2 DEF Proceeds, Hidden, Holder
  <2> QED BY <2>2, <2>3
<1> QED
  BY <1>1, <1>3, <1>4, <1>5
  DEF IInv, OneDevicePerCode, RevokedForGood, RevocationStands, OneIsCurrent, DeadlocksMixOrders,
      Apps, Live


\* A request that ends without storing anything.
LEMMA GoneInv ==
  ASSUME IInv, NEW t \in DOMAIN running, running' = Without(running, t),
         UNCHANGED <<rows, requests, withdrawn, overlapped, doubled>>,
         DeadlocksMixOrders'
  PROVE  IInv'
<1>1. UNCHANGED <<used, active, origin, refresh, access, requests, withdrawn, overlapped, doubled>>
  BY DEF rows
<1>2. /\ DOMAIN running' = DOMAIN running \ {t}
      /\ running' = [u \in DOMAIN running' |-> running'[u]]
      /\ \A u \in DOMAIN running \ {t} : running'[u] = running[u]
  BY DEF Without
<1>3. Types'
  BY <1>1, <1>2 DEF IInv, Types, Apps
<1>4. RequestsFit'
  <2> SUFFICES ASSUME NEW u \in DOMAIN running' PROVE Fits(u, running[u])'
    BY DEF RequestsFit
  <2> QED BY <1>1, <1>2, StillFits DEF IInv
<1>5. CodesAreHeldOnce'
  BY <1>2 DEF IInv, CodesAreHeldOnce
<1> QED
  BY <1>1, <1>3, <1>4, <1>5
  DEF IInv, OneDevicePerCode, RevokedForGood, RevocationStands, OneIsCurrent, Apps, Live

\* A request that ends and releases its locks keeps the invariant.
LEMMA EndInv ==
  ASSUME IInv, NEW t \in DOMAIN running, End(t)
  PROVE  IInv'
<1>1. DeadlocksMixOrders'
  BY DEF End, history, IInv, DeadlocksMixOrders
<1> QED BY <1>1, GoneInv DEF End, history

-------------------------------------------------------------------------------
\* The next row is one of those wanted, and comes before the others of its table.
LEMMA NextRowIsFirst ==
  ASSUME IInv, NEW t \in DOMAIN running, running[t].want # {}
  PROVE  /\ NextRow(t) \in running[t].want
         /\ \A row \in running[t].want : NextRow(t)[2] <= row[2]
<1> DEFINE want == running[t].want
           keys == {row[2] : row \in want}
<1>1. Fits(t, running[t]) /\ running[t] \in RequestRecord
  BY DEF IInv, RequestsFit, Fits
<1>2. \A row \in want : row \in Rows
  BY <1>1 DEF RequestRecord
<1>3. \A row \in want : row[2] \in Nat
  BY <1>2 DEF Rows
<1>4. keys \subseteq Nat /\ keys # {}
  BY <1>3
<1>5. PICK key \in keys : \A other \in keys : key <= other
  <2> HIDE DEF keys
  <2> QED BY <1>4, LeastNumber
<1>6. PICK row \in want : key = row[2]
  OBVIOUS
<1>7. \A other \in want : row[2] <= other[2]
  BY <1>5, <1>6
<1> QED BY <1>6, <1>7 DEF NextRow

\* Nobody has to wait for a request that goes the way of its own, if it goes through
\* access tokens first: it wants the refresh token and holds access tokens.
LEMMA AccessFirstWaits ==
  ASSUME IInv, NEW t \in DOMAIN running, NEW u \in DOMAIN running, Waits(t, u),
         running[t].kind \in AccessFirst, running[t].holds # {}
  PROVE  NextRow(t)[1] = "refresh" /\ \A row \in running[t].holds : row[1] = "access"
<1>1. AccessThenRefresh(running[t])
  BY DEF IInv, RequestsFit, Fits, Locks
<1>2. running[t].holds \subseteq AccessRows /\ running[t].want = {RefreshRow(running[t].app)}
  BY <1>1 DEF AccessThenRefresh, Waits
<1>3. NextRow(t) = RefreshRow(running[t].app)
  BY <1>2, NextRowIsFirst DEF Waits
<1> QED BY <1>2, <1>3 DEF RefreshRow, AccessRows

\* Those that go the other way want what comes after all they hold.
LEMMA RefreshFirstWaits ==
  ASSUME IInv, NEW t \in DOMAIN running, NEW u \in DOMAIN running, Waits(t, u),
         running[t].kind \in RefreshFirst, NEW row \in running[t].holds
  PROVE  Precedes(row, NextRow(t))
<1>1. RefreshThenAccess(running[t])
  BY DEF IInv, RequestsFit, Fits, Locks
<1> QED BY <1>1, NextRowIsFirst DEF RefreshThenAccess, Waits

\* Who waits and is waited for is neither an exchange nor an update.
LEMMA BothWaits ==
  ASSUME IInv, NEW t \in DOMAIN running, NEW u \in DOMAIN running, NEW v \in DOMAIN running,
         Waits(t, u), Waits(v, t)
  PROVE  /\ running[t].kind \in AccessFirst \cup RefreshFirst
         /\ NextRow(v) \in running[t].holds
         /\ NextRow(v) \in Rows
<1>1. running[t] \in RequestRecord /\ Locks(running[t]) /\ running[v] \in RequestRecord
  BY DEF IInv, RequestsFit, Fits
<1>2. running[t].want # {} /\ NextRow(v) \in running[t].holds
  BY DEF Waits, Holder
<1>3. running[t].kind \in AccessFirst \cup RefreshFirst
  BY <1>1, <1>2 DEF Locks, RequestRecord, Kinds
<1>4. NextRow(v) \in running[v].want
  BY NextRowIsFirst DEF Waits
<1>5. NextRow(v) \in Rows
  BY <1>1, <1>4 DEF RequestRecord
<1> QED BY <1>2, <1>3, <1>5

\* Of two requests, or three, that wait for one another, two go different ways.
LEMMA PairMixesOrders ==
  ASSUME IInv, NEW t \in DOMAIN running, NEW u \in DOMAIN running, Waits(t, u), Waits(u, t)
  PROVE  /\ {running[t].kind, running[u].kind} \cap AccessFirst # {}
         /\ {running[t].kind, running[u].kind} \cap RefreshFirst # {}
<1>1. /\ running[t].kind \in AccessFirst \cup RefreshFirst
      /\ running[u].kind \in AccessFirst \cup RefreshFirst
      /\ NextRow(u) \in running[t].holds /\ NextRow(t) \in running[u].holds
      /\ NextRow(t) \in Rows /\ NextRow(u) \in Rows
  BY BothWaits
<1>2. CASE running[t].kind \in AccessFirst /\ running[u].kind \in AccessFirst
  <2>1. NextRow(t)[1] = "refresh"
    BY <1>1, <1>2, AccessFirstWaits
  <2>2. NextRow(t)[1] = "access"
    BY <1>1, <1>2, AccessFirstWaits
  <2> QED BY <2>1, <2>2
<1>3. CASE running[t].kind \in RefreshFirst /\ running[u].kind \in RefreshFirst
  <2>1. Precedes(NextRow(u), NextRow(t)) /\ Precedes(NextRow(t), NextRow(u))
    BY <1>1, <1>3, RefreshFirstWaits
  <2>2. NextRow(t)[2] \in Nat /\ NextRow(u)[2] \in Nat
    BY <1>1 DEF Rows
  <2> QED BY <2>1, <2>2 DEF Precedes
<1> QED BY <1>1, <1>2, <1>3

\* Requests that wait on one another in a ring of three lock rows in both orders.
LEMMA ThreeMixOrders ==
  ASSUME IInv, NEW t \in DOMAIN running, NEW u \in DOMAIN running, NEW v \in DOMAIN running,
         Waits(t, u), Waits(u, v), Waits(v, t)
  PROVE  /\ {running[t].kind, running[u].kind, running[v].kind} \cap AccessFirst # {}
         /\ {running[t].kind, running[u].kind, running[v].kind} \cap RefreshFirst # {}
<1>1. /\ running[t].kind \in AccessFirst \cup RefreshFirst
      /\ NextRow(v) \in running[t].holds /\ NextRow(v) \in Rows
  BY BothWaits
<1>2. /\ running[u].kind \in AccessFirst \cup RefreshFirst
      /\ NextRow(t) \in running[u].holds /\ NextRow(t) \in Rows
  BY BothWaits
<1>3. /\ running[v].kind \in AccessFirst \cup RefreshFirst
      /\ NextRow(u) \in running[v].holds /\ NextRow(u) \in Rows
  BY BothWaits
<1>4. CASE running[t].kind \in AccessFirst /\ running[u].kind \in AccessFirst
  <2>1. NextRow(t)[1] = "refresh"
    BY <1>1, <1>4, AccessFirstWaits
  <2>2. NextRow(t)[1] = "access"
    BY <1>2, <1>4, AccessFirstWaits
  <2> QED BY <2>1, <2>2
<1>5. CASE /\ running[t].kind \in RefreshFirst /\ running[u].kind \in RefreshFirst
           /\ running[v].kind \in RefreshFirst
  <2>1. /\ Precedes(NextRow(v), NextRow(t)) /\ Precedes(NextRow(t), NextRow(u))
        /\ Precedes(NextRow(u), NextRow(v))
    BY <1>1, <1>2, <1>3, <1>5, RefreshFirstWaits
  <2>2. NextRow(t)[2] \in Nat /\ NextRow(u)[2] \in Nat /\ NextRow(v)[2] \in Nat
    BY <1>1, <1>2, <1>3 DEF Rows
  <2> QED BY <2>1, <2>2 DEF Precedes
<1>6. CASE running[u].kind \in AccessFirst /\ running[v].kind \in AccessFirst
  <2>1. NextRow(u)[1] = "refresh"
    BY <1>2, <1>6, AccessFirstWaits
  <2>2. NextRow(u)[1] = "access"
    BY <1>3, <1>6, AccessFirstWaits
  <2> QED BY <2>1, <2>2
<1>7. CASE running[v].kind \in AccessFirst /\ running[t].kind \in AccessFirst
  <2>1. NextRow(v)[1] = "refresh"
    BY <1>3, <1>7, AccessFirstWaits
  <2>2. NextRow(v)[1] = "access"
    BY <1>1, <1>7, AccessFirstWaits
  <2> QED BY <2>1, <2>2
<1> QED BY <1>1, <1>2, <1>3, <1>4, <1>5, <1>6, <1>7

\* In a finite set, a relation that is transitive and relates nothing to itself leaves
\* some element with none after it.
LEMMA SomeAreLast ==
  ASSUME NEW S, IsFiniteSet(S), S # {}, NEW R,
         \A x \in S : <<x, x>> \notin R,
         \A x \in S, y \in S, z \in S : <<x, y>> \in R /\ <<y, z>> \in R => <<x, z>> \in R
  PROVE  \E x \in S : \A y \in S : <<x, y>> \notin R
<1> DEFINE After(x) == {y \in S : <<x, y>> \in R}
           Afters == {After(x) : x \in S}
           Smaller == StrictSubsetOrdering(S)
<1>1. Afters \subseteq SUBSET S /\ Afters # {}
  <2>1. PICK s \in S : TRUE
    OBVIOUS
  <2>2. After(s) \in Afters
    BY <2>1
  <2>3. \A U \in Afters : U \subseteq S
    OBVIOUS
  <2> HIDE DEF Afters
  <2> QED BY <2>2, <2>3
<1>2. IsWellFoundedOn(Smaller, SUBSET S)
  BY FS_FiniteSubsetsOfFinite, FS_StrictSubsetOrderingWellFounded
<1>3. PICK T \in Afters : \A U \in Afters : <<U, T>> \notin Smaller
  <2> HIDE DEF Afters, Smaller
  <2> QED BY <1>1, <1>2, WFMin, Zenon
<1>4. PICK x \in S : T = After(x)
  BY <1>3
<1>5. ASSUME NEW y \in S, <<x, y>> \in R PROVE FALSE
  <2>1. After(y) \in Afters
    BY <1>5
  <2>2. y \in After(x) /\ y \notin After(y)
    BY <1>5
  <2>3. \A z \in After(y) : z \in After(x)
    BY <1>4, <1>5
  <2> HIDE DEF After, Afters
  <2>4. <<After(y), After(x)>> \in Smaller
    BY <1>1, <1>3, <1>4, <2>1, <2>2, <2>3 DEF StrictSubsetOrdering
  <2> QED BY <1>3, <1>4, <2>1, <2>4
<1> QED BY <1>5

\* Requests of a set that all wait within it, and the kinds of requests in a set.
Circle(S) == S # {} /\ \A t \in S : \E u \in S : Waits(t, u)
KindsOf(S) == {running[t].kind : t \in S}

\* Requests that lock access tokens first do not wait in a circle: who is waited for holds
\* access tokens and waits for a refresh token, which nobody else in the circle holds.
LEMMA AccessFirstAlone ==
  ASSUME IInv, NEW S, S \subseteq DOMAIN running, Circle(S)
  PROVE  KindsOf(S) \cap RefreshFirst # {}
<1> SUFFICES ASSUME \A t \in S : running[t].kind \notin RefreshFirst PROVE FALSE
  BY DEF KindsOf
<1>1. PICK t \in S : TRUE
  BY DEF Circle
<1>2. PICK u \in S : Waits(t, u)
  BY DEF Circle
<1>3. PICK v \in S : Waits(u, v)
  BY DEF Circle
<1>4. PICK w \in S : Waits(v, w)
  BY DEF Circle
<1>5. running[u].kind \in AccessFirst /\ running[u].holds # {}
  BY <1>2, <1>3, BothWaits
<1>6. running[v].kind \in AccessFirst /\ NextRow(u) \in running[v].holds
  BY <1>3, <1>4, BothWaits
<1>7. NextRow(u)[1] = "refresh"
  BY <1>3, <1>5, AccessFirstWaits
<1>8. NextRow(u)[1] = "access"
  BY <1>4, <1>6, AccessFirstWaits
<1> QED BY <1>7, <1>8

\* Nor do those that lock in the order of keys: of those waited for, each wants a row after
\* the one that is wanted of it, and some row wanted is the last.
LEMMA RefreshFirstAlone ==
  ASSUME IInv, NEW S, S \subseteq DOMAIN running, Circle(S)
  PROVE  KindsOf(S) \cap AccessFirst # {}
<1> SUFFICES ASSUME \A t \in S : running[t].kind \notin AccessFirst PROVE FALSE
  BY DEF KindsOf
<1> DEFINE Awaited == {u \in S : \E t \in S : Waits(t, u)}
           R == {pair \in Awaited \X Awaited :
                   Precedes(NextRow(pair[1]), NextRow(pair[2]))}
<1>1. IsFiniteSet(Awaited)
  <2>1. requests \in Nat /\ DOMAIN running \subseteq 1..requests
    BY BoundAssumption DEF IInv, Types
  <2>2. IsFiniteSet(1..requests)
    BY <2>1, FS_Interval
  <2>3. Awaited \subseteq 1..requests
    BY <2>1
  <2> HIDE DEF Awaited
  <2> QED BY <2>2, <2>3, FS_Subset
<1>2. \A u \in Awaited : \E v \in Awaited : Waits(u, v)
  BY DEF Circle
<1>3. Awaited # {}
  <2>1. PICK t \in S : TRUE
    BY DEF Circle
  <2>2. PICK u \in S : Waits(t, u)
    BY DEF Circle
  <2> QED BY <2>1, <2>2
<1>4. ASSUME NEW u \in Awaited, NEW v \in Awaited, Waits(u, v)
      PROVE  NextRow(u) \in Rows /\ Precedes(NextRow(u), NextRow(v))
  <2>1. PICK w \in S : Waits(v, w)
    BY DEF Circle
  <2>2. running[v].kind \in RefreshFirst /\ NextRow(u) \in running[v].holds /\ NextRow(u) \in Rows
    BY <1>4, <2>1, BothWaits
  <2> QED BY <2>1, <2>2, RefreshFirstWaits
<1>5. \A u \in Awaited : NextRow(u) \in Rows
  BY <1>2, <1>4
<1> HIDE DEF Awaited
<1>6. \A u \in Awaited : <<u, u>> \notin R
  <2> SUFFICES ASSUME NEW u \in Awaited, Precedes(NextRow(u), NextRow(u)) PROVE FALSE
    OBVIOUS
  <2> QED BY <1>5 DEF Precedes, Rows
<1>7. ASSUME NEW x \in Awaited, NEW y \in Awaited, NEW z \in Awaited,
             <<x, y>> \in R, <<y, z>> \in R
      PROVE  <<x, z>> \in R
  <2>1. Precedes(NextRow(x), NextRow(y)) /\ Precedes(NextRow(y), NextRow(z))
    BY <1>7
  <2>2. NextRow(x)[2] \in Nat /\ NextRow(y)[2] \in Nat /\ NextRow(z)[2] \in Nat
    BY <1>5 DEF Rows
  <2>3. Precedes(NextRow(x), NextRow(z))
    BY <2>1, <2>2 DEF Precedes
  <2> QED BY <2>3
<1>8. PICK x \in Awaited : \A y \in Awaited : <<x, y>> \notin R
  <2> HIDE DEF R
  <2> QED BY <1>1, <1>3, <1>6, <1>7, SomeAreLast
<1>9. PICK y \in Awaited : Waits(x, y)
  BY <1>2
<1> QED BY <1>4, <1>8, <1>9

\* A request that the database picks to break a deadlock keeps the invariant.
LEMMA GiveUpInv ==
  ASSUME IInv, NEW t \in DOMAIN running, GiveUp(t)
  PROVE  IInv'
<1>1. ASSUME NEW cycle \in Cycle(t)
      PROVE  /\ {running[u].kind : u \in cycle} \cap AccessFirst # {}
             /\ {running[u].kind : u \in cycle} \cap RefreshFirst # {}
  <2>1. CASE \E u \in DOMAIN running : cycle = {t, u} /\ Waits(t, u) /\ Waits(u, t)
    <3>1. PICK u \in DOMAIN running : cycle = {t, u} /\ Waits(t, u) /\ Waits(u, t)
      BY <2>1
    <3>2. {running[w].kind : w \in cycle} = {running[t].kind, running[u].kind}
      BY <3>1
    <3> QED BY <3>1, <3>2, PairMixesOrders
  <2>2. CASE \E p \in (DOMAIN running) \X (DOMAIN running) :
               cycle = {t, p[1], p[2]} /\ Waits(t, p[1]) /\ Waits(p[1], p[2]) /\ Waits(p[2], t)
    <3>1. PICK u \in DOMAIN running, v \in DOMAIN running :
                 cycle = {t, u, v} /\ Waits(t, u) /\ Waits(u, v) /\ Waits(v, t)
      BY <2>2
    <3>2. {running[w].kind : w \in cycle} = {running[t].kind, running[u].kind, running[v].kind}
      BY <3>1
    <3> QED BY <3>1, <3>2, ThreeMixOrders
  <2> QED BY <2>1, <2>2 DEF Cycle
<1>2. deadlocks' = deadlocks \cup {{running[u].kind : u \in cycle} : cycle \in Cycle(t)}
  BY DEF GiveUp
<1>3. DeadlocksMixOrders'
  BY <1>1, <1>2 DEF IInv, DeadlocksMixOrders, AccessFirst, RefreshFirst
<1> QED BY <1>3, GoneInv DEF GiveUp

-------------------------------------------------------------------------------
\* Writing a row, which takes its lock, keeps the invariant.
LEMMA WriteInv ==
  ASSUME IInv, NEW t \in DOMAIN running, Write(t)
  PROVE  IInv'
<1> DEFINE old == running[t]
           row == NextRow(t)
           next == [old EXCEPT !.want = @ \ {row}, !.holds = @ \cup {row}]
<1>1. Fits(t, old) /\ old \in RequestRecord /\ Locks(old)
  BY DEF IInv, RequestsFit, Fits
<1>2. /\ row \in old.want /\ row \in Rows /\ old.want # {} /\ old.at # "begin"
      /\ \A other \in old.want : row[2] <= other[2]
  BY <1>1, NextRowIsFirst DEF Write, RequestRecord, Locks
<1>3. /\ next.kind = old.kind /\ next.on = old.on /\ next.app = old.app /\ next.at = old.at
      /\ next.old = old.old /\ next.marks = old.marks /\ next.ends = old.ends
      /\ next.want = old.want \ {row} /\ next.holds = old.holds \cup {row}
      /\ next \in RequestRecord
  BY <1>1, <1>2 DEF RequestRecord
<1> HIDE DEF next
<1>4. ASSUME AccessThenRefresh(old) PROVE AccessThenRefresh(next)
  BY <1>2, <1>3, <1>4 DEF AccessThenRefresh
<1>5. ASSUME RefreshThenAccess(old) PROVE RefreshThenAccess(next)
  <2>1. ASSUME NEW other \in next.want PROVE Precedes(row, other)
    <3>1. old.at = "commit"
      BY <1>2, <1>3, <1>5, <2>1 DEF RefreshThenAccess
    <3>2. row \in AccessRows /\ other \in AccessRows /\ row # other
      BY <1>2, <1>3, <1>5, <2>1, <3>1 DEF RefreshThenAccess
    <3>3. row[1] = "access" /\ other[1] = "access" /\ row[2] # other[2]
          /\ row[2] \in Nat /\ other[2] \in Nat
      BY <3>2 DEF AccessRows
    <3> QED BY <1>2, <1>3, <3>3 DEF Precedes
  <2>2. \A held \in next.holds, other \in next.want : Precedes(held, other)
    BY <1>3, <1>5, <2>1 DEF RefreshThenAccess
  <2> QED BY <1>2, <1>3, <1>5, <2>2 DEF RefreshThenAccess
<1>6. Locks(next)
  BY <1>1, <1>2, <1>3, <1>4, <1>5 DEF Locks
<1>7. AboutRows(next) /\ ExchangeFits(next)
  BY <1>1, <1>3 DEF Fits, AboutRows, ExchangeFits
<1>8. RefreshFits(t, next) /\ RevokeFits(next)
  BY <1>1, <1>3 DEF Fits, RefreshFits, RevokeFits
<1>9. row[1] # "code"
  BY <1>2 DEF Rows
<1>10. Proceeds(t, next)
  BY <1>1, <1>2, <1>3, <1>6, <1>7, <1>8, <1>9 DEF Proceeds, Fits, Write, next
<1> QED BY <1>10, ProceedsInv

\* Reading the connection code keeps the invariant.
LEMMA FindCodeInv ==
  ASSUME IInv, NEW t \in DOMAIN running, FindCode(t)
  PROVE  IInv'
<1> DEFINE old == running[t]
           next == [old EXCEPT !.at = "commit", !.holds = {CodeRow(old.on)}]
<1>1. CASE End(t)
  BY <1>1, EndInv
<1>2. CASE Step(t, next) /\ ~Hidden(old.on) /\ old.on \notin used
  <2>1. /\ Fits(t, old) /\ old \in RequestRecord /\ AboutRows(old) /\ Locks(old)
        /\ old.kind = "exchange" /\ old.at = "begin"
    BY DEF IInv, RequestsFit, Fits, FindCode, At
  <2>2. CodeRow(old.on) \in CodeRows
    BY <2>1 DEF AboutRows, CodeRow, CodeRows
  <2>3. /\ next.kind = old.kind /\ next.on = old.on /\ next.app = old.app /\ next.at = "commit"
        /\ next.want = old.want /\ next.holds = {CodeRow(old.on)}
        /\ next \in RequestRecord
    BY <2>1, <2>2 DEF RequestRecord, Points
  <2> HIDE DEF next
  <2>4. Locks(next)
    BY <2>1, <2>3 DEF Locks, AccessFirst, RefreshFirst, Single
  <2>5. AboutRows(next) /\ ExchangeFits(next) /\ RefreshFits(t, next) /\ RevokeFits(next)
    BY <1>2, <2>1, <2>3 DEF AboutRows, ExchangeFits, RefreshFits, RevokeFits
  <2>6. Proceeds(t, next)
    BY <1>2, <2>1, <2>3, <2>4, <2>5 DEF Proceeds, Fits
  <2> QED BY <2>6, ProceedsInv
<1> QED BY <1>1, <1>2 DEF FindCode

\* The steps of the other requests take no rows.
Finds(t, r) ==
  /\ Step(t, r)
  /\ r \in RequestRecord /\ Locks(r) /\ RefreshFits(t, r) /\ RevokeFits(r)
  /\ r.kind = running[t].kind /\ r.on = running[t].on /\ r.app = running[t].app
  /\ r.holds = running[t].holds
  /\ r.kind # "exchange"

\* A request that has found the row it will lock keeps the invariant.
LEMMA FindsInv ==
  ASSUME IInv, NEW t \in DOMAIN running, NEW r, Finds(t, r)
  PROVE  IInv'
<1>1. Fits(t, running[t])
  BY DEF IInv, RequestsFit
<1>2. AboutRows(r) /\ ExchangeFits(r)
  BY <1>1 DEF Finds, Fits, AboutRows, ExchangeFits
<1>3. Proceeds(t, r)
  BY <1>2 DEF Finds, Proceeds, Fits
<1> QED BY <1>3, ProceedsInv

\* The keys of the tables are numbers.
LEMMA KeysAreNumbers ==
  ASSUME IInv
  PROVE  /\ requests \in Nat
         /\ \A a \in Apps : a \in Nat /\ refresh[a].access \in DOMAIN access
         /\ \A x \in DOMAIN access : x \in Nat
         /\ \A a : Live(a) \subseteq DOMAIN access
<1>1. requests \in Nat /\ Apps \cup DOMAIN access \subseteq 0..requests
  BY BoundAssumption DEF IInv, Types
<1>2. \A a \in Apps : refresh[a].access \in DOMAIN access
  BY DEF IInv, Types
<1> QED BY <1>1, <1>2 DEF Live

\* Reading the refresh token keeps the invariant.
LEMMA FindTokenInv ==
  ASSUME IInv, NEW t \in DOMAIN running, FindToken(t)
  PROVE  IInv'
<1> DEFINE old == running[t]
           token == refresh[old.app]
           next == [old EXCEPT !.old = token.access, !.at = "token"]
<1>1. CASE End(t)
  BY <1>1, EndInv
<1>2. CASE Step(t, next) /\ ~token.revoked
  <2>1. /\ old \in RequestRecord /\ Locks(old) /\ AboutRows(old)
        /\ old.kind = "refresh" /\ old.at = "begin"
    BY DEF IInv, RequestsFit, Fits, FindToken, At
  <2>2. old.app \in Apps /\ token.access \in Nat
    BY <2>1, KeysAreNumbers DEF AboutRows
  <2>3. /\ next.kind = old.kind /\ next.on = old.on /\ next.app = old.app /\ next.at = "token"
        /\ next.old = token.access /\ next.want = old.want /\ next.holds = old.holds
        /\ next \in RequestRecord
    BY <2>1, <2>2 DEF RequestRecord, Points
  <2> HIDE DEF next
  <2>4. Locks(next)
    BY <2>1, <2>3 DEF Locks, RefreshFirst, Single, AccessThenRefresh
  <2>5. /\ Live(old.app) \ doubled \subseteq {token.access} /\ old.app \notin withdrawn
        /\ token.access \in DOMAIN access
    BY <1>2, <2>2, KeysAreNumbers DEF IInv, OneIsCurrent, RevokedForGood
  <2>6. RefreshFits(t, next) /\ RevokeFits(next)
    BY <2>1, <2>3, <2>5 DEF RefreshFits, RevokeFits
  <2>7. Finds(t, next)
    BY <1>2, <2>1, <2>3, <2>4, <2>6 DEF Finds
  <2> QED BY <2>7, FindsInv
<1> QED BY <1>1, <1>2 DEF FindToken

\* Reading the access token that is replaced keeps the invariant.
LEMMA FindOldAccessInv ==
  ASSUME IInv, NEW t \in DOMAIN running, FindOldAccess(t)
  PROVE  IInv'
<1> DEFINE old == running[t]
           marks == Replaces(old.old)
           next == [old EXCEPT !.marks = marks, !.want = {AccessRow(x) : x \in marks},
                               !.at = "flush"]
<1>1. /\ old \in RequestRecord /\ Locks(old) /\ RefreshFits(t, old)
      /\ old.kind = "refresh" /\ old.at = "token"
  BY DEF IInv, RequestsFit, Fits, FindOldAccess, At
<1>2. marks \subseteq {old.old} /\ old.old \in Nat
  BY <1>1 DEF Replaces, RequestRecord
<1>3. {AccessRow(x) : x \in marks} \subseteq AccessRows /\ AccessRows \subseteq Rows
  BY <1>2 DEF AccessRow, AccessRows, Rows
<1>4. /\ next.kind = old.kind /\ next.on = old.on /\ next.app = old.app /\ next.at = "flush"
      /\ next.old = old.old /\ next.marks = marks /\ next.want = {AccessRow(x) : x \in marks}
      /\ next.holds = old.holds
      /\ next \in RequestRecord
  BY <1>1, <1>2, <1>3 DEF RequestRecord, Points
<1>5. Step(t, next)
  BY DEF FindOldAccess, RowsOf, Writes
<1> HIDE DEF next
<1>6. Locks(next)
  BY <1>1, <1>2, <1>3, <1>4 DEF Locks, RefreshFirst, Single, AccessThenRefresh
<1>7. old.old \in marks \/ old.old \notin Live(old.app)
  BY DEF Replaces, Live
<1>8. RefreshFits(t, next) /\ RevokeFits(next)
  BY <1>1, <1>4, <1>7 DEF RefreshFits, RevokeFits
<1>9. Finds(t, next)
  BY <1>1, <1>4, <1>5, <1>6, <1>8 DEF Finds
<1> QED BY <1>9, FindsInv

\* Going on to point the refresh token at the new access token keeps the invariant.
LEMMA PointToNewInv ==
  ASSUME IInv, NEW t \in DOMAIN running, PointToNew(t)
  PROVE  IInv'
<1> DEFINE old == running[t]
           next == [old EXCEPT !.want = {RefreshRow(old.app)}, !.at = "commit"]
<1>1. /\ old \in RequestRecord /\ Locks(old) /\ RefreshFits(t, old)
      /\ old.kind = "refresh" /\ old.at = "flush"
  BY DEF IInv, RequestsFit, Fits, PointToNew, At
<1>2. RefreshRow(old.app) \in Rows
  BY <1>1 DEF RefreshRow, Rows, RequestRecord
<1>3. /\ next.kind = old.kind /\ next.on = old.on /\ next.app = old.app /\ next.at = "commit"
      /\ next.old = old.old /\ next.marks = old.marks /\ next.want = {RefreshRow(old.app)}
      /\ next.holds = old.holds
      /\ next \in RequestRecord
  BY <1>1, <1>2 DEF RequestRecord, Points
<1>4. Step(t, next)
  BY DEF PointToNew, RowsOf, Writes
<1> HIDE DEF next
<1>5. Locks(next)
  BY <1>1, <1>3 DEF Locks, AccessFirst, RefreshFirst, Single, AccessThenRefresh
<1>6. RefreshFits(t, next) /\ RevokeFits(next)
  BY <1>1, <1>3 DEF RefreshFits, RevokeFits
<1>7. Finds(t, next)
  BY <1>1, <1>3, <1>4, <1>5, <1>6 DEF Finds
<1> QED BY <1>7, FindsInv

\* Reading the connected app keeps the invariant.
LEMMA FindAppInv ==
  ASSUME IInv, NEW t \in DOMAIN running, FindApp(t)
  PROVE  IInv'
<1> DEFINE old == running[t]
           want == IF old.app \in active THEN {AppRow(old.app)} ELSE {}
           next == [old EXCEPT !.want = want, !.at = "refresh tokens"]
<1>1. /\ old \in RequestRecord /\ Locks(old)
      /\ old.kind = "revoke app" /\ old.at = "begin"
  BY DEF IInv, RequestsFit, Fits, FindApp, At
<1>2. want \subseteq {AppRow(old.app)} /\ AppRow(old.app) \in Rows
  BY <1>1 DEF AppRow, Rows, RequestRecord
<1>3. /\ next.kind = old.kind /\ next.on = old.on /\ next.app = old.app
      /\ next.at = "refresh tokens" /\ next.want = want /\ next.holds = old.holds
      /\ next \in RequestRecord
  BY <1>1, <1>2 DEF RequestRecord, Points
<1>4. Step(t, next)
  BY DEF FindApp
<1> HIDE DEF next, want
<1>5. Locks(next)
  BY <1>1, <1>2, <1>3 DEF Locks, AccessFirst, Single, RefreshThenAccess
<1>6. RefreshFits(t, next) /\ RevokeFits(next)
  BY <1>1, <1>3 DEF RefreshFits, RevokeFits
<1>7. Finds(t, next)
  BY <1>1, <1>3, <1>4, <1>5, <1>6 DEF Finds
<1> QED BY <1>7, FindsInv

\* Listing the app's refresh tokens keeps the invariant.
LEMMA FindRefreshTokensInv ==
  ASSUME IInv, NEW t \in DOMAIN running, FindRefreshTokens(t)
  PROVE  IInv'
<1> DEFINE old == running[t]
           ends == ~refresh[old.app].revoked
           want == IF ends THEN {RefreshRow(old.app)} ELSE {}
           next == [old EXCEPT !.ends = ends, !.want = want, !.at = "access tokens"]
<1>1. /\ old \in RequestRecord /\ Locks(old)
      /\ old.kind = "revoke app" /\ old.at = "refresh tokens"
  BY DEF IInv, RequestsFit, Fits, FindRefreshTokens, At
<1>2. want \subseteq {RefreshRow(old.app)} /\ RefreshRow(old.app) \in Rows /\ ends \in BOOLEAN
  BY <1>1 DEF RefreshRow, Rows, RequestRecord
<1>3. /\ next.kind = old.kind /\ next.on = old.on /\ next.app = old.app
      /\ next.at = "access tokens" /\ next.ends = ends /\ next.want = want
      /\ next.holds = old.holds
      /\ next \in RequestRecord
  BY <1>1, <1>2 DEF RequestRecord, Points
<1>4. Step(t, next)
  BY DEF FindRefreshTokens
<1>5. next.ends \/ refresh[next.app].revoked
  BY <1>3
<1> HIDE DEF next, want, ends
<1>6. \A row \in next.holds, other \in next.want : Precedes(row, other)
  <2>1. \A row \in next.holds, other \in next.want :
          row = AppRow(old.app) /\ other = RefreshRow(old.app)
    BY <1>1, <1>2, <1>3 DEF Locks, RefreshFirst, RefreshThenAccess
  <2>2. Precedes(AppRow(old.app), RefreshRow(old.app))
    BY DEF Precedes, AppRow, RefreshRow
  <2> QED BY <2>1, <2>2
<1>7. Locks(next)
  BY <1>1, <1>2, <1>3, <1>6 DEF Locks, AccessFirst, RefreshFirst, Single, RefreshThenAccess
<1>8. RefreshFits(t, next) /\ RevokeFits(next)
  BY <1>1, <1>3, <1>5 DEF RefreshFits, RevokeFits
<1>9. Finds(t, next)
  BY <1>1, <1>3, <1>4, <1>7, <1>8 DEF Finds
<1> QED BY <1>9, FindsInv

\* The last step of a revocation wants access tokens, which come after all it holds.
LEMMA WantsAccess ==
  ASSUME NEW r, NEW next, Locks(r), r.kind \in RefreshFirst, r.at \in {"access tokens", "access"},
         next.kind = r.kind, next.app = r.app, next.at = "commit", next.holds = r.holds,
         next.want \subseteq AccessRows
  PROVE  Locks(next)
<1>1. \A row \in r.holds : row = AppRow(r.app) \/ row = RefreshRow(r.app)
  BY DEF Locks, RefreshThenAccess
<1>2. \A other \in next.want : other[1] = "access"
  BY DEF AccessRows
<1>3. \A row \in next.holds, other \in next.want : Precedes(row, other)
  <2>1. AppRow(r.app)[1] = "app" /\ RefreshRow(r.app)[1] = "refresh"
    BY DEF AppRow, RefreshRow
  <2>2. \A row \in r.holds : row[1] \in {"app", "refresh"}
    BY <1>1, <2>1
  <2> QED BY <1>2, <2>2 DEF Precedes
<1> QED BY <1>3 DEF Locks, AccessFirst, RefreshFirst, Single, RefreshThenAccess

\* Listing the app's access tokens keeps the invariant.
LEMMA FindAccessTokensInv ==
  ASSUME IInv, NEW t \in DOMAIN running, FindAccessTokens(t)
  PROVE  IInv'
<1> DEFINE old == running[t]
           marks == Live(old.app)
           want == {AccessRow(x) : x \in marks}
           next == [old EXCEPT !.marks = marks, !.want = want, !.at = "commit"]
<1>1. /\ old \in RequestRecord /\ Locks(old) /\ RevokeFits(old)
      /\ old.kind = "revoke app" /\ old.at = "access tokens"
  BY DEF IInv, RequestsFit, Fits, FindAccessTokens, At
<1>2. \A x \in marks : x \in Nat
  BY KeysAreNumbers
<1>3. want \subseteq AccessRows /\ AccessRows \subseteq Rows
  BY <1>2 DEF AccessRow, AccessRows, Rows
<1>4. /\ next.kind = old.kind /\ next.on = old.on /\ next.app = old.app
      /\ next.at = "commit" /\ next.ends = old.ends /\ next.marks = marks /\ next.want = want
      /\ next.holds = old.holds
      /\ next \in RequestRecord
  BY <1>1, <1>2, <1>3 DEF RequestRecord, Points
<1>5. Step(t, next)
  BY DEF FindAccessTokens, RevokedWith
<1>6. Live(old.app) \subseteq next.marks
  BY <1>4
<1> HIDE DEF next, want, marks
<1>7. Locks(next)
  BY <1>1, <1>3, <1>4, WantsAccess DEF RefreshFirst
<1>8. RefreshFits(t, next) /\ RevokeFits(next)
  BY <1>1, <1>4, <1>6 DEF RefreshFits, RevokeFits
<1>9. Finds(t, next)
  BY <1>1, <1>4, <1>5, <1>7, <1>8 DEF Finds
<1> QED BY <1>9, FindsInv

\* Reading the token to revoke keeps the invariant.
LEMMA FindRevokedInv ==
  ASSUME IInv, NEW t \in DOMAIN running, FindRevoked(t)
  PROVE  IInv'
<1> DEFINE old == running[t]
           token == refresh[old.app]
           next == [old EXCEPT !.old = token.access, !.ends = TRUE,
                               !.want = {RefreshRow(old.app)}, !.at = "access"]
<1>1. CASE End(t)
  BY <1>1, EndInv
<1>2. CASE Step(t, next)
  <2>1. /\ old \in RequestRecord /\ Locks(old) /\ AboutRows(old)
        /\ old.kind = "revoke refresh" /\ old.at = "begin"
    BY DEF IInv, RequestsFit, Fits, FindRevoked, At
  <2>2. RefreshRow(old.app) \in Rows /\ token.access \in Nat
    BY <2>1, KeysAreNumbers DEF RefreshRow, Rows, RequestRecord, AboutRows
  <2>3. /\ next.kind = old.kind /\ next.on = old.on /\ next.app = old.app
        /\ next.at = "access" /\ next.want = {RefreshRow(old.app)} /\ next.holds = old.holds
        /\ next \in RequestRecord
    BY <2>1, <2>2 DEF RequestRecord, Points
  <2> HIDE DEF next
  <2>4. Locks(next)
    BY <2>1, <2>3 DEF Locks, AccessFirst, Single, RefreshThenAccess
  <2>5. RefreshFits(t, next) /\ RevokeFits(next)
    BY <2>1, <2>3 DEF RefreshFits, RevokeFits
  <2>6. Finds(t, next)
    BY <1>2, <2>1, <2>3, <2>4, <2>5 DEF Finds
  <2> QED BY <2>6, FindsInv
<1> QED BY <1>1, <1>2 DEF FindRevoked

\* Reading the access token of a revoked refresh token keeps the invariant.
LEMMA FindItsAccessInv ==
  ASSUME IInv, NEW t \in DOMAIN running, FindItsAccess(t)
  PROVE  IInv'
<1> DEFINE old == running[t]
           marks == {old.old} \cap Live(old.app)
           want == {AccessRow(x) : x \in marks}
           next == [old EXCEPT !.marks = marks, !.want = want, !.at = "commit"]
<1>1. /\ old \in RequestRecord /\ Locks(old)
      /\ old.kind = "revoke refresh" /\ old.at = "access"
  BY DEF IInv, RequestsFit, Fits, FindItsAccess, At
<1>2. \A x \in marks : x \in Nat
  BY <1>1 DEF RequestRecord
<1>3. want \subseteq AccessRows /\ AccessRows \subseteq Rows
  BY <1>2 DEF AccessRow, AccessRows, Rows
<1>4. /\ next.kind = old.kind /\ next.on = old.on /\ next.app = old.app
      /\ next.at = "commit" /\ next.want = want /\ next.holds = old.holds
      /\ next \in RequestRecord
  BY <1>1, <1>2, <1>3 DEF RequestRecord, Points
<1>5. Step(t, next)
  BY DEF FindItsAccess
<1> HIDE DEF next, want
<1>6. Locks(next)
  BY <1>1, <1>3, <1>4, WantsAccess DEF RefreshFirst
<1>7. RefreshFits(t, next) /\ RevokeFits(next)
  BY <1>1, <1>4 DEF RefreshFits, RevokeFits
<1>8. Finds(t, next)
  BY <1>1, <1>4, <1>5, <1>6, <1>7 DEF Finds
<1> QED BY <1>8, FindsInv

\* Reading the access token to revoke keeps the invariant.
LEMMA FindRevokedAccessInv ==
  ASSUME IInv, NEW t \in DOMAIN running, FindRevokedAccess(t)
  PROVE  IInv'
<1> DEFINE old == running[t]
           next == [old EXCEPT !.marks = {old.on}, !.want = {AccessRow(old.on)},
                               !.at = "refresh"]
<1>1. CASE End(t)
  BY <1>1, EndInv
<1>2. CASE Step(t, next)
  <2>1. /\ old \in RequestRecord /\ Locks(old) /\ AboutRows(old)
        /\ old.kind = "revoke access" /\ old.at = "begin"
    BY DEF IInv, RequestsFit, Fits, FindRevokedAccess, At
  <2>2. old.on \in Nat
    BY <2>1, KeysAreNumbers DEF AboutRows
  <2>3. AccessRow(old.on) \in AccessRows /\ AccessRow(old.on) \in Rows
    BY <2>2 DEF AccessRow, AccessRows, Rows
  <2>4. /\ next.kind = old.kind /\ next.on = old.on /\ next.app = old.app
        /\ next.at = "refresh" /\ next.want = {AccessRow(old.on)} /\ next.holds = old.holds
        /\ next \in RequestRecord
    BY <2>1, <2>2, <2>3 DEF RequestRecord, Points
  <2> HIDE DEF next
  <2>5. Locks(next)
    BY <2>1, <2>3, <2>4 DEF Locks, RefreshFirst, Single, AccessThenRefresh
  <2>6. RefreshFits(t, next) /\ RevokeFits(next)
    BY <2>1, <2>4 DEF RefreshFits, RevokeFits
  <2>7. Finds(t, next)
    BY <1>2, <2>1, <2>4, <2>5, <2>6 DEF Finds
  <2> QED BY <2>7, FindsInv
<1> QED BY <1>1, <1>2 DEF FindRevokedAccess

\* Reading the refresh token of a revoked access token keeps the invariant.
LEMMA FindItsRefreshInv ==
  ASSUME IInv, NEW t \in DOMAIN running, FindItsRefresh(t)
  PROVE  IInv'
<1> DEFINE old == running[t]
           ends == ~refresh[old.app].revoked
           want == IF ends THEN {RefreshRow(old.app)} ELSE {}
           next == [old EXCEPT !.ends = ends, !.want = want, !.at = "commit"]
<1>1. /\ old \in RequestRecord /\ Locks(old)
      /\ old.kind = "revoke access" /\ old.at = "refresh"
  BY DEF IInv, RequestsFit, Fits, FindItsRefresh, At
<1>2. want \subseteq {RefreshRow(old.app)} /\ RefreshRow(old.app) \in Rows /\ ends \in BOOLEAN
  BY <1>1 DEF RefreshRow, Rows, RequestRecord
<1>3. want # {} => want = {RefreshRow(old.app)}
  OBVIOUS
<1>4. /\ next.kind = old.kind /\ next.on = old.on /\ next.app = old.app
      /\ next.at = "commit" /\ next.want = want /\ next.holds = old.holds
      /\ next \in RequestRecord
  BY <1>1, <1>2 DEF RequestRecord, Points
<1>5. Step(t, next)
  BY DEF FindItsRefresh
<1> HIDE DEF next, want, ends
<1>6. Locks(next)
  BY <1>1, <1>2, <1>3, <1>4 DEF Locks, AccessFirst, RefreshFirst, Single, AccessThenRefresh
<1>7. RefreshFits(t, next) /\ RevokeFits(next)
  BY <1>1, <1>4 DEF RefreshFits, RevokeFits
<1>8. Finds(t, next)
  BY <1>1, <1>4, <1>5, <1>6, <1>7 DEF Finds
<1> QED BY <1>8, FindsInv

\* Reading the app to activate or deactivate keeps the invariant.
LEMMA FindUpdatedInv ==
  ASSUME IInv, NEW t \in DOMAIN running, FindUpdated(t)
  PROVE  IInv'
<1> DEFINE old == running[t]
           next == [old EXCEPT !.want = {AppRow(old.app)}, !.at = "commit"]
<1>1. CASE End(t)
  BY <1>1, EndInv
<1>2. CASE Step(t, next)
  <2>1. /\ old \in RequestRecord /\ Locks(old)
        /\ old.kind \in Single /\ old.at = "begin"
    BY DEF IInv, RequestsFit, Fits, FindUpdated, At, Single
  <2>2. AppRow(old.app) \in Rows
    BY <2>1 DEF AppRow, Rows, RequestRecord
  <2>3. /\ next.kind = old.kind /\ next.on = old.on /\ next.app = old.app
        /\ next.at = "commit" /\ next.want = {AppRow(old.app)} /\ next.holds = old.holds
        /\ next \in RequestRecord
    BY <2>1, <2>2 DEF RequestRecord, Points
  <2> HIDE DEF next
  <2>4. Locks(next)
    BY <2>1, <2>3 DEF Locks, AccessFirst, RefreshFirst, Single
  <2>5. RefreshFits(t, next) /\ RevokeFits(next)
    BY <2>1, <2>3 DEF RefreshFits, RevokeFits, Single
  <2>6. Finds(t, next)
    BY <1>2, <2>1, <2>3, <2>4, <2>5 DEF Finds, Single
  <2> QED BY <2>6, FindsInv
<1> QED BY <1>1, <1>2 DEF FindUpdated

-------------------------------------------------------------------------------
\* A request that commits is gone; the codes that the others hold are held once.
LEMMA CommitFacts ==
  ASSUME IInv, NEW t \in DOMAIN running, Ended(t)
  PROVE  /\ Fits(t, running[t]) /\ running[t].at = "commit"
         /\ DOMAIN running' = DOMAIN running \ {t}
         /\ running' = [u \in DOMAIN running' |-> running'[u]]
         /\ \A u \in DOMAIN running' : running'[u] = running[u]
         /\ CodesAreHeldOnce'
         /\ t \in 1..requests /\ t \notin Apps /\ t \notin DOMAIN access
<1>1. /\ DOMAIN running' = DOMAIN running \ {t}
      /\ running' = [u \in DOMAIN running' |-> running'[u]]
      /\ \A u \in DOMAIN running' : running'[u] = running[u]
  BY DEF Ended, Without
<1>2. CodesAreHeldOnce'
  BY <1>1 DEF IInv, CodesAreHeldOnce
<1>3. t \in 1..requests /\ t \notin Apps /\ t \notin DOMAIN access
  BY DEF IInv, Types
<1> QED BY <1>1, <1>2, <1>3 DEF IInv, RequestsFit, Ended

\* The commit of an exchange, which connects a device, keeps the invariant.
LEMMA ExchangedInv ==
  ASSUME IInv, NEW t \in DOMAIN running, Exchanged(t)
  PROVE  IInv'
<1> DEFINE code == running[t].on
           token == [access |-> t, revoked |-> FALSE]
<1>1. /\ running[t].kind = "exchange" /\ Ended(t)
      /\ used' = used \cup {code} /\ active' = active \cup {t}
      /\ origin' = Put(origin, t, code) /\ refresh' = Put(refresh, t, token)
      /\ access' = Put(access, t, NewAccess(t))
      /\ UNCHANGED <<requests, withdrawn, overlapped, doubled, deadlocks>>
  BY DEF Exchanged, history
<1>2. /\ Fits(t, running[t]) /\ running[t].at = "commit"
      /\ DOMAIN running' = DOMAIN running \ {t}
      /\ running' = [u \in DOMAIN running' |-> running'[u]]
      /\ \A u \in DOMAIN running' : running'[u] = running[u]
      /\ CodesAreHeldOnce'
      /\ t \in 1..requests /\ t \notin Apps /\ t \notin DOMAIN access
  BY <1>1, CommitFacts
<1>3. code \in Codes /\ code \notin used /\ code # "earlier"
  BY <1>1, <1>2, CodesAssumption DEF Fits, AboutRows, ExchangeFits
<1>4. Types
  BY DEF IInv
<1>5. /\ Apps' = Apps \cup {t} /\ DOMAIN access' = DOMAIN access \cup {t}
      /\ DOMAIN origin = Apps /\ DOMAIN origin' = Apps'
  BY <1>1, <1>4 DEF Apps, Put, Types
<1>6. /\ \A a \in Apps : refresh'[a] = refresh[a] /\ origin'[a] = origin[a]
      /\ \A x \in DOMAIN access : access'[x] = access[x]
      /\ refresh'[t] = token /\ origin'[t] = code /\ access'[t] = NewAccess(t)
  BY <1>1, <1>2, <1>5 DEF Put, Apps
<1>7. /\ \A a \in Apps : Live(a)' = Live(a)
      /\ Live(t)' = {t}
  <2>1. \A a \in Apps : a # t
    BY <1>2
  <2>2. \A a \in Apps : Live(a)' = Live(a)
    BY <1>2, <1>5, <1>6, <2>1 DEF Live, NewAccess
  <2>3. \A x \in DOMAIN access : access[x].app # t
    BY <1>2, <1>4 DEF Types
  <2>4. Live(t)' = {t}
    BY <1>2, <1>5, <1>6, <2>3 DEF Live, NewAccess
  <2> QED BY <2>2, <2>4
<1>8. Types'
  <2>1. used' \subseteq Codes /\ active' \subseteq Apps'
    BY <1>1, <1>3, <1>4, <1>5 DEF Types
  <2>2. origin' \in [Apps' -> used' \cup {"earlier"}]
    <3>1. origin' = [a \in Apps' |-> origin'[a]]
      BY <1>1, <1>4, <1>5 DEF Put
    <3>2. \A a \in Apps' : origin'[a] \in used' \cup {"earlier"}
      BY <1>1, <1>4, <1>5, <1>6 DEF Types
    <3> QED BY <3>1, <3>2
  <2>3. refresh' \in [Apps' -> [access : DOMAIN access', revoked : BOOLEAN]]
    <3>1. refresh' = [a \in Apps' |-> refresh'[a]]
      BY <1>1, <1>5 DEF Put, Apps
    <3>2. \A a \in Apps : refresh'[a] \in [access : DOMAIN access', revoked : BOOLEAN]
      <4>1. \A a \in Apps : refresh[a] \in [access : DOMAIN access, revoked : BOOLEAN]
        BY <1>4 DEF Types
      <4> QED BY <1>5, <1>6, <4>1
    <3>3. token \in [access : DOMAIN access', revoked : BOOLEAN]
      BY <1>5
    <3>4. \A a \in Apps' : refresh'[a] \in [access : DOMAIN access', revoked : BOOLEAN]
      BY <1>5, <1>6, <3>2, <3>3
    <3> QED BY <3>1, <3>4
  <2>4. access' \in [DOMAIN access' -> [app : Apps', revoked : BOOLEAN]]
    <3>1. access' = [x \in DOMAIN access' |-> access'[x]]
      BY <1>1, <1>5 DEF Put
    <3>2. \A x \in DOMAIN access : access'[x] \in [app : Apps', revoked : BOOLEAN]
      <4>1. \A x \in DOMAIN access : access[x] \in [app : Apps, revoked : BOOLEAN]
        BY <1>4 DEF Types
      <4> QED BY <1>5, <1>6, <4>1
    <3>3. NewAccess(t) \in [app : Apps', revoked : BOOLEAN]
      BY <1>5 DEF NewAccess
    <3>4. \A x \in DOMAIN access' : access'[x] \in [app : Apps', revoked : BOOLEAN]
      BY <1>5, <1>6, <3>2, <3>3
    <3> QED BY <3>1, <3>4
  <2>5. \A a \in Apps' : access'[refresh'[a].access].app = a
    BY <1>4, <1>5, <1>6 DEF Types, NewAccess
  <2>6. Apps' \cup DOMAIN access' \subseteq (0..requests') \ DOMAIN running'
    <3>1. Apps \cup DOMAIN access \subseteq (0..requests) \ DOMAIN running /\ requests \in Nat
      BY <1>4, BoundAssumption DEF Types
    <3>2. t \in 0..requests /\ t \notin DOMAIN running'
      BY <1>2, <3>1
    <3> QED BY <1>1, <1>2, <1>5, <3>1, <3>2
  <2>7. /\ requests' \in 0..MaxRequests /\ DOMAIN running' \subseteq 1..requests'
        /\ withdrawn' \subseteq Apps' /\ overlapped' \cup doubled' \subseteq 1..requests'
    BY <1>1, <1>2, <1>4, <1>5 DEF Types
  <2> QED BY <1>2, <2>1, <2>2, <2>3, <2>4, <2>5, <2>6, <2>7 DEF Types, Apps
<1>9. RequestsFit'
  <2> SUFFICES ASSUME NEW u \in DOMAIN running' PROVE Fits(u, running[u])'
    BY DEF RequestsFit
  <2>1. /\ Fits(u, running[u]) /\ running'[u] = running[u]
        /\ u \in DOMAIN running /\ u # t
    BY <1>2 DEF IInv, RequestsFit
  <2>2. AboutRows(running[u])'
    BY <1>5, <2>1 DEF Fits, AboutRows
  <2>3. ExchangeFits(running[u])'
    <3>1. running[u].kind = "exchange" /\ running[u].at # "begin" => running[u].on # code
      BY <1>1, <1>2, <2>1 DEF Fits, ExchangeFits, IInv, CodesAreHeldOnce
    <3> QED BY <1>1, <2>1, <3>1 DEF Fits, ExchangeFits
  <2>4. RefreshFits(u, running[u])'
    <3>1. running[u].kind = "refresh" => running[u].app \in Apps
      BY <2>1 DEF Fits, AboutRows
    <3> QED BY <1>1, <1>5, <1>7, <2>1, <3>1 DEF Fits, RefreshFits
  <2>5. RevokeFits(running[u])'
    <3>1. running[u].kind = "revoke app" => running[u].app \in Apps
      BY <2>1 DEF Fits, AboutRows
    <3> QED BY <1>1, <1>6, <1>7, <2>1, <3>1 DEF Fits, RevokeFits
  <2> QED BY <2>1, <2>2, <2>3, <2>4, <2>5 DEF Fits
<1>10. OneDevicePerCode'
  <2>1. \A a \in Apps : origin[a] # code
    BY <1>3, <1>4 DEF Types
  <2> QED BY <1>5, <1>6, <2>1 DEF IInv, OneDevicePerCode
<1>11. RevokedForGood' /\ RevocationStands'
  <2>1. withdrawn' = withdrawn /\ withdrawn \subseteq Apps
    BY <1>1, <1>4 DEF Types
  <2>2. RevokedForGood'
    BY <1>6, <2>1 DEF IInv, RevokedForGood
  <2>3. RevocationStands'
    BY <1>1, <1>7, <2>1 DEF IInv, RevocationStands
  <2> QED BY <2>2, <2>3
<1>12. OneIsCurrent'
  <2>1. \A a \in Apps : (Live(a) \ doubled)' \subseteq {refresh'[a].access}
    BY <1>1, <1>6, <1>7 DEF IInv, OneIsCurrent
  <2>2. (Live(t) \ doubled)' \subseteq {refresh'[t].access}
    BY <1>6, <1>7
  <2> QED BY <1>5, <2>1, <2>2 DEF OneIsCurrent
<1>13. DeadlocksMixOrders'
  BY <1>1 DEF IInv, DeadlocksMixOrders
<1> QED BY <1>2, <1>8, <1>9, <1>10, <1>11, <1>12, <1>13 DEF IInv

\* The commit that activates or deactivates the app keeps the invariant.
LEMMA UpdatedInv ==
  ASSUME IInv, NEW t \in DOMAIN running, Updated(t)
  PROVE  IInv'
<1>1. /\ running[t].kind \in {"activate", "deactivate"} /\ Ended(t)
      /\ active' \subseteq active \cup {running[t].app}
      /\ UNCHANGED <<used, origin, refresh, access, requests, withdrawn, overlapped, doubled,
                     deadlocks>>
  BY DEF Updated, history
<1>2. /\ Fits(t, running[t])
      /\ DOMAIN running' = DOMAIN running \ {t}
      /\ running' = [u \in DOMAIN running' |-> running'[u]]
      /\ \A u \in DOMAIN running' : running'[u] = running[u]
      /\ CodesAreHeldOnce'
  BY <1>1, CommitFacts
<1>3. running[t].app \in Apps
  BY <1>1, <1>2 DEF Fits, AboutRows
<1>4. Types'
  BY <1>1, <1>2, <1>3 DEF IInv, Types, Apps
<1>5. RequestsFit'
  <2> SUFFICES ASSUME NEW u \in DOMAIN running' PROVE Fits(u, running[u])'
    BY DEF RequestsFit
  <2> QED BY <1>1, <1>2, StillFits DEF IInv
<1> QED
  BY <1>1, <1>2, <1>4, <1>5
  DEF IInv, OneDevicePerCode, RevokedForGood, RevocationStands, OneIsCurrent, DeadlocksMixOrders,
      Apps, Live

\* Revoking access tokens.
LEMMA MarkedFacts ==
  ASSUME IInv, NEW t
  PROVE  /\ Marked(t) \in [DOMAIN access -> [app : Apps, revoked : BOOLEAN]]
         /\ \A x \in DOMAIN access : Marked(t)[x].app = access[x].app
         /\ \A x \in DOMAIN access :
              ~Marked(t)[x].revoked <=> ~access[x].revoked /\ x \notin running[t].marks
<1>1. \A x \in DOMAIN access : access[x] \in [app : Apps, revoked : BOOLEAN]
  BY DEF IInv, Types
<1>2. \A x \in DOMAIN access : /\ Marked(t)[x] \in [app : Apps, revoked : BOOLEAN]
                               /\ Marked(t)[x].app = access[x].app
  BY <1>1 DEF Marked
<1>3. \A x \in DOMAIN access :
        ~Marked(t)[x].revoked <=> ~access[x].revoked /\ x \notin running[t].marks
  BY <1>1 DEF Marked
<1>4. Marked(t) = [x \in DOMAIN access |-> Marked(t)[x]]
  BY DEF Marked
<1> QED BY <1>2, <1>3, <1>4

\* The commit of a refresh, which replaces a token, keeps the invariant.
LEMMA RefreshedInv ==
  ASSUME IInv, NEW t \in DOMAIN running, Refreshed(t)
  PROVE  IInv'
<1>0. PICK app, marks : app = running[t].app /\ marks = running[t].marks
  OBVIOUS
<1> DEFINE token == NewAccess(app)
<1>1. /\ running[t].kind = "refresh" /\ Ended(t)
      /\ access' = Put(Marked(t), t, token)
      /\ refresh' = [refresh EXCEPT ![app].access = t]
      /\ overlapped' = IF Others(t, "revoke app") # {} THEN overlapped \cup {t} ELSE overlapped
      /\ doubled' = IF Others(t, "refresh") # {} THEN doubled \cup {t} ELSE doubled
      /\ UNCHANGED <<used, active, origin, requests, withdrawn, deadlocks>>
  BY <1>0 DEF Refreshed
<1>2. /\ Fits(t, running[t]) /\ running[t].at = "commit"
      /\ DOMAIN running' = DOMAIN running \ {t}
      /\ running' = [u \in DOMAIN running' |-> running'[u]]
      /\ \A u \in DOMAIN running' : running'[u] = running[u]
      /\ CodesAreHeldOnce'
      /\ t \in 1..requests /\ t \notin Apps /\ t \notin DOMAIN access
  BY <1>1, CommitFacts
<1>3. /\ app \in Apps
      /\ app \in withdrawn => t \in overlapped
      /\ \A x \in Live(app) : x \in marks \/ x \in doubled
  BY <1>0, <1>1, <1>2 DEF Fits, AboutRows, RefreshFits
<1>4. Types
  BY DEF IInv
<1>5. /\ token \in [app : Apps, revoked : BOOLEAN]
      /\ token.app = app /\ ~token.revoked
  BY <1>3 DEF NewAccess
<1>6. /\ Apps' = Apps /\ DOMAIN access' = DOMAIN access \cup {t}
      /\ access'[t] = token
      /\ \A x \in DOMAIN access : access'[x] = Marked(t)[x]
  BY <1>1, <1>2, MarkedFacts DEF Apps, Put
<1>7. /\ \A a \in Apps : refresh'[a].revoked = refresh[a].revoked
      /\ \A a \in Apps \ {app} : refresh'[a].access = refresh[a].access
      /\ refresh'[app].access = t
      /\ refresh' \in [Apps -> [access : DOMAIN access', revoked : BOOLEAN]]
  <2>1. \A a \in Apps : refresh[a] \in [access : DOMAIN access, revoked : BOOLEAN]
    BY <1>4 DEF Types
  <2>2. \A a \in Apps \ {app} : refresh'[a] = refresh[a]
    BY <1>1 DEF Apps
  <2>3. refresh'[app] = [refresh[app] EXCEPT !.access = t]
    BY <1>1, <1>3 DEF Apps
  <2>4. refresh'[app] = [access |-> t, revoked |-> refresh[app].revoked]
    BY <1>3, <2>1, <2>3
  <2>5. refresh' = [a \in Apps |-> refresh'[a]]
    BY <1>1 DEF Apps
  <2>6. t \in DOMAIN access' /\ \A x \in DOMAIN access : x \in DOMAIN access'
    BY <1>6
  <2>7. \A a \in Apps : refresh'[a] \in [access : DOMAIN access', revoked : BOOLEAN]
    BY <1>3, <2>1, <2>2, <2>4, <2>6
  <2> QED BY <1>3, <2>2, <2>4, <2>5, <2>7
<1>8. /\ \A a \in Apps \ {app} : Live(a)' = Live(a) \ marks
      /\ Live(app)' = (Live(app) \ marks) \cup {t}
  <2>1. /\ \A x \in DOMAIN access : access'[x].app = access[x].app
        /\ \A x \in DOMAIN access : ~access'[x].revoked <=> ~access[x].revoked /\ x \notin marks
        /\ access'[t].app = app /\ ~access'[t].revoked
    BY <1>0, <1>5, <1>6, MarkedFacts
  <2> HIDE DEF token
  <2> QED BY <1>2, <1>6, <2>1 DEF Live
<1>9. overlapped \subseteq overlapped' /\ doubled \subseteq doubled'
  BY <1>1
<1>10. Types'
  <2>1. access' \in [DOMAIN access' -> [app : Apps', revoked : BOOLEAN]]
    <3>1. access' = [x \in DOMAIN access' |-> access'[x]]
      BY <1>1, <1>6 DEF Put
    <3>2. \A x \in DOMAIN access' : access'[x] \in [app : Apps', revoked : BOOLEAN]
      BY <1>5, <1>6, MarkedFacts
    <3> QED BY <3>1, <3>2
  <2>2. \A a \in Apps' : access'[refresh'[a].access].app = a
    <3>1. \A a \in Apps : refresh[a].access \in DOMAIN access /\ access[refresh[a].access].app = a
      BY <1>4 DEF Types
    <3>2. \A a \in Apps \ {app} : access'[refresh'[a].access].app = a
      <4>1. \A x \in DOMAIN access : access'[x].app = access[x].app
        BY <1>6, MarkedFacts
      <4> QED BY <1>7, <3>1, <4>1
    <3> QED BY <1>5, <1>6, <1>7, <3>2
  <2>3. Apps' \cup DOMAIN access' \subseteq (0..requests') \ DOMAIN running'
    <3>1. Apps \cup DOMAIN access \subseteq (0..requests) \ DOMAIN running /\ requests \in Nat
      BY <1>4, BoundAssumption DEF Types
    <3>2. t \in 0..requests /\ t \notin DOMAIN running'
      BY <1>2, <3>1
    <3> QED BY <1>1, <1>2, <1>6, <3>1, <3>2
  <2>4. overlapped' \cup doubled' \subseteq 1..requests'
    BY <1>1, <1>2, <1>4 DEF Types
  <2>5. /\ used' \subseteq Codes /\ active' \subseteq Apps' /\ withdrawn' \subseteq Apps'
        /\ origin' \in [Apps' -> used' \cup {"earlier"}]
        /\ requests' \in 0..MaxRequests /\ DOMAIN running' \subseteq 1..requests'
    BY <1>1, <1>2, <1>4, <1>6 DEF Types
  <2> QED BY <1>2, <1>6, <1>7, <2>1, <2>2, <2>3, <2>4, <2>5 DEF Types, Apps
<1>11. RequestsFit'
  <2> SUFFICES ASSUME NEW u \in DOMAIN running' PROVE Fits(u, running[u])'
    BY DEF RequestsFit
  <2>0. PICK r : r = running[u]
    OBVIOUS
  <2>1. /\ Fits(u, r) /\ running'[u] = r
        /\ u \in DOMAIN running /\ u # t
    BY <1>2, <2>0 DEF IInv, RequestsFit
  <2>2. AboutRows(running[u])'
    BY <1>6, <2>1 DEF Fits, AboutRows
  <2>3. ExchangeFits(running[u])'
    BY <1>1, <2>1 DEF Fits, ExchangeFits
  <2>4. RefreshFits(u, running[u])'
    <3> SUFFICES ASSUME r.kind = "refresh", r.at # "begin" PROVE RefreshFits(u, running[u])'
      BY <2>1 DEF RefreshFits
    <3>1. /\ r.old \in DOMAIN access /\ r.old # t
          /\ r.app \in withdrawn => u \in overlapped
          /\ Live(r.app) \ doubled \subseteq {r.old}
          /\ r.at # "token" => r.old \in r.marks \/ r.old \notin Live(r.app)
          /\ r.app \in Apps
      BY <1>2, <2>1 DEF Fits, RefreshFits, AboutRows
    <3>2. r.at # "token" => r.old \in r.marks \/ r.old \notin Live(r.app)'
      BY <1>8, <3>1
    <3>3. (Live(r.app) \ doubled)' \subseteq {r.old}
      <4>1. CASE r.app = app
        <5>1. u \in Others(t, "refresh")
          BY <1>0, <1>1, <2>0, <2>1, <4>1 DEF Others
        <5>2. doubled' = doubled \cup {t}
          BY <1>1, <5>1
        <5> QED BY <1>3, <1>8, <4>1, <5>2
      <4>2. CASE r.app # app
        BY <1>8, <1>9, <3>1, <4>2
      <4> QED BY <4>1, <4>2
    <3> QED BY <1>1, <1>6, <1>9, <2>1, <3>1, <3>2, <3>3 DEF RefreshFits
  <2>5. RevokeFits(running[u])'
    <3> SUFFICES ASSUME r.kind = "revoke app" PROVE RevokeFits(running[u])'
      BY <2>1 DEF RevokeFits
    <3>1. /\ r.at \in {"access tokens", "commit"} => r.ends \/ refresh[r.app].revoked
          /\ r.at = "commit" => Live(r.app) \subseteq r.marks \cup overlapped
          /\ r.app \in Apps
      BY <2>1 DEF Fits, RevokeFits, AboutRows
    <3>2. ASSUME r.at = "commit" PROVE Live(r.app)' \subseteq r.marks \cup overlapped'
      <4>1. CASE r.app = app
        <5>1. u \in Others(t, "revoke app")
          BY <1>0, <1>1, <2>0, <2>1, <3>2, <4>1 DEF Others
        <5>2. overlapped' = overlapped \cup {t}
          BY <1>1, <5>1
        <5> QED BY <1>8, <3>1, <3>2, <4>1, <5>2
      <4>2. CASE r.app # app
        BY <1>8, <1>9, <3>1, <3>2, <4>2
      <4> QED BY <4>1, <4>2
    <3> QED BY <1>7, <2>1, <3>1, <3>2 DEF RevokeFits
  <2> QED BY <2>1, <2>2, <2>3, <2>4, <2>5 DEF Fits
<1>12. OneDevicePerCode' /\ DeadlocksMixOrders'
  BY <1>1, <1>6 DEF IInv, OneDevicePerCode, DeadlocksMixOrders
<1>13. RevokedForGood' /\ RevocationStands'
  <2>1. withdrawn' = withdrawn /\ withdrawn \subseteq Apps
    BY <1>1, <1>4 DEF Types
  <2>2. RevokedForGood'
    BY <1>7, <2>1 DEF IInv, RevokedForGood
  <2>3. ASSUME NEW a \in withdrawn PROVE Live(a)' \subseteq overlapped'
    <3>1. Live(a) \subseteq overlapped
      BY <2>3 DEF IInv, RevocationStands
    <3> QED BY <1>3, <1>8, <1>9, <2>1, <2>3, <3>1
  <2> QED BY <2>1, <2>2, <2>3 DEF RevocationStands
<1>14. OneIsCurrent'
  <2>1. ASSUME NEW a \in Apps \ {app} PROVE (Live(a) \ doubled)' \subseteq {refresh'[a].access}
    BY <1>7, <1>8, <1>9, <2>1 DEF IInv, OneIsCurrent
  <2>2. (Live(app) \ doubled)' \subseteq {refresh'[app].access}
    BY <1>3, <1>7, <1>8, <1>9
  <2> QED BY <1>6, <2>1, <2>2 DEF OneIsCurrent
<1> QED BY <1>2, <1>10, <1>11, <1>12, <1>13, <1>14 DEF IInv

\* The commit of a revocation keeps the invariant.
LEMMA RevokedInv ==
  ASSUME IInv, NEW t \in DOMAIN running, Revoked(t)
  PROVE  IInv'
<1>0. PICK app, marks, kind :
        app = running[t].app /\ marks = running[t].marks /\ kind = running[t].kind
  OBVIOUS
<1>1. /\ kind \in {"revoke app", "revoke refresh", "revoke access"} /\ Ended(t)
      /\ access' = Marked(t)
      /\ refresh' = IF running[t].ends THEN [refresh EXCEPT ![app].revoked = TRUE] ELSE refresh
      /\ kind = "revoke app" => /\ active' = active \ {app} /\ withdrawn' = withdrawn \cup {app}
                                /\ overlapped' = overlapped \cup Others(t, "refresh")
      /\ kind # "revoke app" => UNCHANGED <<active, withdrawn, overlapped>>
      /\ UNCHANGED <<used, origin, requests, doubled, deadlocks>>
  BY <1>0 DEF Revoked
<1>2. /\ Fits(t, running[t]) /\ running[t].at = "commit"
      /\ DOMAIN running' = DOMAIN running \ {t}
      /\ running' = [u \in DOMAIN running' |-> running'[u]]
      /\ \A u \in DOMAIN running' : running'[u] = running[u]
      /\ CodesAreHeldOnce'
  BY <1>1, CommitFacts
<1>3. /\ app \in Apps
      /\ kind = "revoke app" => /\ running[t].ends \/ refresh[app].revoked
                                /\ Live(app) \subseteq marks \cup overlapped
  BY <1>0, <1>1, <1>2 DEF Fits, AboutRows, RevokeFits
<1>4. Types
  BY DEF IInv
<1>5. Apps' = Apps /\ DOMAIN access' = DOMAIN access
  BY <1>1, MarkedFacts DEF Apps
<1>6. /\ \A a \in Apps : refresh'[a].access = refresh[a].access
      /\ \A a \in Apps : refresh[a].revoked => refresh'[a].revoked
      /\ running[t].ends => refresh'[app].revoked
      /\ refresh' \in [Apps -> [access : DOMAIN access, revoked : BOOLEAN]]
  <2>1. \A a \in Apps : refresh[a] \in [access : DOMAIN access, revoked : BOOLEAN]
    BY <1>4 DEF Types
  <2>2. CASE ~running[t].ends
    BY <1>1, <1>4, <2>2 DEF Types
  <2>3. CASE running[t].ends
    <3>1. \A a \in Apps \ {app} : refresh'[a] = refresh[a]
      BY <1>1, <2>3 DEF Apps
    <3>2. refresh'[app] = [refresh[app] EXCEPT !.revoked = TRUE]
      BY <1>1, <1>3, <2>3 DEF Apps
    <3>3. refresh'[app] = [access |-> refresh[app].access, revoked |-> TRUE]
      BY <1>3, <2>1, <3>2
    <3>4. refresh' = [a \in Apps |-> refresh'[a]]
      BY <1>1, <2>3 DEF Apps
    <3>5. /\ refresh'[app] \in [access : DOMAIN access, revoked : BOOLEAN]
          /\ refresh'[app].access = refresh[app].access /\ refresh'[app].revoked
      <4>1. refresh[app].access \in DOMAIN access
        BY <1>3, <2>1
      <4> QED BY <3>3, <4>1
    <3>6. \A a \in Apps : refresh'[a] \in [access : DOMAIN access, revoked : BOOLEAN]
      BY <2>1, <3>1, <3>5
    <3>7. /\ \A a \in Apps : refresh'[a].access = refresh[a].access
          /\ \A a \in Apps : refresh[a].revoked => refresh'[a].revoked
          /\ running[t].ends => refresh'[app].revoked
      BY <3>1, <3>5
    <3>8. refresh' \in [Apps -> [access : DOMAIN access, revoked : BOOLEAN]]
      BY <3>4, <3>6
    <3> QED BY <3>7, <3>8, Zenon
  <2> QED BY <2>2, <2>3
<1>7. /\ \A x \in DOMAIN access : access'[x].app = access[x].app
      /\ \A x \in DOMAIN access : ~access'[x].revoked <=> ~access[x].revoked /\ x \notin marks
      /\ access' \in [DOMAIN access -> [app : Apps, revoked : BOOLEAN]]
  BY <1>0, <1>1, MarkedFacts
<1>8. \A a : Live(a)' = Live(a) \ marks
  BY <1>5, <1>7 DEF Live
<1>9. overlapped \subseteq overlapped' /\ withdrawn \subseteq withdrawn'
      /\ withdrawn' \subseteq withdrawn \cup {app} /\ active' \subseteq active
  BY <1>1
<1>10. Types'
  <2>1. overlapped' \cup doubled' \subseteq 1..requests'
    <3>1. Others(t, "refresh") \subseteq 1..requests
      BY <1>4 DEF Types, Others
    <3> QED BY <1>1, <1>4, <3>1 DEF Types
  <2>2. \A a \in Apps' : access'[refresh'[a].access].app = a
    <3>1. \A a \in Apps : refresh[a].access \in DOMAIN access /\ access[refresh[a].access].app = a
      BY <1>4 DEF Types
    <3> QED BY <1>5, <1>6, <1>7, <3>1
  <2>3. /\ used' \subseteq Codes /\ active' \subseteq Apps' /\ withdrawn' \subseteq Apps'
        /\ origin' \in [Apps' -> used' \cup {"earlier"}]
        /\ requests' \in 0..MaxRequests /\ DOMAIN running' \subseteq 1..requests'
        /\ Apps' \cup DOMAIN access' \subseteq (0..requests') \ DOMAIN running'
    BY <1>1, <1>2, <1>3, <1>4, <1>5, <1>9 DEF Types
  <2> QED BY <1>2, <1>5, <1>6, <1>7, <2>1, <2>2, <2>3 DEF Types, Apps
<1>11. RequestsFit'
  <2> SUFFICES ASSUME NEW u \in DOMAIN running' PROVE Fits(u, running[u])'
    BY DEF RequestsFit
  <2>0. PICK r : r = running[u]
    OBVIOUS
  <2>1. /\ Fits(u, r) /\ running'[u] = r
        /\ u \in DOMAIN running /\ u # t
    BY <1>2, <2>0 DEF IInv, RequestsFit
  <2>2. AboutRows(running[u])'
    BY <1>5, <2>1 DEF Fits, AboutRows
  <2>3. ExchangeFits(running[u])'
    BY <1>1, <2>1 DEF Fits, ExchangeFits
  <2>4. RefreshFits(u, running[u])'
    <3> SUFFICES ASSUME r.kind = "refresh", r.at # "begin" PROVE RefreshFits(u, running[u])'
      BY <2>1 DEF RefreshFits
    <3>1. /\ r.old \in DOMAIN access
          /\ r.app \in withdrawn => u \in overlapped
          /\ Live(r.app) \ doubled \subseteq {r.old}
          /\ r.at # "token" => r.old \in r.marks \/ r.old \notin Live(r.app)
      BY <2>1 DEF Fits, RefreshFits
    <3>2. r.app \in withdrawn' => u \in overlapped'
      <4>1. ASSUME r.app = app PROVE u \in Others(t, "refresh")
        BY <1>0, <2>0, <2>1, <4>1 DEF Others
      <4> QED BY <1>1, <3>1, <4>1
    <3>3. (Live(r.app) \ doubled)' \subseteq {r.old}
      BY <1>1, <1>8, <3>1
    <3>4. r.at # "token" => r.old \in r.marks \/ r.old \notin Live(r.app)'
      BY <1>8, <3>1
    <3> QED BY <1>5, <2>1, <3>1, <3>2, <3>3, <3>4 DEF RefreshFits
  <2>5. RevokeFits(running[u])'
    <3> SUFFICES ASSUME r.kind = "revoke app" PROVE RevokeFits(running[u])'
      BY <2>1 DEF RevokeFits
    <3>1. /\ r.at \in {"access tokens", "commit"} => r.ends \/ refresh[r.app].revoked
          /\ r.at = "commit" => Live(r.app) \subseteq r.marks \cup overlapped
          /\ r.app \in Apps
      BY <2>1 DEF Fits, RevokeFits, AboutRows
    <3>2. r.at = "commit" => Live(r.app)' \subseteq r.marks \cup overlapped'
      BY <1>8, <1>9, <3>1
    <3> QED BY <1>6, <2>1, <3>1, <3>2 DEF RevokeFits
  <2> QED BY <2>1, <2>2, <2>3, <2>4, <2>5 DEF Fits
<1>12. OneDevicePerCode' /\ DeadlocksMixOrders'
  BY <1>1, <1>5 DEF IInv, OneDevicePerCode, DeadlocksMixOrders
<1>13. RevokedForGood'
  <2>1. \A a \in withdrawn : a \in Apps /\ refresh[a].revoked
    BY <1>4 DEF Types, IInv, RevokedForGood
  <2>2. kind = "revoke app" => refresh'[app].revoked
    BY <1>3, <1>6
  <2> QED BY <1>1, <1>6, <2>1, <2>2 DEF RevokedForGood
<1>14. RevocationStands'
  <2>1. ASSUME NEW a \in withdrawn' PROVE Live(a)' \subseteq overlapped'
    <3>1. CASE a \in withdrawn
      BY <1>8, <1>9, <3>1 DEF IInv, RevocationStands
    <3>2. CASE kind = "revoke app" /\ a = app
      BY <1>3, <1>8, <1>9, <3>2
    <3> QED BY <1>1, <2>1, <3>1, <3>2
  <2> QED BY <2>1 DEF RevocationStands
<1>15. OneIsCurrent'
  BY <1>1, <1>5, <1>6, <1>8 DEF IInv, OneIsCurrent
<1> QED BY <1>2, <1>10, <1>11, <1>12, <1>13, <1>14, <1>15 DEF IInv

-------------------------------------------------------------------------------
\* Every step keeps the invariant.
LEMMA NextInv ==
  ASSUME IInv, Next
  PROVE  IInv'
<1>1. CASE \E c \in Codes : Begin("exchange", c, 0)
  <2>1. PICK c \in Codes : Begin("exchange", c, 0)
    BY <1>1
  <2> QED BY <2>1, BeginInv DEF Kinds
<1>2. CASE \E a \in Apps, kind \in AppRequests : Begin(kind, a, a)
  <2>1. PICK a \in Apps, kind \in AppRequests : Begin(kind, a, a)
    BY <1>2
  <2>2. a \in Nat
    BY KeysAreNumbers
  <2>3. kind \in Kinds /\ kind # "exchange" /\ kind # "revoke access"
    BY DEF AppRequests, Kinds, AccessFirst, RefreshFirst, Single
  <2> QED BY <2>1, <2>2, <2>3, BeginInv
<1>3. CASE \E x \in DOMAIN access : Begin("revoke access", x, access[x].app)
  <2>0. PICK x \in DOMAIN access : Begin("revoke access", x, access[x].app)
    BY <1>3
  <2>1. PICK a : a = access[x].app /\ Begin("revoke access", x, a)
    BY <2>0
  <2>2. a \in Apps
    BY <2>1 DEF IInv, Types
  <2>3. x \in Codes \cup Nat /\ a \in Nat
    BY <2>2, KeysAreNumbers
  <2>4. "revoke access" \in Kinds
    BY DEF Kinds, AccessFirst
  <2> QED BY <2>1, <2>2, <2>3, <2>4, BeginInv
<1>4. CASE \E t \in DOMAIN running : Find(t) \/ Write(t) \/ GiveUp(t) \/ Commit(t) \/ End(t)
  <2>1. PICK t \in DOMAIN running : Find(t) \/ Write(t) \/ GiveUp(t) \/ Commit(t) \/ End(t)
    BY <1>4
  <2>2. CASE Find(t)
    BY <2>2, FindCodeInv, FindTokenInv, FindOldAccessInv, PointToNewInv, FindAppInv,
       FindRefreshTokensInv, FindAccessTokensInv, FindRevokedInv, FindItsAccessInv,
       FindRevokedAccessInv, FindItsRefreshInv, FindUpdatedInv
    DEF Find
  <2>3. CASE Commit(t)
    BY <2>3, ExchangedInv, RefreshedInv, RevokedInv, UpdatedInv DEF Commit
  <2> QED BY <2>1, <2>2, <2>3, WriteInv, GiveUpInv, EndInv
<1> QED BY <1>1, <1>2, <1>3, <1>4 DEF Next

\* So does a step that changes nothing.
LEMMA StutterInv ==
  ASSUME IInv, UNCHANGED vars
  PROVE  IInv'
<1>1. /\ UNCHANGED <<used, active, origin, refresh, access, requests, withdrawn, overlapped,
                     doubled, deadlocks>>
      /\ running' = running
  BY DEF vars
<1>2. Types'
  BY <1>1 DEF IInv, Types, Apps
<1>3. RequestsFit'
  <2> SUFFICES ASSUME NEW u \in DOMAIN running' PROVE Fits(u, running[u])'
    BY DEF RequestsFit
  <2> QED BY <1>1, StillFits DEF IInv
<1> QED
  BY <1>1, <1>2, <1>3
  DEF IInv, CodesAreHeldOnce, OneDevicePerCode, RevokedForGood, RevocationStands, OneIsCurrent,
      DeadlocksMixOrders, Apps, Live

\* The inductive invariant holds of every behaviour.
THEOREM DeviceTokensInvariance == Spec => []IInv
<1>1. IInv /\ [Next]_vars => IInv'
  BY NextInv, StutterInv
<1> QED BY InitInv, <1>1, PTL DEF Spec

\* Every app has its refresh token and the access token that it points to, whatever
\* requests overlap.
THEOREM DeviceTokensTyped == Spec => []TypeOK
<1>1. IInv => TypeOK
  <2> SUFFICES ASSUME Types PROVE TypeOK
    BY DEF IInv
  <2>1. \A a \in Apps : refresh[a] \in [access : DOMAIN access, revoked : BOOLEAN]
    BY DEF Types
  <2>2. \A x \in DOMAIN access : access[x] \in [app : Apps, revoked : BOOLEAN]
    BY DEF Types
  <2>3. \A a \in Apps : /\ refresh[a].revoked \in BOOLEAN
                        /\ refresh[a].access \in DOMAIN access
                        /\ access[refresh[a].access].app = a
    BY <2>1 DEF Types
  <2>4. \A x \in DOMAIN access : access[x].revoked \in BOOLEAN /\ access[x].app \in Apps
    BY <2>2
  <2> QED BY <2>3, <2>4 DEF Types, TypeOK
<1> QED BY <1>1, DeviceTokensInvariance, PTL

\* consume_connection_code locks the code's row: one code connects one device.
THEOREM CodesConnectOneDevice == Spec => []OneDevicePerCode
<1>1. IInv => OneDevicePerCode
  BY DEF IInv
<1> QED BY <1>1, DeviceTokensInvariance, PTL

\* After revoke_connected_app, only a refresh that read its token before can have left
\* a valid access token.
THEOREM RevocationsStand == Spec => []RevocationStands
<1>1. IInv => RevocationStands
  BY DEF IInv
<1> QED BY <1>1, DeviceTokensInvariance, PTL

\* But for tokens forgotten when two refreshes overlap, a device has one valid token.
THEOREM OneTokenIsLive == Spec => []OneLiveToken
<1>1. IInv => OneLiveToken
  <2> SUFFICES ASSUME OneIsCurrent, NEW a \in Apps PROVE Cardinality(Live(a) \ doubled) <= 1
    BY DEF IInv, OneLiveToken
  <2>1. Live(a) \ doubled = {} \/ Live(a) \ doubled = {refresh[a].access}
    BY DEF OneIsCurrent
  <2>2. Cardinality({refresh[a].access}) = 1 /\ Cardinality({}) = 0
    BY FS_Singleton, FS_EmptySet
  <2> QED BY <2>1, <2>2
<1> QED BY <1>1, DeviceTokensInvariance, PTL

\* Only requests that go through access and refresh tokens in different orders deadlock.
THEOREM DeadlocksNeedBothOrders == Spec => []DeadlocksMixOrders
<1>1. IInv => DeadlocksMixOrders
  BY DEF IInv
<1> QED BY <1>1, DeviceTokensInvariance, PTL

\* However many requests wait on one another, some lock access tokens before the refresh
\* token and some after it: a deadlock, of any length, needs a refresh (or a revoked access
\* token) beside the revocation of an app or of a refresh token.
CirclesMixOrders ==
  \A S \in SUBSET DOMAIN running :
    Circle(S) => KindsOf(S) \cap AccessFirst # {} /\ KindsOf(S) \cap RefreshFirst # {}

\* The locks that refresh_access_token, revoke_token and revoke_connected_app take lead to
\* circles of both orders only.
THEOREM CirclesNeedBothOrders == Spec => []CirclesMixOrders
<1>1. IInv => CirclesMixOrders
  BY AccessFirstAlone, RefreshFirstAlone DEF CirclesMixOrders
<1> QED BY <1>1, DeviceTokensInvariance, PTL
===============================================================================
