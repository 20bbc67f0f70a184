----------------------------- MODULE DeviceTokens -----------------------------
(***************************************************************************)
(* Connected devices and their tokens: a device exchanges a connection     *)
(* code for a connected app with an access and a refresh token, refreshes  *)
(* the access token, and tokens or the whole app are revoked.  Translated  *)
(* from service/connection_code.py, connected_app.py and oauth.py.         *)
(*                                                                         *)
(* Every request is one transaction of PostgreSQL at READ COMMITTED: it    *)
(* reads what is committed, writes single columns, waits for rows another  *)
(* has written, and holds its rows until it ends.  Each step below is what *)
(* happens from one query to the next.  A device may send a refresh again  *)
(* while the first runs.  Expiry only takes tokens and codes away and is   *)
(* left out.  Rows that a request inserts bear the request's number.       *)
(***************************************************************************)
EXTENDS Naturals, FiniteSets

CONSTANTS Codes,
          MaxRequests   \* bound: requests made

ASSUME BoundAssumption == MaxRequests \in Nat
ASSUME CodesAssumption == "earlier" \notin Codes

VARIABLES used,       \* connection_codes.used_at is not null
          active,     \* connected_apps.is_active
          origin,     \* history: the code each connected app was exchanged for
          refresh,    \* oauth_refresh_tokens, one for each connected app
          access,     \* oauth_access_tokens
          running,    \* the requests under way, by number
          requests,   \* how many have been made
          withdrawn,  \* history: apps that were revoked
          overlapped, \* history: access tokens of refreshes that overlapped a
                      \* revocation of the app
          doubled,    \* history: access tokens of refreshes that another overlapped
          deadlocks   \* history: the kinds of requests that waited for each other

rows == <<used, active, origin, refresh, access>>
history == <<withdrawn, overlapped, doubled, deadlocks>>
vars == <<used, active, origin, refresh, access, running, requests, withdrawn, overlapped,
          doubled, deadlocks>>

Apps == DOMAIN refresh
Live(a) == {x \in DOMAIN access : access[x].app = a /\ ~access[x].revoked}

\* One device is connected.
Init ==
  /\ used = {} /\ active = {0} /\ origin = [a \in {0} |-> "earlier"]
  /\ refresh = [a \in {0} |-> [access |-> 0, revoked |-> FALSE]]
  /\ access = [x \in {0} |-> [app |-> 0, revoked |-> FALSE]]
  /\ running = [t \in {} |-> {}] /\ requests = 0
  /\ withdrawn = {} /\ overlapped = {} /\ doubled = {} /\ deadlocks = {}

-------------------------------------------------------------------------------
(* Transactions. *)
Without(table, key) == [k \in DOMAIN table \ {key} |-> table[k]]
Put(table, key, row) ==
  [k \in DOMAIN table \cup {key} |-> IF k = key THEN row ELSE table[k]]

CodeRow(c) == <<"code", c>>
AppRow(a) == <<"app", a>>
RefreshRow(a) == <<"refresh", a>>
AccessRow(x) == <<"access", x>>

Request(kind, on, app) ==
  [kind |-> kind, on |-> on, app |-> app, at |-> "begin",
   old |-> 0,          \* the access token read from the refresh token
   marks |-> {},       \* access tokens to be revoked
   ends |-> FALSE,     \* the refresh token is to be revoked
   want |-> {},        \* rows to be written next
   holds |-> {}]

Begin(kind, on, app) ==
  /\ requests < MaxRequests
  /\ requests' = requests + 1
  /\ running' = Put(running, requests', Request(kind, on, app))
  /\ UNCHANGED <<rows, history>>

Step(t, request) ==
  /\ running' = [running EXCEPT ![t] = request]
  /\ UNCHANGED <<rows, requests, history>>

\* Nothing to do, an error, a lost connection or a crash: nothing is stored.
End(t) ==
  /\ running' = Without(running, t)
  /\ UNCHANGED <<rows, requests, history>>

At(t, kind, point) ==
  /\ running[t].kind = kind /\ running[t].at = point /\ running[t].want = {}

\* The rows of one UPDATE are written in the order of their keys.
NextRow(t) == CHOOSE row \in running[t].want :
                \A other \in running[t].want : row[2] <= other[2]
Holder(row) == {u \in DOMAIN running : row \in running[u].holds}
Waits(t, u) == running[t].want # {} /\ u # t /\ u \in Holder(NextRow(t))

Write(t) ==
  /\ running[t].want # {}
  /\ \A u \in DOMAIN running : ~Waits(t, u)
  /\ Step(t, [running[t] EXCEPT !.want = @ \ {NextRow(t)}, !.holds = @ \cup {NextRow(t)}])

\* Two or three requests that wait for one another: one of them is given up.
Cycle(t) == {{t, u} : u \in {v \in DOMAIN running : Waits(t, v) /\ Waits(v, t)}}
            \cup {{t, pair[1], pair[2]} : pair \in
                    {p \in (DOMAIN running) \X (DOMAIN running) :
                       Waits(t, p[1]) /\ Waits(p[1], p[2]) /\ Waits(p[2], t)}}
Deadlocked(t) == Cycle(t) # {}

GiveUp(t) ==
  /\ Deadlocked(t)
  /\ running' = Without(running, t)
  /\ deadlocks' = deadlocks \cup {{running[u].kind : u \in cycle} : cycle \in Cycle(t)}
  /\ UNCHANGED <<rows, requests, withdrawn, overlapped, doubled>>

-------------------------------------------------------------------------------
(* consume_connection_code and the rest of the exchange, which inserts only. *)
\* Mutant: the code is read without locking its row.
HiddenNot(c) == FALSE
Hidden(c) == Holder(CodeRow(c)) # {}

FindCode(t) ==
  /\ At(t, "exchange", "begin")
  /\ IF Hidden(running[t].on) \/ running[t].on \in used
       THEN End(t)
       ELSE Step(t, [running[t] EXCEPT !.at = "commit", !.holds = {CodeRow(running[t].on)}])

(* refresh_access_token. *)
FindToken(t) ==
  /\ At(t, "refresh", "begin")
  /\ LET token == refresh[running[t].app] IN
     IF token.revoked THEN End(t)
     ELSE Step(t, [running[t] EXCEPT !.old = token.access, !.at = "token"])

\* Mutant: the old access token stays valid.
ReplacesNot(x) == {}
Replaces(x) == {x} \ {y \in DOMAIN access : access[y].revoked}

\* The first flush writes the old access token, the second the refresh token.
\* Mutant: the other way round.
WritesSwapped == <<"refresh", "access">>
Writes == <<"access", "refresh">>
RowsOf(t, marks, table) ==
  IF table = "access" THEN {AccessRow(x) : x \in marks} ELSE {RefreshRow(running[t].app)}

FindOldAccess(t) ==
  /\ At(t, "refresh", "token")
  /\ LET marks == Replaces(running[t].old) IN
     Step(t, [running[t] EXCEPT !.marks = marks, !.want = RowsOf(t, marks, Writes[1]),
                                !.at = "flush"])

PointToNew(t) ==
  /\ At(t, "refresh", "flush")
  /\ Step(t, [running[t] EXCEPT !.want = RowsOf(t, running[t].marks, Writes[2]),
                                !.at = "commit"])

(* revoke_connected_app: each query flushes what was changed before it. *)
FindApp(t) ==
  /\ At(t, "revoke app", "begin")
  /\ Step(t, [running[t] EXCEPT
                !.want = IF running[t].app \in active THEN {AppRow(running[t].app)} ELSE {},
                !.at = "refresh tokens"])

FindRefreshTokens(t) ==
  /\ At(t, "revoke app", "refresh tokens")
  /\ LET ends == ~refresh[running[t].app].revoked IN
     Step(t, [running[t] EXCEPT
                !.ends = ends, !.want = IF ends THEN {RefreshRow(running[t].app)} ELSE {},
                !.at = "access tokens"])

\* Mutant: of the access tokens, the one that belongs to the refresh token.
CurrentOf(a) == Live(a) \cap {refresh[a].access}
RevokedWith(a) == Live(a)

FindAccessTokens(t) ==
  /\ At(t, "revoke app", "access tokens")
  /\ LET marks == RevokedWith(running[t].app) IN
     Step(t, [running[t] EXCEPT !.marks = marks, !.want = {AccessRow(x) : x \in marks},
                                !.at = "commit"])

(* revoke_token, of a refresh token: the access token it points to goes with it. *)
FindRevoked(t) ==
  /\ At(t, "revoke refresh", "begin")
  /\ LET token == refresh[running[t].app] IN
     IF token.revoked THEN End(t)
     ELSE Step(t, [running[t] EXCEPT !.old = token.access, !.ends = TRUE,
                                     !.want = {RefreshRow(running[t].app)}, !.at = "access"])

FindItsAccess(t) ==
  /\ At(t, "revoke refresh", "access")
  /\ LET marks == {running[t].old} \cap Live(running[t].app) IN
     Step(t, [running[t] EXCEPT !.marks = marks, !.want = {AccessRow(x) : x \in marks},
                                !.at = "commit"])

(* revoke_token, of an access token: its refresh token goes with it. *)
FindRevokedAccess(t) ==
  /\ At(t, "revoke access", "begin")
  /\ IF access[running[t].on].revoked THEN End(t)
     ELSE Step(t, [running[t] EXCEPT !.marks = {running[t].on},
                                     !.want = {AccessRow(running[t].on)}, !.at = "refresh"])

FindItsRefresh(t) ==
  /\ At(t, "revoke access", "refresh")
  /\ LET ends == ~refresh[running[t].app].revoked IN
     Step(t, [running[t] EXCEPT
                !.ends = ends, !.want = IF ends THEN {RefreshRow(running[t].app)} ELSE {},
                !.at = "commit"])

(* update_connected_app: nobody asks whether an app is active. *)
FindUpdated(t) ==
  /\ \E kind \in {"activate", "deactivate"} :
       /\ At(t, kind, "begin")
       /\ IF (running[t].app \in active) = (kind = "activate") THEN End(t)
          ELSE Step(t, [running[t] EXCEPT !.want = {AppRow(running[t].app)}, !.at = "commit"])

-------------------------------------------------------------------------------
(* Commit. *)
Marked(t) == [x \in DOMAIN access |->
                IF x \in running[t].marks THEN [access[x] EXCEPT !.revoked = TRUE]
                ELSE access[x]]
\* Mutant: the token is put under the device that came first.
NewAccessOfFirst(a) == [app |-> 0, revoked |-> FALSE]
NewAccess(a) == [app |-> a, revoked |-> FALSE]

Others(t, kind) == {u \in DOMAIN running \ {t} :
                      /\ running[u].kind = kind /\ running[u].app = running[t].app
                      /\ running[u].at # "begin"}
Ended(t) == running[t].at = "commit" /\ running[t].want = {} /\ running' = Without(running, t)

Exchanged(t) ==
  /\ running[t].kind = "exchange" /\ Ended(t)
  /\ used' = used \cup {running[t].on}
  /\ active' = active \cup {t} /\ origin' = Put(origin, t, running[t].on)
  /\ refresh' = Put(refresh, t, [access |-> t, revoked |-> FALSE])
  /\ access' = Put(access, t, NewAccess(t))
  /\ UNCHANGED <<requests, history>>

Refreshed(t) ==
  /\ running[t].kind = "refresh" /\ Ended(t)
  /\ access' = Put(Marked(t), t, NewAccess(running[t].app))
  /\ refresh' = [refresh EXCEPT ![running[t].app].access = t]
  /\ overlapped' = IF Others(t, "revoke app") # {} THEN overlapped \cup {t} ELSE overlapped
  /\ doubled' = IF Others(t, "refresh") # {} THEN doubled \cup {t} ELSE doubled
  /\ UNCHANGED <<used, active, origin, requests, withdrawn, deadlocks>>

Revoked(t) ==
  /\ running[t].kind \in {"revoke app", "revoke refresh", "revoke access"} /\ Ended(t)
  /\ access' = Marked(t)
  /\ refresh' = IF running[t].ends THEN [refresh EXCEPT ![running[t].app].revoked = TRUE]
                ELSE refresh
  /\ IF running[t].kind = "revoke app"
       THEN /\ active' = active \ {running[t].app}
            /\ withdrawn' = withdrawn \cup {running[t].app}
            /\ overlapped' = overlapped \cup Others(t, "refresh")
       ELSE UNCHANGED <<active, withdrawn, overlapped>>
  /\ UNCHANGED <<used, origin, requests, doubled, deadlocks>>

Updated(t) ==
  /\ running[t].kind \in {"activate", "deactivate"} /\ Ended(t)
  /\ active' = IF running[t].kind = "activate" THEN active \cup {running[t].app}
               ELSE active \ {running[t].app}
  /\ UNCHANGED <<used, origin, refresh, access, requests, history>>

-------------------------------------------------------------------------------
Find(t) ==
  \/ FindCode(t) \/ FindToken(t) \/ FindOldAccess(t) \/ PointToNew(t)
  \/ FindApp(t) \/ FindRefreshTokens(t) \/ FindAccessTokens(t)
  \/ FindRevoked(t) \/ FindItsAccess(t) \/ FindRevokedAccess(t) \/ FindItsRefresh(t)
  \/ FindUpdated(t)
Commit(t) == Exchanged(t) \/ Refreshed(t) \/ Revoked(t) \/ Updated(t)

AppRequests == {"refresh", "revoke app", "revoke refresh", "activate", "deactivate"}

Next ==
  \/ \E c \in Codes : Begin("exchange", c, 0)
  \/ \E a \in Apps, kind \in AppRequests : Begin(kind, a, a)
  \/ \E x \in DOMAIN access : Begin("revoke access", x, access[x].app)
  \/ \E t \in DOMAIN running : Find(t) \/ Write(t) \/ GiveUp(t) \/ Commit(t) \/ End(t)

Spec == Init /\ [][Next]_vars

-------------------------------------------------------------------------------
(* Properties. *)
\* The types of the variables; an app, its refresh token and the access token that one
\* points to exist together.
TypeOK ==
  /\ used \subseteq Codes /\ active \subseteq Apps /\ DOMAIN origin = Apps
  /\ \A a \in Apps : /\ refresh[a].revoked \in BOOLEAN
                     /\ refresh[a].access \in DOMAIN access
                     /\ access[refresh[a].access].app = a
  /\ \A x \in DOMAIN access : access[x].revoked \in BOOLEAN /\ access[x].app \in Apps
  /\ requests \in 0..MaxRequests /\ DOMAIN running \subseteq 1..requests
  /\ withdrawn \subseteq Apps /\ overlapped \cup doubled \subseteq 1..requests

\* A connection code connects one device, however many exchange it at once.
OneDevicePerCode == \A a, b \in Apps : origin[a] = origin[b] => a = b

\* A revoked app has no valid access token, but for those of refreshes that read the
\* refresh token before it was revoked: they still issue one.
RevocationStands == \A a \in withdrawn : Live(a) \subseteq overlapped

\* A device has one valid access token: a refresh takes the old one away.  When two
\* refreshes overlap, the token of the one that commits first is forgotten, and neither
\* the next refresh nor revoking the refresh token takes it away.
OneLiveToken == \A a \in Apps : Cardinality(Live(a) \ doubled) <= 1

\* Refreshing writes the access token before the refresh token, as does revoking an
\* access token; revoking the app, or the refresh token, goes the other way.  Requests
\* that go the same way never wait for each other in turn.
DeadlocksMixOrders ==
  \A kinds \in deadlocks :
    /\ kinds \cap {"refresh", "revoke access"} # {}
    /\ kinds \cap {"revoke app", "revoke refresh"} # {}
===============================================================================
