------------------------------ MODULE WebSession ------------------------------
(***************************************************************************)
(* The login session of the web client: the auth store, which renews its   *)
(* login token 5 minutes before it expires, the API client, which sends    *)
(* the token, and the login endpoints of the server.  Minified names are   *)
(* given where they help:                                                  *)
(*                                                                         *)
(*   store   r, and localStorage, which r's subscriber keeps equal to it   *)
(*   client  the API client's own copy of the token                        *)
(*   timer   c, the token whose renewal is scheduled                       *)
(*   Refreshing  u, the renewal under way                                  *)
(*                                                                         *)
(* A call is sent with the token the client has then, is carried out, and  *)
(* is answered in steps of their own, and the user goes on meanwhile.      *)
(* A login token names its user by email, and an email may be changed.     *)
(* One tab; what several share is only read when a tab is loaded.          *)
(***************************************************************************)
EXTENDS Naturals, Sequences, FiniteSets

CONSTANTS Users,
          Addresses,    \* emails beside the users' first ones, which are named like them
          MaxTokens,    \* bound: login tokens issued
          MaxEvents     \* bound: what the user does, and calls that fail

ASSUME BoundsAssumption == MaxTokens \in Nat \ {0} /\ MaxEvents \in Nat

Null == "null"

Emails == Users \cup Addresses

\* Somebody signs in; a user is an object and an email a string.
ASSUME UsersAssumption == Users # {} /\ Null \notin Emails

VARIABLES email,    \* users.email, Null once the account is removed
          owner,    \* the tokens issued: to whom
          sub,      \* their claim: that user's email then
          age,      \* and how near they are to their expiry
          revoked,  \* revoked_jwts
          store, client, timer,
          calls,    \* sent and not yet answered
          session,  \* history: how many logins there have been
          crossed,  \* history: an answer came to another login than it was asked by
          slept,    \* history: time has outrun a timer or an answer
          failures, \* history: calls that failed
          renamed,  \* history: an email that a live token names was given up
          handed,   \* history: an email was taken that another's token names
          mistyped, \* history: the current password was, for a new one
          refused,  \* history: an answer has ended a login
          events    \* how many of the MaxEvents have happened

users == <<email, renamed, handed>>
server == <<users, owner, sub, age, revoked, mistyped>>
vars == <<server, store, client, timer, calls, session, crossed, slept, failures, refused,
          events>>

Tokens == DOMAIN owner
Live(t) == t # 0 /\ age[t] # "expired"
Soon(t) == t # 0 /\ age[t] = "expiring"

\* get_user_by_email: who has the email that the token names.
Bearers(t) == {u \in Users : email[u] = sub[t]}
Bearer(t) == CHOOSE u \in Bearers(t) : TRUE

Valid(t) == Live(t) /\ t \notin revoked /\ Bearers(t) # {}

SignedIn == store.token # 0 /\ store.user # Null

\* Somebody is signed in: the users are alike.
First == CHOOSE u \in Users : TRUE

Init ==
  /\ email = [u \in Users |-> u]
  /\ owner = <<First>> /\ sub = <<First>> /\ store = [token |-> 1, user |-> First]
  /\ age = <<"fresh">> /\ revoked = {}
  /\ client = 1 /\ timer = 1
  /\ calls = {}
  /\ session = 1
  /\ crossed = FALSE /\ slept = FALSE /\ refused = FALSE
  /\ renamed = FALSE /\ handed = FALSE /\ mistyped = FALSE
  /\ failures = 0 /\ events = 0

-------------------------------------------------------------------------------
(* The store. *)
Event == events < MaxEvents /\ events' = events + 1

Call(kind, token, user) ==
  [kind |-> kind, auth |-> token, user |-> user, session |-> session,
   status |-> "sent", token |-> 0]

RefreshCalls == {c \in calls : c.kind = "refresh"}
Refreshing == RefreshCalls # {}

\* Mutant: a signed out store keeps its token.
SignedOutKept == [store EXCEPT !.user = Null]
SignedOut == [token |-> 0, user |-> Null]

\* r's subscriber: localStorage and the client follow the store.
Set(new) ==
  /\ store' = new
  /\ client' = IF new.token # 0 /\ new.user # Null THEN new.token ELSE 0

\* h: one renewal at a time, of a token that has not expired.  It is a call of the login
\* that the step leaves.
Renewal ==
  IF ~Refreshing /\ Live(store'.token)
    THEN {[Call("refresh", client', Null) EXCEPT !.session = session']} ELSE {}

\* Mutant: the next renewal is scheduled for tokens near their expiry only.
ArmsNot(t) == FALSE
Arms(t) == t # 0 /\ age[t] = "fresh"

\* a: renews at once near the expiry, and else when it is near.
Schedule(t, others) ==
  /\ timer' = IF Arms(t) THEN t ELSE 0
  /\ calls' = others \cup IF Soon(t) THEN Renewal ELSE {}

\* logout.
SignOut(others) ==
  /\ timer' = 0
  /\ calls' = others \cup IF store.token # 0 THEN {Call("logout", client', Null)} ELSE {}
  /\ store' = SignedOut

-------------------------------------------------------------------------------
(* The user and the browser. *)
\* The pages to sign in redirect who is signed in.
Login(u) ==
  /\ Event /\ ~SignedIn
  /\ \A c \in calls : c.kind \notin {"login", "whoami"}
  /\ Set(store)
  /\ calls' = calls \cup {Call("login", 0, u)}
  /\ UNCHANGED <<server, timer, session, crossed, slept, failures, refused>>

\* The call to log out carries the client's token, which goes after it.
Logout ==
  /\ Event /\ SignedIn
  /\ timer' = 0
  /\ calls' = calls \cup {Call("logout", client, Null)}
  /\ Set(SignedOut)
  /\ UNCHANGED <<server, session, crossed, slept, failures, refused>>

\* Any page's call; those of refreshUser and of the profile's form end in the store.
Request(kind) ==
  /\ Event /\ SignedIn
  /\ kind \in {"page", "me", "profile"}
  /\ calls' = calls \cup {Call(kind, client, Null)}
  /\ UNCHANGED <<server, store, client, timer, session, crossed, slept, failures, refused>>

TimerFires ==
  /\ timer # 0 /\ age[timer] # "fresh"
  /\ timer' = 0
  /\ UNCHANGED <<server, store, client, session, crossed, slept, failures, refused, events>>
  /\ calls' = calls \cup Renewal

TabShown ==
  /\ Event /\ Soon(store.token)
  /\ UNCHANGED <<server, store, client, timer, session, crossed, slept, failures, refused>>
  /\ calls' = calls \cup Renewal

\* The page is loaded anew, and the calls of the old one are gone: those that are carried
\* out after all change nothing for the new one but emails (RenamedElsewhere).
Loaded == IF SignedIn /\ Live(store.token) THEN store ELSE SignedOut

Reload ==
  /\ Event
  /\ Set(Loaded)
  /\ LET t == Loaded.token IN
     /\ timer' = IF Arms(t) THEN t ELSE 0
     /\ calls' = (IF Soon(t) THEN {Call("refresh", client', Null)} ELSE {})
                 \cup IF t # 0 THEN {Call("me", client', Null)} ELSE {}
  /\ UNCHANGED <<server, session, crossed, slept, failures, refused>>

\* Tokens age in the order they were issued in.  A timer is late, or a call takes longer
\* than its 10 seconds, when the machine slept.
Pass(t) ==
  /\ age[t] # "expired"
  /\ \A s \in 1..(t - 1) : age[s] = "expired" \/ (age[s] = "expiring" /\ age[t] = "fresh")
  /\ age' = [age EXCEPT ![t] = IF @ = "fresh" THEN "expiring" ELSE "expired"]
  /\ slept' = (\/ slept
               \/ \E c \in calls : c.token = t \/ (c.kind = "whoami" /\ c.auth = t)
               \/ (age[t] = "expiring" /\ (timer # 0 \/ Refreshing)))
  /\ UNCHANGED <<users, owner, sub, revoked, mistyped, store, client, timer, calls, session,
                 crossed, failures, refused, events>>

-------------------------------------------------------------------------------
(* The server. *)
Served(c, status, token, user) ==
  calls' = (calls \ {c}) \cup {[c EXCEPT !.status = status, !.token = token, !.user = user]}

\* create_login_response.
Issue(c, u) ==
  /\ Len(owner) < MaxTokens
  /\ owner' = Append(owner, u)
  /\ sub' = Append(sub, email[u])
  /\ age' = Append(age, "fresh")
  /\ Served(c, "ok", Len(owner) + 1, u)

\* update_user and hard_delete_user: u's email becomes e, and no other user has it.
Renamed(u, e) ==
  /\ e # Null => \A v \in Users : email[v] # e
  /\ email' = [email EXCEPT ![u] = e]
  /\ renamed' = (renamed \/ \E t \in Tokens : Live(t) /\ sub[t] = email[u])
  /\ handed' = (handed \/ \E t \in Tokens : sub[t] = e /\ owner[t] # u)

\* Another browser, an administrator, or a call of a page that has been left.
RenamedElsewhere(u) ==
  /\ Event /\ email[u] # Null
  /\ \E e \in Emails \cup {Null} : Renamed(u, e)
  /\ UNCHANGED <<owner, sub, age, revoked, mistyped, store, client, timer, calls, session,
                 crossed, slept, failures, refused>>

\* logout revokes any token that has not expired; the other endpoints want one that is
\* not revoked either and names a user.
Accepts(c) == CASE c.kind = "login" -> email[c.user] # Null
                [] c.kind = "logout" -> Live(c.auth)
                [] OTHER -> Valid(c.auth)

\* Besides, a wrong password is a 401: of a login, and of the current one for a new one.
Refuses(c) == ~Accepts(c) \/ c.kind \in {"login", "profile"}

Asker(c) == IF c.kind = "login" THEN c.user ELSE Bearer(c.auth)

Serve(c) ==
  /\ c.status = "sent"
  /\ \/ /\ Accepts(c) /\ c.kind \in {"login", "refresh"}
        /\ Issue(c, Asker(c))
        /\ UNCHANGED <<users, revoked, mistyped>>
     \/ /\ Accepts(c) /\ c.kind = "logout"
        /\ revoked' = revoked \cup {c.auth}
        /\ Served(c, "ok", 0, Null)
        /\ UNCHANGED <<users, owner, sub, age, mistyped>>
     \/ /\ Accepts(c) /\ c.kind \in {"whoami", "me", "page", "profile"}
        /\ Served(c, "ok", 0, Bearer(c.auth))
        /\ UNCHANGED server
     \/ /\ Accepts(c) /\ c.kind = "profile"
        /\ \E e \in Emails : Renamed(Bearer(c.auth), e)
        /\ Served(c, "ok", 0, Bearer(c.auth))
        /\ UNCHANGED <<owner, sub, age, revoked, mistyped>>
     \/ /\ Refuses(c)
        /\ Served(c, "refused", 0, Null)
        /\ mistyped' = (mistyped \/ (Accepts(c) /\ c.kind = "profile"))
        /\ UNCHANGED <<users, owner, sub, age, revoked>>
  /\ UNCHANGED <<store, client, timer, session, crossed, slept, failures, refused, events>>

-------------------------------------------------------------------------------
(* Answers. *)
Crosses(c) == SignedIn /\ c.session # session
Cross(c) == crossed' = (crossed \/ Crosses(c))

\* login: the token, then whose it is.
Greeted(c) ==
  /\ c.kind = "login" /\ c.status = "ok"
  /\ client' = c.token
  /\ calls' = (calls \ {c}) \cup {Call("whoami", c.token, c.user)}
  /\ UNCHANGED <<server, store, timer, session, crossed, slept, failures, refused, events>>

\* Mutant: the user of before stays.
EnteredAsBefore(c) == [token |-> c.auth, user |-> IF store.user # Null THEN store.user ELSE c.user]
Entered(c) == [token |-> c.auth, user |-> c.user]

Enter(c) ==
  /\ c.kind = "whoami" /\ c.status = "ok"
  /\ Set(Entered(c))
  /\ session' = session + 1
  /\ Schedule(c.auth, calls \ {c})
  /\ UNCHANGED <<server, crossed, slept, failures, refused, events>>

\* Mutant: the new token goes to the client and not to the store.
RenewedNot(c) == store
Renewed(c) == IF SignedIn THEN [store EXCEPT !.token = c.token] ELSE store

\* refreshLogin gives the client its token, and the subscriber the store's, unless there
\* is none to update.
Renew(c) ==
  /\ c.kind = "refresh" /\ c.status = "ok"
  /\ Set(Renewed(c))
  /\ Cross(c)
  /\ UNCHANGED <<server, session, slept, failures, refused, events>>
  /\ Schedule(c.token, calls \ {c})

\* refreshUser, and updateUser of the profile.
Told(c) ==
  /\ c.kind \in {"me", "profile"} /\ c.status = "ok"
  /\ Set([store EXCEPT !.user = c.user])
  /\ calls' = calls \ {c}
  /\ Cross(c)
  /\ UNCHANGED <<server, timer, session, slept, failures, refused, events>>

Done(c) ==
  /\ c.kind \in {"page", "logout"} /\ c.status = "ok"
  /\ calls' = calls \ {c}
  /\ UNCHANGED <<server, store, client, timer, session, crossed, slept, failures, refused,
                 events>>

\* A 401 clears the client's token, and ends the login unless it answers a logout.
Turned(c) ==
  /\ c.status = "refused"
  /\ client' = 0
  /\ Cross(c)
  /\ IF c.kind = "logout"
       THEN calls' = calls \ {c} /\ UNCHANGED <<store, timer, refused>>
       ELSE /\ SignOut(calls \ {c})
            /\ refused' = (refused \/ SignedIn)
  /\ UNCHANGED <<server, session, slept, failures, events>>

\* No answer, or an error.  What a renewal then schedules is nothing: within 5 minutes of
\* the expiry a would renew at once, and the failed renewal still counts as under way.
Fail(c) ==
  /\ Event
  /\ failures' = failures + 1
  /\ CASE c.kind \in {"login", "whoami"} -> Set(store) /\ UNCHANGED timer
       [] c.kind = "refresh" /\ Live(store.token) ->
            timer' = (IF Arms(store.token) THEN store.token ELSE 0) /\ UNCHANGED <<store, client>>
       [] OTHER -> UNCHANGED <<store, client, timer>>
  /\ calls' = calls \ {c}
  /\ UNCHANGED <<server, session, crossed, slept, refused>>

Answer(c) == Greeted(c) \/ Enter(c) \/ Renew(c) \/ Told(c) \/ Done(c) \/ Turned(c)

Next ==
  \/ \E u \in Users : Login(u)
  \/ Logout \/ TimerFires \/ TabShown \/ Reload
  \/ \E kind \in {"page", "me", "profile"} : Request(kind)
  \/ \E u \in Users : RenamedElsewhere(u)
  \/ \E t \in Tokens : Pass(t)
  \/ \E c \in calls : Serve(c) \/ Answer(c) \/ Fail(c)

Spec == Init /\ [][Next]_vars

\* Timers fire, calls are carried out and answered; nobody has to do anything else.
FairSpec ==
  /\ Spec
  /\ WF_vars(TimerFires)
  /\ WF_vars(\E c \in calls : Serve(c)) /\ WF_vars(\E c \in calls : Answer(c))

-------------------------------------------------------------------------------
(* Properties. *)
\* The types of the variables; no two users have one email, a token in the store has a
\* user beside it, and a call that was answered with a token has one that was issued.
TypeOK ==
  /\ email \in [Users -> Emails \cup {Null}]
  /\ \A u, v \in Users : email[u] = email[v] /\ email[u] # Null => u = v
  /\ sub \in Seq(Emails) /\ Len(sub) = Len(owner)
  /\ owner \in Seq(Users) /\ age \in [Tokens -> {"fresh", "expiring", "expired"}]
  /\ revoked \subseteq Tokens
  /\ store \in [token : Tokens \cup {0}, user : Users \cup {Null}]
  /\ store.token # 0 => store.user # Null
  /\ client \in Tokens \cup {0} /\ timer \in Tokens \cup {0}
  /\ \A c \in calls : c.auth \in Tokens \cup {0} /\ c.token \in Tokens \cup {0}

\* The user who is shown is the one whose token is sent, and nobody else is the one the
\* server takes its bearer for, however logins, logouts, reloads, renewals and changes of
\* emails follow one another, unless an answer came to another login than it was asked by
\* (the answer to a renewal puts its token beside whoever is signed in then), or an email
\* has passed to another user while tokens named it: they name the other one then.
TokenIsTheUsers ==
  SignedIn /\ ~crossed /\ ~handed =>
    owner[store.token] = store.user /\ Bearers(store.token) \subseteq {store.user}

\* A login whose page stays open only ends by logging out: no call is refused, unless a
\* call has failed, the machine slept, an answer has crossed, the email that a live token
\* names was changed, which leaves it without a user, or the current password was wrong.
SessionIsKept == refused => crossed \/ failures > 0 \/ slept \/ renamed \/ mistyped

\* The renewal comes: near its expiry, the store's token is replaced or gone in the end,
\* unless a call has failed or the machine slept: after one failed renewal none is
\* scheduled (Fail).
SessionIsRenewed ==
  Soon(store.token) ~>
    \/ ~Soon(store.token)
    \/ failures > 0 \/ slept \/ Len(owner) = MaxTokens
===============================================================================
