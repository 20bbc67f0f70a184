--------------------------- MODULE WebSessionProofs ---------------------------
(***************************************************************************)
(* Proofs about WebSession: its type invariant, that the user who is shown *)
(* is the one whose token is sent, and that a login is not ended by a      *)
(* renewal that comes too late.                                            *)
(***************************************************************************)
EXTENDS WebSession, TLAPS

Kinds == {"login", "whoami", "refresh", "me", "profile", "page", "logout"}

\* The calls a page that is signed in makes.
PageKinds == {"refresh", "me", "profile", "page"}

CallType ==
  [kind : Kinds, auth : Tokens \cup {0}, user : Users \cup {Null}, session : Nat,
   status : {"sent", "ok", "refused"}, token : Tokens \cup {0}]

Types ==
  /\ TypeOK
  /\ calls \subseteq CallType
  /\ session \in Nat /\ failures \in Nat
  /\ crossed \in BOOLEAN /\ slept \in BOOLEAN /\ refused \in BOOLEAN
  /\ renamed \in BOOLEAN /\ handed \in BOOLEAN /\ mistyped \in BOOLEAN

\* A live token names the user it was issued to until an email is given up, and no token
\* names another user until an email is handed on.
TokensNamed ==
  /\ ~renamed => \A t \in Tokens : age[t] # "expired" => email[owner[t]] = sub[t]
  /\ ~handed => \A t \in Tokens : \A u \in Users : email[u] = sub[t] => u = owner[t]

\* The login is asked for, and whose it is, one call at a time and signed out.
Entering(c) == c.kind \in {"login", "whoami"}

EntersAlone ==
  \A c \in calls : Entering(c) => store.token = 0 /\ \A d \in calls : Entering(d) => d = c

\* What a call asks and what it was answered agree with whose the tokens are.
Fits(c) ==
  /\ c.session <= session
  /\ c.kind = "login" /\ c.status # "refused" => c.user \in Users
  /\ c.kind = "login" /\ c.status = "ok" => c.token # 0 /\ owner[c.token] = c.user
  /\ c.kind = "whoami" => c.auth # 0
  /\ c.kind = "whoami" /\ c.status # "refused" =>
       c.user \in Users /\ (~handed => owner[c.auth] = c.user)
  /\ c.kind \in {"me", "profile"} /\ c.status = "ok" =>
       c.auth # 0 /\ c.user \in Users /\ (~handed => owner[c.auth] = c.user)
  /\ c.kind = "refresh" /\ c.status = "ok" =>
       c.auth # 0 /\ c.token # 0 /\ (~handed => owner[c.token] = owner[c.auth])
  /\ c.kind = "logout" /\ SignedIn => c.session < session

CallsFit == \A c \in calls : Fits(c)

\* Unless the machine slept, an answer comes, and its user is known, while its token is
\* fresh.
InTime(c) ==
  /\ c.token # 0 => age[c.token] = "fresh"
  /\ c.kind = "whoami" => age[c.auth] = "fresh"

CallsInTime == ~slept => \A c \in calls : InTime(c)

\* A call of the login that is signed in now.
Current(c) == c.kind \in PageKinds /\ c.session = session

\* The user who is shown is the one the token was issued to.
ShowsItsOwner == SignedIn /\ ~crossed /\ ~handed => owner[store.token] = store.user

\* What the page sends is the token of the user it shows, and so did its calls.
SendsItsToken ==
  SignedIn /\ ~crossed =>
    /\ client = store.token
    /\ \A c \in calls : Current(c) =>
         c.auth # 0 /\ (~handed => owner[c.auth] = store.user)

\* The tokens of logins that have ended, which are or will be revoked.
Ended(x) == x \in revoked \/ \E c \in calls : c.kind = "logout" /\ c.auth = x

\* They are older than each token of the login that is signed in or signing in.
EndedAreOlder ==
  \A x \in Tokens : Ended(x) =>
    /\ \A c \in calls : /\ c.kind = "whoami" => x < c.auth
                        /\ c.kind = "login" /\ c.token # 0 => x < c.token
    /\ SignedIn /\ ~crossed =>
         /\ x < store.token
         /\ \A c \in calls :
              Current(c) => x < c.auth /\ (c.token # 0 => x < c.token)

\* Nothing has failed, nobody slept, no answer has crossed, no email was given up and no
\* password was wrong.
Undisturbed == ~crossed /\ failures = 0 /\ ~slept /\ ~renamed /\ ~mistyped

\* The token is renewed before it expires, so no call is refused.
Renewing ==
  SignedIn /\ Undisturbed =>
    /\ timer # 0 \/ Refreshing
    /\ age[store.token] # "expired"
    /\ \A c \in calls : Current(c) => age[c.auth] # "expired" /\ c.status # "refused"

IInv ==
  /\ Types
  /\ TokensNamed
  /\ EntersAlone
  /\ CallsFit
  /\ CallsInTime
  /\ SendsItsToken
  /\ ShowsItsOwner
  /\ EndedAreOlder
  /\ Renewing
  /\ SessionIsKept

-------------------------------------------------------------------------------
(* Tokens. *)
\* What the types say of the tokens, and of who is signed in.
LEMMA TokensTyped ==
  ASSUME Types
  PROVE  /\ Len(owner) \in Nat /\ Tokens = 1..Len(owner)
         /\ \A t \in Tokens : t \in Nat /\ t # 0 /\ owner[t] \in Users
         /\ \A t \in Tokens : age[t] \in {"fresh", "expiring", "expired"}
         /\ store.token \in Tokens \cup {0} /\ store.user \in Users \cup {Null}
         /\ SignedIn <=> store.token # 0
<1>1. Len(owner) \in Nat /\ Tokens = 1..Len(owner)
  BY DEF Types, TypeOK, Tokens
<1>2. \A t \in Tokens : t \in Nat /\ t # 0 /\ owner[t] \in Users
  BY <1>1 DEF Types, TypeOK, Tokens
<1>3. \A t \in Tokens : age[t] \in {"fresh", "expiring", "expired"}
  BY DEF Types, TypeOK
<1>4. store.token \in Tokens \cup {0} /\ store.user \in Users \cup {Null}
  BY DEF Types, TypeOK
<1>5. SignedIn <=> store.token # 0
  BY DEF Types, TypeOK, SignedIn
<1> QED BY <1>1, <1>2, <1>3, <1>4, <1>5

\* A call that is sent, by its fields.
LEMMA CallSent ==
  ASSUME Types, NEW kind \in Kinds, NEW token \in Tokens \cup {0},
         NEW user \in Users \cup {Null}
  PROVE  /\ Call(kind, token, user) \in CallType
         /\ Call(kind, token, user).kind = kind
         /\ Call(kind, token, user).auth = token
         /\ Call(kind, token, user).user = user
         /\ Call(kind, token, user).session = session
         /\ Call(kind, token, user).status = "sent"
         /\ Call(kind, token, user).token = 0
BY DEF Types, CallType, Call

-------------------------------------------------------------------------------
(* The initial state. *)
LEMMA InitialState == Init => IInv
<1> SUFFICES ASSUME Init PROVE IInv
  OBVIOUS
<1>1. First \in Users
  BY UsersAssumption DEF First
<1>2. /\ owner = <<First>> /\ age = <<"fresh">> /\ revoked = {}
      /\ store.token = 1 /\ store.user = First /\ client = 1 /\ timer = 1
      /\ calls = {} /\ session = 1 /\ failures = 0
      /\ crossed = FALSE /\ slept = FALSE /\ refused = FALSE
      /\ renamed = FALSE /\ handed = FALSE /\ mistyped = FALSE
      /\ email = [u \in Users |-> u] /\ sub = <<First>>
  BY DEF Init
<1>3. Tokens = {1} /\ owner[1] = First /\ age[1] = "fresh"
  BY <1>2 DEF Tokens
<1>4. TypeOK
  <2>1. owner \in Seq(Users)
    BY <1>1, <1>2
  <2>2. age \in [Tokens -> {"fresh", "expiring", "expired"}]
    BY <1>2, <1>3
  <2>3. store \in [token : Tokens \cup {0}, user : Users \cup {Null}]
    BY <1>1, <1>3 DEF Init
  <2>4. store.user # Null
    BY <1>1, <1>2, UsersAssumption DEF Emails
  <2>5. /\ email \in [Users -> Emails \cup {Null}]
        /\ \A u, v \in Users : email[u] = email[v] => u = v
    BY <1>2 DEF Emails
  <2>6. sub \in Seq(Emails) /\ Len(sub) = Len(owner)
    BY <1>1, <1>2 DEF Emails
  <2> QED BY <1>2, <1>3, <2>1, <2>2, <2>3, <2>4, <2>5, <2>6 DEF TypeOK
<1>5. Types /\ TokensNamed
  <2>1. Types
    BY <1>2, <1>4 DEF Types
  <2>2. TokensNamed
    <3>1. owner[1] = First /\ sub[1] = First /\ email[First] = First
      BY <1>1, <1>2
    <3>2. \A u \in Users : email[u] = u
      BY <1>2
    <3> QED BY <1>3, <3>1, <3>2 DEF TokensNamed
  <2> QED BY <2>1, <2>2
<1>6. EntersAlone /\ CallsFit /\ CallsInTime
  BY <1>2 DEF EntersAlone, CallsFit, CallsInTime
<1>7. SendsItsToken
  BY <1>2 DEF SendsItsToken
<1>8. ShowsItsOwner
  BY <1>2, <1>3 DEF ShowsItsOwner
<1>9. EndedAreOlder
  BY <1>2 DEF EndedAreOlder, Ended
<1>10. Renewing
  BY <1>2, <1>3 DEF Renewing
<1>11. SessionIsKept
  BY <1>2 DEF SessionIsKept
<1> QED BY <1>5, <1>6, <1>7, <1>8, <1>9, <1>10, <1>11 DEF IInv

-------------------------------------------------------------------------------
(* The user and the browser. *)
LEMMA LoginKeeps ==
  ASSUME IInv, NEW u \in Users, Login(u)
  PROVE  IInv'
<1>1. PICK n : n = Call("login", 0, u)
  OBVIOUS
<1>2. /\ n \in CallType /\ n.kind = "login" /\ n.auth = 0 /\ n.user = u
      /\ n.session = session /\ n.status = "sent" /\ n.token = 0
  BY <1>1, CallSent DEF IInv, Kinds
<1>3. /\ calls' = calls \cup {n} /\ store' = store /\ client' = 0
      /\ store.token = 0 /\ \A c \in calls : ~Entering(c)
  BY <1>1, TokensTyped DEF IInv, Login, Set, SignedIn, Entering
<1>4. UNCHANGED <<email, owner, sub, age, revoked, renamed, handed, mistyped, timer,
                  session, crossed, slept, failures, refused>>
  BY DEF Login, server, users
<1>5. Types' /\ TokensNamed'
  BY <1>2, <1>3, <1>4 DEF IInv, Types, TokensNamed, TypeOK, Tokens, CallType
<1>6. EntersAlone'
  BY <1>2, <1>3, <1>4 DEF IInv, EntersAlone, Entering
<1>7. CallsFit'
  BY <1>2, <1>3, <1>4 DEF IInv, Types, CallsFit, Fits, SignedIn
<1>8. CallsInTime'
  BY <1>2, <1>3, <1>4 DEF IInv, CallsInTime, InTime
<1>9. SendsItsToken' /\ ShowsItsOwner' /\ Renewing'
  BY <1>3 DEF SendsItsToken, ShowsItsOwner, Renewing, SignedIn
<1>10. EndedAreOlder'
  BY <1>2, <1>3, <1>4 DEF IInv, EndedAreOlder, Ended, Tokens, SignedIn
<1>11. SessionIsKept'
  BY <1>4 DEF IInv, SessionIsKept
<1> QED BY <1>5, <1>6, <1>7, <1>8, <1>9, <1>10, <1>11 DEF IInv

\* Logging out keeps the invariant.
LEMMA LogoutKeeps ==
  ASSUME IInv, Logout
  PROVE  IInv'
<1>1. PICK n : n = Call("logout", client, Null)
  OBVIOUS
<1>2. /\ n \in CallType /\ n.kind = "logout" /\ n.session = session
      /\ n.status = "sent" /\ n.token = 0
  <2>1. "logout" \in Kinds
    BY DEF Kinds
  <2>2. client \in Tokens \cup {0}
    BY DEF IInv, Types, TypeOK
  <2> QED BY <1>1, <2>1, <2>2, CallSent DEF IInv
<1>3. /\ calls' = calls \cup {n} /\ store' = SignedOut /\ client' = 0 /\ timer' = 0
      /\ store'.token = 0 /\ \A c \in calls : ~Entering(c)
  BY <1>1, TokensTyped DEF IInv, Logout, Set, SignedOut, SignedIn, EntersAlone
<1>4. UNCHANGED <<email, owner, sub, age, revoked, renamed, handed, mistyped, session,
                  crossed, slept, failures, refused>>
  BY DEF Logout, server, users
<1>5. Types' /\ TokensNamed'
  BY <1>2, <1>3, <1>4 DEF IInv, Types, TokensNamed, TypeOK, Tokens, CallType, SignedOut
<1>6. EntersAlone'
  BY <1>2, <1>3 DEF EntersAlone, Entering
<1>7. CallsFit'
  BY <1>2, <1>3, <1>4 DEF IInv, Types, CallsFit, Fits, SignedIn
<1>8. CallsInTime'
  BY <1>2, <1>3, <1>4 DEF IInv, CallsInTime, InTime
<1>9. SendsItsToken' /\ ShowsItsOwner' /\ Renewing'
  BY <1>3 DEF SendsItsToken, ShowsItsOwner, Renewing, SignedIn
<1>10. EndedAreOlder'
  BY <1>2, <1>3, <1>4 DEF EndedAreOlder, Entering, SignedIn
<1>11. SessionIsKept'
  BY <1>4 DEF IInv, SessionIsKept
<1> QED BY <1>5, <1>6, <1>7, <1>8, <1>9, <1>10, <1>11 DEF IInv

\* The calls that a page that is signed in sends, whatever they ask.
LEMMA PageSends ==
  ASSUME IInv,
         NEW S, S \subseteq {Call(kind, client, Null) : kind \in PageKinds},
         S # {} => SignedIn,
         calls' = calls \cup S,
         timer' \in Tokens \cup {0},
         SignedIn /\ Undisturbed => timer' # 0 \/ Refreshing',
         UNCHANGED <<email, owner, sub, age, revoked, renamed, handed, mistyped, store,
                     client, session, crossed, slept, failures, refused>>
  PROVE  IInv'
<1>1. \A n \in S :
        /\ n \in CallType /\ n.kind \in PageKinds /\ n.auth = client
        /\ n.session = session /\ n.status = "sent" /\ n.token = 0 /\ SignedIn
  <2> SUFFICES ASSUME NEW n \in S
               PROVE  /\ n \in CallType /\ n.kind \in PageKinds /\ n.auth = client
                      /\ n.session = session /\ n.status = "sent" /\ n.token = 0
    OBVIOUS
  <2>1. PICK kind \in PageKinds : n = Call(kind, client, Null)
    OBVIOUS
  <2>2. kind \in Kinds
    BY DEF Kinds, PageKinds
  <2>3. client \in Tokens \cup {0}
    BY DEF IInv, Types, TypeOK
  <2> QED BY <2>1, <2>2, <2>3, CallSent DEF IInv
<1>2. Types' /\ TokensNamed'
  BY <1>1 DEF IInv, Types, TokensNamed, TypeOK, Tokens, CallType
<1>3. EntersAlone'
  BY <1>1, TokensTyped DEF IInv, EntersAlone, Entering, PageKinds
<1>4. CallsFit'
  BY <1>1 DEF IInv, Types, CallsFit, Fits, SignedIn, PageKinds
<1>5. CallsInTime'
  BY <1>1 DEF IInv, CallsInTime, InTime, PageKinds
<1>6. SendsItsToken'
  BY <1>1, TokensTyped DEF IInv, SendsItsToken, ShowsItsOwner, Current, SignedIn
<1>7. ShowsItsOwner' /\ SessionIsKept'
  BY DEF IInv, ShowsItsOwner, SessionIsKept, SignedIn
<1>8. EndedAreOlder'
  <2>1. \A x : Ended(x)' => Ended(x)
    BY <1>1 DEF Ended, PageKinds
  <2>2. SignedIn /\ ~crossed => client = store.token
    BY DEF IInv, SendsItsToken
  <2> QED BY <1>1, <2>1, <2>2 DEF IInv, EndedAreOlder, Current, Tokens, SignedIn, PageKinds
<1>9. Renewing'
  <2>1. SignedIn /\ ~crossed => client = store.token
    BY DEF IInv, SendsItsToken
  <2>2. SignedIn' = SignedIn /\ Undisturbed' = Undisturbed
    BY DEF SignedIn, Undisturbed
  <2>3. SignedIn /\ Undisturbed =>
          /\ age[store.token] # "expired"
          /\ \A c \in calls' : Current(c)' => age[c.auth] # "expired" /\ c.status # "refused"
    BY <1>1, <2>1 DEF IInv, Renewing, Current, Undisturbed
  <2> QED BY <2>2, <2>3 DEF Renewing
<1> QED BY <1>2, <1>3, <1>4, <1>5, <1>6, <1>7, <1>8, <1>9 DEF IInv

\* A request of a page keeps the invariant.
LEMMA RequestKeeps ==
  ASSUME IInv, NEW kind \in {"page", "me", "profile"}, Request(kind)
  PROVE  IInv'
<1>1. {Call(kind, client, Null)} \subseteq {Call(k, client, Null) : k \in PageKinds}
  BY DEF PageKinds
<1>2. /\ SignedIn /\ calls' = calls \cup {Call(kind, client, Null)} /\ timer' = timer
      /\ UNCHANGED <<email, owner, sub, age, revoked, renamed, handed, mistyped, store,
                     client, session, crossed, slept, failures, refused>>
  BY DEF Request, server, users
<1>3. SignedIn /\ Undisturbed => timer' # 0 \/ Refreshing'
  BY <1>2 DEF IInv, Renewing, Refreshing, RefreshCalls
<1>4. timer' \in Tokens \cup {0}
  BY <1>2 DEF IInv, Types, TypeOK
<1> QED BY <1>1, <1>2, <1>3, <1>4, PageSends

\* A renewal is sent for a token that has not expired, if none is under way.
LEMMA RenewalSent ==
  ASSUME IInv, store' = store, client' = client, age' = age, session' = session
  PROVE  /\ Renewal \subseteq {Call(k, client, Null) : k \in PageKinds}
         /\ Renewal # {} => SignedIn
         /\ SignedIn /\ Undisturbed /\ calls' = calls \cup Renewal => Refreshing'
<1>0. [Call("refresh", client', Null) EXCEPT !.session = session']
        = Call("refresh", client, Null)
  BY DEF Call
<1>1. Renewal # {} => Renewal = {Call("refresh", client, Null)} /\ store.token # 0
  BY <1>0 DEF Renewal, Live
<1>2. Renewal \subseteq {Call(k, client, Null) : k \in PageKinds}
  BY <1>1 DEF PageKinds
<1>3. Renewal # {} => SignedIn
  BY <1>1, TokensTyped DEF IInv
<1>4. ASSUME SignedIn, Undisturbed, calls' = calls \cup Renewal
      PROVE  Refreshing'
  <2>1. age[store.token] # "expired" /\ store.token # 0
    BY <1>4, TokensTyped DEF IInv, Renewing
  <2>2. CASE Refreshing
    BY <1>4, <2>2 DEF Refreshing, RefreshCalls
  <2>3. CASE ~Refreshing
    <3>1. Renewal = {Call("refresh", client, Null)}
      BY <1>0, <2>1, <2>3 DEF Renewal, Live
    <3>2. Call("refresh", client, Null).kind = "refresh"
      BY DEF Call
    <3> QED BY <1>4, <3>1, <3>2 DEF Refreshing, RefreshCalls
  <2> QED BY <2>2, <2>3
<1> QED BY <1>2, <1>3, <1>4

\* The renewal timer keeps the invariant.
LEMMA TimerFiresKeeps ==
  ASSUME IInv, TimerFires
  PROVE  IInv'
<1>1. /\ calls' = calls \cup Renewal /\ timer' = 0
      /\ UNCHANGED <<email, owner, sub, age, revoked, renamed, handed, mistyped, store,
                     client, session, crossed, slept, failures, refused>>
  BY DEF TimerFires, server, users
<1> QED BY <1>1, RenewalSent, PageSends

\* Showing the tab again keeps the invariant.
LEMMA TabShownKeeps ==
  ASSUME IInv, TabShown
  PROVE  IInv'
<1>1. /\ calls' = calls \cup Renewal /\ timer' = timer
      /\ UNCHANGED <<email, owner, sub, age, revoked, renamed, handed, mistyped, store,
                     client, session, crossed, slept, failures, refused>>
  BY DEF TabShown, server, users
<1>2. timer' \in Tokens \cup {0}
  BY <1>1 DEF IInv, Types, TypeOK
<1> QED BY <1>1, <1>2, RenewalSent, PageSends

\* Reloading the page keeps the invariant.
LEMMA ReloadKeeps ==
  ASSUME IInv, Reload
  PROVE  IInv'
<1>1. UNCHANGED <<email, owner, sub, age, revoked, renamed, handed, mistyped, session,
                  crossed, slept, failures, refused>>
  BY DEF Reload, server, users
<1>2. CASE ~(SignedIn /\ Live(store.token))
  <2>1. /\ store' = SignedOut /\ store'.token = 0 /\ client' = 0 /\ timer' = 0 /\ calls' = {}
    BY <1>2 DEF Reload, Loaded, SignedOut, Set, Arms, Soon
  <2>2. Types' /\ TokensNamed'
    BY <1>1, <2>1 DEF IInv, Types, TokensNamed, TypeOK, Tokens, CallType, SignedOut
  <2>3. EntersAlone' /\ CallsFit' /\ CallsInTime'
    BY <2>1 DEF EntersAlone, CallsFit, CallsInTime
  <2>4. SendsItsToken' /\ ShowsItsOwner' /\ EndedAreOlder' /\ Renewing'
    BY <2>1 DEF SendsItsToken, ShowsItsOwner, EndedAreOlder, Renewing, SignedIn
  <2>5. SessionIsKept'
    BY <1>1 DEF IInv, SessionIsKept
  <2> QED BY <2>2, <2>3, <2>4, <2>5 DEF IInv
<1>3. CASE SignedIn /\ Live(store.token)
  <2>1. /\ store' = store /\ client' = store.token /\ store.token # 0
        /\ store.token \in Tokens /\ age[store.token] # "expired"
    BY <1>3, TokensTyped DEF IInv, Reload, Loaded, Set, SignedIn, Live
  <2>2. /\ timer' = IF Arms(store.token) THEN store.token ELSE 0
        /\ calls' = (IF Soon(store.token) THEN {Call("refresh", store.token, Null)} ELSE {})
                    \cup {Call("me", store.token, Null)}
    BY <1>3, <2>1 DEF Reload, Loaded
  <2>3. \A n \in calls' :
          /\ n \in CallType /\ n.kind \in {"refresh", "me"} /\ n.auth = store.token
          /\ n.session = session /\ n.status = "sent" /\ n.token = 0
    <3>1. \A kind \in {"refresh", "me"} :
            LET n == Call(kind, store.token, Null) IN
            /\ n \in CallType /\ n.kind = kind /\ n.auth = store.token
            /\ n.session = session /\ n.status = "sent" /\ n.token = 0
      BY <2>1, CallSent DEF IInv, Kinds
    <3> QED BY <2>2, <3>1
  <2>4. Types' /\ TokensNamed'
    BY <1>1, <2>1, <2>2, <2>3 DEF IInv, Types, TokensNamed, TypeOK, Tokens, CallType
  <2>5. EntersAlone' /\ CallsFit' /\ CallsInTime'
    BY <1>1, <2>3 DEF IInv, Types, EntersAlone, CallsFit, CallsInTime, Entering, Fits, InTime
  <2>6. ShowsItsOwner' /\ SessionIsKept'
    BY <1>1, <2>1 DEF IInv, ShowsItsOwner, SessionIsKept, SignedIn
  <2>7. SendsItsToken'
    BY <1>1, <1>3, <2>1, <2>3 DEF IInv, ShowsItsOwner, SendsItsToken, SignedIn
  <2>8. EndedAreOlder'
    <3>1. \A x : Ended(x)' => Ended(x)
      BY <1>1, <2>3 DEF Ended
    <3> QED BY <1>1, <1>3, <2>1, <2>3, <3>1 DEF IInv, EndedAreOlder, Tokens, SignedIn
  <2>9. timer' # 0 \/ Refreshing'
    <3>1. CASE age[store.token] = "fresh"
      BY <2>1, <2>2, <3>1 DEF Arms
    <3>2. CASE age[store.token] = "expiring"
      <4>1. Call("refresh", store.token, Null) \in calls'
        BY <2>1, <2>2, <3>2 DEF Soon
      <4>2. Call("refresh", store.token, Null).kind = "refresh"
        BY DEF Call
      <4> QED BY <4>1, <4>2 DEF Refreshing, RefreshCalls
    <3> QED BY <2>1, <3>1, <3>2, TokensTyped DEF IInv
  <2>10. Renewing'
    BY <1>1, <2>1, <2>3, <2>9 DEF Renewing
  <2> QED BY <2>4, <2>5, <2>6, <2>7, <2>8, <2>10 DEF IInv
<1> QED BY <1>2, <1>3

\* Time passing for a token keeps the invariant.
LEMMA PassKeeps ==
  ASSUME IInv, NEW t \in Tokens, Pass(t)
  PROVE  IInv'
<1>1. UNCHANGED <<email, owner, sub, revoked, renamed, handed, mistyped, store, client, timer,
                  calls, session, crossed, failures, refused>>
  BY DEF Pass, users
<1>2. /\ \A s \in Tokens : s # t => age'[s] = age[s]
      /\ age[t] # "expired"
      /\ age'[t] = IF age[t] = "fresh" THEN "expiring" ELSE "expired"
  BY DEF IInv, Types, TypeOK, Pass
<1>3. ~slept' =>
        /\ ~slept
        /\ \A c \in calls : c.token # t /\ (c.kind = "whoami" => c.auth # t)
        /\ age[t] = "expiring" => timer = 0 /\ ~Refreshing
  BY DEF Pass
<1>4. Types' /\ TokensNamed'
  <2>1. age' \in [Tokens -> {"fresh", "expiring", "expired"}]
    BY DEF IInv, Types, TypeOK, Pass
  <2>2. slept' \in BOOLEAN
    BY DEF Pass
  <2>3. Types'
    BY <1>1, <2>1, <2>2 DEF IInv, Types, TypeOK, Tokens, CallType
  <2>4. TokensNamed'
    BY <1>1, <1>2 DEF IInv, TokensNamed, Tokens
  <2> QED BY <2>3, <2>4
<1>5. EntersAlone' /\ CallsFit' /\ SendsItsToken' /\ ShowsItsOwner' /\ EndedAreOlder'
  <2>1. EntersAlone'
    BY <1>1 DEF IInv, EntersAlone
  <2>2. CallsFit'
    BY <1>1 DEF IInv, CallsFit, Fits, SignedIn
  <2>3. SendsItsToken' /\ ShowsItsOwner'
    BY <1>1 DEF IInv, SendsItsToken, ShowsItsOwner, SignedIn, Current
  <2>4. EndedAreOlder'
    BY <1>1 DEF IInv, EndedAreOlder, Ended, SignedIn, Current, Tokens
  <2> QED BY <2>1, <2>2, <2>3, <2>4
<1>6. CallsInTime'
  <2> SUFFICES ASSUME ~slept', NEW c \in calls
               PROVE  /\ c.token # 0 => age'[c.token] = "fresh"
                      /\ c.kind = "whoami" => age'[c.auth] = "fresh"
    BY <1>1 DEF CallsInTime, InTime
  <2>1. c.token \in Tokens \cup {0} /\ c.auth \in Tokens \cup {0}
    BY DEF IInv, Types, CallType
  <2>2. c.kind = "whoami" => c.auth # 0
    BY DEF IInv, CallsFit, Fits
  <2> QED BY <1>2, <1>3, <2>1, <2>2 DEF IInv, CallsInTime, InTime
<1>7. Renewing'
  <2> SUFFICES ASSUME SignedIn, ~crossed, failures = 0, ~slept', ~renamed, ~mistyped
               PROVE  /\ timer # 0 \/ Refreshing
                      /\ age'[store.token] # "expired"
                      /\ \A c \in calls :
                           Current(c) => age'[c.auth] # "expired" /\ c.status # "refused"
    BY <1>1 DEF Renewing, SignedIn, Undisturbed, Refreshing, RefreshCalls, Current
  <2>1. /\ timer # 0 \/ Refreshing
        /\ age[store.token] # "expired"
        /\ \A c \in calls : Current(c) => age[c.auth] # "expired" /\ c.status # "refused"
    BY <1>3 DEF IInv, Renewing, Undisturbed
  <2>2. age[t] = "fresh"
    BY <1>2, <1>3, <2>1, TokensTyped DEF IInv
  <2>3. \A s \in Tokens : age[s] # "expired" => age'[s] # "expired"
    BY <1>2, <2>2
  <2>4. store.token \in Tokens
    BY TokensTyped DEF IInv
  <2>5. \A c \in calls : Current(c) => c.auth \in Tokens
    BY DEF IInv, Types, CallType, SendsItsToken
  <2> QED BY <2>1, <2>3, <2>4, <2>5
<1>8. SessionIsKept'
  BY <1>1, <1>3 DEF IInv, SessionIsKept
<1> QED BY <1>4, <1>5, <1>6, <1>7, <1>8 DEF IInv

-------------------------------------------------------------------------------
(* The server. *)
\* Whom the lookup by email finds for a token.
LEMMA BearersOwn ==
  ASSUME IInv, NEW t \in Tokens
  PROVE  /\ Valid(t) => /\ Bearer(t) \in Users /\ email[Bearer(t)] = sub[t]
                        /\ ~handed => Bearer(t) = owner[t]
         /\ ~handed => Bearers(t) \subseteq {owner[t]}
         /\ ~renamed /\ age[t] # "expired" => Bearers(t) # {}
<1>1. Valid(t) => Bearer(t) \in Bearers(t)
  BY DEF Valid, Bearer
<1>2. owner[t] \in Users
  BY TokensTyped DEF IInv
<1> QED BY <1>1, <1>2 DEF IInv, TokensNamed, Bearers

\* Changing an email keeps what the tokens name, in its limits.
LEMMA RenamedNames ==
  ASSUME IInv, NEW u \in Users, NEW e \in Emails \cup {Null}, Renamed(u, e),
         UNCHANGED <<owner, sub, age>>
  PROVE  /\ email' \in [Users -> Emails \cup {Null}]
         /\ \A v, w \in Users : email'[v] = email'[w] /\ email'[v] # Null => v = w
         /\ renamed' \in BOOLEAN /\ (renamed => renamed')
         /\ handed' \in BOOLEAN /\ (handed => handed')
         /\ TokensNamed'
<1>1. /\ email \in [Users -> Emails \cup {Null}]
      /\ \A v, w \in Users : email[v] = email[w] /\ email[v] # Null => v = w
      /\ e # Null => \A v \in Users : email[v] # e
  BY DEF IInv, Types, TypeOK, Renamed
<1>2. /\ email' \in [Users -> Emails \cup {Null}]
      /\ email'[u] = e
      /\ \A v \in Users : v # u => email'[v] = email[v]
  BY <1>1 DEF Renamed
<1>3. \A v, w \in Users : email'[v] = email'[w] /\ email'[v] # Null => v = w
  BY <1>1, <1>2
<1>4. renamed' \in BOOLEAN /\ (renamed => renamed') /\ handed' \in BOOLEAN /\ (handed => handed')
  BY DEF Renamed
<1>5. ASSUME ~renamed', NEW t \in Tokens, age[t] # "expired"
      PROVE  email'[owner[t]] = sub[t]
  <2>1. ~renamed /\ owner[t] \in Users /\ Live(t)
    BY <1>4, <1>5, TokensTyped DEF IInv, Live
  <2>2. email[owner[t]] = sub[t]
    BY <1>5, <2>1 DEF IInv, TokensNamed
  <2>3. sub[t] # email[u]
    BY <1>5, <2>1 DEF Renamed
  <2> QED BY <1>2, <2>1, <2>2, <2>3
<1>6. ASSUME ~handed', NEW t \in Tokens, NEW v \in Users, email'[v] = sub[t]
      PROVE  v = owner[t]
  <2>1. CASE v = u
    BY <1>2, <1>6, <2>1 DEF Renamed
  <2>2. CASE v # u
    BY <1>2, <1>4, <1>6, <2>2 DEF IInv, TokensNamed
  <2> QED BY <2>1, <2>2
<1>7. TokensNamed'
  BY <1>5, <1>6 DEF TokensNamed, Tokens
<1> QED BY <1>2, <1>3, <1>4, <1>7

\* Changing an email elsewhere keeps the invariant.
LEMMA RenamedElsewhereKeeps ==
  ASSUME IInv, NEW u \in Users, RenamedElsewhere(u)
  PROVE  IInv'
<1>1. UNCHANGED <<owner, sub, age, revoked, mistyped, store, client, timer, calls, session,
                  crossed, slept, failures, refused>>
  BY DEF RenamedElsewhere
<1>2. PICK e \in Emails \cup {Null} : Renamed(u, e)
  BY DEF RenamedElsewhere
<1>3. /\ email' \in [Users -> Emails \cup {Null}]
      /\ \A v, w \in Users : email'[v] = email'[w] /\ email'[v] # Null => v = w
      /\ renamed' \in BOOLEAN /\ (renamed => renamed')
      /\ handed' \in BOOLEAN /\ (handed => handed')
      /\ TokensNamed'
  BY <1>1, <1>2, RenamedNames
<1>4. Types'
  BY <1>1, <1>3 DEF IInv, Types, TypeOK, Tokens, CallType
<1>5. EntersAlone' /\ CallsFit' /\ CallsInTime'
  BY <1>1, <1>3 DEF IInv, EntersAlone, CallsFit, Fits, CallsInTime, InTime, SignedIn
<1>6. SendsItsToken' /\ ShowsItsOwner' /\ SessionIsKept'
  BY <1>1, <1>3 DEF IInv, SendsItsToken, ShowsItsOwner, SessionIsKept, SignedIn, Current
<1>7. EndedAreOlder'
  BY <1>1 DEF IInv, EndedAreOlder, Ended, Tokens, SignedIn, Current
<1>8. Renewing'
  BY <1>1, <1>3 DEF IInv, Renewing, Undisturbed, Refreshing, RefreshCalls, SignedIn, Current
<1> QED BY <1>3, <1>4, <1>5, <1>6, <1>7, <1>8 DEF IInv

\* Issuing a token keeps the invariant.
LEMMA IssueKeeps ==
  ASSUME IInv, NEW c \in calls, c.status = "sent", Accepts(c), c.kind \in {"login", "refresh"},
         Issue(c, Asker(c)),
         UNCHANGED <<email, renamed, handed, mistyped, revoked, store, client, timer, session,
                     crossed, slept, failures, refused>>
  PROVE  IInv'
<1>1. PICK u : u = Asker(c)
  OBVIOUS
<1>2. PICK N : N = Len(owner) + 1
  OBVIOUS
<1>3. PICK n : n = [c EXCEPT !.status = "ok", !.token = N, !.user = u]
  OBVIOUS
<1>4. /\ calls' = (calls \ {c}) \cup {n}
      /\ owner' = Append(owner, u) /\ sub' = Append(sub, email[u])
      /\ age' = Append(age, "fresh")
  BY <1>1, <1>2, <1>3 DEF Issue, Served
<1>5. /\ n = [kind |-> c.kind, auth |-> c.auth, user |-> u, session |-> c.session,
              status |-> "ok", token |-> N]
      /\ n.kind = c.kind /\ n.auth = c.auth /\ n.session = c.session
      /\ n.status = "ok" /\ n.token = N /\ n.user = u
  <2>1. c \in CallType
    BY DEF IInv, Types
  <2>2. n = [kind |-> c.kind, auth |-> c.auth, user |-> u, session |-> c.session,
             status |-> "ok", token |-> N]
    BY <1>3, <2>1 DEF CallType
  <2> QED BY <2>2
<1>6. /\ c.kind \in Kinds /\ c.auth \in Tokens \cup {0} /\ c.session \in Nat
      /\ c.token \in Tokens \cup {0}
  BY DEF IInv, Types, CallType
<1>7. c.kind = "refresh" =>
        /\ c.auth \in Tokens /\ u \in Users /\ email[u] = sub[c.auth]
        /\ ~handed => u = owner[c.auth]
  <2> SUFFICES ASSUME c.kind = "refresh"
               PROVE  /\ c.auth \in Tokens /\ u \in Users /\ email[u] = sub[c.auth]
                      /\ ~handed => u = owner[c.auth]
    OBVIOUS
  <2>1. c.auth \in Tokens /\ Valid(c.auth)
    BY <1>6 DEF Accepts, Valid, Live
  <2>2. u = Bearer(c.auth)
    BY <1>1 DEF Asker
  <2> QED BY <2>1, <2>2, BearersOwn
<1>8. u \in Users /\ email[u] \in Emails
  <2>1. email \in [Users -> Emails \cup {Null}] /\ sub \in Seq(Emails) /\ Len(sub) = Len(owner)
    BY DEF IInv, Types, TypeOK
  <2>2. CASE c.kind = "login"
    <3>1. u = c.user /\ u \in Users /\ email[u] # Null
      BY <1>1, <2>2 DEF IInv, CallsFit, Fits, Accepts, Asker
    <3> QED BY <2>1, <3>1
  <2>3. CASE c.kind = "refresh"
    <3>1. Tokens = 1..Len(sub)
      BY <2>1, TokensTyped DEF IInv
    <3> QED BY <1>7, <2>1, <2>3, <3>1
  <2> QED BY <2>2, <2>3
<1>9. /\ Tokens = 1..Len(owner) /\ Len(owner) \in Nat
      /\ \A t \in Tokens : t \in Nat /\ t < N /\ t # N
  BY <1>2, TokensTyped DEF IInv
<1>10. /\ owner' \in Seq(Users) /\ Tokens' = Tokens \cup {N}
       /\ \A t \in Tokens : owner'[t] = owner[t]
       /\ owner'[N] = u
  <2>1. owner \in Seq(Users)
    BY DEF IInv, Types, TypeOK
  <2>2. owner' \in Seq(Users) /\ Len(owner') = N
    BY <1>2, <1>4, <1>8, <2>1
  <2>3. Tokens' = 1..N
    BY <2>2 DEF Tokens
  <2>4. Tokens' = Tokens \cup {N}
    BY <1>2, <1>9, <2>3
  <2>5. \A t \in Tokens : owner'[t] = owner[t]
    BY <1>4, <1>9, <2>1
  <2>6. owner'[N] = u
    BY <1>2, <1>4, <2>1
  <2> QED BY <2>2, <2>4, <2>5, <2>6
<1>11. /\ age' \in [Tokens' -> {"fresh", "expiring", "expired"}]
       /\ \A t \in Tokens : age'[t] = age[t]
       /\ age'[N] = "fresh"
  <2>1. age \in [1..Len(owner) -> {"fresh", "expiring", "expired"}]
    BY <1>9 DEF IInv, Types, TypeOK
  <2>2. age \in Seq({"fresh", "expiring", "expired"}) /\ Len(age) = Len(owner)
    BY <1>9, <2>1
  <2>3. age' \in Seq({"fresh", "expiring", "expired"}) /\ Len(age') = N
    BY <1>2, <1>4, <2>2
  <2>4. Tokens' = 1..N
    BY <1>2, <1>9, <1>10
  <2>5. age' \in [Tokens' -> {"fresh", "expiring", "expired"}]
    BY <2>3, <2>4
  <2>6. \A t \in Tokens : age'[t] = age[t]
    BY <1>4, <1>9, <2>2
  <2>7. age'[N] = "fresh"
    BY <1>2, <1>4, <2>2
  <2> QED BY <2>5, <2>6, <2>7
<1>a. /\ sub' \in Seq(Emails) /\ Len(sub') = Len(owner')
      /\ \A t \in Tokens : sub'[t] = sub[t]
      /\ sub'[N] = email[u]
  <2>1. sub \in Seq(Emails) /\ Len(sub) = Len(owner) /\ owner \in Seq(Users)
    BY DEF IInv, Types, TypeOK
  <2>2. sub' \in Seq(Emails) /\ Len(sub') = Len(owner')
    BY <1>4, <1>8, <2>1
  <2>3. \A t \in Tokens : sub'[t] = sub[t]
    BY <1>4, <1>8, <1>9, <2>1
  <2>4. sub'[N] = email[u]
    BY <1>2, <1>4, <1>8, <2>1
  <2> QED BY <2>2, <2>3, <2>4
<1>b. TokensNamed'
  <2>1. ASSUME ~renamed, NEW t \in Tokens', age'[t] # "expired"
        PROVE  email[owner'[t]] = sub'[t]
    <3>1. CASE t \in Tokens
      BY <1>10, <1>11, <1>a, <2>1, <3>1 DEF IInv, TokensNamed
    <3>2. CASE t = N
      BY <1>10, <1>a, <3>2
    <3> QED BY <1>10, <3>1, <3>2
  <2>2. ASSUME ~handed, NEW t \in Tokens', NEW v \in Users, email[v] = sub'[t]
        PROVE  v = owner'[t]
    <3>1. CASE t \in Tokens
      BY <1>10, <1>a, <2>2, <3>1 DEF IInv, TokensNamed
    <3>2. CASE t = N
      <4>1. email[v] = email[u] /\ email[u] # Null
        BY <1>8, <1>a, <2>2, <3>2, UsersAssumption
      <4>2. v = u
        BY <1>8, <4>1 DEF IInv, Types, TypeOK
      <4> QED BY <1>10, <3>2, <4>2
    <3> QED BY <1>10, <3>1, <3>2
  <2> QED BY <2>1, <2>2 DEF TokensNamed
<1>12. store.token \in Tokens \cup {0}
  BY TokensTyped DEF IInv
<1>13. \A d \in calls : d.auth \in Tokens \cup {0} /\ d.token \in Tokens \cup {0}
  BY DEF IInv, Types, CallType
<1>14. Types'
  <2>1. \A d \in calls : d \in CallType'
    BY <1>10 DEF IInv, Types, CallType
  <2>2. n \in CallType'
    BY <1>5, <1>6, <1>8, <1>10 DEF CallType
  <2>3. calls' \subseteq CallType'
    BY <1>4, <2>1, <2>2
  <2>4. TypeOK'
    <3>1. \A d \in calls' : d.auth \in Tokens' \cup {0} /\ d.token \in Tokens' \cup {0}
      BY <2>3 DEF CallType
    <3>2. store' \in [token : Tokens' \cup {0}, user : Users \cup {Null}]
      BY <1>10 DEF IInv, Types, TypeOK
    <3> QED BY <1>10, <1>11, <1>a, <3>1, <3>2 DEF IInv, Types, TypeOK
  <2> QED BY <2>3, <2>4 DEF IInv, Types
<1>15. EntersAlone'
  BY <1>4, <1>5 DEF IInv, EntersAlone, Entering
<1>16. CallsFit'
  <2>1. \A d \in calls : Fits(d)'
    BY <1>9, <1>10, <1>13 DEF IInv, CallsFit, Fits, SignedIn
  <2>2. Fits(n)'
    <3>1. n.session <= session
      BY <1>5 DEF IInv, CallsFit, Fits
    <3>2. CASE c.kind = "login"
      BY <1>1, <1>2, <1>5, <1>8, <1>9, <1>10, <3>1, <3>2 DEF Fits
    <3>3. CASE c.kind = "refresh"
      <4>1. c.auth # 0 /\ N # 0 /\ (~handed => owner'[N] = owner'[c.auth])
        BY <1>1, <1>2, <1>7, <1>9, <1>10, <3>3
      <4> QED BY <1>5, <3>1, <3>3, <4>1 DEF Fits
    <3> QED BY <3>2, <3>3
  <2> QED BY <1>4, <2>1, <2>2 DEF CallsFit
<1>17. CallsInTime'
  <2>1. ~slept => \A d \in calls : InTime(d)'
    BY <1>11, <1>13 DEF IInv, CallsInTime, InTime, CallsFit, Fits
  <2>2. InTime(n)'
    BY <1>5, <1>11 DEF InTime
  <2> QED BY <1>4, <2>1, <2>2 DEF CallsInTime
<1>18. SendsItsToken'
  <2>1. SignedIn' = SignedIn /\ \A d \in calls : Current(d)' = Current(d)
    BY DEF SignedIn, Current
  <2>2. Current(n)' => Current(c)
    BY <1>5 DEF Current
  <2>3. SignedIn /\ ~crossed =>
          /\ client = store.token
          /\ \A d \in calls : Current(d) =>
               d.auth # 0 /\ (~handed => owner[d.auth] = store.user)
    BY DEF IInv, SendsItsToken
  <2>4. SignedIn /\ ~crossed =>
          \A d \in calls : Current(d) =>
            d.auth # 0 /\ (~handed => owner'[d.auth] = store.user)
    BY <1>10, <1>13, <2>3
  <2>5. SignedIn /\ ~crossed =>
          \A d \in calls' : Current(d)' =>
            d.auth # 0 /\ (~handed => owner'[d.auth] = store.user)
    BY <1>4, <1>5, <2>1, <2>2, <2>4
  <2> QED BY <2>1, <2>3, <2>5 DEF SendsItsToken
<1>19. ShowsItsOwner'
  BY <1>10, <1>12 DEF IInv, ShowsItsOwner, SignedIn
<1>20. EndedAreOlder'
  <2>1. \A x : Ended(x)' => Ended(x)
    BY <1>4, <1>5 DEF Ended
  <2>2. \A x : Ended(x) /\ x # 0 => x \in Tokens
    BY <1>13 DEF IInv, Types, TypeOK, Ended
  <2> SUFFICES ASSUME NEW x \in Tokens, Ended(x)
               PROVE  /\ \A d \in calls' : /\ d.kind = "whoami" => x < d.auth
                                           /\ d.kind = "login" /\ d.token # 0 => x < d.token
                      /\ SignedIn /\ ~crossed =>
                           /\ x < store.token
                           /\ \A d \in calls' :
                                Current(d) => x < d.auth /\ (d.token # 0 => x < d.token)
    <3>1. \A x \in Tokens' : x \in Nat /\ x # 0
      BY <1>2, <1>9, <1>10
    <3> QED BY <2>1, <2>2, <3>1 DEF EndedAreOlder, SignedIn, Current
  <2>3. x < N
    BY <1>9
  <2> QED BY <1>4, <1>5, <2>3 DEF IInv, EndedAreOlder, Current
<1>21. Renewing'
  <2> SUFFICES ASSUME SignedIn, Undisturbed
               PROVE  /\ timer # 0 \/ Refreshing'
                      /\ age'[store.token] # "expired"
                      /\ \A d \in calls' :
                           Current(d) => age'[d.auth] # "expired" /\ d.status # "refused"
    BY DEF Renewing, SignedIn, Undisturbed, Current
  <2>1. /\ timer # 0 \/ Refreshing
        /\ age[store.token] # "expired"
        /\ \A d \in calls : Current(d) => age[d.auth] # "expired" /\ d.status # "refused"
    BY DEF IInv, Renewing
  <2>2. timer # 0 \/ Refreshing'
    BY <1>4, <1>5, <2>1 DEF Refreshing, RefreshCalls
  <2>3. age'[store.token] # "expired"
    BY <1>11, <2>1, TokensTyped DEF IInv
  <2>4. \A d \in calls : Current(d) => d.auth \in Tokens
    BY <1>13 DEF IInv, SendsItsToken, Undisturbed
  <2>5. \A d \in calls : Current(d) => age'[d.auth] # "expired" /\ d.status # "refused"
    BY <1>11, <2>1, <2>4
  <2>6. Current(n) => Current(c)
    BY <1>5 DEF Current
  <2> QED BY <1>4, <1>5, <2>2, <2>3, <2>5, <2>6
<1>22. SessionIsKept'
  BY DEF IInv, SessionIsKept
<1> QED BY <1>b, <1>14, <1>15, <1>16, <1>17, <1>18, <1>19, <1>20, <1>21, <1>22 DEF IInv

\* A call that is carried out or refused, and is answered without a token.
LEMMA AnsweredKeeps ==
  ASSUME IInv, NEW c \in calls, c.status = "sent",
         NEW status \in {"ok", "refused"}, NEW user \in Users \cup {Null},
         Served(c, status, 0, user),
         UNCHANGED <<owner, sub, age, store, client, timer, session, crossed, slept, failures,
                     refused>>,
         \/ UNCHANGED <<email, renamed, handed>>
         \/ \E u \in Users : \E e \in Emails : Renamed(u, e),
         mistyped' \in BOOLEAN, mistyped => mistyped',
         revoked' = revoked \/ (c.kind = "logout" /\ c.auth \in Tokens
                                /\ revoked' = revoked \cup {c.auth}),
         status = "ok" => /\ c.kind \notin {"login", "refresh"}
                          /\ c.kind \in {"whoami", "me", "profile"} =>
                               /\ c.auth # 0 /\ user \in Users
                               /\ ~handed => user = owner[c.auth],
         status = "refused" => ~Accepts(c) \/ c.kind = "login" \/ mistyped'
  PROVE  IInv'
<1>1. PICK n : n = [c EXCEPT !.status = status, !.token = 0, !.user = user]
  OBVIOUS
<1>2. calls' = (calls \ {c}) \cup {n}
  BY <1>1 DEF Served
<1>3. /\ n = [kind |-> c.kind, auth |-> c.auth, user |-> user, session |-> c.session,
              status |-> status, token |-> 0]
      /\ n.kind = c.kind /\ n.auth = c.auth /\ n.session = c.session
      /\ n.status = status /\ n.token = 0 /\ n.user = user
  <2>1. c \in CallType
    BY DEF IInv, Types
  <2>2. n = [kind |-> c.kind, auth |-> c.auth, user |-> user, session |-> c.session,
             status |-> status, token |-> 0]
    BY <1>1, <2>1 DEF CallType
  <2> QED BY <2>2
<1>4. c.kind \in Kinds /\ c.auth \in Tokens \cup {0} /\ c.session \in Nat
  BY DEF IInv, Types, CallType
<1>5. /\ email' \in [Users -> Emails \cup {Null}]
      /\ \A v, w \in Users : email'[v] = email'[w] /\ email'[v] # Null => v = w
      /\ renamed' \in BOOLEAN /\ (renamed => renamed')
      /\ handed' \in BOOLEAN /\ (handed => handed')
      /\ TokensNamed'
  <2>1. CASE UNCHANGED <<email, renamed, handed>>
    <3>1. TokensNamed'
      BY <2>1 DEF IInv, TokensNamed, Tokens
    <3> QED BY <2>1, <3>1 DEF IInv, Types, TypeOK
  <2>2. CASE \E u \in Users : \E e \in Emails : Renamed(u, e)
    <3>1. PICK u \in Users : \E e \in Emails : Renamed(u, e)
      BY <2>2
    <3>2. PICK e \in Emails : Renamed(u, e)
      BY <3>1
    <3> QED BY <3>2, RenamedNames
  <2> QED BY <2>1, <2>2
<1>6. Types'
  <2>1. n \in CallType
    BY <1>3, <1>4 DEF CallType
  <2>2. calls' \subseteq CallType
    BY <1>2, <2>1 DEF IInv, Types
  <2>3. TypeOK'
    <3>1. \A d \in calls' : d.auth \in Tokens \cup {0} /\ d.token \in Tokens \cup {0}
      BY <2>2 DEF CallType
    <3>2. revoked' \subseteq Tokens
      BY DEF IInv, Types, TypeOK
    <3> QED BY <1>5, <3>1, <3>2 DEF IInv, Types, TypeOK, Tokens
  <2> QED BY <1>5, <2>2, <2>3 DEF IInv, Types, CallType, Tokens
<1>7. EntersAlone'
  BY <1>2, <1>3 DEF IInv, EntersAlone, Entering
<1>8. CallsFit'
  <2>1. Fits(c)
    BY DEF IInv, CallsFit
  <2>2. Fits(n)
    BY <1>3, <2>1 DEF Fits
  <2>3. \A d \in calls' : Fits(d)
    BY <1>2, <2>2 DEF IInv, CallsFit
  <2> QED BY <1>5, <2>3 DEF CallsFit, Fits, SignedIn
<1>9. CallsInTime'
  BY <1>2, <1>3 DEF IInv, CallsInTime, InTime
<1>10. SendsItsToken'
  BY <1>2, <1>3, <1>5 DEF IInv, SendsItsToken, SignedIn, Current
<1>11. ShowsItsOwner' /\ SessionIsKept'
  BY <1>5 DEF IInv, ShowsItsOwner, SessionIsKept, SignedIn
<1>12. EndedAreOlder'
  <2>1. \A x : Ended(x)' => Ended(x)
    BY <1>2, <1>3 DEF Ended
  <2> QED BY <1>2, <1>3, <2>1 DEF IInv, EndedAreOlder, SignedIn, Current, Tokens
<1>13. Renewing'
  <2> SUFFICES ASSUME SignedIn, Undisturbed, ~mistyped'
               PROVE  /\ timer # 0 \/ Refreshing'
                      /\ age[store.token] # "expired"
                      /\ \A d \in calls' :
                           Current(d) => age[d.auth] # "expired" /\ d.status # "refused"
    BY <1>5 DEF Renewing, SignedIn, Undisturbed, Current
  <2>1. /\ timer # 0 \/ Refreshing
        /\ age[store.token] # "expired"
        /\ \A d \in calls : Current(d) => age[d.auth] # "expired" /\ d.status # "refused"
    BY DEF IInv, Renewing
  <2>2. timer # 0 \/ Refreshing'
    BY <1>2, <1>3, <2>1 DEF Refreshing, RefreshCalls
  <2>3. Current(n) => Current(c)
    BY <1>3 DEF Current
  <2>4. Current(c) => Accepts(c)
    <3> SUFFICES ASSUME Current(c) PROVE Accepts(c)
      OBVIOUS
    <3>1. c.auth # 0 /\ age[c.auth] # "expired"
      BY <2>1 DEF IInv, SendsItsToken, Undisturbed
    <3>2. c.auth \notin revoked
      <4>1. c.auth \in Tokens /\ c.auth \in Nat
        BY <1>4, <3>1, TokensTyped DEF IInv
      <4> QED BY <4>1 DEF IInv, EndedAreOlder, Ended, Undisturbed
    <3>3. Bearers(c.auth) # {}
      BY <1>4, <3>1, BearersOwn DEF Undisturbed
    <3> QED BY <3>1, <3>2, <3>3 DEF Accepts, Valid, Live, Current, PageKinds
  <2>5. Current(n) => age[n.auth] # "expired" /\ n.status # "refused"
    BY <1>3, <2>1, <2>3, <2>4 DEF Current, PageKinds
  <2> QED BY <1>2, <2>1, <2>2, <2>5
<1> QED BY <1>5, <1>6, <1>7, <1>8, <1>9, <1>10, <1>11, <1>12, <1>13 DEF IInv

\* The server's handling of a request keeps the invariant.
LEMMA ServeKeeps ==
  ASSUME IInv, NEW c \in calls, Serve(c)
  PROVE  IInv'
<1>1. /\ c.status = "sent"
      /\ UNCHANGED <<store, client, timer, session, crossed, slept, failures, refused>>
  BY DEF Serve
<1>2. c.auth \in Tokens \cup {0}
  BY DEF IInv, Types, CallType
<1>3. mistyped \in BOOLEAN
  BY DEF IInv, Types
<1>4. Valid(c.auth) => c.auth # 0 /\ Bearer(c.auth) \in Users
                       /\ (~handed => Bearer(c.auth) = owner[c.auth])
  <2>1. Valid(c.auth) => c.auth \in Tokens /\ c.auth # 0
    BY <1>2 DEF Valid, Live
  <2> QED BY <2>1, BearersOwn
<1>5. CASE /\ Accepts(c) /\ c.kind \in {"login", "refresh"}
           /\ Issue(c, Asker(c))
           /\ UNCHANGED <<users, revoked, mistyped>>
  BY <1>1, <1>5, IssueKeeps DEF users
<1>6. CASE /\ Accepts(c) /\ c.kind = "logout"
           /\ revoked' = revoked \cup {c.auth}
           /\ Served(c, "ok", 0, Null)
           /\ UNCHANGED <<users, owner, sub, age, mistyped>>
  <2>1. c.auth \in Tokens
    BY <1>2, <1>6 DEF Accepts, Live
  <2> QED BY <1>1, <1>3, <1>6, <2>1, AnsweredKeeps DEF users
<1>7. CASE /\ Accepts(c) /\ c.kind \in {"whoami", "me", "page", "profile"}
           /\ Served(c, "ok", 0, Bearer(c.auth))
           /\ UNCHANGED server
  <2>1. Valid(c.auth)
    BY <1>7 DEF Accepts
  <2> QED BY <1>1, <1>3, <1>4, <1>7, <2>1, AnsweredKeeps DEF server, users
<1>8. CASE /\ Accepts(c) /\ c.kind = "profile"
           /\ \E e \in Emails : Renamed(Bearer(c.auth), e)
           /\ Served(c, "ok", 0, Bearer(c.auth))
           /\ UNCHANGED <<owner, sub, age, revoked, mistyped>>
  <2>1. Valid(c.auth)
    BY <1>8 DEF Accepts
  <2> QED BY <1>1, <1>3, <1>4, <1>8, <2>1, AnsweredKeeps
<1>9. CASE /\ Refuses(c)
           /\ Served(c, "refused", 0, Null)
           /\ mistyped' = (mistyped \/ (Accepts(c) /\ c.kind = "profile"))
           /\ UNCHANGED <<users, owner, sub, age, revoked>>
  <2>1. mistyped' \in BOOLEAN /\ (mistyped => mistyped')
    BY <1>9
  <2>2. ~Accepts(c) \/ c.kind = "login" \/ mistyped'
    BY <1>9 DEF Refuses
  <2> QED BY <1>1, <1>9, <2>1, <2>2, AnsweredKeeps DEF users
<1> QED BY <1>1, <1>5, <1>6, <1>7, <1>8, <1>9 DEF Serve

-------------------------------------------------------------------------------
(* Answers. *)
LEMMA GreetedKeeps ==
  ASSUME IInv, NEW c \in calls, Greeted(c)
  PROVE  IInv'
<1>1. PICK n : n = Call("whoami", c.token, c.user)
  OBVIOUS
<1>2. /\ c \in CallType /\ c.kind = "login" /\ c.status = "ok"
      /\ c.token # 0 /\ owner[c.token] = c.user /\ store.token = 0
      /\ \A d \in calls : Entering(d) => d = c
  BY DEF IInv, Types, Greeted, CallsFit, Fits, EntersAlone, Entering
<1>3. /\ n \in CallType /\ n.kind = "whoami" /\ n.auth = c.token /\ n.user = c.user
      /\ n.session = session /\ n.status = "sent" /\ n.token = 0
  <2>1. "whoami" \in Kinds
    BY DEF Kinds
  <2>2. c.token \in Tokens \cup {0} /\ c.user \in Users \cup {Null}
    BY <1>2 DEF CallType
  <2> QED BY <1>1, <2>1, <2>2, CallSent DEF IInv
<1>4. /\ calls' = (calls \ {c}) \cup {n} /\ client' = c.token
      /\ UNCHANGED <<email, owner, sub, age, revoked, renamed, handed, mistyped, store,
                     timer, session, crossed, slept, failures, refused>>
  BY <1>1 DEF Greeted, server, users
<1>5. Types' /\ TokensNamed'
  BY <1>2, <1>3, <1>4 DEF IInv, Types, TokensNamed, TypeOK, Tokens, CallType
<1>6. EntersAlone'
  BY <1>2, <1>3, <1>4 DEF EntersAlone, Entering
<1>7. CallsFit'
  BY <1>2, <1>3, <1>4 DEF IInv, Types, CallsFit, Fits, SignedIn
<1>8. CallsInTime'
  BY <1>2, <1>3, <1>4 DEF IInv, CallsInTime, InTime
<1>9. SendsItsToken' /\ ShowsItsOwner' /\ Renewing'
  BY <1>2, <1>4 DEF SendsItsToken, ShowsItsOwner, Renewing, SignedIn
<1>10. EndedAreOlder'
  <2>1. \A x : Ended(x)' => Ended(x)
    BY <1>3, <1>4 DEF Ended
  <2> QED BY <1>2, <1>3, <1>4, <2>1 DEF IInv, EndedAreOlder, Tokens, SignedIn
<1>11. SessionIsKept'
  BY <1>4 DEF IInv, SessionIsKept
<1> QED BY <1>5, <1>6, <1>7, <1>8, <1>9, <1>10, <1>11 DEF IInv

\* Taking over the token of a login keeps the invariant.
LEMMA EnterKeeps ==
  ASSUME IInv, NEW c \in calls, Enter(c)
  PROVE  IInv'
<1>1. /\ c \in CallType /\ c.kind = "whoami" /\ c.status = "ok"
      /\ c.auth \in Tokens /\ c.auth # 0 /\ (~handed => owner[c.auth] = c.user)
      /\ c.user \in Users /\ store.token = 0
      /\ \A d \in calls : Entering(d) => d = c
  BY DEF IInv, Types, CallType, Enter, CallsFit, Fits, EntersAlone, Entering
<1>2. c.user \in Users /\ c.user # Null
  BY <1>1, TokensTyped, UsersAssumption DEF IInv, Emails
<1>3. /\ store'.token = c.auth /\ store'.user = c.user /\ client' = c.auth
      /\ store' \in [token : Tokens \cup {0}, user : Users \cup {Null}]
  BY <1>1, <1>2 DEF Enter, Entered, Set
<1>4. /\ session' = session + 1 /\ session \in Nat
      /\ UNCHANGED <<email, owner, sub, age, revoked, renamed, handed, mistyped,
                     crossed, slept, failures, refused>>
  BY DEF IInv, Types, Enter, server, users
<1>5. /\ timer' = IF Arms(c.auth) THEN c.auth ELSE 0
      /\ calls' = (calls \ {c}) \cup (IF Soon(c.auth) THEN Renewal ELSE {})
  BY DEF Enter, Schedule
<1>6. \A n \in Renewal :
        /\ n \in CallType /\ n.kind = "refresh" /\ n.auth = c.auth /\ n.session = session'
        /\ n.status = "sent" /\ n.token = 0 /\ age[c.auth] # "expired"
  <2> SUFFICES ASSUME NEW n \in Renewal
               PROVE  /\ n \in CallType /\ n.kind = "refresh" /\ n.auth = c.auth
                      /\ n.session = session' /\ n.status = "sent" /\ n.token = 0
                      /\ age[c.auth] # "expired"
    OBVIOUS
  <2>1. n = [Call("refresh", c.auth, Null) EXCEPT !.session = session']
    BY <1>3 DEF Renewal
  <2>2. n = [kind |-> "refresh", auth |-> c.auth, user |-> Null, session |-> session',
             status |-> "sent", token |-> 0]
    BY <2>1 DEF Call
  <2>3. "refresh" \in Kinds /\ session' \in Nat
    BY <1>4 DEF Kinds
  <2>4. age[c.auth] # "expired"
    BY <1>3, <1>4 DEF Renewal, Live
  <2> QED BY <1>1, <2>2, <2>3, <2>4 DEF CallType
<1>7. \A d \in calls' :
        \/ d \in calls /\ d # c /\ ~Entering(d) /\ d.session < session'
        \/ /\ d \in CallType /\ d.kind = "refresh" /\ d.auth = c.auth /\ d.session = session'
           /\ d.status = "sent" /\ d.token = 0 /\ age[c.auth] # "expired"
  <2>1. \A d \in calls : d.session \in Nat /\ d.session <= session
    BY DEF IInv, Types, CallType, CallsFit, Fits
  <2>2. \A d \in calls : d.session < session'
    BY <1>4, <2>1
  <2> QED BY <1>1, <1>5, <1>6, <2>2
<1>8. Types' /\ TokensNamed'
  <2>1. calls' \subseteq CallType
    BY <1>7 DEF IInv, Types
  <2>2. TypeOK'
    <3>1. \A d \in calls' : d.auth \in Tokens \cup {0} /\ d.token \in Tokens \cup {0}
      BY <2>1 DEF CallType
    <3>2. timer' \in Tokens \cup {0} /\ client' \in Tokens \cup {0}
      BY <1>1, <1>3, <1>5
    <3> QED BY <1>2, <1>3, <1>4, <3>1, <3>2 DEF IInv, Types, TypeOK, Tokens
  <2>3. Types'
    BY <1>4, <2>1, <2>2 DEF IInv, Types, CallType, Tokens
  <2>4. TokensNamed'
    BY <1>4 DEF IInv, TokensNamed, Tokens
  <2> QED BY <2>3, <2>4
<1>9. EntersAlone'
  BY <1>7 DEF EntersAlone, Entering
<1>10. CallsFit'
  <2> SUFFICES ASSUME NEW d \in calls' PROVE Fits(d)'
    BY DEF CallsFit
  <2>1. d.session <= session'
    <3>1. d.session \in Nat
      BY <1>7 DEF IInv, Types, CallType
    <3> QED BY <1>4, <1>7, <3>1
  <2> QED BY <1>4, <1>7, <2>1 DEF IInv, CallsFit, Fits, Entering
<1>11. CallsInTime'
  BY <1>4, <1>7 DEF IInv, CallsInTime, InTime
<1>12. \A d \in calls' : Current(d)' => d.auth = c.auth /\ d.token = 0 /\ d.status = "sent"
                                        /\ age[c.auth] # "expired"
  <2>1. \A d \in calls' : d.session < session' => d.session # session'
    <3>1. \A d \in calls' : d.session \in Nat
      BY <1>7, <1>8 DEF Types, CallType
    <3> QED BY <1>4, <3>1
  <2> QED BY <1>7, <2>1 DEF Current
<1>13. SendsItsToken' /\ ShowsItsOwner'
  <2>1. SendsItsToken'
    BY <1>1, <1>3, <1>4, <1>12 DEF SendsItsToken
  <2>2. ShowsItsOwner'
    BY <1>1, <1>3, <1>4 DEF ShowsItsOwner
  <2> QED BY <2>1, <2>2
<1>14. EndedAreOlder'
  <2>1. \A x : Ended(x)' => Ended(x)
    BY <1>4, <1>7 DEF Ended
  <2>2. \A x \in Tokens : Ended(x) => x < c.auth
    BY <1>1 DEF IInv, EndedAreOlder
  <2>3. Tokens' = Tokens
    BY <1>4 DEF Tokens
  <2> QED BY <1>3, <1>7, <1>12, <2>1, <2>2, <2>3 DEF EndedAreOlder, Entering
<1>15. Renewing'
  <2>1. ~slept => age[c.auth] = "fresh"
    BY <1>1 DEF IInv, CallsInTime, InTime
  <2>2. Undisturbed' => timer' # 0
    BY <1>1, <1>4, <1>5, <2>1 DEF Arms, Undisturbed
  <2> QED BY <1>3, <1>4, <1>12, <2>1, <2>2 DEF Renewing, Undisturbed
<1>16. SessionIsKept'
  BY <1>4 DEF IInv, SessionIsKept
<1> QED BY <1>8, <1>9, <1>10, <1>11, <1>13, <1>14, <1>15, <1>16 DEF IInv

\* Taking over a renewed token keeps the invariant.
LEMMA RenewKeeps ==
  ASSUME IInv, NEW c \in calls, Renew(c)
  PROVE  IInv'
<1>1. /\ c \in CallType /\ c.kind = "refresh" /\ c.status = "ok" /\ c.auth \in Tokens
      /\ c.token \in Tokens /\ c.token # 0
      /\ ~handed => owner[c.token] = owner[c.auth]
  BY DEF IInv, Types, CallType, Renew, CallsFit, Fits
<1>2. calls' = calls \ {c} /\ timer' = IF Arms(c.token) THEN c.token ELSE 0
  <2>1. Refreshing
    BY <1>1 DEF Refreshing, RefreshCalls
  <2>2. Renewal = {}
    BY <2>1 DEF Renewal
  <2> QED BY <2>2 DEF Renew, Schedule
<1>3. UNCHANGED <<email, owner, sub, age, revoked, renamed, handed, mistyped, session,
                  slept, failures, refused>>
  BY DEF Renew, server, users
<1>4. crossed' = (crossed \/ Crosses(c))
  BY DEF Renew, Cross
<1>5. crossed' \in BOOLEAN
  BY <1>4
<1>6. timer' \in Tokens \cup {0}
  BY <1>1, <1>2
<1>7. CASE ~SignedIn
  <2>1. store' = store /\ client' = 0 /\ store.token = 0
    BY <1>7, TokensTyped DEF IInv, Renew, Renewed, Set
  <2>2. Types' /\ TokensNamed'
    BY <1>2, <1>3, <1>5, <1>6, <2>1 DEF IInv, Types, TokensNamed, TypeOK, Tokens, CallType
  <2>3. EntersAlone' /\ CallsFit' /\ CallsInTime'
    BY <1>2, <1>3, <2>1 DEF IInv, EntersAlone, CallsFit, Fits, CallsInTime, InTime, SignedIn
  <2>4. SendsItsToken' /\ ShowsItsOwner' /\ Renewing'
    BY <2>1 DEF SendsItsToken, ShowsItsOwner, Renewing, SignedIn
  <2>5. EndedAreOlder'
    BY <1>2, <1>3, <2>1 DEF IInv, EndedAreOlder, Ended, Tokens, SignedIn
  <2>6. SessionIsKept'
    BY <1>3, <1>4 DEF IInv, SessionIsKept
  <2> QED BY <2>2, <2>3, <2>4, <2>5, <2>6 DEF IInv
<1>8. CASE SignedIn
  <2>1. /\ store.user # Null /\ store.token # 0
        /\ store' = [store EXCEPT !.token = c.token]
    BY <1>8 DEF Renew, Renewed, Set, SignedIn
  <2>2. /\ store'.token = c.token /\ store'.user = store.user
        /\ store' \in [token : Tokens \cup {0}, user : Users \cup {Null}]
    BY <1>1, <2>1 DEF IInv, Types, TypeOK
  <2>3. client' = c.token /\ SignedIn'
    BY <1>1, <1>8, <2>1, <2>2 DEF Renew, Renewed, Set, SignedIn
  <2>4. ~crossed' => ~crossed /\ Current(c)
    BY <1>1, <1>4, <1>8 DEF Crosses, Current, PageKinds
  <2>5. \A d : Current(d)' = Current(d)
    BY <1>3 DEF Current
  <2>6. Types' /\ TokensNamed'
    BY <1>1, <1>2, <1>3, <1>5, <1>6, <2>1, <2>2, <2>3
       DEF IInv, Types, TokensNamed, TypeOK, Tokens, CallType
  <2>7. EntersAlone'
    BY <1>2, <2>1 DEF IInv, EntersAlone
  <2>8. CallsFit' /\ CallsInTime'
    BY <1>2, <1>3, <1>8, <2>3 DEF IInv, CallsFit, Fits, CallsInTime, InTime
  <2>9. SendsItsToken'
    BY <1>2, <1>3, <1>8, <2>2, <2>3, <2>4, <2>5 DEF IInv, SendsItsToken
  <2>10. ShowsItsOwner'
    BY <1>1, <1>3, <1>8, <2>2, <2>4 DEF IInv, SendsItsToken, ShowsItsOwner
  <2>11. EndedAreOlder'
    <3>1. \A x : Ended(x)' => Ended(x)
      BY <1>2, <1>3 DEF Ended
    <3> QED BY <1>1, <1>2, <1>3, <1>8, <2>2, <2>4, <2>5, <3>1 DEF IInv, EndedAreOlder, Tokens
  <2>12. Renewing'
    <3> SUFFICES ASSUME Undisturbed'
                 PROVE  /\ timer' # 0
                        /\ age[c.token] # "expired"
                        /\ \A d \in calls' :
                             Current(d) => age[d.auth] # "expired" /\ d.status # "refused"
      BY <1>3, <2>2, <2>5 DEF Renewing
    <3>1. Undisturbed
      BY <1>3, <2>4 DEF Undisturbed
    <3>2. age[c.token] = "fresh"
      BY <1>1, <3>1 DEF IInv, CallsInTime, InTime, Undisturbed
    <3>3. timer' # 0
      BY <1>1, <1>2, <3>2 DEF Arms
    <3> QED BY <1>2, <1>8, <3>1, <3>2, <3>3 DEF IInv, Renewing
  <2>13. SessionIsKept'
    BY <1>3, <1>4 DEF IInv, SessionIsKept
  <2> QED BY <2>6, <2>7, <2>8, <2>9, <2>10, <2>11, <2>12, <2>13 DEF IInv
<1> QED BY <1>7, <1>8

\* Taking over the user the server names keeps the invariant.
LEMMA ToldKeeps ==
  ASSUME IInv, NEW c \in calls, Told(c)
  PROVE  IInv'
<1>1. /\ c \in CallType /\ c.kind \in {"me", "profile"} /\ c.status = "ok"
      /\ c.auth \in Tokens /\ c.user \in Users /\ (~handed => c.user = owner[c.auth])
  BY DEF IInv, Types, CallType, Told, CallsFit, Fits
<1>2. c.user \in Users /\ c.user # Null
  BY <1>1, TokensTyped, UsersAssumption DEF IInv, Emails
<1>3. store \in [token : Tokens \cup {0}, user : Users \cup {Null}]
  BY DEF IInv, Types, TypeOK
<1>4. /\ store'.token = store.token /\ store'.user = c.user
      /\ store' \in [token : Tokens \cup {0}, user : Users \cup {Null}]
      /\ client' = store.token
  <2>1. store' = [store EXCEPT !.user = c.user]
    BY DEF Told, Set
  <2>2. /\ store'.token = store.token /\ store'.user = c.user
        /\ store' \in [token : Tokens \cup {0}, user : Users \cup {Null}]
    BY <1>2, <1>3, <2>1
  <2>3. client' = store.token
    BY <1>2, <1>3 DEF Told, Set
  <2> QED BY <2>2, <2>3
<1>5. /\ calls' = calls \ {c}
      /\ UNCHANGED <<email, owner, sub, age, revoked, renamed, handed, mistyped, timer,
                     session, slept, failures, refused>>
  BY DEF Told, server, users
<1>6. crossed' = (crossed \/ Crosses(c))
  BY DEF Told, Cross
<1>7. crossed' \in BOOLEAN
  BY <1>6
<1>8. SignedIn' <=> SignedIn
  BY <1>2, <1>4, TokensTyped DEF IInv, SignedIn
<1>9. SignedIn /\ ~crossed' =>
        ~crossed /\ Current(c) /\ (~handed => c.user = store.user)
  <2>1. SignedIn /\ ~crossed' => ~crossed /\ Current(c)
    BY <1>1, <1>6 DEF Crosses, Current, PageKinds
  <2> QED BY <1>1, <2>1 DEF IInv, SendsItsToken
<1>10. \A d : Current(d)' = Current(d)
  BY <1>5 DEF Current
<1>11. Types' /\ TokensNamed'
  BY <1>2, <1>3, <1>4, <1>5, <1>7 DEF IInv, Types, TokensNamed, TypeOK, Tokens, CallType
<1>12. EntersAlone' /\ CallsFit' /\ CallsInTime'
  BY <1>4, <1>5, <1>8 DEF IInv, EntersAlone, CallsFit, Fits, CallsInTime, InTime
<1>13. SendsItsToken'
  BY <1>4, <1>5, <1>8, <1>9, <1>10 DEF IInv, SendsItsToken
<1>14. ShowsItsOwner'
  BY <1>4, <1>5, <1>8, <1>9 DEF IInv, ShowsItsOwner
<1>15. EndedAreOlder'
  <2>1. \A x : Ended(x)' => Ended(x)
    BY <1>5 DEF Ended
  <2> QED BY <1>4, <1>5, <1>8, <1>9, <1>10, <2>1 DEF IInv, EndedAreOlder, Tokens
<1>16. Renewing'
  <2>1. Undisturbed' /\ SignedIn => Undisturbed
    BY <1>5, <1>9 DEF Undisturbed
  <2>2. Refreshing => Refreshing'
    BY <1>1, <1>5 DEF Refreshing, RefreshCalls
  <2> QED BY <1>4, <1>5, <1>8, <1>10, <2>1, <2>2 DEF IInv, Renewing
<1>17. SessionIsKept'
  BY <1>5, <1>6 DEF IInv, SessionIsKept
<1> QED BY <1>11, <1>12, <1>13, <1>14, <1>15, <1>16, <1>17 DEF IInv

\* A request that is done keeps the invariant.
LEMMA DoneKeeps ==
  ASSUME IInv, NEW c \in calls, Done(c)
  PROVE  IInv'
<1>1. /\ calls' = calls \ {c} /\ c.kind # "refresh"
      /\ UNCHANGED <<email, owner, sub, age, revoked, renamed, handed, mistyped, store,
                     client, timer, session, crossed, slept, failures, refused>>
  BY DEF Done, server, users
<1>2. Types' /\ TokensNamed'
  BY <1>1 DEF IInv, Types, TokensNamed, TypeOK, Tokens, CallType
<1>3. EntersAlone' /\ CallsFit' /\ CallsInTime'
  BY <1>1 DEF IInv, EntersAlone, CallsFit, Fits, CallsInTime, InTime, SignedIn
<1>4. SendsItsToken' /\ ShowsItsOwner' /\ SessionIsKept'
  BY <1>1 DEF IInv, SendsItsToken, ShowsItsOwner, SessionIsKept, SignedIn, Current
<1>5. EndedAreOlder'
  BY <1>1 DEF IInv, EndedAreOlder, Ended, Tokens, SignedIn, Current
<1>6. Renewing'
  BY <1>1 DEF IInv, Renewing, Undisturbed, Refreshing, RefreshCalls, SignedIn, Current
<1> QED BY <1>2, <1>3, <1>4, <1>5, <1>6 DEF IInv

\* Being turned away for an expired token keeps the invariant.
LEMMA TurnedKeeps ==
  ASSUME IInv, NEW c \in calls, Turned(c)
  PROVE  IInv'
<1>1. /\ c.status = "refused" /\ client' = 0 /\ crossed' = (crossed \/ Crosses(c))
      /\ UNCHANGED <<email, owner, sub, age, revoked, renamed, handed, mistyped,
                     session, slept, failures>>
  BY DEF Turned, Cross, server, users
<1>2. c \in CallType
  BY DEF IInv, Types
<1>3. crossed' \in BOOLEAN
  BY <1>1
<1>4. CASE c.kind = "logout"
  <2>1. calls' = calls \ {c} /\ UNCHANGED <<store, timer, refused>>
    BY <1>4 DEF Turned
  <2>2. SignedIn => crossed'
    <3>1. SignedIn => c.session < session /\ c.session \in Nat /\ session \in Nat
      BY <1>2, <1>4 DEF IInv, Types, CallType, CallsFit, Fits
    <3>2. SignedIn => c.session # session
      BY <3>1
    <3>3. SignedIn => Crosses(c)
      BY <3>2 DEF Crosses
    <3> QED BY <1>1, <3>3
  <2>3. Types' /\ TokensNamed'
    BY <1>1, <1>3, <2>1 DEF IInv, Types, TokensNamed, TypeOK, Tokens, CallType
  <2>4. EntersAlone' /\ CallsFit' /\ CallsInTime'
    BY <1>1, <2>1 DEF IInv, EntersAlone, CallsFit, Fits, CallsInTime, InTime, SignedIn
  <2>5. SendsItsToken' /\ ShowsItsOwner' /\ Renewing'
    BY <2>1, <2>2 DEF SendsItsToken, ShowsItsOwner, Renewing, Undisturbed, SignedIn
  <2>6. EndedAreOlder'
    BY <1>1, <2>1, <2>2 DEF IInv, EndedAreOlder, Ended, Tokens, SignedIn
  <2>7. SessionIsKept'
    BY <1>1, <2>1 DEF IInv, SessionIsKept
  <2> QED BY <2>3, <2>4, <2>5, <2>6, <2>7 DEF IInv
<1>5. CASE c.kind # "logout"
  <2>1. /\ store' = SignedOut /\ store'.token = 0 /\ timer' = 0
        /\ calls' = (calls \ {c})
                    \cup (IF store.token # 0 THEN {Call("logout", 0, Null)} ELSE {})
        /\ refused' = (refused \/ SignedIn)
    BY <1>1, <1>5 DEF Turned, SignOut, SignedOut
  <2>2. /\ Call("logout", 0, Null) \in CallType
        /\ Call("logout", 0, Null).kind = "logout" /\ Call("logout", 0, Null).auth = 0
        /\ Call("logout", 0, Null).session = session
        /\ Call("logout", 0, Null).status = "sent" /\ Call("logout", 0, Null).token = 0
    <3>1. "logout" \in Kinds
      BY DEF Kinds
    <3> QED BY <3>1, CallSent DEF IInv
  <2>3. \A d \in calls' :
          \/ d \in calls
          \/ /\ d \in CallType /\ d.kind = "logout" /\ d.auth = 0 /\ d.session = session
             /\ d.status = "sent" /\ d.token = 0 /\ store.token # 0
    BY <2>1, <2>2
  <2>4. Types' /\ TokensNamed'
    <3>1. calls' \subseteq CallType
      BY <2>3 DEF IInv, Types
    <3>2. refused' \in BOOLEAN
      BY <2>1
    <3>3. Types'
      BY <1>1, <1>3, <2>1, <3>1, <3>2 DEF IInv, Types, TypeOK, Tokens, CallType, SignedOut
    <3>4. TokensNamed'
      BY <1>1 DEF IInv, TokensNamed, Tokens
    <3> QED BY <3>3, <3>4
  <2>5. EntersAlone'
    BY <2>1, <2>3 DEF IInv, EntersAlone, Entering
  <2>6. CallsFit'
    BY <1>1, <2>1, <2>3 DEF IInv, Types, CallsFit, Fits, SignedIn
  <2>7. CallsInTime'
    BY <1>1, <2>3 DEF IInv, CallsInTime, InTime
  <2>8. SendsItsToken' /\ ShowsItsOwner' /\ Renewing'
    BY <2>1 DEF SendsItsToken, ShowsItsOwner, Renewing, SignedIn
  <2>9. EndedAreOlder'
    <3>1. \A x \in Tokens : Ended(x)' => Ended(x)
      BY <1>1, <2>3, TokensTyped DEF IInv, Ended
    <3>2. Tokens' = Tokens
      BY <1>1 DEF Tokens
    <3> QED BY <2>1, <2>3, <3>1, <3>2 DEF IInv, EndedAreOlder, SignedIn
  <2>10. SessionIsKept'
    <3> SUFFICES ASSUME ~crossed', failures = 0, ~slept, ~renamed, ~mistyped
                 PROVE  ~refused'
      BY <1>1 DEF IInv, Types, SessionIsKept
    <3>1. Undisturbed /\ ~Crosses(c)
      BY <1>1 DEF Undisturbed
    <3>2. ~SignedIn
      <4> SUFFICES ASSUME SignedIn PROVE FALSE
        OBVIOUS
      <4>1. ~Entering(c)
        BY TokensTyped DEF IInv, EntersAlone
      <4>2. c.session = session
        BY <3>1 DEF Crosses
      <4>3. Current(c)
        BY <1>2, <1>5, <4>1, <4>2 DEF CallType, Kinds, Entering, Current, PageKinds
      <4> QED BY <1>1, <3>1, <4>3 DEF IInv, Renewing
    <3>3. ~refused
      BY <3>1 DEF IInv, SessionIsKept, Undisturbed
    <3> QED BY <2>1, <3>2, <3>3
  <2> QED BY <2>4, <2>5, <2>6, <2>7, <2>8, <2>9, <2>10 DEF IInv
<1> QED BY <1>4, <1>5

\* A request that fails keeps the invariant.
LEMMA FailKeeps ==
  ASSUME IInv, NEW c \in calls, Fail(c)
  PROVE  IInv'
<1>1. /\ calls' = calls \ {c} /\ failures' = failures + 1 /\ failures \in Nat
      /\ UNCHANGED <<email, owner, sub, age, revoked, renamed, handed, mistyped,
                     session, crossed, slept, refused>>
  BY DEF IInv, Types, Fail, server, users
<1>2. failures' \in Nat /\ failures' > 0 /\ failures' # 0
  BY <1>1
<1>3. /\ store' = store
      /\ client' = client \/ (store.token = 0 /\ client' = 0)
      /\ timer' \in Tokens \cup {0}
  <2>1. CASE c.kind \in {"login", "whoami"}
    <3>1. store' = store /\ store.token = 0 /\ client' = 0 /\ timer' = timer
      BY <2>1 DEF IInv, Fail, Set, EntersAlone, Entering
    <3> QED BY <3>1 DEF IInv, Types, TypeOK
  <2>2. CASE c.kind = "refresh" /\ Live(store.token)
    BY <2>2 DEF IInv, Types, TypeOK, Fail
  <2>3. CASE c.kind \notin {"login", "whoami"} /\ ~(c.kind = "refresh" /\ Live(store.token))
    BY <2>3 DEF IInv, Types, TypeOK, Fail
  <2> QED BY <2>1, <2>2, <2>3
<1>4. Types' /\ TokensNamed'
  BY <1>1, <1>2, <1>3 DEF IInv, Types, TokensNamed, TypeOK, Tokens, CallType
<1>5. EntersAlone' /\ CallsFit' /\ CallsInTime'
  BY <1>1, <1>3 DEF IInv, EntersAlone, CallsFit, Fits, CallsInTime, InTime, SignedIn
<1>6. SendsItsToken' /\ ShowsItsOwner'
  BY <1>1, <1>3 DEF IInv, SendsItsToken, ShowsItsOwner, SignedIn, Current
<1>7. EndedAreOlder'
  BY <1>1, <1>3 DEF IInv, EndedAreOlder, Ended, Tokens, SignedIn, Current
<1>8. Renewing' /\ SessionIsKept'
  BY <1>2 DEF Renewing, Undisturbed, SessionIsKept
<1> QED BY <1>4, <1>5, <1>6, <1>7, <1>8 DEF IInv

-------------------------------------------------------------------------------
(* The theorems. *)
LEMMA StepKeeps == IInv /\ [Next]_vars => IInv'
<1> SUFFICES ASSUME IInv, [Next]_vars PROVE IInv'
  OBVIOUS
<1>1. CASE UNCHANGED vars
  <2>1. UNCHANGED <<email, owner, sub, age, revoked, renamed, handed, mistyped, store,
                    client, timer, calls, session, crossed, slept, failures, refused>>
    BY <1>1 DEF vars, server, users
  <2>2. Types' /\ TokensNamed'
    BY <2>1 DEF IInv, Types, TokensNamed, TypeOK, Tokens, CallType
  <2>3. EntersAlone' /\ CallsFit' /\ CallsInTime'
    BY <2>1 DEF IInv, EntersAlone, CallsFit, Fits, CallsInTime, InTime, SignedIn
  <2>4. SendsItsToken' /\ ShowsItsOwner' /\ SessionIsKept'
    BY <2>1 DEF IInv, SendsItsToken, ShowsItsOwner, SessionIsKept, SignedIn, Current
  <2>5. EndedAreOlder'
    BY <2>1 DEF IInv, EndedAreOlder, Ended, Tokens, SignedIn, Current
  <2>6. Renewing'
    BY <2>1 DEF IInv, Renewing, Undisturbed, Refreshing, RefreshCalls, SignedIn, Current
  <2> QED BY <2>2, <2>3, <2>4, <2>5, <2>6 DEF IInv
<1>2. ASSUME NEW u \in Users, Login(u) PROVE IInv'
  BY <1>2, LoginKeeps
<1>3. CASE Logout
  BY <1>3, LogoutKeeps
<1>4. CASE TimerFires
  BY <1>4, TimerFiresKeeps
<1>5. CASE TabShown
  BY <1>5, TabShownKeeps
<1>6. CASE Reload
  BY <1>6, ReloadKeeps
<1>7. ASSUME NEW kind \in {"page", "me", "profile"}, Request(kind) PROVE IInv'
  BY <1>7, RequestKeeps
<1>8. ASSUME NEW t \in Tokens, Pass(t) PROVE IInv'
  BY <1>8, PassKeeps
<1>9. ASSUME NEW c \in calls, Serve(c) PROVE IInv'
  BY <1>9, ServeKeeps
<1>10. ASSUME NEW c \in calls, Answer(c) PROVE IInv'
  BY <1>10, GreetedKeeps, EnterKeeps, RenewKeeps, ToldKeeps, DoneKeeps, TurnedKeeps DEF Answer
<1>11. ASSUME NEW c \in calls, Fail(c) PROVE IInv'
  BY <1>11, FailKeeps
<1>12. ASSUME NEW u \in Users, RenamedElsewhere(u) PROVE IInv'
  BY <1>12, RenamedElsewhereKeeps
<1> QED BY <1>1, <1>2, <1>3, <1>4, <1>5, <1>6, <1>7, <1>8, <1>9, <1>10, <1>11, <1>12 DEF Next

\* What is kept by every step of the client, the server and the user.
THEOREM WebSessionInvariance == Spec => []IInv
<1>1. Init => IInv
  BY InitialState
<1>2. IInv /\ [Next]_vars => IInv'
  BY StepKeeps
<1> QED BY <1>1, <1>2, PTL DEF Spec

\* The types of the variables; no login is without its user.
THEOREM WebSessionTyped == Spec => []TypeOK
<1>1. IInv => TypeOK
  BY DEF IInv, Types
<1> QED BY <1>1, WebSessionInvariance, PTL

\* The user who is shown is the one whose token is sent, and the server takes its bearer
\* for nobody else, unless an answer has come to another login than it was asked by or an
\* email has passed to another user, however many logins, reloads, renewals, changes of
\* emails and calls that are under way there are.
THEOREM UserShownIsTokens == Spec => []TokenIsTheUsers
<1>1. IInv => TokenIsTheUsers
  <2> SUFFICES ASSUME IInv, SignedIn, ~crossed, ~handed
               PROVE  /\ owner[store.token] = store.user
                      /\ Bearers(store.token) \subseteq {store.user}
    BY DEF TokenIsTheUsers
  <2>1. owner[store.token] = store.user
    BY DEF IInv, ShowsItsOwner
  <2>2. store.token \in Tokens
    BY TokensTyped DEF IInv
  <2> QED BY <2>1, <2>2, BearersOwn
<1> QED BY <1>1, WebSessionInvariance, PTL

\* No call of a login that is open is refused, unless a call has failed, the machine slept,
\* an answer has crossed, an email that a live token names was given up or the current
\* password was wrong: the token is renewed in time and names its user, and the calls to
\* log out that are still under way only revoke older ones.
THEOREM LoginsStayOpen == Spec => []SessionIsKept
<1>1. IInv => SessionIsKept
  BY DEF IInv
<1> QED BY <1>1, WebSessionInvariance, PTL
===============================================================================
