# Flit core: specifications, model checking and proofs

This directory holds TLA+ specifications of the Flit server (`src/src/`, a FastAPI
application over PostgreSQL) and of the parts of its web client that keep state
(`src/webapp_build/`): a personal knowledge base whose notes, relationships and categories are
edited from that client, by MCP tools and by devices that sync. The modules
are translated from the source; `PROJECT.json` maps each definition to the lines it stands
for. Paths below are relative to the server's package `src/src/` unless they start with
another directory of the repository.

Contents

1. The system: parts, state, operations, interactions
2. What is hard about it, and what makes each part correct
3. Modules, and how they correspond to the code
4. Runs: what each shows, bounds, fairness
5. Findings
6. Proofs
7. What is not modelled
8. Plan

## 1. The system

All state is in PostgreSQL except where the table says otherwise. Every HTTP request, and
every MCP tool call, runs in one database session and one transaction
(`database/session.py`): commit after the handler has returned, roll back when it raises.
With the FastAPI of `uv.lock` the code after a dependency's `yield` runs once the response
has been sent, so what a client is told was done may still fail to commit; only the link
routes, sync, the purge and the MCP tools commit themselves. The isolation level is PostgreSQL's default, READ COMMITTED; rows are read without locks (one
exception: connection codes), and the ORM checks no version column.

| Part | Code | State | Operations |
|---|---|---|---|
| Notes and search rows | `service/note.py`, `note_persistence.py`, `notesearch.py`, `note_state_hash.py` | tables `notes`, `notesearch` | create, update (dropped if hash and type are unchanged), soft delete, search |
| Relationships | `service/relationship.py` | `relationships`, keyed by the ordered pair of notes | create, delete, cascade when a note is deleted, repair |
| Device sync | `service/sync.py`, `routes/sync.py` | the same tables, and the copies that devices hold | compare versions, get rows, push rows one at a time |
| Categories and links | `service/category.py`, `note_category.py` | `categories` (name unique per user), `note_categories` | create, rename, delete, link, unlink |
| Retention and repair | `service/purge.py`, `scripts/purge_soft_deleted.py`, `scripts/repair_stale_relationships.py` | none of their own | erase old tombstones; delete relationships left at deleted notes |
| Vault export and import | `service/vault_markdown.py` | none | notes and relationships to markdown and back |
| MCP tools and graph | `flit_mcp/tools/pkm.py`, `flit_mcp/graph.py` | none | the note operations as tools; breadth-first `query_graph` |
| Device pairing and tokens | `service/connection_code.py`, `connected_app.py`, `oauth.py` | connection codes, connected apps, access and refresh tokens | issue and exchange a code, refresh, revoke |
| MCP OAuth and API keys | `service/mcp_oauth.py`, `mcp_connection.py`, `mcp_api_key.py`, `flit_mcp/oauth/` | pending authorizations, codes, rotating refresh tokens, keys | authorize, exchange, refresh, revoke |
| Accounts | `service/user.py`, `revoked_jwt.py`, `user_hard_delete.py`, `user_prune.py`, `routes/auth.py` | users, revoked JWTs | register, log in and out, delete, prune |
| Verification and reset | `service/verification.py`, `password_reset.py` | signed links; cooldowns in the memory of one process | send and use links |
| Billing, entitlement, access codes | `service/billing.py`, `entitlement.py`, `access_code.py` | subscriptions, processed webhook ids, access codes | webhooks, completion after checkout, activation |
| Admin webhooks | `service/admin_webhook.py` | events queued in a session's memory until it commits | queue, deliver after commit |
| Newsletter | `service/newsletter_campaign.py`, `subscription.py` | campaigns, subscribers | draft, schedule, send due, cancel |
| Web client: note page | `immutable/nodes/5.27kObgxN.js`, `chunks/C9MXDsfr.js` | the note on the page, what was last saved, a save timer, drafts in `sessionStorage` | load, edit, save after 30 seconds, when hidden and when left |
| Web client: session and API client | `chunks/tHvd42lv.js`, `chunks/nApZeJHN.js` | the login in `localStorage`, the client's own copy of the token, a renewal timer | log in and out, renew, reload, end on a 401 |
| Shell and the rest | `main.py`, `limiter.py`, `email.py`, `feedback.py`, ... | rate-limit windows in memory | configuration, I/O, single-row writes |

Interactions. REST routes (`routes/note.py`), MCP tools and sync routes all end in the same
three services for notes; only `note_persistence.py` writes `notes` and `notesearch`.
Deleting a note calls the relationship service in the same transaction. Sync pushes write
relationships themselves. The purge relies on the foreign keys: deleting a note makes the
database delete its relationships, while its search row, whose foreign key has no ON DELETE,
would fail the statement. A device sees the server only through compare, get and push; it
holds no lock and no cursor there, so its knowledge is always of the past. Billing and
accounts queue admin webhooks, which a hook of the session delivers after the commit.
The web client ships as a compiled bundle (paths relative to `src/webapp_build/_app/`); it talks to
the same REST routes, several of its calls may be under way at once, and its pages share the API
client, whose 401s end the login. A device obtains its tokens by a connection code that the user
reads off the web client, and keeps them by refreshing.

## 2. What is hard, and what makes each part correct

- Several paths write the same rows (REST, MCP, pushes at a newer or an equal version, the
  purge), each with its own order of checks. Correct: a live relationship joins live
  notes, search holds every live note under its current body, the stored hash is that of the
  stored fields, deletion is final, and only tombstones are erased.
- Requests interleave between a SELECT and the UPDATE computed from it. Correct: no request
  waits for ever, a deletion survives a stale edit, search keeps every live note, and what
  an overlap does leave behind is limited to the notes on which requests overlapped and, for
  relationships, repaired by the script that exists for it.
- Devices and server meet by version numbers alone; answers are lost and pushes repeated, and
  rows are purged while a device is away. Correct: versions only go up, the server's version
  is never silently behind, and once editing stops all copies agree.
- The note page saves while the user types, goes to other pages and comes back, and other devices
  write; answers are late, out of order, or never come. Correct: what was typed is stored, what
  others wrote to other fields stands, and an empty draft is the only note that is discarded.
- A login is renewed by a timer against an expiry, while the user may log out or in as somebody
  else. Correct: the user shown is the token's, and a login ends only by logging out.
- Tokens, codes, subscriptions and campaigns are read, checked and written without locks, or
  recorded after an email or webhook has already gone out. Correct: one use per code, no
  token after a revocation, the newest subscription decides, at most one send. Several of
  these hold only while requests do not overlap, and the properties say so.

`PROJECT.json` lists these hazards line by line with the properties that cover them, or the
module of the plan that will.

## 3. Modules

| Module | What it is |
|---|---|
| `KnowledgeGraph` | Abstract: what the note store promises a reader. A graph; removing a node removes its edges in the same step; a removed id never returns. |
| `NoteStore` | `notes`, `notesearch` and `relationships` with every operation of REST, MCP, device pushes and the purge on them; one request is one step. |
| `NoteStoreProofs` | Theorems about `NoteStore`: its invariants, what no step does, and that it implements `KnowledgeGraph`; at its end those about `DeviceSync`, whose names are chosen so that both can be extended. |
| `NoteRequests` | The same requests taken apart into reads, row-locking writes and a commit, so that they interleave; with the repair script. |
| `NoteRequestsProofs` | Theorems about `NoteRequests`: its inductive invariant, the three safety properties, that deletions stand, what a run of the repair script leaves, and that nobody waits in a circle. |
| `DeviceSync` | The server's note rows and the copies of several devices: compare, pull, push, lost answers, purge. |
| `Labels` | Abstract: what categories promise a reader. Unique names; a removed label or note takes its marks along and never comes back. |
| `CategoryStore` | `categories` and `note_categories` with every operation of REST, MCP, device pushes and the purge on them. |
| `CategoryStoreProofs` | Theorems about `CategoryStore`: its types, that it implements `Labels`, and that deletions are final. |
| `Billing` | One user's row of `plan_subscriptions`, webhooks and completions as overlapping transactions, the claim of webhook ids, crashes. |
| `BillingProofs` | Theorems about `Billing`: its inductive invariant and the four safety properties. |
| `WebEditor` | The note page of the web client with the server's rows behind it: edits, saves, navigation, drafts, other devices. |
| `WebEditorProofs` | Theorems about `WebEditor`: its inductive invariant and the three safety properties. |
| `WebSession` | The login of the web client, its API client's token and the server's login endpoints. |
| `WebSessionProofs` | Theorems about `WebSession`: its inductive invariant, whose token is sent, and that logins stay open. |
| `DeviceTokens` | Connection codes, connected apps and their tokens; each request query by query with row locks and deadlocks. |
| `DeviceTokensProofs` | Theorems about `DeviceTokens`: its inductive invariant, the four safety properties, and deadlocks of any length. |
| `Newsletter` | Campaigns sent by administrators and the job, mail by mail. |
| `NewsletterProofs` | Theorems about `Newsletter`: its inductive invariant and the two safety properties. |
| `MCNoteStore`, `MCNoteRequests` | Small instances for TLC. |

### NoteStore

A table is a function from primary keys to rows. `InsertNote`, `WriteNote` and `SoftDelete`
are the three functions of `note_persistence.py`; each action is a whole handler up to its
commit, and inlines them in the order of the code. `Edited` sets the hash with the fields, as
`update_note` and the two push branches do. `Differs` is the no-op test. A request that
changes nothing (404, conflict, rejected version, no-op) is a stuttering step and therefore
not an action; its conditions are the guards of the actions.

- `CreateNote`, `UpdateNote`, `DeleteNote`: `routes/note.py` and the MCP tools. `UpdateNote`
  takes any body, style and type, since unset fields are resolved from the row first.
- `PushNewNote`, `PushDeletedNote`, `PushNewerNote`, `PushSameNote`: the branches of
  `sync_notes`, in the order insert, deletion at a newer or equal version, newer, equal.
- `CreateRelationship`, `DeleteRelationship`, `PushNewRelationship`, `PushRelationship`.
- `Purge` is one transaction; its guard is the foreign key of `notesearch` (one leftover
  search row fails all of it). `RetentionElapses` is the passing of the retention window:
  rows are not stamped with a time but with `expired`, which any later write resets.

Data: the body stands for title and content, the style for pinned and color. SHA-256 is the
pair of both, that is, free of collisions. Ids are handed out in order and never again. All
notes belong to one user: every query of these services filters by the user's id. Vault
import only inserts (`CreateNote` and `CreateRelationship` one after another in one
transaction).

### NoteRequests

Every process is one transaction. Its first step is the request's reads and what it decides
on the strength of them: `todo`, the columns it will write. Then come its statements in the
order of the code: the note row, its search row, the SELECT of the cascade, the relationships
one by one in primary-key order (the order in which SQLAlchemy's unit of work flushes
UPDATEs). A statement moves its part from `todo` to `written`, which is at the same time the
row lock that others wait for; `Commit` applies `written` to the tables. As the ORM does, an
UPDATE sets only the columns that differ from the values it loaded (`Changed`); this is what
makes overlapping edits merge, and what keeps a stale edit from reviving a deleted note.

Simplifications: the two SELECTs of the update route (ownership in the route, the row in the
service) are one read, since the identity map of the session returns the row of the first;
SELECT and UPDATE of the search upsert are one step, which is serialised by the note row's
lock taken before it; note inserts and the purge are left out, since an inserted note is
unknown to other requests and the purge touches rows deleted weeks before.

`overlapped` is a history variable: the notes two running processes worked on at once. It
appears in no guard; it states which inconsistencies one may see, and where.

### DeviceSync

The server side is `sync.py` and `note.py`, one step a request, with one content standing for
all fields of a note. The devices are not in this repository: their actions are an
assumption, written down in the module's header, and marked external in the map. Compare's
result is kept and worked off by later requests while the server moves on. `base` and
`conflicted` are history variables: the version from which a device's change started that the server
does not have yet, and the notes with such a change from a version the server has meanwhile left. A
push whose answer is lost takes its change out of `base`: the server has it, though the device does
not know, so repeating that push is no conflict. `EqualVersionsAgree` is
what the protocol rests on: compare sends versions and no contents, so a copy in the server's
version had better show what the server shows. `ChangesSurvive` says that only conflicts lose
changes. `CopiesConverge` is what follows once editing stops.

### CategoryStore

One request is one step, as in `NoteStore`, and a note is no more than live, deleted, expired or
erased. Nothing cascades here: deleting a note or a category leaves its links as they are, and
readers join through both ends (`Shown`). `WriteCategory` and `WriteLink` are the inserts and
updates that may meet a unique constraint; `Refuse` is the 409 that results, kept in the variable
`conflict` because a property is about what it says. REST renames without a version, a push with
one (`PushedCategory`). A push that creates a category under a taken name fails the whole request
and stores nothing. The purge deletes categories and links by flag and age, and the foreign
keys delete the links of what goes. `Labels` is implemented with what is shown as the mapping.

### Billing

A request is a transaction in stages: begun and asked (a completion before and after the provider's
answer), read (the id claimed, the row looked up), answered; then the commit. `Complete` loads the
row that is there with the user, as `User.plan_subscription` does (`lazy="selectin"`), before the provider
is asked. What the upsert's SELECTs give it afterwards is that object with its old attributes
(`Found`): the session's identity map does not refresh them. `Asked` takes the provider's answer, and
refuses a completion that reports another status. `Claim` waits for a transaction that
has inserted the same id, as PostgreSQL's unique index does, and `Deliver` answers without work
if it is committed. The upsert's statement goes out when the handler next queries, that is when it
looks up the destinations of admin webhooks; a status without an admin event (`FlushedLate`)
is written at the commit, after the answer. `Changed` are the columns an UPDATE sets. `Abandon`
is the rollback, after a crash or after an INSERT that met the row of another request: a webhook
that had not been answered yet is delivered again, one that had is lost.

The provider is an assumption, stated in the module's header: one subscription of a user runs at a
time, an event tells the state after one change. Product, customer and period end are left out:
they come with the same event and are stored by the same statement. `newest`, `disordered` and
`overlapped` are history variables that appear in no guard.

### WebEditor

State is that of the compiled page, under longer names (the header gives the minified ones): `note`
is the note object the page holds, `shown` and `base` the title and content shown and last saved,
`running` the promise of the last save and `latest` the number that decides whose answer counts.
`Save` is `$e` up to its `await`; `Saved` and `NotSaved` are what comes after it. `De`, which a
hidden tab and a navigation run, is a flow: `FlowStep` goes from one `await` to the next (flush the
timer's save, wait for the running one, save until nothing is unsaved or a save failed). Svelte's
router does not wait for what `beforeNavigate`'s handler awaits, so a flow goes on while the next
page is shown: `Leave`, `Arrive`, `Loaded` and the flow's end are separate steps. Flows and loads go by
the number of the event that began them: one note may be loaded twice at once. `Quiet` is the rule
that JavaScript's microtasks run before the next event.

A call is sent, carried out (`Apply`, `update_note` on the fields sent) and answered in three steps;
one that timed out may still be carried out. So is the DELETE by which a flow that leaves an empty
draft discards it: `FlowEnds` looks at the page and sends it, `Delete` carries it out (a note deleted
already is answered the same), and `Deleted` and `NotDeleted` are its answers; meanwhile the user may
type on, or come back, type and save.

Texts are a few values, blank, the default and another device's among them, and stand for what
normalising leaves of them. The color is saved like a third field and is left out. `overtaken`,
`misled`, `given_up`, `resumed`, `others` and `failures` are history variables for the exceptions that
the properties name: a save carried out after a newer one; an answer that belongs to another note or was
merged into a page that has moved on; a text that the page will not save, because the field was typed
back to what was saved while another text is stored or on its way, or because a blank field held up the
note that was left; and typing in a note whose DELETE is under way. The second happens: `$e` compares the
save's number but not its note. The effect that takes a note off the drafts runs before the fields are
filled in, with what the page showed until then, which is why `Init` and `Loaded` look at `shown` first.

### WebSession

`store` is the Svelte store that `localStorage` mirrors, `client` the API client's own token,
`timer` the token whose renewal is scheduled. A token is fresh, within 5 minutes of its expiry
(`Soon`), or expired; `Pass` moves it on, in the order of issue. `Serve` is the endpoint, `Answer` the
client's continuation; `Turned` is the 401, which clears the client's token and ends the login. A token
names its user by email (`sub`): the server looks up who has it now (`Bearers`), so a token is good for
nobody once its email was changed or its account removed, and for another user once that user has taken
the email. `Renamed` is such a change, by the profile page's own call (`profile`, which also changes the
rest of the user, and is refused with a 401 when the current password is wrong) or
elsewhere (`RenamedElsewhere`). `owner`, the user a token was issued to, is only compared with.

A call remembers the login it was sent under, for the history variable `crossed`: an answer that came to
another login than it was asked by. `slept` says that time outran a timer or an answer, as on a
machine that was asleep; `renamed` that an email was given up which a live token names; `handed` that one
was taken up which another user's token names; `mistyped` that a current password was wrong.

### DeviceTokens

Requests are transactions at READ COMMITTED, one step from one query to the next, since the session
flushes what was changed before each query; a flush writes the rows of a table in the order of their
keys, waiting for whoever holds one (`Write`). Requests that wait in a circle lose one of them
(`GiveUp`). The code's row is locked with SKIP LOCKED (`Hidden`). `FindToken`, `FindOldAccess` and
`PointToNew` are `refresh_access_token`; `FindApp`, `FindRefreshTokens` and `FindAccessTokens` are
`revoke_connected_app`; the four after them are the two branches of `revoke_token`. `Commit` makes a
transaction visible, and `End` is every other end, a crash included.
`overlapped`, `doubled`, `withdrawn` and `deadlocks` are history variables.

### Newsletter

A request reads its campaign at `Begin` and goes by what it read (`seen`) to its end; `Scheduled` and
`Sent` write the columns that changed to the row as it is then. Mails go out one by one and stay
out when the transaction is lost (`End`). The job flushes each campaign it has sent and holds the row
until the commit (`Holds`), which a schedule or an edit waits for. Its query has no ORDER BY; the rows are
taken in the order of their keys. A campaign of which no mail was accepted is left as it is, for the job
to try again; sending it at once then fails and rolls back, having changed nothing. The status
"cancelled" of the table is set by no code. `disturbed` is a history variable: campaigns of which a
sending overlapped another request, or was lost after mails had gone out.

### Mutants

A definition preceded by a comment "Mutant:" is a plausible mistake in the definition after
it (a dropped guard, a forgotten reset, an unsorted loop). It is used nowhere in a
specification. `PROJECT.json` names, for each property, the mutant that breaks it: it shows
that the run would notice that mistake.

## 4. Runs

`tlc -config <cfg> <module>`. Deadlock is checked wherever the system cannot stop. It can in
`device_sync` (the user may stop editing with all devices in step and the bounds reached), in `billing`
(every event stored, the bound on events reached), and in the four runs of the web client, the tokens
and the newsletter, where everything may be answered and the bounds on what users do be
reached.

| Run | Module, cfg | Shows | Distinct states |
|---|---|---|---|
| `note_store` | `MCNoteStore`, `note_store.cfg` | With requests one after another: types; no dangling relationship; live notes indexed under their body, hashes that match (`DerivedDataFollows`); versions and deletions are never undone, what changes raises its version but for two pushes, and only tombstones are erased (`RowsOnlyGoForward`); `NoteStore` implements `KnowledgeGraph` | 178 thousand |
| `note_requests` | `MCNoteRequests`, `note_requests.cfg` | With two overlapping requests and the script: types, and what is over leaves no lock or change behind; search, hash and relationships go wrong only on overlapped notes; search never loses a live note, nor does a stale edit revive one; no deadlock and every request is answered; dangling relationships get repaired | 180 thousand |
| `device_sync` | `DeviceSync`, `device_sync.cfg` | Two devices: types; unless a note was changed in two places at once, a copy in the server's version shows what the server shows, and a change made on a device is lost by no pull, push or lost answer; once editing stops, every device holds the server's version of every row, and contents and deletions agree unless changed in two places | 115 thousand |
| `category_store` | `CategoryStore`, `category_store.cfg` | Types, the foreign keys among them; what is shown implements `Labels`: names are unique, what is removed does not return, and the purge erases nothing that is shown | 78 thousand |
| `billing` | `Billing`, `billing.cfg` | Two webhooks and a completion at once, one crash: an event is stored once; the row is one change of the provider unless changes were stored out of order or one by a row loaded too early; events are lost only by a crash or an overlap; the row ends up as the provider's last change unless changes were stored out of order, overlapped or were lost | 1.2 million |
| `web_editor` | `WebEditor`, `web_editor.cfg` | What was typed is stored; what others wrote stands; only drafts that were empty when their DELETE was sent are discarded; what waits for saves ends; each with the exceptions its comment names | 386 thousand |
| `web_session` | `WebSession`, `web_session.cfg` | The user shown is the token's; a login ends only by logging out; a token near its expiry is renewed, each with the exceptions its comment names: a crossed answer, a failed call, a machine that slept, an email that was changed or handed on, a wrong password | 2.1 million |
| `device_tokens` | `DeviceTokens`, `device_tokens.cfg` | One device per code; a revoked app has no valid token, and a device no second one, but for refreshes that overlapped; deadlocks only between requests that lock in opposite orders | 2.1 million |
| `newsletter` | `Newsletter`, `newsletter.cfg` | Nobody is mailed twice and the row shows what was mailed, unless disturbed; what is due is sent | 732 thousand |
| `note_store_index` | `MCNoteStore`, `note_store_index.cfg` | Violated: deleted notes have no search row | |
| `note_requests_search` | `MCNoteRequests`, `note_requests_search.cfg` | Violated: search stays in sync | |
| `category_conflicts` | `CategoryStore`, `category_conflicts.cfg` | Violated: what a 409 says is there can be seen | |

Bounds and why they are enough.

- `note_store`: two notes related in both directions, two bodies, styles, types and
  relationship types, versions up to 3. A dangling relationship needs two notes and one
  pair; both directions are there because the cascade looks at both ends. Two values of a
  field tell a change from none. Versions 1 to 3 allow a push below, at and above the stored
  version and a bump after each. The values are interchangeable (symmetry); no property of
  this run is a liveness property. `MaxVersion` bounds what edits and pushes may reach, and
  a relationship may go one beyond it, so that deleting one is never blocked by the bound.
- `note_requests`: two requests of any kind and the script, which repeats; two notes, both
  pairs, any subset of which exists at the start; pushes at versions 1 and 3 (equal, above,
  below after an edit). Deadlock and lost updates need two transactions; what is left for a
  third is to wait behind them.
- `device_sync`: one note id, two devices, two contents, versions up to 3. Compare, get and
  push treat each row on its own, so notes do not influence each other; two devices and the
  web client are three writers of one row. The bound on versions also stops editing in the
  end, which is the premise of convergence.

- `category_store`: one note (links of different notes do not influence each other), two
  categories and two names, so that a rename can meet the other category's name, live or
  deleted; versions up to 2, with deletions one beyond.
- `billing`: three changes at the provider (enough for active, cancelled and a second subscription,
  or for hold and return), two webhook requests and one completion, one crash or lost answer.
  Overlaps are between two transactions; the third shows that waiting for either is enough. One
  webhook stored while a completion waits for the provider is the overlap that lasts longest.
- `web_editor`: two notes, of which the tab has just created one, and the list; two edits
  that type a new text, the default or a blank; four saves; two navigations, hidden tabs, failures or
  changes by another device, of these one. An answer for the wrong
  note needs two notes and one navigation; a save that overtakes another needs two saves; the last
  two saves are there for two flows at once.
- `web_session`: two users, three tokens, one email beside the users' first ones, three events (a login, a
  logout, a reload, a call, a change of an email, a failure). A crossed answer needs a logout, a login and
  one renewal under way, which makes three tokens; handing an email on needs two changes.
- `device_tokens`: one code beside a device connected already, and four requests of any kind, all of which
  may run at once. Two exchanges race for the code; a deadlock needs two requests, and a further two show what a
  token left behind by an overlap survives.
- `newsletter`: two campaigns, so that the job has a batch to lose; two workers; one subscriber and one
  failure. That mails to some subscribers fail and to others do not is not exercised at this bound.

Fairness.

- `NoteRequests`: weak fairness of each process's next statement (the server keeps executing a
  request it has begun; PostgreSQL grants a lock that is released) and of the start of the
  repair script. The latter is an assumption on the operator: the repository ships the script
  but no schedule for it. No fairness on requests: nobody is obliged to send one.
- `DeviceSync`: weak fairness of each device's syncing, which includes that an answer gets
  through in the end (a lost answer leaves the same push enabled). An assumption on the
  devices. The web client, local edits, lost answers and the purge have none.

- `Billing`: weak fairness of a request's next step; strong fairness of `WriteRow`, since
  PostgreSQL grants a row lock in the order of waiting; strong fairness of the delivery of each
  event, an assumption on the provider, which repeats a webhook until it is answered. None on
  changes, completions and crashes.
- `WebEditor`: weak fairness of what the browser has ready, of the timer, of a navigation's arrival, and
  of calls, DELETEs included, being carried out and answered (the API client gives up after 10 seconds).
  None on the user, other devices and failures.
- `WebSession`: weak fairness of the timer, of carrying out calls and of answering them.
- `DeviceTokens`: none; it has no liveness property.
- `Newsletter`: weak fairness of each worker's next step and of time; strong fairness of the job, which a
  cron outside the repository calls again and again (`routes/admin.py:182`): an assumption on the
  operator.

## 5. Findings

1. A pushed note that is deleted already gets a search row (`service/sync.py:202`, 285-292),
   against "One row per note; hard-deleted when note is soft-deleted" (`models/notesearch.py:10`).
   Nothing removes the row, and it makes every purge fail that reaches the note.
2. Of two overlapping edits of one note, one of the title and one of the content, the row keeps
   both while search row and hash hold the second's view of the first's column
   (`service/note.py:187-222`), against "so notesearch stays in sync" (`note_persistence.py:3`).
3. A category once removed from a note cannot be given to it again: the deleted link keeps its
   primary key, and the insert's conflict is answered with "Note already has this category"
   (`service/note_category.py:37`). Likewise the name of a deleted category (`category.py:30`).

Each of these three has a run that violates a property quoting the text. Further divergences were met
while modelling; the models take these steps and the properties allow for them:

- Two overlapping updates give one version to two contents, or take it back below a pushed one
  (`service/note.py:213`), against "increments on each update" (`schemas/note.py:107`).
- A deletion pushed at the server's own version leaves that version (`service/sync.py:301-315`);
  a device that holds that version of a note changed in two places is never told, against "synced
  to clients for removal" (`schemas/note.py:111`). `conflicted` in `CopiesConverge`.
- `_upsert_plan_subscription` stores whichever event comes last to the server
  (`service/billing.py:432`): an activation delivered after the cancellation it preceded grants
  access for good, against "Only `active` grants access" (`docs/billing-dodo.md`). `disordered` in
  `RowSettles`.
- A completion writes the columns that differ from the row as it was loaded with the user, before
  the provider was asked (`models/user.py:54`, `service/billing.py:417`). A webhook stored while the
  provider answers leaves, with the completion, the id of one subscription with the status of another: an
  activation of the second beside the cancellation of the first ends as the second, cancelled.
  `overlapped` in `RowIsOneChange`.
- The note page asks "Changes could not be saved. Leave this page anyway?" after an `await` in
  `beforeNavigate`'s handler, when the router has gone on and cancelling has no effect
  (`nodes/5.27kObgxN.js:2`). `Asks` in `WebEditor`.
- An answer to a renewal is taken by whoever is signed in when it comes (`chunks/tHvd42lv.js:1`).
  `crossed` in `TokenIsTheUsers`.
- Changing the email on the profile page ends the login: the page shows "Profile updated successfully!"
  and keeps the token, which still names the old email (`auth/dependencies.py:84`), so the next call is
  answered with a 401. `renamed` in `SessionIsKept`; a token whose email another user has taken since
  is that user's, `handed` in `TokenIsTheUsers`. A wrong current password, typed to set a new one, is a 401
  too (`service/user.py:144`, `main.py:144`), and logs the user out instead of telling them. `mistyped`.
- A field typed back to the saved text while a save of another text is under way cancels the timer;
  the answer leaves the page unsaved with nothing scheduled, and the text is stored only when the
  tab is hidden or the page left (`nodes/5.27kObgxN.js:2`). `given_up` in `TypedTextIsStored`.
- The DELETE of an empty draft is sent when its page is left (`chunks/C9MXDsfr.js:2`) and not called
  back by typing on before the next page is shown, nor by coming back: a note may be deleted with the
  text that was saved in between. `resumed` in `OnlyEmptyDraftsAreDiscarded`.
- A new note entered from the list is never discarded: the effect that takes a note off the drafts once
  something is written runs before the page's fields are filled in, and finds them unlike the default.
- Of two overlapping refreshes, the first's access token is forgotten, and neither later refreshes nor
  revoking the refresh token end it (`service/oauth.py:91`); revoking the app does. `doubled` in
  `OneLiveToken`.

## 6. Proofs

TLAPS proves these theorems for every value of the constants: any sets of notes, texts, users, devices,
codes, workers and requests, and every bound. Together they cover every type invariant, safety
invariant and action property that the passing runs check, and both refinements.

| Theorem | Module | States |
|---|---|---|
| `Invariance` | `NoteStoreProofs` | the inductive invariant of `NoteStore` |
| `TypeCorrectness` | `NoteStoreProofs` | `TypeOK` |
| `NeverDangling` | `NoteStoreProofs` | `NoDanglingRelationship` |
| `DerivedDataIsCurrent` | `NoteStoreProofs` | `DerivedDataFollows` |
| `VersionsFollowChanges` | `NoteStoreProofs` | `ChangesRaiseVersions`, an action property |
| `OnlyTombstonesErased` | `NoteStoreProofs` | `OnlyTombstonesAreErased`, an action property |
| `RowsGoForward` | `NoteStoreProofs` | `RowsOnlyGoForward`, both together |
| `OnlyDeletedRowsExpire` | `NoteStoreProofs` | a row old enough for the purge is a deleted one |
| `StoreImplementsGraph` | `NoteStoreProofs` | `ImplementsGraph`: `NoteStore` implements `KnowledgeGraph` |
| `SyncInvariance` | `NoteStoreProofs` | the inductive invariant `SyncInv` of `DeviceSync` |
| `SyncTyped` | `NoteStoreProofs` | `SyncTypeOK` |
| `EqualVersionsShowTheSame` | `NoteStoreProofs` | `EqualVersionsAgree` |
| `NoChangeIsLost` | `NoteStoreProofs` | `ChangesSurvive`, an action property |
| `BillingInvariance` | `BillingProofs` | the inductive invariant of `Billing` |
| `BillingTypes` | `BillingProofs` | `TypeOK` |
| `OneTransactionPerEvent` | `BillingProofs` | `EventsAreStoredOnce` |
| `RowsAreChanges` | `BillingProofs` | `RowIsOneChange` |
| `LossNeedsCrashOrOverlap` | `BillingProofs` | `EventsAreLostOnlyByCrashOrOverlap` |
| `NoteRequestsInvariance` | `NoteRequestsProofs` | the inductive invariant of `NoteRequests` |
| `NoteRequestsTyped` | `NoteRequestsProofs` | `TypeOK` |
| `SearchFollows` | `NoteRequestsProofs` | `SearchFollowsUnlessOverlapped` |
| `RelationshipsFollow` | `NoteRequestsProofs` | `RelationshipsFollowUnlessOverlapped` |
| `LiveNotesAreIndexed` | `NoteRequestsProofs` | `LiveNotesHaveSearchRow` |
| `DeletionsStand` | `NoteRequestsProofs` | `DeletedStays`: no overlap brings a deleted note or relationship back; an action property |
| `RepairRepairs` | `NoteRequestsProofs` | `RepairsWhatItSaw`: what dangled when the repair script began is deleted when it ends; an action property |
| `NobodyWaitsInACircle` | `NoteRequestsProofs` | `NoCircle`: among any running transactions one can proceed or waits for another outside |
| `CategoriesInvariance` | `CategoryStoreProofs` | the inductive invariant of `CategoryStore` |
| `CategoriesTyped` | `CategoryStoreProofs` | `TypeOK` |
| `CategoriesImplementLabels` | `CategoryStoreProofs` | `ImplementsLabels`: `CategoryStore` implements `Labels` |
| `CategoriesGoForward` | `CategoryStoreProofs` | `DeletionsAreFinal`: versions never fall, nothing deleted comes back, nothing shown is erased; an action property |
| `DeviceTokensInvariance` | `DeviceTokensProofs` | the inductive invariant of `DeviceTokens` |
| `DeviceTokensTyped` | `DeviceTokensProofs` | `TypeOK` |
| `CodesConnectOneDevice` | `DeviceTokensProofs` | `OneDevicePerCode` |
| `RevocationsStand` | `DeviceTokensProofs` | `RevocationStands` |
| `OneTokenIsLive` | `DeviceTokensProofs` | `OneLiveToken` |
| `DeadlocksNeedBothOrders` | `DeviceTokensProofs` | `DeadlocksMixOrders` |
| `CirclesNeedBothOrders` | `DeviceTokensProofs` | `CirclesMixOrders`: the same of waiting circles of any length |
| `NewsletterInvariance` | `NewsletterProofs` | the inductive invariant of `Newsletter` |
| `NewsletterTyped` | `NewsletterProofs` | `TypeOK` |
| `MailedAtMostOnce` | `NewsletterProofs` | `NobodyIsMailedTwice` |
| `RowsShowTheMails` | `NewsletterProofs` | `RowsShowWhatWasMailed` |
| `WebSessionInvariance` | `WebSessionProofs` | the inductive invariant of `WebSession` |
| `WebSessionTyped` | `WebSessionProofs` | `TypeOK` |
| `UserShownIsTokens` | `WebSessionProofs` | `TokenIsTheUsers` |
| `LoginsStayOpen` | `WebSessionProofs` | `SessionIsKept` |
| `WebEditorInvariance` | `WebEditorProofs` | the inductive invariant of `WebEditor` |
| `WebEditorTyped` | `WebEditorProofs` | `TypeOK` |
| `TypedIsStored` | `WebEditorProofs` | `TypedTextIsStored` |
| `OthersStand` | `WebEditorProofs` | `OthersTextStands` |
| `DiscardsAreEmpty` | `WebEditorProofs` | `OnlyEmptyDraftsAreDiscarded` |

Assumptions, each named in the module that declares the constants and evaluated by TLC in every run of
that module:

- `BoundsAssumption`, `BoundAssumption`: bounds are naturals, where needed at least one; `Billing`'s
  webhook requests are not its completions.
- `PairsAssumption`, `NoteIdsAssumption`, `CampaignsAssumption`: ids are naturals, and pairs are of ids.
- `ScriptAssumption`: the repair script is none of the requests. `VersionsAssumption`: devices
  push positive versions, as `schemas/sync.py` requires.
- `TextsAssumption`: there is a title and a content to type.
- `CodesAssumption`: no code is the marker of a device connected earlier.
- `UsersAssumption`: there is a user, and no user and no email is the absent one. `NotesAssumption`, `TypingAssumption`:
  neither a note nor a text is the absent one.

An invariant that the runs check is seldom inductive: it speaks of what can be seen, and says nothing of
what running requests will still do. What follows is what had to be added, and why. Each proof has one
lemma per action, or per kind of write that several actions share, and a step of each for every
conjunct the action can disturb.

`NoteStore`. Types alone are inductive but useless; the three invariants lean on each other
and on types. So the inductive invariant is their conjunction,

    IInv == TypeOK /\ NoDanglingRelationship /\ LiveNotesIndexed /\ StateHashMatches

`NoDanglingRelationship` needs the types (a relationship's ends are ids of existing rows, so a
note inserted later cannot be the end of an old relationship); `LiveNotesIndexed` needs the
types for the same reason. `TypeOK` carries two conjuncts beyond row types for this: ends of
relationships are rows, and search rows are of existing notes, which is what the guard of the
purge keeps true.

The two action properties follow from one description of a step, `RowsMove`: rows that stay move
forward (`NoteMoves`, `RelationshipMoves`), new rows are not expired, and rows that go were expired or
related to a note that was. `NextSteps` proves it of every operation from `IInv`. That only
tombstones are erased then needs both `ExpiredAreDeleted` (age implies the flag) and
`NoDanglingRelationship`: the database's cascade erases relationships without looking at
them, and they are tombstones only because no live relationship is left at a deleted note.
What a version tells is proved beside it: whatever REST and MCP change gets a higher version
(`RestStepsTell`), and so does every relationship that goes with a note, also where a push deletes
the note (`NoteStepsTell`). A deletion pushed at the note's own version, and a relationship pushed at its
own, do not; the property leaves exactly these two out.

The refinement maps the graph's nodes to the live notes with what they show, its edges to the live
relationships, and its removed ids to those handed out that are not live. Every write is one lemma:
an insert adds a node or, if pushed as deleted, uses up its id; an edit changes a node; the cascade
and the soft delete together remove a node with its edges; the purge is a stutter, because
by `ExpiredAreDeleted` and `NoDanglingRelationship` nothing it erases was seen.

`DeviceSync`. The theorems stand at the end of `NoteStoreProofs`. `EqualVersionsAgree` is not
inductive: it says nothing of copies in other versions, which a push or a pull may make equal. `Fits`
says of each copy how it relates to the server's row: it is ahead only if it has a change the server
does not have (a `base`); what the device will pull is ahead of its copy, or was changed there since,
in conflict; and outside conflicts a change started from the row as it still is, and that row is
not deleted. The three ways to become equal then all show the same: a pull copies the row; an accepted
push is of a change that started from the row, whose version it exceeds, or repeats one the row has;
an answer takes the server's version over. Whoever moves the row on makes every other device's change a
conflict (`Counted`). `ChangesSurvive` follows step by step: what a late pull overwrites is behind the
server's row and unchanged (the second line of `Fits` about lists), and what a push takes from `base`
is what the row shows after it (`SyncPushMoves`), the repeated push of a deletion included, which leaves
the row's version alone but then changes nothing.

`NoteRequests`. `Types` adds to the types that no two transactions hold the lock of one row.
`Transactions` says which note each running transaction is about, `PlansFit` and
`InsertsAlone` what its plan may hold and which rows it may be inserting, `OverlapsAreSeen` that
two transactions on one note have been recorded. The properties then need the plans themselves to be
sound: applied to the tables, the plan of a transaction that is alone with its note leaves search
row and hash following (`PlansAreSound`), and whoever deletes a note has yet to select its
relationships, or will delete all of them (`CascadesReach`). `Whole(r, part)`, what a transaction
has still to do joined with what it has written, is what a statement leaves unchanged; so a
statement preserves all of these at once, and the work lies in the reads and the commit.
`IndexDropped` says that a search row is deleted only with its note, and keeps a stale edit
from losing a live note's row.

Three more theorems of `NoteRequests` go beyond what its runs ask. `DeletionsStand` rests on `Changed`,
the columns an UPDATE sets: an edit that read a note live does not write `is_deleted`, so its
commit after the deletion leaves it deleted (`CommitWrites`, `StepsReviveNothing`). `RepairRepairs` is the
plan of the repair script at its three points: what dangles is in it when it begins
(`ScriptBegins`), is in what is left or written at every statement (`StatementsOfScript`), and is
deleted at the commit (`ScriptCommits`). `NobodyWaitsInACircle` is a lock-order argument.
`OrderIsKept`, a conjunct of the inductive invariant, says of each transaction that it locks a note
row, then a search row, then relationships in the order of their keys, each once (`KeepsOrder`). So who
cannot proceed waits for a transaction that has come further in that order or can proceed
(`WaitsForOneAhead`), and of finitely many one has come furthest (`SomeAreLast`, from the
well-foundedness of the subsets of a finite set). `Ready` is written out as the guards of
`Proceed`, since ENABLED is out of the prover's reach.

`CategoryStore`. The types, among them the foreign keys and the unique names, with `ExpiredAreDeleted`
are inductive. For the refinement there is one lemma per kind of write (insert or change of a category,
of a link, deletion, purge) that says what becomes of the labels and marks shown; the purge shows nothing
new because expired rows are deleted ones and were not shown. `CategoriesGoForward` says it of the rows
themselves (`RowsMove`, one lemma per kind of write): a push is taken only at the row's version or
above, and only ever sets `is_deleted`. Links are the one kind of row that may be erased while
live, by the database's cascade, and then their note or category was deleted.

`Billing`. The four safety properties are not inductive one by one. What ties them together:

- `RequestsAreTransactions`: a request wants the row of the event it names, and events never change.
- `ReadsHoldUnlessStale`: what a transaction has loaded is still there unless another one has
  committed a change since, which marks it `stale`; for a completion, since before it asked the
  provider. It makes a commit by a transaction that is not
  stale leave exactly the row it was asked for (`CommitStoresWhatIsSaid`), although only
  the columns that differ are written; and it makes an INSERT that fails a sign of overlap.
- `WrittenInTime`: an answered transaction has sent its statement, unless it flushes late; so the
  commit does not drop a change.
- `OneWriter`: with the lock on the row, or the key, only one transaction has written, and none has
  inserted a row beside another's. `CompletionsAsk` says that nobody has written before asking.

Steps fall into four kinds, with one lemma each: a request goes on (`ProceedsInv`), fails
(`FailsInv`), commits (`CommitInv`), or the provider changes (`ProviderChangesInv`).

`DeviceTokens`. `RequestsFit` describes every request at every point: what it has read, which rows it
waits for and holds. `CodesAreHeldOnce` makes the lock on a code's row exclude a second exchange until the
commit. A revoked app's tokens are revoked (`RevokedForGood`) except those a refresh that overlapped
has issued; `OneIsCurrent` says that of a device's access tokens all but the one its refresh token
points to are revoked, with the same exception. `DeadlocksMixOrders` is a lock-order argument for rings
of two and of three requests: a request locks either an access token before its refresh token
(`AccessThenRefresh`) or the app, its refresh tokens and its access tokens in the order of keys
(`RefreshThenAccess`), and requests of one order alone cannot wait in a ring.
`CirclesNeedBothOrders` is the same for any set of requests that all wait within it. Where no request
locks the refresh token first, who is waited for holds access tokens and waits for a refresh token,
which nobody in the circle holds; where all do, the rows wanted by those waited for increase along
the circle, and of finitely many one is the last.

`Newsletter`. `JobsTrack` ties each sender's progress to what it has read, and `SendersAreAlone` and
`SentIsSettled` say that a campaign outside `disturbed` has one sender, or has been sent and nobody works
on it. So the mails that have gone out are those its sender accounts for (`UnmailedUntilSent`,
`LeftAreUnmailed`), in the text its row still has (`SendersHaveTheText`, `MailedIsTheText`).

`WebSession`. `Fits` says of each call under way whose it is and what its answer will be, and
`SendsItsToken` that calls of the login signed in carry the token of the user shown: this makes an
answer taken over keep `ShowsItsOwner`, from which `TokenIsTheUsers` follows by `TokensNamed`: what a
token names changes with emails only. That a login ends only by logging out is a matter of order:
tokens of ended logins are older than those of the present one (`EndedAreOlder`), so revoking them never
meets it, and a renewal is armed or under way before the token runs out (`Renewing`, `CallsInTime`).

`WebEditor`. `TypedTextIsStored` speaks of a page at rest; `TypedIsKept` says at every moment where the
last text typed into a field is: stored, on its way in the newest save, shown and to be sent by the
timer, refused for a blank field, or lost for one of the reasons the property names. It needs that the
newest save's answer is what its row holds (`NewestIsStored`), that a flow or the page waits only for
saves that will be answered (`AwaitedIsWaiting`), and that the fields shown belong to the note of the
URL (`PageFits`). `SentIsTyped` gives `OthersTextStands`: no save carries a field the user did not touch.
`OnlyEmptyDraftsAreDiscarded` follows from `DraftsAreUntouched`: as long as a draft's DELETE may still be
sent or carried out, the note holds the default text, or another device's, or was typed in since the
DELETE was sent.

Proving changed two models. In `WebSession` a renewal is sent under the login as it is after the
step; in `WebEditor` the exceptions for a field typed back and for a blank field left behind were
missing, and the inputs of `web_editor` now reach both (section 5).

Left to TLC: liveness, which the prover does not do (`RowSettles`, `EveryRequestIsServed`,
`StaleRelationshipsRepaired`, `CopiesConverge`, `FlowsEnd`, `SessionIsRenewed`, `DueIsSent`), and the
absence of deadlocks, which is a matter of ENABLED: for `NoteRequests` it is proved as far as
`NoCircle` goes, with the guards of its steps written out.

## 7. Not modelled

Email rendering and sending, admin statistics, feedback, the OpenAPI document, CORS, logging,
captcha, configuration and migrations are text, I/O or single-row writes. Most lines of the web
client's bundle are other projects' code, compiled in (a rich text editor, a markdown parser and
renderer, Svelte's runtime); of its own pages, the note list, billing and password pages are left
out, and the profile page but for the call that changes the user: they fetch, show, and send one request a
click. Of the note page, pinning, deleting, categories,
relationships, the color and the question when a tab is closed are left out, and so are several tabs of
one browser, which share `localStorage` and `sessionStorage`. Requesting a connection code, the expiry
of codes and tokens, and the validation of a device's token, which reads, are left out of `DeviceTokens`.
ZIP and markdown parsing, search scoring, response shapes and MCP tool
metadata are data formats. The MCP rate limiter is a window under one lock in one process. The
parts marked as planned in `PROJECT.json` are the subject of the next section.

## 8. Plan

In order of weight:

1. Done: `KnowledgeGraph`, `NoteStore`, `NoteRequests`, `DeviceSync`, `Labels`, `CategoryStore`,
   `Billing`, `WebEditor`, `WebSession`, `DeviceTokens`, `Newsletter`, each with its inductive
   invariant and its safety properties proved, and both refinements.
2. `McpOAuth`: pending authorization, code, rotating refresh tokens, API keys; two exchanges at once.
3. `AccessCodes`: one code activated by two users, its grant beside the subscription's.
4. `AdminWebhooks`: queue in memory, commit, delivery, crash; an abstract specification of at-most-once
   delivery that it implements.
5. `Accounts`: registration, soft and hard deletion, reset links and cooldowns.
6. A part of `DeviceSync` for rows keyed by pairs (relationships, links) and for categories, whose
   renames carry no version.
7. Pure algorithms: `query_graph`'s breadth-first search against reachability by paths, and the round
   trip of relationships through the vault's labels, over all graphs on four nodes.
