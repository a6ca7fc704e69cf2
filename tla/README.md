# Formal models of DMART

TLA+ models of the DMART backend (`src/backend`, Python), checked with TLC on small
instances, with theorems checked by TLAPS for every value of the constants.

DMART keeps *entries* as flat files (a meta file, a payload file, a history) or as rows of
SQL tables, finds them through documents in Redis, and serves them through a FastAPI
application. Hypercorn runs one worker process per CPU (`utils/hypercorn_config.py:8`), each
with its own event loop. There is no transaction across files and Redis, and no mutual
exclusion between requests other than what a handler does itself. So **every `await` is a
point where another request of the same worker runs, and every Redis command, SQL statement or
file access one where another worker does**. The models are about what survives this.

- [The system](#the-system) is the inventory; [Plan](#plan) says what is written and what is
  left.
- [How to read a module](#how-to-read-a-module) and [Runs](#runs) hold for all of them.
- The models: [EntryLock](#entrylock-the-edit-lock-of-an-entry),
  [EntryIndex](#entryindex-files-and-the-search-index),
  [Attachments](#attachments-the-search-text-of-an-entry),
  [TicketWorkflow](#ticketworkflow-transitions-of-a-ticket),
  [ManagedRequest](#managedrequest-batches-of-records),
  [Session](#session-logins-sessions-and-the-lock-out),
  [Access](#access-the-cache-of-permissions), [AccessRules](#accessrules-what-permissions-come-to),
  [SqlStore](#sqlstore-rows-of-the-sql-adapter),
  [Realtime](#realtime-the-websocket-server), [QueryPages](#querypages-paging),
  [Campaign](#campaign-scheduled-notifications).
- [Proofs](#proofs), [What disagrees with the repository](#what-disagrees-with-the-repository),
  [What the models take for granted](#what-the-models-take-for-granted),
  [Not modelled](#not-modelled).

Files: `*.tla` are modules, `MC*.tla` the instances TLC checks, `*_proofs.tla` the proofs.
Run one with `tlc -config entry_lock.cfg MCEntryLock`, prove with `tlapm ManagedRequest_proofs.tla`.

## The system

| component | state | operations | what is hard | what makes it correct | module |
|---|---|---|---|---|---|
| **Managed API** `api/managed/*` | none of its own | `/request` (create, update, replace, patch, assign, update_acl, delete, move), `/resource_with_payload`, CSV import, `/lock`, `/progress-ticket` | a handler loads, validates for many awaits, then writes back all it loaded; one record of a batch fails | the answer tells what happened to each record; what fails leaves nothing behind | `ManagedRequest`, `EntryLock`, `TicketWorkflow` |
| **File adapter** `data_adapters/file_adapter.py` | meta, payload, `history.jsonl`, attachments, per entry a directory | load, save, update, delete, move, `lock_handler`, `store_entry_diff` | several files per operation, no atomic replacement | files of one entry belong together; history tells what happened | `EntryLock`, `EntryIndex`, `Attachments` |
| **Entry lock** `utils/redis_services.py` | a JSON document per entry, with TTL | `save_lock_doc`, `get_lock_doc`, `is_entry_locked`, `delete_lock_doc` | take is four Redis commands; expiry at any of them; check and use apart | one holder; the lock ends; nobody's lock is passed over; each request is told what one atomic lock would have told it | `EntryLock`, `LockService` |
| **Search index** `plugins/redis_db_update`, `create_index.py` | one document per entry in the meta index, one in its schema's index | hook on create, update, delete, move; rebuild | the hook is a task that runs after the response, in any order; shares `self.data`; dies with the worker | the documents say what the files say | `EntryIndex`, `Attachments` |
| **Plugin manager** `utils/plugin_manager.py` | the loaded plugins and filters | `before_action` (awaited), `after_action` (task per plugin) | plugin objects are shared between tasks | each event reaches each matching plugin once | as part of the above |
| **Tickets** `utils/ticket_sys_utils.py` | `state`, `is_open`, `resolution_reason` in the meta file; the workflow entry | transit, resolve, comment, claim | the transition is checked on a copy loaded before | only transitions of the workflow, by allowed roles; history agrees | `TicketWorkflow` |
| **Sessions and login** `utils/jwt.py`, `api/user/*` | active session, user session, failed-attempt counter, invitations in Redis; `is_active`, push token in the file | login, check, logout, deactivate, reset | read-then-set counters and tokens, TTLs, a shared default argument | one session per user; lock-out after n failures; logout ends the session | `Session` |
| **Access control** `utils/access_control.py` | users, roles, groups, permissions as documents; cached permission map per user | `check_access`, cache fill, invalidation by `update_access_controls`, query policies | cache fill races invalidation; walking up the subpath | the cache never outlives a change; the decision is the one of the documents | `Access`, `AccessRules` |
| **WebSocket manager** `websocket.py` | connections per user, subscribers per channel | connect, disconnect, subscribe, broadcast | awaits inside iterations over lists others change | messages reach the subscribers of the channel | `Realtime` |
| **Query repository** `utils/repository.py` | none | queries of each type, page by page | a different way of paging per type and backend | who reads all pages has seen everything | `QueryPages` |
| **Uniqueness, schema validation** | none | validate before write | reads the index, which lags | unique fields are unique | `ManagedRequest` |
| **SQL adapter** `data_adapters/sql_adapter.py` | tables instead of files, locks and sessions as rows | same interface | look before insert, without constraints, one connection per worker | one row per key | `SqlStore` |
| **Notifications** `scheduled_notification_handler.py` | notification entries, a status in the request's payload | by schedule | runs overlap, edits write the status back | each receiver once, nobody left out | `Campaign` |
| **Spaces** | space entries and their cached list | create, update, remove | cache and indices follow the files | the list is that of the files | not modelled |

Interactions: a request calls the adapter directly; the adapter consults the lock in Redis (or a
table); after the write the API calls `plugin_manager.after_action`, which creates tasks; the
index hook reads the files again and writes documents; searches, uniqueness checks, social
logins and the permission map read those documents. Two hooks of one change run side by side
(`redis_db_update`, `update_access_controls`). Batch jobs (`create_index`, the scheduled
handler, health check, archive) run as processes of their own beside the server. Models that
overlap tell the same story at different grains: `EntryIndex` takes a write apart into file
accesses, `ManagedRequest` takes it as one step and looks at batches, and each says so.

`PROJECT.json` lists every component with what is and is not modelled, and the hazards of
each, at the line where they bite. The properties are written for that list.

## Plan

Done, in this order: `EntryLock` with the abstract `LockService`; `EntryIndex`; `TicketWorkflow`;
`Session`; `Access` and `AccessRules`; `SqlStore`; `Realtime`; `QueryPages`; `ManagedRequest`,
which composes uniqueness with the lag of the index; `Campaign`; `Attachments`. Theorems state
every property of the runs but the two about liveness.

Left, most useful first:

1. Folder deletes and moves, which rebuild documents of a whole subtree, and the location
   fields of moved documents.
2. Spaces with their cached list, as a module like `Access`.
3. OTPs, beside `Session`.

## How to read a module

An action is what a handler does from one await (or Redis command, or statement) to the next,
with everything it changes on the way. Content is named by the request that wrote it, so that
"the document says what the file says" is equality. *History variables* (marked `history:` at
their declaration) are read by properties only; most of them record one of the situations in
which the code does not keep a promise, so that the property can say that these are the **only**
ones. That form, "A holds, unless B happened", is deliberate: the plain A is false of this code, the
counterexamples are listed under
[What disagrees with the repository](#what-disagrees-with-the-repository), and each excuse is as
narrow as TLC allows: it names the requests, entries or users that are concerned, and says what
sets things right again. The properties of the other kind need no excuse.

Operators under a comment `Fault:` are not part of a model. Each is a mapped definition with a
plausible bug (a dropped guard, a missing reset, an off-by-one); put in its place it makes one
property fail. `PROJECT.json` lists them under `mutants`.

Each module has one `TypeOK`. It is proved for the modules with a type theorem, and the runs do
not repeat it.

## Runs

| run | instance | distinct states | holds |
|---|---|---|---|
| `entry_lock` | 2 users, 3 requests, 1 crash | 1.99 M | `GrantExclusive`, `NoTtlOnlyWhileTaken`, `ForeignLockIsNewer`, `RevivedByOverlap`, `LockServiceSpec` |
| `entry_index` | 2 paths, 2 requests, 1 crash, 1 rebuild, fair | 0.59 M | `IndexTruthful`, `ChangesGetIndexed` |
| `attachments` | 2 entries of one path in 2 spaces, 2 attachment names, 2 requests, 2 workers, 1 crash, fair | 0.50 M | `TextTruthful`, `TextCatchesUp` |
| `ticket` | 2 requests, 2 users with different roles, 2 seconds, 1 crash | 0.14 M | `OnWorkflow`, `OpenMeansNext`, `HistoryLegal`, `AnswerIsTrue`, `ReopenOvertaken` |
| `managed_request` | 3 paths (2 in a folder with unique codes), 2 codes, 2 people, 15 batches, 2 requests, 1 crash | 0.98 M | `CodesUnique`, `AnswerTrue`, `OwnerStays` |
| `session` | 2 users, 2 slots, 4 requests in 6 mixes, 2 failures allowed, 1 invitation, 1 fault | 0.93 M | `EndedStaysEnded`, `LockoutHolds`, `AttemptsFair`, `PushHome`, `PushEndsWithSession` |
| `access` | 2 users, 1 group, 2 roles, 2 permissions, pages of 1, 2 slots, 2 changes (refused deletes and files written back among them), 2 checks | 2.30 M | `CacheFresh`, `DocCurrent` |
| `access_rules` | lists of up to 3 of 7 permissions, both backends, 49 entries | 5926 | `MapExact`, `GrantsFounded`, `QueriesFounded`, `QueriesComplete` |
| `sql_store` | 6 tables, 2 workers, 3 tasks, 2 people, 5 calls | 0.28 M | `OneRow`, `NoWrong`, `RefusedLeavesNothing`, `DoubledStays`, `NothingRevived` |
| `realtime` | 2 users, 3 connections, 1 broadcast, 4 messages, 2 channels | 0.66 M | `Delivered`, `Reachable` |
| `query_pages` | 12 kinds of query, up to 5 records, pages of up to 3 | 1.79 M | `EverythingSeen`, `PageFits` |
| `campaign` | 2 requests in 5 assignments of what they ask for, 2 receivers, 2 runs, 1 edit, 1 fault, 1 deletion | 2.96 M | `ToldOnce`, `MarkedWhenTold`, `NotForgotten` |

Every run passes. Deadlock is not checked in any of them, as the requests (calls, messages, runs)
are bounded and a model stops when they are used up. Symmetry under permutations of requests,
slots, workers or connections is used where the run checks no liveness and the code treats them
alike.

**Fairness** is assumed in `entry_index` and `attachments` only, for `ChangesGetIndexed` and
`TextCatchesUp`: weak fairness of the steps of each request and of each task (an event loop runs
what it has; a request or a task of a dead worker has no steps), and of `create_index` once it is
started. Nobody has to send a request, start a rebuild or crash. These two runs check
`FairInOrder`: requests, paths (entries) and workers are alike and symmetry is unsound with liveness, so the
order in which requests arrive, and where the first one goes, is fixed instead.

## EntryLock: the edit lock of an entry

One entry, any requests by any users. Its names differ from those of `ManagedRequest`, so that one module of
proofs can extend both. `PUT /managed/lock`, `DELETE /managed/lock`, updates
and deletes with or without `retrieve_lock_status`, the claim of a ticket before its lock.

| variable | code |
|---|---|
| `lock` | the document `<space>:<branch>:<subpath>/<shortname>:lock`: its `owner_shortname`, and whether Redis has a TTL for it |
| `file`, `dir` | the meta file exists; its directory is absent, empty but for it, or has a `history.jsonl` |
| `meta`, `seen` | what the meta file says (the *set of edits* it is built from, `collaborators["processed_by"]`); that, as `db.load` gave it to a request |
| `place`, `op`, `sender`, `guarded` | where a request stands, what it does, its user, its `retrieve_lock_status` |
| `granted`, `made`, `checked`, `reply`, `removed`, `found` | history variables |

`LockGet`, `LockSet`, `LockConfirm`, `LockTtl` are the four commands of `save_lock_doc`
(GET, SET NX, GET, EXPIRE); the second GET always happens, as `save_doc` returns nothing.
`Save`, `SaveCheck`, `SaveGet`, `SaveDel`, `SaveUnlock`, `SaveWrite`, `SaveRecord` are the body of
`FileAdapter.update` in its order: the existence check (`FindFile`) and the truncating open (`OpenAndWrite`) are two
accesses, with or without lock commands between them, and so they are in the claim of a ticket (`ClaimSave`, `ClaimWrite`), an
ordinary update without lock check. `Erase...` is `delete`, which removes the meta file, empties the directory and removes
it in three accesses. `open` asks for the directory only, and `StoreEntryDiff` creates that
again, because it makes the parents of `history.jsonl`; `Load` clears away an empty one. `Expire` is Redis dropping
the document (the TTL is not a number: it may run out at any moment once set). `Die` is a worker that dies.

*GrantExclusive*: between two deletions of the document, at most one
user was told "lock", whatever the interleaving of GET and SET NX. *NoTtlOnlyWhileTaken*: a
document without TTL, which would stay for ever, exists only while its taker is between SET and
EXPIRE or died there. *ForeignLockIsNewer*: when a request goes on after its look at the lock,
a lock of somebody else can be there only if it was taken after the look. *RevivedByOverlap*:
a deleted entry comes back only through a request that had found the meta file before it was removed;
the lock does not matter for that. *LockServiceSpec*: for what every client is told, the whole module implements
`LockService`, an atomic service that looks at the lock once between a request's arrival and its reply. A reply "extended" has
the same text as "lock" in the answer (`api/managed/router.py:1074-1080`) and is given under the lock of anybody, so that the service
promises no more with it than that somebody held the lock; the other replies are true of the
moment of the look, and the lock never passes from one user to another without being free in between.

Bounds. Three requests are needed: one takes the lock, one loses it to expiry, one takes it
after; two users, since the code only compares for equality. Each further request repeats roles
these three already play, and the theorems hold for any number. One crash exercises every point
at which a worker can die.

Left out: access checks before the handler, the index hook (`EntryIndex`), Redis being
unreachable. The SQL table of locks is in `SqlStore`.

## EntryIndex: files and the search index

Some paths, write requests of one record each, the hook each of them leaves behind, one
`create_index`. Every entry has a JSON payload with a schema: two files, two documents.

| variable | code |
|---|---|
| `meta`, `body` | meta file and payload file of each path |
| `idx`, `pdx` | document in the meta index and in the schema's index (`Empty` is the `{}` that `get_doc_by_id` and a failed load yield) |
| `kind`, `path`, `dest`, `pc`, `seen` | the request, where it stands, what `db.load` gave it |
| `tpc`, `tm`, `tb` | its hook as a task, and what that has read |
| `rpc`, `rtodo`, `rm`, `rb` | `create_index`: where it stands, what it has read |
| `met`, `disturbed` | history variables |

`Begin`, `CheckNew`, `LoadEntry`, `Save`, `SavePayload`, `Remove`, `Rename` are the
steps of `serve_request_create/update/delete/move` with the adapter's `save`, `update`,
`save_payload_from_json`, `delete` and `move`; `Announce` is `after_action`. `HookLoad` to
`PutPayload` are the hook for create and update, `HookFind` to `DelPayload` for delete,
`MoveDel` to `MovePayloadPut` for move, one Redis command or awaited read each. `RebuildDrop`,
`RebuildRead`, `RebuildPut` are `create_index`. A refused delete (the lock of
somebody else, or the entry gone) and a refused move are announced as in the code. `Remove`
takes "somebody else holds the lock" as a free choice, as `EntryLock` shows it can be at any time.

Abstractions: a document is its content, not its location fields (a moved payload document keeps
the subpath and shortname of its source; `ManagedRequest` has these); `db.move` and `db.delete` without lock
status have no await inside and are one step; `RebuildRead` reads one entry in one step.

*IndexTruthful* is as strong as the code allows. The plain claim (idle paths are indexed as the
files say) fails for three reasons: overlapping writers of one path, a refused delete or move,
a crash. The property says these are the *only* ones: `disturbed` holds the paths
to which one of them happened, and what happens on one path does not disturb another. It also
says what *repairs* a path: a create or update that runs from its first read to the end of its
hook without company, and a rebuild in whose duration nobody writes. A move carries a
disturbance with it, since it copies the payload document of its source. *ChangesGetIndexed*
is the other half: the documents follow a change in the end, the request having answered before.

Bounds. Two paths are needed by a move; two requests by an overlap of writers, by a hook that
runs after the next write, and by a repair. The invariant is proved for any number of each.

## Attachments: the search text of an entry

The document of an entry has a `payload_string`, made of its payload and of its attachments,
which are files of their own. Writes of entries and of attachments, the hook each leaves behind,
in several workers.

| variable | code |
|---|---|
| `entry`, `att` | what the files of each entry say; its attachments whose files are there |
| `doc` | its document: content, and the attachments its text is made of (`NoDoc`: there is none) |
| `data` | `self.data` of the hook, one object per worker: the space and the entry its event is about |
| `kind`, `at`, `name`, `on` | a request: what it does, to which entry and attachment, in which worker |
| `pc`, `tpc` | where the request and its task stand |
| `aim`, `seen`, `from`, `text` | the task: the entry it writes, what it has read of it, where it looks for attachments, what it found there |
| `crashes` | workers that died |
| `met`, `disturbed` | history variables |

`WriteAttachment`, `WriteEntry`, `Unlink` are the handlers (`apply_alteration` updates the entry
and then deletes the alteration without an announcement). `Start` sets `self.data`; after awaits
`update_parent_entry_payload_string` reads it again, for the parent (`Route`) and once more for the space whose
attachments it lists (`List` with `Directory`, `plugin.py:177`), under whatever event the worker has come to
by then. `Load`, `List`, `Read`, `Save` are the
document of the parent, `get_entry_attachments` (which returns nothing at all when one of the files
is gone) and the document written back whole. `Crash` is a worker that dies with its requests, its hooks and its `self.data`.

*TextTruthful*: with nobody at work at an entry, its document tells its content and exactly its
attachments, but for six situations, which `disturbed` records: two requests at the entry overlapped;
another hook of the worker started before the parent was read from `self.data` (then this entry **and** the
other one are concerned), or before the space was; an attachment was written without its entry; an alteration's file went too
late; a hook died with its worker. *TextCatchesUp*: a change gets there in the end.

Bounds. Two entries of one path in two spaces are what it takes to mislead a hook in either look at `self.data`: the
entry is another one, or it has attachments under the same path in the other space. Two workers show that a hook of the
other worker does not; two attachments tell a lost one from an empty text. Entries live in folders: at
the root of a space the hook ignores attachments.

## TicketWorkflow: transitions of a ticket

One ticket, requests that progress it (`PUT /managed/progress-ticket`) or update it as an
ordinary entry. The workflow document, its initial states and the users' roles are constants.

| variable | code |
|---|---|
| `ticket` | the meta file: `state`, `is_open`, `resolution_reason`, and as history whose request last decided the state (`by`) |
| `history` | the lines of `history.jsonl` that change the state: who, `old`, `new` |
| `comments`, `clock` | comment attachments, named by the second (`c_%Y%m%d%H%M%S`), and that second |
| `pc`, `kind`, `who` | where a request stands, what it is, its user |
| `was`, `obj` | the ticket as loaded (`old_version_flattend`) and as it is going to be written |
| `stamp` | the second the request took for its comment |
| `placed` | history variable: the states a creation or an update put the ticket in |

`Load` is `db.load`; `Transit` is `handle_update_state` with `update_state_handle_resolution`,
computed from what was loaded; `StoreComment`, `Save`, `Record` are the attachment, the write of
the meta file and the line in the history, in the handler's order, so a comment is stored before
the write that may still be refused. `Change` is `update_from_record`, for which `state` and
`is_open` are attributes like any other. `Refuse` is any of the errors on the way: denied access,
an action the workflow does not have, a resolution it does not know, another's lock. It is
possible at each point up to the write, a superset of the code's errors.

The helpers are the loops of `ticket_sys_utils.py`, and a document may list a state or an action
twice. `Leads` is `transite`: the first step with the action decides, even where a
later one would name a role of the user; an entry without `next` met on the way is a
`KeyError`. `Resolves` is `post_transite`, `HasNext` is `check_open_state` (a name the workflow
does not describe is open), `InitialState` is `set_init_state_from_request`.

*OnWorkflow*: requests overlap, write back what they loaded long ago, or die, and the ticket is
still only in states that the workflow reaches from where the ticket was put. *OpenMeansNext*:
`is_open` and `state`, two fields of a file that everybody rewrites whole, stay consistent after a
transition until an update sets one of them itself. *ReopenOvertaken*: a closed ticket does open
again, but only through a transition that loaded it open, or an update that changes it.
*HistoryLegal*: each line of a transition is a step the workflow grants to a role of its author.
*AnswerIsTrue*: what success and refusal say of ticket, history and comments.

Bounds. Two requests are what an overlap takes. The instance of the
workflow has a state listed twice, an action listed twice with different roles, a way back, a
target it does not describe, a final state, resolutions on one state, and pairs of states with no
way between them. Two seconds tell comments of one second from comments of two. The theorems
hold for any workflow and any number of requests.

Left out: the claim and the lock, deletion (both in `EntryLock`), the other lines of the history,
batches of creates (`ManagedRequest`).

## ManagedRequest: batches of records

`POST /managed/request` serves a batch of records one after the other; a CSV import serves rows, an
upload one file. A folder may ask for unique codes, which are looked for in the index.

| variable | code |
|---|---|
| `files` | an entry: its owner and the code in its payload |
| `docs` | its document: the code, and the path it tells (`subpath`, `shortname`) |
| `locked` | paths that somebody else has locked |
| `who`, `batch`, `pc`, `at`, `on` | a request: who sent which batch, where it stands, whose turn it is in the loop, which record it works on |
| `copy` | the entry as `db.load` gave it |
| `listed`, `failed`, `answer` | `records` and `failed_records` of the answer, and the answer |
| `tasks` | hooks of `redis_db_update` that have not ended (a task that has not begun stands for an announcement under way too) |
| `done`, `owed`, `met`, `late`, `unsure`, `overtaken` | history variables |

`CheckNew`, `Search`, `WriteNew` are create and import; `Upload` goes straight to `WriteNew`, over
whatever is there; `Search`, `Register` are `POST /user/create`, where nobody's rights are asked for and
`db.create` refuses a user who exists. `LoadEntry`, `LoadBody`, `Search`, `WriteOld` are update, replace, assign and
update_acl; `Remove` and `Move` delete and move. `Turn` is the end of a record's turn, `Fail` what the
loop catches, `Escape` what it does not: for deletes and moves the load stands outside the `try`, so an
entry that is not there ends the batch with an error. `Substitute` is the line that takes
`records[0]` for every ticket of a batch. `Searched` says for which records uniqueness is
looked at at all: with a payload, a value, and the name of the schema in the record.

*CodesUnique*: two entries of the folder have one code only if one of the two codes was never vouched
for. `unsure` has the ways to that: it was written while the index lagged behind another write (perhaps
of the same batch), merged from a payload that was out of date (it brings back a code that somebody has taken
meanwhile), moved in, uploaded, sent without the schema's name, or a document was lost to a crash or spoilt by the
announcement of a refused delete or move, also by one that comes after the search. *AnswerTrue*: what success, failure and error say of each record,
tickets and imports being different as described above it. *OwnerStays*: the owner is who
created the entry or was assigned it last, unless somebody wrote back a copy from before.

Bounds. Fifteen batches, each with a reason: two equal codes in one batch; a create after which
validation fails; two tickets; an import with a bad row and one without a shortname; an upload; a registration; updates that
take a code, drop one, or do not name the schema; a replacement under a lock; assignments,
ACLs, deletes (the first of them under a lock) and moves into and inside the folder. Any two of them interleave, by a person
who may do all and one who may create and update only.

## Session: logins, sessions and the lock-out

| variable | code |
|---|---|
| `mix`, `oneSession` | what is sent here; `settings.one_session_per_user` |
| `account` | the user's file: `is_active`, `force_password_change`, verified, the password's hash, the push token (`firebase_token`) |
| `doc` | the user's document, as social logins find it |
| `active`, `session` | the keys `active_session:<user>` and `user_session:<user>` are there |
| `attempts` | the key `users:failed_login_attempts/<user>` |
| `invites` | the keys `users:login:invitation:<token>` |
| `shared` | the dict that is the default value of `user_updates` in `process_user_login` |
| `issued`, `pc`, `job`, `obj`, `count` | who has been answered a token; where each request stands, what it is, the user and the count it has read |
| `ended`, `within`, `fails`, `outdated`, `uncleared`, `alone`, `streak`, `mixed`, `provided` | history variables |

A request `Arrive`s and goes its way: a login loads, counts a failure (`ReadCount`, `PutCount`,
`LockOut`) or clears, signs, activates and updates; a bearer is checked, renewed (`Check`, `Renew`,
`CheckSession` are `JWTBearer`) and then does what it came for: a visit, a logout, a profile, the
deletion of the account. Administrators `disable` and `enable`; `reset` and `forgot` make invitations, which are
read with `get` and stay. `Sync` is the document written at the end of `internal_sys_update_model`; `Index` the hook. `Expire`
is the TTL of either session key, `Restart` the worker, which takes the shared dict with it.

Tokens of one user are not told apart. The key holds a bcrypt hash of the token (`jwt.py:92`, `:192`), and bcrypt
(4.0.1, `pip.freeze:8`) looks at 72 bytes, which are the header of a JWT and the beginning of `{"data":{"shortname":...`:
the same in every token of a user. So any token that has not expired passes while there is a session, a replaced one too,
and what can be asked is whether there is one.

*EndedStaysEnded*: with one session per user, a session that was ended by logout, deactivation, deletion or time is not
there again before the next login, whatever tokens are about,
unless a request was between its check and its renewal just then (`set_active_session` in the bearer
does put it back). *LockoutHolds*: `max_failed_login_attempts` failures in a row, each alone, leave the
user deactivated. *AttemptsFair*: nobody is locked out by more failures than there were, unless a
clear fell into a failing login. *PushHome*: a push token goes from one user's file to another's only
through the shared dict, between two who logged in through a provider. *PushEndsWithSession*: the key in
Redis and the field in the file stay together, if the user's requests do not overlap.

Bounds. Two slots give every overlap of two requests. Four requests are a login, what ends its session, and
two that meet. The mixes let those kinds meet that share state: logins with everything that ends a session, with profile
changes of another user (the clear takes the user from the record), social logins of two users, a
social login against a password login, against a deactivation, and invitations with deletion and
reset. `MaxFailed` is two, so that a count and a lock-out can be apart.

## Access: the cache of permissions

| variable | code |
|---|---|
| `file`, `doc` | what the files and the documents of users, groups, roles and permissions say |
| `may` | what they may come to say here, one of `Contents` |
| `cache`, `stored` | what `users_permissions_<user>` says; for whom there is one, which may be empty |
| `made`, `target`; `index`, `found`; `inval`, `keys` | changes; the task of `redis_db_update` of each; that of `update_access_controls` |
| `copy`, `todo`, `rewrites` | users read by a login, logout or reset, which writes the file back |
| `pc`, `user`, `meta`, `pending`, `map` | requests in `get_user_permissions` |
| `seen`, `excused`, `late` | history variables |

`Change` is a managed create, update or delete with its two tasks, `RefusedDelete` a delete that the database refuses and
that is announced all the same (`managed/utils.py:859-878`), `Reload`
`/managed/reload-security-data` or the start of a worker. `Load`, `Save` are the index hook, which deletes the document after a deletion whether or not
the file is gone; `Scan`,
`Search`, `Del` are `load_permissions_and_roles` and `delete_user_permissions_map_in_redis`, whose search
asks for no number and so returns one page. `Take`, `WriteBack`, `SaveBack` are what writes a user's file and starts no task: logins (with
`sync_redis=False`, so that the document stays as it is; `user/router.py:985-992`, `1049`), logouts and resets (which save the document too);
`Register` is the first login through a provider. `Ask` to `SaveMap` put a user's map together: the user's document, or file,
the roles it names, those of its groups, the permissions of each role, `world` from its
file. A role that comes from a group makes the request fail, as `json.loads` is given a dict (`access_control.py:502`, `611-620`). An
empty map is saved like any other: it is no answer to the next request, which starts over, and takes a place of the page.

*CacheFresh*: with the tasks of all changes over, what is cached is what the documents amount to, and nothing is cached of a user with a role from a group, unless a
request that had read an older document saved its map after the change had looked for maps to throw away, or
more maps were stored than a page has, or the task failed; a user whose document or file was written outside of any change
and differed from it is not spoken of. *DocCurrent*: a changed document ends as its
file, unless somebody who read the file before wrote it later, a deletion was announced of a file that is there, or a login, logout or reset wrote
the file itself.

Bounds. Two changes and two requests are what the race takes. Pages of one stand for pages of ten: what counts is that there are
more cached users than a page. The contents change who the user is, beside one whose map is empty; or a group that comes to give a role, the permission of all, and a user there
is none of at first. Deletes are refused for one user only (`Refusable`): the tasks do not look at what kind of entry it was.

## AccessRules: what permissions come to

One user with a list of permissions. `Put` and `NextPermission` are the loops of
`generate_user_permissions`, in any order of a permission's keys; with files, `|=` changes the sets of the
validated object in place, so that they leak into the keys that come after (`live`). `CheckAccess` is the walk from the root of the
space to the entry with `has_global_access`, `check_access_conditions` and `check_access_restriction`;
`Hit` compares the policies of a query (`get_user_query_policies`) with those of a document
(`generate_query_policies`), as Redis does. The variables are the map and where the loops stand (`chosen`,
`at`, `left`, `live`, `granted`) and `backend`; the rest is operators that the properties compare over all entries, actions and
attributes of the instance, once the map is `Ready`.

*MapExact*: a key has the actions and conditions of the permissions that list it; with files it may have more, and
the property says when. *GrantsFounded*: a grant rests on a permission that covers the entry and lists
the action, with every condition met. *QueriesFounded*: a query shows only what a permission covers whose conditions the entry meets.
*QueriesComplete*: what a user may view, a query of the entry's subpath finds. The last two name all the
cases in which check_access and queries differ. A query shows more than check_access grants if the wildcard stands among other
parts and either is not just before the last (check_access knows it in no other place) or the query names several parts; and
if the entry's group has the name of the user, or its owner that of the user's group, as policies do not tell the two kinds of names
apart. It shows less for keys of the root or with a wildcard among other parts, and for what is one's own by the group and active.

Bounds. The seven permissions have keys that share subpaths, wildcards alone, first and in the middle, the root,
all spaces, the current user, a second type, conditions of each kind, restricted fields and allowed values; entries
are at every depth these tell apart, active or not, the user's, the group's, nobody's, or of a group with the user's name. Lists of three are every
overlap of two with one more.

## SqlStore: rows of the SQL adapter

One key of one table, whichever of six it is: sessions, active sessions, failed attempts, invitations, locks, entries. No
table has a unique constraint but on its uuid, as the mixin `Unique` comes after `Meta`; so methods
look before they write.

| variable | code |
|---|---|
| `table`, `rows`, `old` | the table; the rows with the key; those past their expiry |
| `pc`, `call`, `who`, `on`, `nr` | a task: the statement it comes to, its method, user and worker, the uuid of what it inserts |
| `got`, `copy`, `away` | the rows of its last select; what an update writes; uuids that moved to another key |
| `handed`, `mixed`, `over`, `twice`, `removed`, `orphans`, `wronged` | history variables |

An action is one statement. A method runs to its end in its worker, since nothing in it waits (`Turn`);
statements of different workers interleave. `Select` starts the methods that look, `DeleteFirst` and
`InsertFirst` those that do not; `NextStatement` says what comes after the select. A create is the exception: its handler looks
(`managed/utils.py:236`), waits for the uniqueness check (`:255`, which reads the folder's file) and inserts (`:275`) without looking
again; at the point `checked` its worker has other tasks to run.

*OneRow*: two rows for a key only after statements of two workers interleaved, an upload went over an
entry, or a create over one that had come since it looked (`over`), for which one worker is enough. *NoWrong*: nobody's lock or session is removed by mistake, no invitation is handed out twice, but
for that. *RefusedLeavesNothing*: the same for rows left by refused calls; the second of two creates is one, its row is there and `update_payload` raises. *NothingRevived*: an
update cannot bring a removed entry back. *DoubledStays*: what it takes to get rid of a doubled row.

Bounds. Three tasks in two workers are two in one worker and one beside it; five calls make two rows and have one
more find them.

## Realtime: the WebSocket server

| variable | code |
|---|---|
| `active` | `active_connections`: the connection of a user |
| `subs` | `channels`: the subscribers of a channel, in order |
| `owner`, `place`, `alive` | a connection: its user, where its task stands, whether its client is there |
| `post`, `rest`, `chan`, `next` | a broadcast: where it stands, the channels it has yet to go to, its place in the list it walks |
| `asks` | messages of clients so far |
| `got`, `steady`, `skipped`, `shadowed` | history variables |

`Connect`, `Register`, `Hello`, `Drop`, `Disconnect` are the endpoint and its end; `Subscribe`, `Unsubscribe`,
`BadMessage` the messages, each of which looks the user up by the connection and raises if that is not
registered; `Post`, `SendNext`, `SendFirst`, `Finish` the broadcast to the channels of an event (`Named`), which
awaits a send inside the iteration of a list that subscribers join and leave (`Without` is `list.remove`).

*Delivered*: a finished broadcast has gone once to everybody who was connected and subscribed
throughout, except whom it missed because somebody before him left the list. *Reachable*: a
connection that is being read is the registered one, unless its user had two.

Bounds. Two users are a list of two; three connections let one of them replace or outlive the other; four messages are two
subscriptions, one that moves and one more. One broadcast: broadcasts share nothing but the lists.

## QueryPages: paging

A client goes from page to page until the total is reached. Each type of query pages in a way of its own:
`WalkFolders` and `Locators` (a walk with a counter), `RedisSearch`, `SearchSchemas`, `SearchSorted`,
`History`, `Events` and their searches (pipelines of `tail`, `head`, `sed` over a log), the SQL statements.
`Look` is what a walk does with one entry: count it, and take it if the page is not full and the offset is reached.
The operators are these pipelines over sequences of record numbers, some hidden from the user, some different (a payload
that does not fit, a line without the text, the second of two schemas). `Ask` is a query for the next page, `Write`
a line that is added to a log meanwhile.

*EverythingSeen*: in the end the client has seen all that was there and was his to see, except the
last record of walks and histories whose pages come out even (they take the record before the offset again); a search in
several schemas without sorting promises its first page only. *PageFits*: no page is longer than the limit,
but for the list of spaces, which has no pages, and the later pages of events with SQL, by one.

Bounds. Every set of hidden and of different records among up to five, with pages of one to three: a last page
that is full, short or empty for each, and three pages at least with pages of one.

## Campaign: scheduled notifications

| variable | code |
|---|---|
| `status`, `doc` | the status in the payload file of a request, and in its document |
| `phase` | `scheduled_at` lies ahead, within the last 15 minutes, or before |
| `asked` | what a request asks for: its receivers, whether it names platforms, whether `prepare_request` raises for it |
| `inbox` | how often each receiver has it stored |
| `pc`, `todo`, `note`, `left`, `held` | a run: where it stands, what it found, the request it is at, the receivers it has yet to store it for, the status it loaded |
| `epc`, `subject`, `read`, `dropping` | edits of the administrator with their hook; deletions |
| `searched`, `repeated`, `passed` | history variables |

`Search` to `Index` are `scheduled_notification_handler`: search, receivers one after the other (`Save`, `Send`), then the
status written to the file and the document. `Prepare` raises for media attachments, and without a title or a text, and ends the run. `Send` is
what comes of the first platform a request names: a `NotificationData` is made with the receiver's name
(`scheduled_notification_handler.py:72-73`) where the model wants a dict (`models/core.py:531`), and the ValidationError breaks off the
request. So `NotificationManager.send`, which would swallow the failures of a platform (`utils/notification.py:53-72`), is never
reached from here, and no push is modelled. `Fails` is any other exception that
the loop catches, `Crash` one that it does not. `EditLoad` to `EditHookPut` are an update by the administrator, which writes the
status back as it was loaded; `Remove`, `Unindex` a deletion; `Tick` is time.

*ToldOnce*: nobody has two notifications of a request, unless a run broke off at it (as every run does at one that names a platform), two had it at once, it was deleted
then, or an edit reopened it. *MarkedWhenTold*: what is finished was stored for everybody and was not to be sent, without an excuse. *NotForgotten*: when
its time is over everybody has what it asks for, unless the run that found it broke off.

Bounds. Two runs overlap; two requests have one follow another in a run, one of them for devices only; two receivers let a run break
off between them. The five assignments: both plain; both name platforms; one of them does; the second is refused by `prepare_request`; the first is
for nobody and the second to be sent. `Tick` lets the time of a request pass only after a run has looked for it: cron runs the handler more often than every 15
minutes.

## Proofs

All theorems hold for any sets of users, requests, paths and so on, and any bounds, under the named
`ASSUME`s of the module they are about. These say that names which stand for "none" are no others, that bounds are
numbers, and that what a constant enumerates has the form in which the code reads it: a workflow document; a batch (it is not
empty; an upload and a registration are one record; only rows of an import may lack a shortname); what the files of
users and roles may say (something; users are in a folder of their own); keys of permissions (their paths have parts); that the users of
the WebSocket server are finitely many. TLC evaluates these assumptions in the runs.

| module | about | theorems | inductive invariant |
|---|---|---|---|
| `ManagedRequest_proofs` | `ManagedRequest` | `BaseAlways`, `TypeCorrect`, `OwnerAlways`, `OwnerStaysAlways`, `CodesAlways`, `CodesUniqueAlways`, `AnswerAlways`, `AnswerTrueAlways` | `Base`, `OwnerInv`, `CodeInv`, `AnswerInv` |
| | `EntryLock` | `LockTypeCorrect`, `LockInvariant`, `GrantIsExclusive`, `TtlIsSet`, `ForeignLockOvertook`, `RevivalOverlaps`, `LockServiceImplemented` | `LockInv` |
| `EntryIndex_proofs` | `EntryIndex` | `TypeCorrect`, `IndexTruthfulAlways` | `IInv` |
| `Attachments_proofs` | `Attachments` | `TypeCorrect`, `TextTruthfulAlways` | `IInv` |
| `TicketWorkflow_proofs` | `TicketWorkflow` | `TypeCorrect`, `StaysOnWorkflow`, `OpenFollowsState`, `HistoryIsLegal`, `AnswersTrue`, `OnlyOvertakenReopen` | `Inv` |
| | `QueryPages` | `PagesTypeCorrect`, `PageFitsAlways`, `EverythingSeenAlways` | `Course` |
| `Session_proofs` | `Session` | `AttemptsFairAlways`, `EndedStaysEndedAlways`, `PushHomeAlways`, `LockoutHoldsAlways`, `PushEndsWithSessionAlways` | `FairInv`, `OverInv`, `PushInv`, `LockInv`, `EndInv` |
| `Access_proofs` | `Access` | `TypeCorrect`, `DocCurrentAlways`, `CacheFreshAlways` | `TypeInv`, `Coming`, `CacheInv` |
| | `AccessRules` | `RulesTypeCorrect`, `MapExactAlways`, `GrantsFoundedAlways`, `QueriesFoundedAlways`, `QueriesCompleteAlways` | `RulesInv` |
| `SqlStore_proofs` | `SqlStore` | `TypeCorrect`, `OneRowAlways`, `RefusedAlways`, `NoWrongAlways`, `NothingRevivedEver`, `DoubledStaysAlways` | `IInv`, `QInv`, `WInv` |
| `Notifications_proofs` | `Campaign` | `TypeCorrect`, `MarkedWhenToldAlways`, `NotForgottenAlways`, `ToldOnceAlways` | `MarkInv`, `FollowInv`, `OnceInv` |
| | `Realtime` | `ReachableAlways`, `DeliveredAlways`, `ServerTypeCorrect` | `SocketInv`, `PostInv`, `ServerInv` |

A module with proofs about two components extends both, which is why their names are disjoint; no proof about
one uses anything of the other. Where an argument needs induction over numbers (the positions of a list, the parts of a path) it is
made without the library's schemes, by the least counterexample (`Smallest`, from the well-foundedness of the naturals).

None of the properties is inductive as it stands; what follows is what had to be added, and why.

**EntryLock.** SET would leave a document without TTL behind a request that is no lock
request, and a lock taken after a look is newer than it only if no look is ahead of the
newest document. `LockInv` adds that the point of a request fits its operation (`OpFits`), that a request has been told nothing
before its look (`ReplyFits`), that a request about to write while there is no file found it before its removal (`FoundFits`), and that `checked`
and `found` never exceed `made` and `removed`. `LockInvStep` proves that each
step preserves it, one case per handler; the theorems project it. `ServiceCases` lists what a step can do to
`lock.owner`, `sender` and `reply`, from which `ServiceStep` shows that it is
a step or a stutter of `LockService`. `RevivingStep` shows which actions can create the meta file, and `FoundFits` does the rest.

**ManagedRequest.** `Base` is what the three properties share: `TypeOK`, `Fits` (a request is only where its kind
leads, and holds a copy only between load and write) and `Sent` (tasks belong to requests that were sent). *OwnerStays* needs `Owned`: a copy that
is not `late` has the owner the entry is owed to, so that writing it back keeps him. *CodesUnique* is about the documents: `DocsTell` says
that the document of each path whose code is vouched for (`Sure`) tells it, or the hook that will say so is pending, and that nothing else
is pending for the path; `Looked`, that a request which has searched and missed nothing since has the folder's sure codes before it;
`Merged`, that a payload merged into a copy is still the one in the file. The proof did not go through at first, and each gap was a
behaviour of the code that the history had not recorded: an update that merges into an outdated payload restores a code which was
given up and taken by somebody else meanwhile, and the announcement of a refused delete or move that comes after a search
takes away the document the search relied on. *AnswerTrue* rests on `Told`: at each point of the loop `Account` relates the records
that had their turn to the two lists and to `done`, with `Turns` for the tickets, where the record worked on is not the one whose turn it is.

**Access.** `Coming`: as long as a document is not what its file says, a task that has not saved yet is going to read it, or it is
`late`; this is *DocCurrent*. `Held` says that what tasks and requests hold are texts of the entry they will write. Users that are `late` are left out throughout: nobody
is told of what a login writes. For *CacheFresh*, `Swept`: a change whose document is not written yet will still search for maps and
delete each that is cached now and not excused. `Reading`: a request which has seen all changes has in hand, wherever it is on its way from
the user's document over roles and groups to permissions (`Tells`), a part of what the documents amount to, and has the rest
before it. `FreshOrDoomed` follows: a map that is saved is right, or a task is about to delete it.

**AccessRules.** `AtLeast` says that a key has what the permissions met so far give it, and the object at hand its own; `AtMost`, that there is
no more in the map with SQL, and with files none from permissions that share no key, which is to say that the leak of `|=` passes along shared
keys only. `GrantsFounded` and `MapExact` follow from the complete map. For queries, policies are compared as paths
with the wildcard replaced and flattened: `FlattenOnes` shows that flattening parts of one name each changes nothing, `PlainPolicy` that a key without
wildcard stands for itself, `WildcardPolicy` when the wildcard means in a query what it means in check_access. The statement of
*QueriesFounded* was too strong before it was proved: the cases of a wildcard in another place, of several wildcards and of a
group with a user's name were missing from it and from the instance, which has them now.

**EntryIndex, Attachments.** What a task is going to write was read earlier, so that an invariant must say
what each request, task and rebuild knows. `Fitting`: a request is only where its kind leads.
`Company`: two at work at one place have both met, and what they touch is disturbed; during a rebuild
all at work have met. So nothing has to be said of a request in company, and what `Lonely` says of the
others is exact: at each point, what it has read is what the files say, or the file it has not
written yet, and the documents lag by exactly the steps it still has to do. `Whole` (no
payload file without its meta file) and `Rebuilding` (what the rebuild has read, undisturbed) complete it. A step of one
request leaves another's knowledge alone, since the other is elsewhere or has met it (`OthersStay`, `LeftAlone`);
its own it carries on (`OwnStep`); when it is the last one it leaves the truth behind (`TruthStays`).

**TicketWorkflow.** The next write takes
over what a request loaded or computed earlier. `Inv` therefore says each thing of `ticket`, of
every `was` and of every `obj`: `Reached` (in every set of states that is closed under the workflow
and holds `placed`), `AllFit` (`is_open` fits `state` if a transition set both), `AuthorsWrote`
(`by` names a request that has written), with `Entitled` (a computed transition is one its author
may take and started from an open ticket), `HistoryOfDone`, `CommentsPlaced`, `DoneRecorded` and
`AtWork`. `LeadsAllowed` and `TransitEffect` are all that is needed of the workflow.
Reachability in the workflow is stated through closed sets, not by recursion.

**QueryPages.** All lists are in order (`Ups`), so that a list is known by the set of its elements: `RankLe`, `SameList`, `SamePrefix`
and `Joined` say where an element stands in a list when more, the same or other elements are in it. `ButSteps` and `WalkSteps` lay the two
recursive functions open, and `Counting` leads along them; the facts about `tail`, `head` and `sed` follow from
SubSeq. For each type of query one lemma (`SubpathRight` and so on) shows that its answer is `Right`: the page is within the limit, it has each place of the
order that belongs to it (`InPage`), and the total does not end the client's round before the last one. The invariant is `Course`: what was
there at the beginning and stands in a place whose page was had (`Past`) has been seen (`Sofar`), `done` is said no sooner than past the
last place (`AtEnd`), and the offset is a multiple of the limit (`Rounds`), which is why the last record of a walk is missed
only when the pages come out even. A log that grows keeps the places of its lines, counted from the first (`Grown`), while the pages count
from the last: a line written meanwhile makes pages overlap and never lets one be passed over.

**Session.** `StepShape` says once what all steps have in common: one slot moves, and either is
answered or goes on. Each property has an invariant of its own, about what a slot still holds:
`CountKnown` (a count that was read is not above the failures, or is outdated), `Over` (after a session has ended no
request of its user is between check and renewal but those that stood there then), `Places` (push tokens in files, documents, copies and the shared dict,
each owned or provided), and for the lock-out `Company`, `Logins`, `AloneKnows` and `Counted`: a request alone
knows its user's state, and the count of an active user has kept up with the streak. For
*PushEndsWithSession*, `EndInv` adds to it `Roads` (where each kind of request can stand), `Kept` (only a file that is there has
a push token) and `Ends`: requests of a user whose requests have not overlapped are alone, and hold what `Knows` says of
session and push token. `EndOn` and `EndDone` say what a step makes of that for a request that goes on or is answered.

**SqlStore.** `Small` bounds what a select can have returned; `Quiet` says that as long as no two workers
interleaved, at most one task is inside a method, and what it selected is what the table has; `OneOnly`
that then there is one row, if nothing went over another; `Numbers` that what is about to be inserted bears a uuid of its own (`Unused`). `WInv` adds what each call knows of the rows it is going to delete.
`AfterSelect` lists what can follow each select.

**Realtime.** `Shadowing`: two live connections of one user are both in `shadowed`. `Home`: a connection that has been
alone from its registration on is registered. *Delivered* is about a walk over a list that others change. `OnePlace` says
that a user stands in at most one list, and there once; `WalkInv` says of each steady connection and broadcast that either its user's
place in some list is still ahead of the walk and nothing was sent to it (`Expected`, `Waits`), or the walk is past it and it was served
or its user skipped (`Served`). `list.remove` (`RemoveFirst`) shifts who comes after by one place: `RemoveFacts` and `Shifts` say which, and
so who is skipped. That a list has no more subscribers than there are users, needed for the types of places, is a matter of cardinality.

**Campaign.** `ToldSoFar`: a run past a receiver has stored it for him, and a run past the receivers is at a request that is not to be sent
to anybody; `ReadWhenTold`: an edit that has read that a request is finished holds the truth. For *ToldOnce*, `Apart` (no two runs have a request that is not
`repeated`), `Waiting` and `Telling` (what a run has yet to tell has not been told) and `Owned`; for *NotForgotten*, `Followed`:
a request whose time was looked at is in hand, told or passed.

Left to TLC is liveness (`ChangesGetIndexed`, `TextCatchesUp`), as the prover handles neither fairness nor ENABLED.

No module declares a RECURSIVE operator. `But` and `Walk` (`QueryPages`) are recursive functions, since the prover
cannot look into a fold or into SelectSeq.

## What disagrees with the repository

Each of these is a behaviour of a model, found as a counterexample to the plain form of a property and
then named in it as its excuse, so that the run shows that nothing else goes wrong.

- *Anyone extends a lock*: `save_lock_doc` extends whatever document is there; the comment at
  `api/managed/router.py:1042` speaks of the owner who wants to extend it. (`EntryLock`)
- *An update releases another's lock*: it deletes the lock some commands after the check that
  "he is the right user" (`file_adapter.py:459`). (`ForeignLockIsNewer`)
- *Locking does not keep edits*: the lock is released before the write and the entry loaded before the
  check, against `frontend/src/routes/docs/Others.md:15`. (`EntryLock`)
- *Refused deletes and moves are announced*: an existing entry disappears from the index,
  against `readme.md:71`. (`IndexTruthful`, `CodesUnique`)
- *The history may end with a state the ticket does not have*, since lines are appended after
  the writes; compare `frontend/src/routes/docs/Others.md:47`. (`HistoryLegal` is what remains)
- *An invitation is used again*: the link "can be used once" (`api/user/router.py:725`), but its key is
  read with `get` and stays. (`Session`)
- *An ended session comes back* when a request renews it during a logout. (`EndedStaysEnded`)
- *One session per user* keeps no older token out: bcrypt compares what all tokens of a user begin with. (`Session`)
- *A push token travels* through the default argument of `process_user_login`. (`PushHome`)
- *Cached permissions survive* a change: the invalidation sees one page of ten, or comes too early. (`CacheFresh`)
- *Roles of groups* give nobody anything: a user with one is answered with an error, as `json.loads` is given a dict
  (`access_control.py:502`). (`CacheFresh`)
- *A refused delete* of a user, role or permission takes its document away, and a login rewrites the user's file
  behind the index. (`DocCurrent`)
- *Permissions leak between keys* in file mode, by `|=` on the sets of the permission object. (`MapExact`)
- *Unique codes are not unique* when the index lags; a moved document still tells its old path. (`CodesUnique`)
- *A batch of tickets* creates the first one only, and names it as failed (`records[0]`). (`AnswerTrue`)
- *Two creates of one SQL entry* leave two rows, in one worker too: the second is answered with an error. (`OneRow`, `RefusedLeavesNothing`)
- *An upload over an existing SQL entry* commits a second row and answers with an error. (`OneRow`, `RefusedLeavesNothing`)
- *SQL locks have no TTL*, and a doubled row of a lock, a login or an entry makes every call that selects it
  raise: only calls that do not look (logout, clearing, a login's active session) remove it. (`DoubledStays`)
- *Paging*: walks and histories take the record before the offset again; an unsorted search in several
  schemas applies the offset twice; events with SQL have one line more. (`EverythingSeen`, `PageFits`)
- *A second connection* of a user is deaf once the first one ends. (`Reachable`)
- *A broadcast misses a subscriber* when somebody before him leaves the list. (`Delivered`)
- *Nothing is ever sent to a platform* by the scheduled handler, which gives the receiver's name for a dict (as does
  `plugins/admin_notification_sender/plugin.py:98`); the request stays open and is stored again by each run. (`MarkedWhenTold`, `ToldOnce`)
- *Media attachments end the scheduled run*, as does a deleted request. (`NotForgotten`)
- *An applied alteration* is removed without an announcement; attachments of entries at the root of a space
  are never in the text; an attachment without its entry makes a document of its own. (`TextTruthful`)

## What the models take for granted

- A file is read or written in one step: the event loop of a worker does not yield inside a
  synchronous read or write, and two workers do not tear a file.
- Redis commands and SQL statements are atomic, a select sees what was committed before it.
- Tasks of one worker and requests of all of them interleave at will; no timing is assumed, TTLs may run out at any moment.
- Queries of the SQL backend come in one order; the total of an empty page is 0 there.
- Subscriptions survive a disconnect, as in the code. Cron runs the scheduled handler more often than every 15 minutes.
- An administrator reschedules no request that has been sent, nor sets its status.

## Not modelled

- **Search index**: deletes and moves of folders, which rebuild a subtree; the mapping of fields into documents.
- **Managed API**: downloads, data asset queries, URL shortener, spaces.
- **Plugin manager**: loading and filters, `before_action`; a plugin that matches gets its task.
- **Sessions**: OTPs, the content of a profile; **notifications** sent at once by the two plugins.
- **SQL adapter**: history rows, aggregation, URL shortener. **Queries**: counters, tags, random,
  aggregation, dates in event queries, assembly of records.
- **Redis outages**: `get_doc_by_id` reads them as `{}` and every later command fails as well.
- **No protocol to check**: public, QR and info API, action log, folder creation, LDAP, health check,
  exporter, archive and migrations (batch jobs that run alone), the application shell, CLI, frontend, load
  tests and deployment.
