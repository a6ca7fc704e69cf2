------------------------------ MODULE EntryLock ------------------------------
(***************************************************************************)
(* The edit lock of one entry in the file backend: a JSON document in      *)
(* Redis, taken and extended by PUT /managed/lock, given up by             *)
(* DELETE /managed/lock, consulted and consumed by the updates and deletes *)
(* that ask for it (retrieve_lock_status), dropped by Redis when its TTL   *)
(* runs out.                                                               *)
(*                                                                         *)
(* The server runs one worker process per CPU, so requests interleave at   *)
(* every Redis command and every file access: looking for the meta file,   *)
(* reading it, truncating it, removing it, and emptying and removing its   *)
(* directory are five.  One action is what a handler does between two such *)
(* points; place names the point it stands at.  The names differ from      *)
(* those of ManagedRequest, so that one module can extend both.            *)
(***************************************************************************)
EXTENDS Naturals, FiniteSets

CONSTANTS
  Users,       \* shortnames of the users who send requests
  NoUser,      \* "no lock document", "no collaborator"
  Calls,       \* HTTP requests, each sent at most once (bounds the model)
  MaxDeaths    \* bound on the requests that die half way with their worker

ASSUME UsersAssumption == NoUser \notin Users
ASSUME DeathAssumption == MaxDeaths \in Nat

VARIABLES
  lock,     \* the lock document and whether Redis holds a TTL for it
  file,     \* the meta file exists
  dir,      \* its directory: absent, empty but for the meta file, or with a history
  meta,     \* what the meta file says
  place,    \* where each request stands
  op,       \* what each request does
  sender,   \* who sent it
  guarded,  \* its retrieve_lock_status
  seen,     \* the entry as the request loaded it
  deaths,   \* requests that died so far
  granted,  \* history: users told "lock" by the lock document that exists now
  made,     \* history: lock documents created so far
  checked,  \* history: made, when the request last compared the lock's owner
  reply,    \* history: what its look at the lock told it
  removed,  \* history: how often the meta file was removed so far
  found     \* history: removed, when the request last found the meta file to change it

requestVars == <<op, sender, guarded>>
pastVars == <<granted, made, checked, reply, removed, found>>
entryVars == <<file, dir, meta>>
lockVars == <<lock, entryVars, place, requestVars, seen, deaths, pastVars>>

Unlocked == [owner |-> NoUser, ttl |-> FALSE]
Held == lock.owner # NoUser

\* What a meta file says, as far as the lock is concerned: the edits its
\* content is built from and collaborators["processed_by"] of a ticket.
Meta == [edits : SUBSET Calls, processed_by : Users \cup {NoUser}]
Blank == [edits |-> {}, processed_by |-> NoUser]

Ops == {"none", "lock", "lock_ticket", "cancel", "update", "delete"}
Finished == {"ok", "locked", "missing", "error", "crashed"}
Stops == {"idle", "claim_load", "claim_save", "claim_write", "claim_record",
           "lock_get", "lock_set", "lock_confirm", "lock_ttl", "lock_record",
           "cancel_get", "cancel_del", "cancel_record",
           "load", "save", "save_check", "save_get", "save_del", "save_unlock",
           "save_write", "save_record",
           "erase", "erase_check", "erase_del", "erase_file", "erase_dir", "erase_rmdir"}
         \cup Finished
Dirs == {"absent", "empty", "history"}
Replies == {"none", "locked", "extended", "cancelled", "pass", "foreign", "gone"}

LockTypeOK ==
  /\ lock \in [owner : Users \cup {NoUser}, ttl : BOOLEAN]
  /\ file \in BOOLEAN
  /\ dir \in Dirs
  /\ meta \in Meta
  /\ place \in [Calls -> Stops]
  /\ op \in [Calls -> Ops]
  /\ sender \in [Calls -> Users \cup {NoUser}]
  /\ guarded \in [Calls -> BOOLEAN]
  /\ seen \in [Calls -> Meta]
  /\ deaths \in 0..MaxDeaths
  /\ granted \subseteq Users
  /\ made \in Nat
  /\ checked \in [Calls -> Nat]
  /\ reply \in [Calls -> Replies]
  /\ removed \in Nat
  /\ found \in [Calls -> Nat]
  \* a running request has a sender, and a document without owner has no TTL
  /\ \A r \in Calls : place[r] # "idle" => sender[r] \in Users
  /\ ~Held => ~lock.ttl
  /\ file => dir # "absent"

LockInit ==
  /\ lock = Unlocked
  /\ file = TRUE
  /\ dir = "empty"
  /\ meta = Blank
  /\ place = [r \in Calls |-> "idle"]
  /\ op = [r \in Calls |-> "none"]
  /\ sender = [r \in Calls |-> NoUser]
  /\ guarded = [r \in Calls |-> FALSE]
  /\ seen = [r \in Calls |-> Blank]
  /\ deaths = 0
  /\ granted = {}
  /\ made = 0
  /\ checked = [r \in Calls |-> 0]
  /\ reply = [r \in Calls |-> "none"]
  /\ removed = 0
  /\ found = [r \in Calls |-> 0]

(***************************************************************************)
(* Steps shared by the handlers                                            *)
(***************************************************************************)
At(r, p) == place[r] = p
Proceed(r, p) == place' = [place EXCEPT ![r] = p]

Mine(r) == lock.owner = sender[r]
Free(r) == lock.owner \in {NoUser, sender[r]}

\* delete_doc, and Redis itself when the TTL runs out
DropLock ==
  /\ lock' = Unlocked
  /\ granted' = {}

Replied(r, a) == reply' = [reply EXCEPT ![r] = a]

\* store_entry_diff re-creates the entry's directory for history.jsonl.  (A
\* directory removed again before the line is appended fails the request; that
\* is the worker dying here, as far as lock and entry are concerned.)
StoreEntryDiff(r, from, to) ==
  /\ At(r, from)
  /\ Proceed(r, to)
  /\ dir' = "history"
  /\ UNCHANGED <<lock, file, meta, seen, deaths, requestVars, pastVars>>

\* Writing the meta file: what was loaded, plus this request's own edit
WriteMeta(m) == file' = TRUE /\ meta' = m /\ UNCHANGED dir

Edited(r) ==
  [seen[r] EXCEPT !.edits = @ \cup {r},
                  !.processed_by = IF op[r] = "lock_ticket" THEN sender[r] ELSE @]

\* The existence check of update and delete, an access of its own: what follows
\* it relies on the meta file that was found.
FindFile(r, to) ==
  \/ /\ ~file
     /\ Proceed(r, "missing")
     /\ UNCHANGED found
  \/ /\ file
     /\ Proceed(r, to)
     /\ found' = [found EXCEPT ![r] = removed]

\* open(.., "w") needs the directory, not the file
OpenAndWrite(r, to) ==
  /\ IF dir = "absent"
       THEN Proceed(r, "error") /\ UNCHANGED entryVars
       ELSE WriteMeta(Edited(r)) /\ Proceed(r, to)
  /\ UNCHANGED <<lock, seen, deaths, requestVars, pastVars>>

\* The meta file goes, alone or with all that is in its directory.
RemoveFile ==
  /\ file' = FALSE
  /\ meta' = Blank
  /\ removed' = IF file THEN removed + 1 ELSE removed

Start(r) ==
  /\ At(r, "idle")
  /\ \E u \in Users : sender' = [sender EXCEPT ![r] = u]
  /\ \/ /\ \E o \in {"lock", "lock_ticket", "cancel"} :
              /\ op' = [op EXCEPT ![r] = o]
              /\ Proceed(r, CASE o = "lock" -> "lock_get"
                              [] o = "lock_ticket" -> "load"
                              [] o = "cancel" -> "cancel_get")
        /\ UNCHANGED guarded
     \/ /\ \E o \in {"update", "delete"} : op' = [op EXCEPT ![r] = o]
        /\ \E g \in BOOLEAN : guarded' = [guarded EXCEPT ![r] = g]
        /\ Proceed(r, "load")
  /\ UNCHANGED <<lock, entryVars, seen, deaths, pastVars>>

NotThere(r) ==
  /\ Proceed(r, "missing")
  /\ dir' = IF dir = "empty" THEN "absent" ELSE dir
  /\ UNCHANGED seen

\* db.load: a ticket about to be locked, an entry about to be changed.  An
\* empty directory without its meta file is cleared away.
Load(r) ==
  /\ At(r, "load")
  /\ IF file
       THEN /\ seen' = [seen EXCEPT ![r] = meta]
            /\ Proceed(r, CASE op[r] = "update" -> "save"
                            [] op[r] = "delete" -> "erase"
                            [] OTHER -> IF meta.processed_by = sender[r]
                                          THEN "lock_get" ELSE "claim_load")
            /\ UNCHANGED dir
       ELSE NotThere(r)
  /\ UNCHANGED <<lock, file, meta, deaths, requestVars, pastVars>>

(***************************************************************************)
(* PUT /managed/lock.  A ticket is first claimed: unless it is already     *)
(* processed by the caller, an ordinary update, which does not ask for the *)
(* lock status, sets processed_by.  Only then is the lock requested.       *)
(***************************************************************************)
ClaimLoad(r) ==
  /\ At(r, "claim_load")
  /\ IF file
       THEN seen' = [seen EXCEPT ![r] = meta] /\ Proceed(r, "claim_save") /\ UNCHANGED dir
       ELSE NotThere(r)
  /\ UNCHANGED <<lock, file, meta, deaths, requestVars, pastVars>>

ClaimSave(r) ==
  /\ At(r, "claim_save")
  /\ FindFile(r, "claim_write")
  /\ UNCHANGED <<lock, entryVars, seen, deaths, requestVars, granted, made, checked, reply,
                 removed>>

ClaimWrite(r) == At(r, "claim_write") /\ OpenAndWrite(r, "claim_record")

ClaimRecord(r) == StoreEntryDiff(r, "claim_record", "lock_get")

\* save_lock_doc, first read: any document there is extended, whoever owns it
LockGet(r) ==
  /\ At(r, "lock_get")
  /\ IF Held THEN Proceed(r, "lock_ttl") /\ Replied(r, "extended")
             ELSE Proceed(r, "lock_set") /\ UNCHANGED reply
  /\ UNCHANGED <<lock, entryVars, seen, deaths, requestVars, granted, made, checked,
                 removed, found>>

\* Fault: SET without NX
LockSetAlways(r) ==
  /\ At(r, "lock_set")
  /\ Proceed(r, "lock_confirm")
  /\ lock' = [owner |-> sender[r], ttl |-> FALSE]
  /\ made' = made + 1
  /\ UNCHANGED <<entryVars, seen, deaths, requestVars, granted, checked, reply, removed, found>>

\* JSON.SET NX
LockSet(r) ==
  /\ At(r, "lock_set")
  /\ Proceed(r, "lock_confirm")
  /\ IF Held THEN UNCHANGED <<lock, made>>
             ELSE /\ lock' = [owner |-> sender[r], ttl |-> FALSE]
                  /\ made' = made + 1
  /\ UNCHANGED <<entryVars, seen, deaths, requestVars, granted, checked, reply, removed, found>>

\* Fault: a document found by the second read counts as the caller's own
LockConfirmAnyOwner(r) ==
  /\ At(r, "lock_confirm")
  /\ \/ /\ Held
        /\ Proceed(r, "lock_ttl") /\ Replied(r, "locked")
        /\ granted' = granted \cup {sender[r]}
     \/ ~Held /\ Proceed(r, "error") /\ Replied(r, "gone") /\ UNCHANGED granted
  /\ UNCHANGED <<lock, entryVars, seen, deaths, requestVars, made, checked, removed, found>>

\* The second read decides who won.  A document that is gone again is a
\* KeyError, answered with status 500.
LockConfirm(r) ==
  /\ At(r, "lock_confirm")
  /\ \/ /\ Mine(r)
        /\ Proceed(r, "lock_ttl") /\ Replied(r, "locked")
        /\ granted' = granted \cup {sender[r]}
     \/ ~Free(r) /\ Proceed(r, "locked") /\ Replied(r, "foreign") /\ UNCHANGED granted
     \/ ~Held /\ Proceed(r, "error") /\ Replied(r, "gone") /\ UNCHANGED granted
  /\ UNCHANGED <<lock, entryVars, seen, deaths, requestVars, made, checked, removed, found>>

\* Fault: the TTL is left to whoever extends the lock
LockTtlForgotten(r) ==
  /\ At(r, "lock_ttl")
  /\ Proceed(r, "lock_record")
  /\ UNCHANGED <<lock, entryVars, seen, deaths, requestVars, pastVars>>

\* EXPIRE, without effect on a document that is gone
LockTtl(r) ==
  /\ At(r, "lock_ttl")
  /\ Proceed(r, "lock_record")
  /\ lock' = [lock EXCEPT !.ttl = Held]
  /\ UNCHANGED <<entryVars, seen, deaths, requestVars, pastVars>>

LockRecord(r) == StoreEntryDiff(r, "lock_record", "ok")

(***************************************************************************)
(* DELETE /managed/lock                                                    *)
(***************************************************************************)
\* Fault: any document may be cancelled
CancelGetAnyOwner(r) ==
  /\ At(r, "cancel_get")
  /\ IF Held THEN Proceed(r, "cancel_del") /\ Replied(r, "cancelled")
             ELSE Proceed(r, "locked") /\ Replied(r, "gone")
  /\ checked' = [checked EXCEPT ![r] = made]
  /\ UNCHANGED <<lock, entryVars, seen, deaths, requestVars, granted, made, removed, found>>

CancelGet(r) ==
  /\ At(r, "cancel_get")
  /\ \/ Mine(r)  /\ Proceed(r, "cancel_del") /\ Replied(r, "cancelled")
     \/ ~Free(r) /\ Proceed(r, "locked")     /\ Replied(r, "foreign")
     \/ ~Held    /\ Proceed(r, "locked")     /\ Replied(r, "gone")
  /\ checked' = [checked EXCEPT ![r] = made]
  /\ UNCHANGED <<lock, entryVars, seen, deaths, requestVars, granted, made, removed, found>>

CancelDel(r) ==
  /\ At(r, "cancel_del")
  /\ Proceed(r, "cancel_record")
  /\ DropLock
  /\ UNCHANGED <<entryVars, seen, deaths, requestVars, made, checked, reply, removed, found>>

CancelRecord(r) == StoreEntryDiff(r, "cancel_record", "ok")

(***************************************************************************)
(* update of the file adapter                                              *)
(***************************************************************************)
\* Fault: the existence check looks at the directory
SaveIfDir(r) ==
  /\ At(r, "save")
  /\ IF dir = "absent"
       THEN Proceed(r, "missing") /\ UNCHANGED found
       ELSE /\ Proceed(r, IF guarded[r] THEN "save_check" ELSE "save_write")
            /\ found' = [found EXCEPT ![r] = removed]
  /\ UNCHANGED <<lock, entryVars, seen, deaths, requestVars, granted, made, checked, reply,
                 removed>>

\* The meta file must be there; an update that does not ask for the lock
\* status writes next.
Save(r) ==
  /\ At(r, "save")
  /\ FindFile(r, IF guarded[r] THEN "save_check" ELSE "save_write")
  /\ UNCHANGED <<lock, entryVars, seen, deaths, requestVars, granted, made, checked, reply,
                 removed>>

\* is_entry_locked, of update and of delete
CheckLock(r, to) ==
  /\ \/ Free(r)  /\ Proceed(r, to)       /\ Replied(r, "pass")
     \/ ~Free(r) /\ Proceed(r, "locked") /\ Replied(r, "foreign")
  /\ checked' = [checked EXCEPT ![r] = made]
  /\ UNCHANGED <<lock, entryVars, seen, deaths, requestVars, granted, made, removed, found>>

SaveCheck(r) == At(r, "save_check") /\ CheckLock(r, "save_get")

\* get_lock_doc: any document found now is released
SaveGet(r) ==
  /\ At(r, "save_get")
  /\ Proceed(r, IF Held THEN "save_del" ELSE "save_write")
  /\ UNCHANGED <<lock, entryVars, seen, deaths, requestVars, pastVars>>

SaveDel(r) ==
  /\ At(r, "save_del")
  /\ Proceed(r, "save_unlock")
  /\ DropLock
  /\ UNCHANGED <<entryVars, seen, deaths, requestVars, made, checked, reply, removed, found>>

SaveUnlock(r) == StoreEntryDiff(r, "save_unlock", "save_write")

SaveWrite(r) == At(r, "save_write") /\ OpenAndWrite(r, "save_record")

SaveRecord(r) == StoreEntryDiff(r, "save_record", "ok")

(***************************************************************************)
(* delete of the file adapter                                              *)
(***************************************************************************)
Erase(r) ==
  /\ At(r, "erase")
  /\ FindFile(r, IF guarded[r] THEN "erase_check" ELSE "erase_file")
  /\ UNCHANGED <<lock, entryVars, seen, deaths, requestVars, granted, made, checked, reply,
                 removed>>

EraseCheck(r) == At(r, "erase_check") /\ CheckLock(r, "erase_del")

\* delete_lock_doc, whether or not a document was there
EraseDel(r) ==
  /\ At(r, "erase_del")
  /\ Proceed(r, "erase_file")
  /\ DropLock
  /\ UNCHANGED <<entryVars, seen, deaths, requestVars, made, checked, reply, removed, found>>

\* os.remove of the meta file, if it is still there
EraseFile(r) ==
  /\ At(r, "erase_file")
  /\ Proceed(r, "erase_dir")
  /\ RemoveFile
  /\ UNCHANGED <<lock, dir, seen, deaths, requestVars, granted, made, checked, reply, found>>

\* rmtree of the directory, if it is still there: first all that is in it ...
EraseDir(r) ==
  /\ At(r, "erase_dir")
  /\ IF dir = "absent"
       THEN Proceed(r, "ok") /\ UNCHANGED <<entryVars, removed>>
       ELSE Proceed(r, "erase_rmdir") /\ RemoveFile /\ dir' = "empty"
  /\ UNCHANGED <<lock, seen, deaths, requestVars, granted, made, checked, reply, found>>

\* ... then the directory itself, which fails when something has come into it
\* since, or when it is gone
EraseRmdir(r) ==
  /\ At(r, "erase_rmdir")
  /\ IF dir = "empty" /\ ~file
       THEN Proceed(r, "ok") /\ dir' = "absent"
       ELSE Proceed(r, "error") /\ UNCHANGED dir
  /\ UNCHANGED <<lock, file, meta, seen, deaths, requestVars, pastVars>>

(***************************************************************************)
(* Redis drops the document when its TTL runs out; a worker dies.          *)
(***************************************************************************)
Expire ==
  /\ lock.ttl
  /\ DropLock
  /\ UNCHANGED <<entryVars, place, seen, deaths, requestVars, made, checked, reply, removed,
                 found>>

Die(r) ==
  /\ place[r] \notin Finished \cup {"idle"}
  /\ deaths < MaxDeaths
  /\ deaths' = deaths + 1
  /\ Proceed(r, "crashed")
  /\ UNCHANGED <<lock, entryVars, seen, requestVars, pastVars>>

LockStep(r) == \/ ClaimLoad(r) \/ ClaimSave(r) \/ ClaimWrite(r) \/ ClaimRecord(r)
               \/ LockGet(r) \/ LockSet(r) \/ LockConfirm(r) \/ LockTtl(r) \/ LockRecord(r)
CancelStep(r) == CancelGet(r) \/ CancelDel(r) \/ CancelRecord(r)
UpdateStep(r) == \/ Save(r) \/ SaveCheck(r) \/ SaveGet(r) \/ SaveDel(r)
                 \/ SaveUnlock(r) \/ SaveWrite(r) \/ SaveRecord(r)
DeleteStep(r) == \/ Erase(r) \/ EraseCheck(r) \/ EraseDel(r)
                 \/ EraseFile(r) \/ EraseDir(r) \/ EraseRmdir(r)

\* What a worker does for a request once it has been sent
Step(r) == Load(r) \/ LockStep(r) \/ CancelStep(r) \/ UpdateStep(r) \/ DeleteStep(r)

LockNext == \/ \E r \in Calls : Start(r) \/ Step(r) \/ Die(r)
            \/ Expire

LockSpec == LockInit /\ [][LockNext]_lockVars

(***************************************************************************)
(* Properties                                                              *)
(***************************************************************************)
\* Between two deletions of the lock document, at most one user is told that
\* the lock was taken ("lock", not "extend"), and it is the document's owner:
\* JSON.SET NX and the second read of save_lock_doc let exactly one of the
\* requests through that found no document.
GrantExclusive == granted \subseteq {lock.owner}

\* A lock document without a TTL stays for ever.  Between SET and EXPIRE of
\* save_lock_doc there is one, and then a request of its owner is still about
\* to set the TTL, or died with its worker before it could.
NoTtlOnlyWhileTaken ==
  Held /\ ~lock.ttl =>
    \E r \in Calls :
      /\ sender[r] = lock.owner /\ op[r] \in {"lock", "lock_ticket"}
      /\ place[r] \in {"lock_confirm", "lock_ttl", "crashed"}

\* A request past its look at the lock: what it does next, it does on the
\* strength of that look.
PastCheck == {"cancel_del", "save_get", "save_del", "save_unlock", "save_write",
              "erase_del", "erase_file", "erase_dir", "erase_rmdir"}
Relies(r) == At(r, "cancel_del") \/ (guarded[r] /\ place[r] \in PastCheck)

\* cancel, update and delete look at the lock first and release it, write or
\* remove later.  The lock in force by then belongs to somebody else only if it
\* was taken after the look, never because the look let a foreign lock pass.
ForeignLockIsNewer ==
  \A r \in Calls : Relies(r) /\ ~Free(r) => checked[r] < made

\* A deleted entry comes back to life only through a request that was under way
\* across the removal: it had found the meta file before, and opens it for
\* writing in a directory that is not gone yet, that a dead or failed delete has
\* left, or that a history line has re-created.  Updates that ask for the lock
\* status, those that do not and the claim of a ticket are alike in this; no
\* request that looks for the entry after its removal revives it.
RevivedByOverlap ==
  [][~file /\ file' =>
       \E r \in Calls : place'[r] # place[r] /\ found[r] < removed]_lockVars

\* However their Redis commands interleave, every request is told what one atomic
\* lock would have told it at some moment between its arrival and its end; the
\* lock passes from user to user only by being free in between.  An extension
\* is answered like a new lock but promises its sender nothing, under an own or
\* a foreign lock.
Service == INSTANCE LockService WITH holder <- lock.owner, client <- sender
LockServiceSpec == Service!Spec
=============================================================================
