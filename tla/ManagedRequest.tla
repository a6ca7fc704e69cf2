---------------------------- MODULE ManagedRequest ----------------------------
(***************************************************************************)
(* POST /managed/request serves a batch of records, one after the other,   *)
(* while other requests serve theirs; so do the import of a CSV file, row  *)
(* by row, an upload, and POST /user/create, with which users register     *)
(* themselves.  A folder may ask for unique codes: they are looked for in  *)
(* the index, which a task brings up to date some time after the write.    *)
(*                                                                         *)
(* An entry is its owner and the code in its payload.  Its two files are   *)
(* written in one step and it has one document, that of its payload:       *)
(* EntryIndex is about what happens between them.  A task that has not     *)
(* begun stands for an announcement still under way too.                   *)
(***************************************************************************)
EXTENDS Naturals, FiniteSets, Sequences

CONSTANTS
  Paths,
  Unique,     \* the paths of the folder whose unique_fields names the code
  Codes,
  People,
  None,       \* no entry, no document, no code, nobody
  May,        \* the rights: <<person, action>>
  Batches,    \* the batches that are sent
  Requests,   \* each sent at most once
  MaxCrashes  \* bound on requests lost with their tasks when a worker dies

Types == {"create", "import", "upload", "register", "update", "r_replace", "assign", "update_acl",
          "delete", "move"}

\* What a record says; a None path is a CSV row without a shortname.
Records == [path : Paths \cup {None},
            dest : Paths \cup {None},      \* of a move
            payload : BOOLEAN,             \* has a payload
            code : Codes \cup {None},      \* the code in it
            named : BOOLEAN,               \* names the schema of the payload
            valid : BOOLEAN,               \* its payload fits the schema
            to : People \cup {None},       \* the new owner, None when there is no such user
            ticket : BOOLEAN,
            checks : BOOLEAN]              \* retrieve_lock_status

Entries == [code : Codes \cup {None}, owner : People]
Docs == [code : Codes \cup {None}, at : Paths]

ASSUME NameAssumption ==
  /\ None \notin Paths \cup Codes \cup People \cup Entries \cup Docs \cup Batches
  /\ None \notin {"success", "failed", "error"}
  /\ Unique \subseteq Paths
ASSUME RecordAssumption ==
  \A b \in Batches :
    /\ b.type \in Types /\ b.records \in Seq(Records) /\ b.records # <<>>
    /\ b.type \in {"upload", "register"} => Len(b.records) = 1
    /\ \A i \in 1..Len(b.records) :
         /\ b.records[i].path = None => b.type = "import"
         /\ b.type = "register" => b.records[i].named  \* users have an index of their own
         /\ b.records[i].code # None => b.records[i].payload
         /\ b.type = "move" => b.records[i].dest \in Paths \ {b.records[i].path}
ASSUME BoundAssumption == MaxCrashes \in Nat

VARIABLES
  files,      \* the entry of a path
  docs,       \* its document in the index
  locked,     \* paths that somebody who sends nothing here has locked
  who, batch, \* who sent a request, and what
  pc,         \* where it stands
  at, on,     \* the record whose turn it is, and the one that is worked on
  copy,       \* the entry as the request has loaded it
  listed,     \* the records it will name as successful
  failed,     \* and as failed
  answer,     \* what was answered
  tasks,      \* hooks that bring the index up to date
  crashes,
  done,       \* history: the records that had their effect
  owed,       \* history: who came to own a path last
  met,        \* history: requests whose look at the codes, or at the payload they merge
              \* into, was at an index that lagged or is out of date
  late,       \* history: requests whose copy was loaded before the owner changed
  unsure,     \* history: paths whose code nobody has vouched for
  overtaken   \* history: paths written from a late copy

askVars == <<who, batch, at, on>>
replyVars == <<listed, failed, answer>>
historyVars == <<done, owed, met, late, unsure, overtaken>>
vars == <<files, docs, locked, askVars, pc, copy, replyVars, tasks, crashes, historyVars>>

Tasks == [of : Requests, turn : Nat, act : {"put", "del", "move"},
          path : Paths, dest : Paths \cup {None},
          step : {"start", "get", "drop", "put"}, doc : Docs \cup {None}]
Points == {"idle", "check", "load", "body", "search", "write", "done"}

TypeOK ==
  /\ files \in [Paths -> Entries \cup {None}]
  /\ docs \in [Paths -> Docs \cup {None}]
  /\ locked \subseteq Paths
  /\ who \in [Requests -> People \cup {None}]
  /\ batch \in [Requests -> Batches \cup {None}]
  /\ pc \in [Requests -> Points]
  /\ \A r \in Requests : pc[r] # "idle" => /\ batch[r] # None /\ who[r] # None
                                           /\ at[r] \in 1..Len(batch[r].records)
                                           /\ on[r] \in 1..at[r]
  /\ at \in [Requests -> Nat] /\ on \in [Requests -> Nat]
  /\ copy \in [Requests -> Entries \cup {None}]
  /\ listed \in [Requests -> SUBSET Nat] /\ failed \in [Requests -> SUBSET Nat]
  /\ answer \in [Requests -> {None, "success", "failed", "error"}]
  /\ tasks \subseteq Tasks
  /\ crashes \in 0..MaxCrashes
  /\ done \in [Requests -> SUBSET Nat]
  /\ owed \in [Paths -> People \cup {None}]
  /\ met \subseteq Requests /\ late \subseteq Requests
  /\ unsure \subseteq Paths /\ overtaken \subseteq Paths

Init ==
  /\ files \in [Paths -> [code : Codes, owner : People] \cup {None}]
  /\ \A p, q \in Unique : p # q /\ None \notin {files[p], files[q]} => files[p].code # files[q].code
  /\ docs = [p \in Paths |-> IF files[p] = None THEN None ELSE [code |-> files[p].code, at |-> p]]
  /\ locked \in SUBSET Paths
  /\ who = [r \in Requests |-> None] /\ batch = [r \in Requests |-> None]
  /\ pc = [r \in Requests |-> "idle"]
  /\ at = [r \in Requests |-> 1] /\ on = [r \in Requests |-> 1]
  /\ copy = [r \in Requests |-> None]
  /\ listed = [r \in Requests |-> {}] /\ failed = [r \in Requests |-> {}]
  /\ answer = [r \in Requests |-> None]
  /\ tasks = {} /\ crashes = 0
  /\ done = [r \in Requests |-> {}]
  /\ owed = [p \in Paths |-> IF files[p] = None THEN None ELSE files[p].owner]
  /\ met = {} /\ late = {} /\ unsure = {} /\ overtaken = {}

Kind(r) == batch[r].type
Rec(r) == batch[r].records[on[r]]
Allowed(r, act) == <<who[r], act>> \in May
Exists(p) == files[p] # None
Locked(r) == Rec(r).checks /\ Rec(r).path \in locked
Goto(r, p) == pc' = [pc EXCEPT ![r] = p]
Opening(type) == CASE type \in {"create", "import", "upload"} -> "check"
                   [] type = "register" -> "search"
                   [] OTHER -> "load"

(***************************************************************************)
(* The loop over the records, and the answer                               *)
(***************************************************************************)
\* The record on is named in the answer, and the next one has its turn; after
\* the last one the request is answered.  An import always succeeds.
Turn(r, good, bad) ==
  /\ listed' = [listed EXCEPT ![r] = @ \cup good]
  /\ failed' = [failed EXCEPT ![r] = @ \cup bad]
  /\ copy' = [copy EXCEPT ![r] = None]
  /\ IF at[r] < Len(batch[r].records)
       THEN /\ at' = [at EXCEPT ![r] = @ + 1] /\ on' = [on EXCEPT ![r] = at[r] + 1]
            /\ Goto(r, Opening(Kind(r))) /\ UNCHANGED answer
       ELSE /\ Goto(r, "done") /\ UNCHANGED <<at, on>>
            /\ answer' = [answer EXCEPT ![r] = IF failed'[r] = {} \/ Kind(r) = "import"
                                                 THEN "success" ELSE "failed"]
  /\ UNCHANGED <<who, batch>>

\* A row of an import is a request of its own: whatever that raises, the row has failed
\* and the next one has its turn.
RowFails(r) == Turn(r, {}, {on[r]})

\* What the loop does not catch ends the request.
Escape(r) ==
  IF Kind(r) = "import" THEN RowFails(r)
  ELSE /\ Goto(r, "done")
       /\ answer' = [answer EXCEPT ![r] = "error"]
       /\ UNCHANGED <<askVars, copy, listed, failed>>

Fail(r) == Turn(r, {}, {on[r]})

\* The handlers of delete and move load the entry outside the try, and a registration
\* has none.
Refuse(r) == IF Kind(r) \in {"delete", "move", "register"} THEN Escape(r) ELSE Fail(r)

\* The next record looks and loads for itself.
Fresh(r) == met' = met \ {r} /\ late' = late \ {r}
NoEffect(r) == Fresh(r) /\ UNCHANGED <<files, tasks, done, owed, unsure, overtaken>>

Announce(r, act, p, q) ==
  tasks' = tasks \cup {[of |-> r, turn |-> at[r], act |-> act, path |-> p, dest |-> q,
                        step |-> "start", doc |-> None]}

\* Request r writes paths ps: who has looked for codes, or has the payload it will merge
\* into, and not written yet has missed it, and who has loaded an entry has it as it was,
\* if its owner changes.
Missed(r, ps) ==
  {o \in Requests \ {r} : /\ ps \cap Unique # {}
                          /\ pc[o] = "write" \/ (pc[o] = "search" /\ copy[o] # None)}
Outdated(r, ps) == {o \in Requests \ {r} : copy[o] # None /\ Rec(o).path \in ps}
Writes(r, ps, owners) ==
  /\ met' = (met \cup Missed(r, ps)) \ {r}
  /\ late' = (late \cup IF owners THEN Outdated(r, ps) ELSE {}) \ {r}
  /\ done' = [done EXCEPT ![r] = @ \cup {on[r]}]

\* What is refused and announced all the same spoils the documents of ps.
Spoils(r, ps) ==
  /\ met' = (met \cup Missed(r, ps)) \ {r} /\ late' = late \ {r}
  /\ unsure' = unsure \cup ps

Mark(set, p, in) == IF in THEN set \cup {p} ELSE set \ {p}

(***************************************************************************)
(* Requests                                                                *)
(***************************************************************************)
\* Who registers is the user that the record names.
Begin(r) ==
  /\ pc[r] = "idle"
  /\ \E u \in People, b \in Batches :
       /\ who' = [who EXCEPT ![r] = u] /\ batch' = [batch EXCEPT ![r] = b]
       /\ Goto(r, Opening(b.type))
  /\ UNCHANGED <<files, docs, locked, at, on, copy, replyVars, tasks, crashes, historyVars>>

\* Import: a row without a shortname makes no record.
NoRecord(r) == Rec(r).path = None

\* A ticket is replaced by the first record of the request, which is where the
\* initial state is set.
Substitute(r) == IF Rec(r).ticket /\ Kind(r) = "create" THEN 1 ELSE on[r]

\* The access check, then is_entry_exist
CheckNew(r) ==
  LET i == Substitute(r)
      taken == Exists(batch[r].records[i].path)
  IN
  /\ pc[r] = "check" /\ Kind(r) \in {"create", "import"}
  /\ \/ NoRecord(r) /\ Turn(r, {}, {}) /\ Fresh(r)
     \/ ~NoRecord(r) /\ ~Allowed(r, "create") /\ Fail(r) /\ Fresh(r)
     \/ ~NoRecord(r) /\ Allowed(r, "create") /\ taken /\ Turn(r, {}, {i}) /\ Fresh(r)
     \/ /\ ~NoRecord(r) /\ Allowed(r, "create") /\ ~taken
        /\ on' = [on EXCEPT ![r] = i] /\ Goto(r, "search")
        /\ UNCHANGED <<who, batch, at, copy, replyVars, met, late>>
  /\ UNCHANGED <<files, docs, locked, tasks, crashes, done, owed, unsure, overtaken>>

\* create_or_update_resource_with_payload makes no distinction between the two.
Upload(r) ==
  /\ pc[r] = "check" /\ Kind(r) = "upload"
  /\ IF Allowed(r, "create")
       THEN Goto(r, "write") /\ UNCHANGED <<askVars, copy, replyVars>>
       ELSE Escape(r)
  /\ UNCHANGED <<files, docs, locked, tasks, crashes, historyVars>>

\* The tasks that may still change what a search in the folder finds
Pending == {t \in tasks : {t.path, t.dest} \cap Unique # {}}

\* Fault: nobody looks for the code
FoundNothing(r) == FALSE

\* A document of the folder with the code; an update leaves out those with its
\* own shortname.
Found(r) ==
  \E p \in Paths : /\ docs[p] # None
                   /\ docs[p].code = Rec(r).code /\ docs[p].at \in Unique
                   /\ Kind(r) \in {"update", "r_replace"} => docs[p].at # Rec(r).path

\* Which codes are looked for: without a value for the field, or without the
\* name of the schema in the record, nothing is.
Searched(r) == Rec(r).path \in Unique /\ Rec(r).payload /\ Rec(r).code # None /\ Rec(r).named

\* validate_uniqueness
Search(r) ==
  /\ pc[r] = "search"
  /\ IF Searched(r) /\ Found(r)
       THEN Refuse(r) /\ Fresh(r)
       ELSE /\ Goto(r, "write") /\ UNCHANGED <<askVars, copy, replyVars, late>>
            /\ met' = Mark(met, r, IF Searched(r) THEN Pending # {} ELSE r \in met)
  /\ UNCHANGED <<files, docs, locked, tasks, crashes, done, owed, unsure, overtaken>>

\* What keeps a record from being written in the end: the schema, for an upload also its
\* checksum and its type.
Unfit(r) == ~Rec(r).valid

\* A new entry is in the files, whatever was there.
PutNew(r) ==
  LET p == Rec(r).path IN
  /\ files' = [files EXCEPT ![p] = [code |-> Rec(r).code, owner |-> who[r]]]
  /\ Turn(r, {on[r]}, {}) /\ Announce(r, "put", p, None)
  /\ Writes(r, {p}, TRUE)
  /\ owed' = [owed EXCEPT ![p] = who[r]] /\ overtaken' = overtaken \ {p}
  /\ unsure' = Mark(unsure, p, r \in met \/ Kind(r) = "upload" \/ ~Rec(r).named)

\* The schema validation, then db.save
WriteNew(r) ==
  /\ pc[r] = "write" /\ Kind(r) \in {"create", "import", "upload"}
  /\ IF Unfit(r) THEN Escape(r) /\ NoEffect(r) ELSE PutNew(r)
  /\ UNCHANGED <<docs, locked, crashes>>

\* The rest of create_user: the schema validation, then db.create, which refuses a user
\* who is there already
Register(r) ==
  /\ pc[r] = "write" /\ Kind(r) = "register"
  /\ IF Unfit(r) \/ Exists(Rec(r).path) THEN Escape(r) /\ NoEffect(r) ELSE PutNew(r)
  /\ UNCHANGED <<docs, locked, crashes>>

\* What each handler asks of the entry before it goes on: that it can be loaded
\* and the requester has the right.
CanUpdate(r) == Exists(Rec(r).path) /\ Allowed(r, "update")
CanAssign(r) == Exists(Rec(r).path) /\ Allowed(r, "assign") /\ Rec(r).to # None
CanSetAcl(r) == /\ Exists(Rec(r).path) /\ Allowed(r, "update")
                /\ files[Rec(r).path].owner = who[r]
CanDelete(r) == Exists(Rec(r).path) /\ Allowed(r, "delete")
CanMove(r) == Exists(Rec(r).path) /\ Allowed(r, "delete") /\ Allowed(r, "create")

LoadEntry(r) ==
  LET can == CASE Kind(r) \in {"update", "r_replace"} -> CanUpdate(r)
               [] Kind(r) = "assign" -> CanAssign(r)
               [] Kind(r) = "update_acl" -> CanSetAcl(r)
               [] Kind(r) = "delete" -> CanDelete(r)
               [] Kind(r) = "move" -> CanMove(r)
  IN
  /\ pc[r] = "load"
  /\ IF ~can
       THEN Refuse(r)
       ELSE /\ copy' = [copy EXCEPT ![r] = files[Rec(r).path]]
            /\ Goto(r, IF Kind(r) \in {"update", "r_replace"} THEN "body" ELSE "write")
            /\ UNCHANGED <<askVars, replyVars>>
  /\ Fresh(r)
  /\ UNCHANGED <<files, docs, locked, tasks, crashes, done, owed, unsure, overtaken>>

\* The old payload, which an update merges into; a replacement does without it.
LoadBody(r) ==
  LET p == Rec(r).path IN
  /\ pc[r] = "body"
  /\ IF ~Exists(p) /\ Kind(r) = "update"
       THEN Fail(r) /\ Fresh(r)
       ELSE /\ copy' = [copy EXCEPT ![r].code = IF Exists(p) THEN files[p].code ELSE None]
            /\ Goto(r, "search") /\ UNCHANGED <<askVars, replyVars, met, late>>
  /\ UNCHANGED <<files, docs, locked, tasks, crashes, done, owed, unsure, overtaken>>

\* Payload.update: the loaded payload with the record's merged in, or the record's
\* alone; without one in the record the payload file is left alone.
NewCode(r) ==
  CASE ~Rec(r).payload -> files[Rec(r).path].code
    [] Rec(r).payload /\ Rec(r).code = None /\ Kind(r) = "update" -> copy[r].code
    [] OTHER -> Rec(r).code

\* Fault: an update makes the entry the requester's
UpdatedTakes(r) == [code |-> NewCode(r), owner |-> who[r]]

\* What each handler writes: the meta file as it was loaded, but for what the
\* record may change.  Of these only assign changes the owner.
Updated(r) == [code |-> NewCode(r), owner |-> copy[r].owner]
Assigned(r) == [files[Rec(r).path] EXCEPT !.owner = Rec(r).to]
WithAcl(r) == [files[Rec(r).path] EXCEPT !.owner = copy[r].owner]

Changed(r) == CASE Kind(r) \in {"update", "r_replace"} -> Updated(r)
                [] Kind(r) = "assign" -> Assigned(r)
                [] Kind(r) = "update_acl" -> WithAcl(r)

\* Whether the code of an entry is still, or again, in doubt after its update
Doubted(r) ==
  LET p == Rec(r).path IN
  IF Kind(r) \notin {"update", "r_replace"} \/ ~Rec(r).payload THEN p \in unsure
  ELSE IF Searched(r) THEN r \in met
  ELSE p \in unsure \/ r \in met \/ Rec(r).code # None

\* Schema validation, db.update, save_payload_from_json
WriteOld(r) ==
  LET p == Rec(r).path
      fits == Kind(r) \in {"update", "r_replace"} /\ Rec(r).payload => ~Unfit(r)
  IN
  /\ pc[r] = "write" /\ Kind(r) \in {"update", "r_replace", "assign", "update_acl"}
  /\ \/ ~fits /\ Escape(r) /\ NoEffect(r)
     \/ fits /\ (~Exists(p) \/ Locked(r)) /\ Fail(r) /\ NoEffect(r)
     \/ /\ fits /\ Exists(p) /\ ~Locked(r)
        /\ files' = [files EXCEPT ![p] = Changed(r)]
        /\ Turn(r, {on[r]}, {}) /\ Announce(r, "put", p, None)
        /\ Writes(r, {p}, Kind(r) = "assign")
        /\ owed' = [owed EXCEPT ![p] = IF Kind(r) = "assign" THEN Rec(r).to ELSE @]
        /\ overtaken' = Mark(overtaken, p, Kind(r) # "assign" /\ (p \in overtaken \/ r \in late))
        /\ unsure' = Mark(unsure, p, Doubted(r))
  /\ UNCHANGED <<docs, locked, crashes>>

\* Fault: a deletion that is refused is not named as failed
RemoveUnnamed(r) ==
  LET p == Rec(r).path IN
  /\ pc[r] = "write" /\ Kind(r) = "delete"
  /\ Announce(r, "del", p, None)
  /\ Turn(r, {on[r]}, {})
  /\ IF ~Exists(p) \/ Locked(r)
       THEN /\ Spoils(r, {p})
            /\ UNCHANGED <<files, done, owed, overtaken>>
       ELSE /\ files' = [files EXCEPT ![p] = None]
            /\ Writes(r, {p}, TRUE)
            /\ owed' = [owed EXCEPT ![p] = None]
            /\ unsure' = unsure \ {p} /\ overtaken' = overtaken \ {p}
  /\ UNCHANGED <<docs, locked, crashes>>

\* db.delete.  What it refuses is named as failed, and announced all the same.
Remove(r) ==
  LET p == Rec(r).path IN
  /\ pc[r] = "write" /\ Kind(r) = "delete"
  /\ Announce(r, "del", p, None)
  /\ IF ~Exists(p) \/ Locked(r)
       THEN /\ Turn(r, {on[r]}, {on[r]}) /\ Spoils(r, {p})
            /\ UNCHANGED <<files, done, owed, overtaken>>
       ELSE /\ files' = [files EXCEPT ![p] = None]
            /\ Turn(r, {on[r]}, {}) /\ Writes(r, {p}, TRUE)
            /\ owed' = [owed EXCEPT ![p] = None]
            /\ unsure' = unsure \ {p} /\ overtaken' = overtaken \ {p}
  /\ UNCHANGED <<docs, locked, crashes>>

\* db.move: the meta file as it was loaded, the payload file as it is.  Nobody
\* looks for its code at the destination.
Move(r) ==
  LET p == Rec(r).path  q == Rec(r).dest IN
  /\ pc[r] = "write" /\ Kind(r) = "move"
  /\ \/ /\ Exists(q)
        /\ Turn(r, {on[r]}, {on[r]}) /\ Announce(r, "move", p, q) /\ Spoils(r, {p, q})
        /\ UNCHANGED <<files, done, owed, overtaken>>
     \/ /\ ~Exists(q) /\ ~Exists(p)
        /\ Escape(r) /\ NoEffect(r)
     \/ /\ ~Exists(q) /\ Exists(p)
        /\ files' = [files EXCEPT ![p] = None, ![q] = [code |-> files[p].code, owner |-> copy[r].owner]]
        /\ Turn(r, {on[r]}, {}) /\ Announce(r, "move", p, q)
        /\ Writes(r, {p, q}, TRUE)
        /\ owed' = [owed EXCEPT ![p] = None, ![q] = owed[p]]
        /\ unsure' = (unsure \ {p}) \cup {q}
        /\ overtaken' = Mark(overtaken \ {p}, q, p \in overtaken \/ r \in late)
  /\ UNCHANGED <<docs, locked, crashes>>

(***************************************************************************)
(* The hook of redis_db_update                                             *)
(***************************************************************************)
Becomes(t, step, doc) == tasks' = (tasks \ {t}) \cup {[t EXCEPT !.step = step, !.doc = doc]}
Ends(t) == tasks' = tasks \ {t}
TaskOnly == UNCHANGED <<files, locked, askVars, pc, copy, replyVars, crashes, historyVars>>

\* create, update, assign, update_acl: what the files say now, if they are there
HookLoad(t) ==
  /\ t.act = "put" /\ t.step = "start"
  /\ IF files[t.path] = None THEN Ends(t)
     ELSE Becomes(t, "put", [code |-> files[t.path].code, at |-> t.path])
  /\ UNCHANGED docs /\ TaskOnly

HookPut(t) ==
  /\ t.act = "put" /\ t.step = "put"
  /\ docs' = [docs EXCEPT ![t.path] = t.doc]
  /\ Ends(t) /\ TaskOnly

HookDelete(t) ==
  /\ t.act = "del"
  /\ docs' = [docs EXCEPT ![t.path] = None]
  /\ Ends(t) /\ TaskOnly

\* move_payload_doc carries the document over as it is: it goes on telling the
\* path that the entry had.
MoveLoad(t) ==
  /\ t.act = "move" /\ t.step = "start"
  /\ IF files[t.dest] = None THEN Ends(t) ELSE Becomes(t, "get", None)
  /\ UNCHANGED docs /\ TaskOnly

MoveGet(t) ==
  /\ t.act = "move" /\ t.step = "get"
  /\ Becomes(t, "drop", docs[t.path])
  /\ UNCHANGED docs /\ TaskOnly

MoveDrop(t) ==
  /\ t.act = "move" /\ t.step = "drop"
  /\ docs' = [docs EXCEPT ![t.path] = None]
  /\ Becomes(t, "put", t.doc) /\ TaskOnly

MovePut(t) ==
  /\ t.act = "move" /\ t.step = "put"
  /\ docs' = [docs EXCEPT ![t.dest] = t.doc]
  /\ Ends(t) /\ TaskOnly

\* A worker dies with a request or with what the request left behind.
Crash(r) ==
  LET lost == {t \in tasks : t.of = r} IN
  /\ crashes < MaxCrashes
  /\ pc[r] \notin {"idle", "done"} \/ lost # {}
  /\ crashes' = crashes + 1
  /\ Goto(r, "done") /\ tasks' = tasks \ lost /\ Fresh(r)
  /\ copy' = [copy EXCEPT ![r] = None]
  /\ unsure' = unsure \cup (Paths \cap UNION {{t.path, t.dest} : t \in lost})
  /\ UNCHANGED <<files, docs, locked, askVars, replyVars, done, owed, overtaken>>

RequestStep(r) == \/ Begin(r) \/ CheckNew(r) \/ Upload(r) \/ LoadEntry(r) \/ LoadBody(r)
                  \/ Search(r) \/ WriteNew(r) \/ Register(r) \/ WriteOld(r) \/ Remove(r) \/ Move(r)
TaskStep(t) == \/ HookLoad(t) \/ HookPut(t) \/ HookDelete(t)
               \/ MoveLoad(t) \/ MoveGet(t) \/ MoveDrop(t) \/ MovePut(t)

Next == \/ \E r \in Requests : RequestStep(r) \/ Crash(r)
        \/ \E t \in tasks : TaskStep(t)

Spec == Init /\ [][Next]_vars

(***************************************************************************)
(* Properties                                                              *)
(***************************************************************************)
\* Two entries of the folder have the same code only if the code of one of them
\* was never vouched for: it was written while the index had not caught up with
\* another write (of the same batch, perhaps), merged from a payload that was out of
\* date, moved in, uploaded or sent without the name of its schema, or its document was
\* lost or spoilt by a crash or by the announcement of a delete or move that had been
\* refused.
CodesUnique ==
  \A p, q \in Unique : (p # q /\ None \notin {files[p], files[q]})
    => files[p].code # files[q].code \/ files[p].code = None \/ {p, q} \cap unsure # {}

\* An answer tells what became of the records.  Success: all had their effect.
\* Failure: those named as successful only had it, those named as failed had not,
\* and all are named.  That is so but for tickets: those that follow the first are
\* never tried, and the first is named as failed in their stead.  An error names
\* none: the records before it may have had their effect.  An import is always a
\* success, and names the rows that failed.
AnswerTrue ==
  \A r \in Requests : answer[r] # None =>
    LET rows == {i \in 1..Len(batch[r].records) : batch[r].records[i].path # None}
        later == {i \in rows \ {1} : Kind(r) = "create" /\ batch[r].records[i].ticket}
    IN
    IF answer[r] = "error" THEN done[r] \subseteq 1..(at[r] - 1)
    ELSE /\ listed[r] \ failed[r] \subseteq done[r] /\ done[r] \subseteq listed[r]
         /\ done[r] \cap failed[r] \subseteq IF later = {} THEN {} ELSE {1}
         /\ rows \ (listed[r] \cup failed[r]) \subseteq later
         /\ answer[r] = "success" /\ Kind(r) # "import" => failed[r] = {}

\* The owner of an entry is who created it or was assigned it last, unless a
\* request that had loaded the entry before wrote its copy back afterwards.
OwnerStays ==
  \A p \in Paths : files[p] # None => files[p].owner = owed[p] \/ p \in overtaken
=============================================================================
