------------------------------ MODULE EntryIndex ------------------------------
(***************************************************************************)
(* Entries are files; searches read documents in Redis.  A request changes *)
(* the files and then announces the change (plugin_manager.after_action),  *)
(* which starts the hook of the redis_db_update plugin as a task of its    *)
(* own: the response does not wait for it, and tasks of different requests *)
(* run in any order.  create_index rebuilds the documents from the files.  *)
(*                                                                         *)
(* Every entry here has a JSON payload with a schema, so it is two files   *)
(* (meta and payload) and two documents (one in the meta index, one in the *)
(* index of its schema).  One action is what runs between two awaits.      *)
(***************************************************************************)
EXTENDS Naturals, FiniteSets

CONSTANTS
  Paths,       \* where entries live: subpath and shortname
  Requests,    \* write requests of one record each, each sent at most once
  None,        \* no file, no document
  Old,         \* the content of entries that were there from the start
  Empty,       \* the document {}
  MaxCrashes,  \* bound on requests and tasks that die with their worker
  MaxRebuilds  \* bound on runs of create_index

ASSUME ContentAssumption ==
  /\ Cardinality({None, Old, Empty}) = 3
  /\ {None, Old, Empty} \cap Requests = {}
  /\ None \notin Paths
ASSUME BoundAssumption == MaxCrashes \in Nat /\ MaxRebuilds \in Nat

VARIABLES
  meta, body,       \* the files of each path
  idx, pdx,         \* its document in the meta index, and in the schema's
  kind, path, dest, \* what each request does, and where
  pc,               \* where each request stands
  seen,             \* the meta file as the request loaded it
  tpc,              \* where the task its announcement started stands
  tm, tb,           \* the meta and the payload that task has read
  rpc, rm, rb,      \* create_index: where it stands, what it has read
  rtodo,            \* and what it has yet to read
  crashes, rebuilds,
  met,              \* history: requests that had company on one of their paths
  disturbed         \* history: paths whose documents nobody vouches for

fileVars == <<meta, body>>
docVars  == <<idx, pdx>>
jobVars  == <<kind, path, dest>>
taskVars == <<tpc, tm, tb>>
rebuildVars == <<rpc, rm, rb, rtodo, rebuilds>>
historyVars == <<met, disturbed>>
vars == <<fileVars, docVars, jobVars, pc, seen, taskVars, rebuildVars, crashes, historyVars>>

\* Content is named by the request that wrote it.
Contents == Requests \cup {Old}
Kinds == {"none", "create", "update", "delete", "move"}
Points == {"idle", "check", "load", "save", "payload", "remove", "rename",
           "announce", "done"}
TaskPoints == {"none", "start", "body", "put_meta", "put_payload", "del_meta", "del_payload",
               "mv_del", "mv_put", "mv_get", "mv_pdel", "mv_pput", "done"}

TypeOK ==
  /\ meta \in [Paths -> Contents \cup {None}]
  /\ body \in [Paths -> Contents \cup {None}]
  /\ idx \in [Paths -> Contents \cup {None}]
  /\ pdx \in [Paths -> Contents \cup {None, Empty}]
  /\ kind \in [Requests -> Kinds]
  /\ path \in [Requests -> Paths \cup {None}]
  /\ dest \in [Requests -> Paths \cup {None}]
  /\ pc \in [Requests -> Points]
  /\ seen \in [Requests -> Contents \cup {None}]
  /\ tpc \in [Requests -> TaskPoints]
  /\ tm \in [Requests -> Contents \cup {None}]
  /\ tb \in [Requests -> Contents \cup {None, Empty}]
  /\ rpc \in {"off", "read", "put"}
  /\ rm \in [Paths -> Contents \cup {None}]
  /\ rb \in [Paths -> Contents \cup {None}]
  /\ rtodo \subseteq Paths
  /\ crashes \in 0..MaxCrashes
  /\ rebuilds \in 0..MaxRebuilds
  /\ met \subseteq Requests
  /\ disturbed \subseteq Paths

Nothing == [r \in Requests |-> None]

\* Any entries, correctly indexed
Init ==
  /\ meta \in [Paths -> {None, Old}]
  /\ body = meta /\ idx = meta /\ pdx = meta
  /\ kind = [r \in Requests |-> "none"]
  /\ path = Nothing /\ dest = Nothing
  /\ pc = [r \in Requests |-> "idle"]
  /\ seen = Nothing
  /\ tpc = [r \in Requests |-> "none"]
  /\ tm = Nothing /\ tb = Nothing
  /\ rpc = "off" /\ rtodo = {}
  /\ rm = [p \in Paths |-> None] /\ rb = [p \in Paths |-> None]
  /\ crashes = 0 /\ rebuilds = 0
  /\ met = {} /\ disturbed = {}

(***************************************************************************)
(* Who is at work where                                                    *)
(***************************************************************************)
Touches(r) == {path[r], dest[r]} \cap Paths
Active(r) == pc[r] \notin {"idle", "done"} \/ tpc[r] \notin {"none", "done"}
AllActive == {r \in Requests : Active(r)}
InWork == UNION {Touches(r) : r \in AllActive}
Busy == IF rpc = "off" THEN InWork ELSE Paths

\* Request r arrives at paths ps.  If a request, a task or a rebuild is at work
\* there, neither side is alone, and all the paths of either are disturbed.
Meet(r, ps) ==
  LET others == {o \in AllActive : Touches(o) \cap ps # {}} IN
  IF others = {} /\ rpc = "off"
    THEN UNCHANGED historyVars
    ELSE /\ met' = met \cup others \cup {r}
         /\ disturbed' = disturbed \cup ps \cup UNION {Touches(o) : o \in others}

\* A write that had no company has put a path right.
Vouch(p) == disturbed' = disturbed \ {p} /\ UNCHANGED met

Disturb(ps) == disturbed' = disturbed \cup ps /\ UNCHANGED met

(***************************************************************************)
(* Requests                                                                *)
(***************************************************************************)
Goto(r, p) == pc' = [pc EXCEPT ![r] = p]

\* One request of the /managed/request loops, before its first read.
Begin(r) ==
  /\ pc[r] = "idle"
  /\ \E p \in Paths, q \in Paths \cup {None}, k \in Kinds \ {"none"} :
       /\ IF k = "move" THEN q \in Paths \ {p} ELSE q = None
       /\ path' = [path EXCEPT ![r] = p]
       /\ dest' = [dest EXCEPT ![r] = q]
       /\ kind' = [kind EXCEPT ![r] = k]
       /\ Goto(r, IF k = "create" THEN "check" ELSE "load")
       /\ Meet(r, {p, q} \cap Paths)
  /\ UNCHANGED <<fileVars, docVars, seen, taskVars, rebuildVars, crashes>>

\* is_entry_exist, some awaits before the write
CheckNew(r) ==
  /\ pc[r] = "check"
  /\ Goto(r, IF meta[path[r]] = None /\ body[path[r]] = None THEN "save" ELSE "done")
  /\ UNCHANGED <<fileVars, docVars, jobVars, seen, taskVars, rebuildVars, crashes, historyVars>>

\* db.load: without the entry the request fails
LoadEntry(r) ==
  /\ pc[r] = "load"
  /\ seen' = [seen EXCEPT ![r] = meta[path[r]]]
  /\ Goto(r, IF meta[path[r]] = None THEN "done"
             ELSE [update |-> "save", delete |-> "remove", move |-> "rename"][kind[r]])
  /\ UNCHANGED <<fileVars, docVars, jobVars, taskVars, rebuildVars, crashes, historyVars>>

\* db.save writes whatever is there; db.update wants the file to be there
Save(r) ==
  /\ pc[r] = "save"
  /\ IF kind[r] = "create" \/ meta[path[r]] # None
       THEN meta' = [meta EXCEPT ![path[r]] = r] /\ Goto(r, "payload")
       ELSE Goto(r, "done") /\ UNCHANGED meta
  /\ UNCHANGED <<body, docVars, jobVars, seen, taskVars, rebuildVars, crashes, historyVars>>

\* save_payload_from_json; without the meta file the record fails unannounced
SavePayload(r) ==
  /\ pc[r] = "payload"
  /\ IF meta[path[r]] # None
       THEN body' = [body EXCEPT ![path[r]] = r] /\ Goto(r, "announce")
       ELSE Goto(r, "done") /\ UNCHANGED body
  /\ UNCHANGED <<meta, docVars, jobVars, seen, taskVars, rebuildVars, crashes, historyVars>>

\* db.delete.  When it refuses, because the entry is gone or somebody else has
\* locked it, the record is listed as failed and the deletion announced all the same.
Remove(r) ==
  /\ pc[r] = "remove"
  /\ Goto(r, "announce")
  /\ \/ /\ meta[path[r]] # None
        /\ meta' = [meta EXCEPT ![path[r]] = None]
        /\ body' = [body EXCEPT ![path[r]] = None]
        /\ UNCHANGED historyVars
     \/ Disturb({path[r]}) /\ UNCHANGED fileVars
  /\ UNCHANGED <<docVars, jobVars, seen, taskVars, rebuildVars, crashes>>

\* db.move renames the entry's directory and its payload file, then rewrites the
\* meta file from what was loaded.  An occupied destination is refused, and the
\* move announced all the same; a source that is gone is an OSError.
Rename(r) ==
  LET p == path[r]  q == dest[r] IN
  /\ pc[r] = "rename"
  /\ \/ /\ meta[q] # None
        /\ Goto(r, "announce") /\ Disturb({p, q}) /\ UNCHANGED fileVars
     \/ /\ meta[q] = None /\ meta[p] # None
        /\ meta' = [meta EXCEPT ![p] = None, ![q] = seen[r]]
        /\ body' = [body EXCEPT ![p] = None, ![q] = IF body[p] = None THEN @ ELSE body[p]]
        /\ Goto(r, "announce") /\ Disturb(IF p \in disturbed THEN {q} ELSE {})
     \/ /\ meta[q] = None /\ meta[p] = None
        /\ Goto(r, "done") /\ UNCHANGED <<fileVars, historyVars>>
  /\ UNCHANGED <<docVars, jobVars, seen, taskVars, rebuildVars, crashes>>

\* Fault: the hook is built but never scheduled
AnnounceNothing(r) ==
  /\ pc[r] = "announce"
  /\ Goto(r, "done")
  /\ UNCHANGED <<fileVars, docVars, jobVars, seen, taskVars, rebuildVars, crashes, historyVars>>

\* after_action: create_task(hook)
Announce(r) ==
  /\ pc[r] = "announce"
  /\ Goto(r, "done")
  /\ tpc' = [tpc EXCEPT ![r] = "start"]
  /\ UNCHANGED <<fileVars, docVars, jobVars, seen, tm, tb, rebuildVars, crashes, historyVars>>

(***************************************************************************)
(* The hook of redis_db_update                                             *)
(***************************************************************************)
Task(r, from, to) ==
  /\ tpc[r] = from
  /\ tpc' = [tpc EXCEPT ![r] = to]
  /\ UNCHANGED <<fileVars, jobVars, pc, seen, rebuildVars, crashes>>
  /\ IF to = "done" /\ kind[r] \in {"create", "update"} /\ r \notin met
       THEN Vouch(path[r]) ELSE UNCHANGED historyVars

Reads(r, var, val) == [var EXCEPT ![r] = val]
OrEmpty(x) == IF x = None THEN Empty ELSE x

\* create, update, move: db.load of what the files say now; an entry that cannot
\* be loaded is left alone
HookLoad(r) ==
  LET p == IF kind[r] = "move" THEN dest[r] ELSE path[r] IN
  /\ kind[r] # "delete"
  /\ Task(r, "start", IF meta[p] = None THEN "done"
                      ELSE IF kind[r] = "move" THEN "mv_del" ELSE "body")
  /\ tm' = Reads(r, tm, meta[p])
  /\ UNCHANGED <<docVars, tb>>

HookBody(r) ==
  /\ Task(r, "body", "put_meta")
  /\ tb' = Reads(r, tb, OrEmpty(body[path[r]]))
  /\ UNCHANGED <<docVars, tm>>

PutMeta(r) ==
  /\ Task(r, "put_meta", "put_payload")
  /\ idx' = [idx EXCEPT ![path[r]] = tm[r]]
  /\ UNCHANGED <<pdx, tm, tb>>

PutPayload(r) ==
  /\ Task(r, "put_payload", "done")
  /\ pdx' = [pdx EXCEPT ![path[r]] = tb[r]]
  /\ UNCHANGED <<idx, tm, tb>>

\* delete: the meta document names the schema whose document goes with it.
\* When there is none, the meta document is deleted a second time instead.
HookFind(r) ==
  /\ kind[r] = "delete"
  /\ Task(r, "start", "del_meta")
  /\ tm' = Reads(r, tm, idx[path[r]])
  /\ UNCHANGED <<docVars, tb>>

DelMeta(r) ==
  /\ Task(r, "del_meta", "del_payload")
  /\ idx' = [idx EXCEPT ![path[r]] = None]
  /\ UNCHANGED <<pdx, tm, tb>>

\* Fault: only the meta document goes
DelPayloadKept(r) ==
  /\ Task(r, "del_payload", "done")
  /\ UNCHANGED <<docVars, tm, tb>>

DelPayload(r) ==
  /\ Task(r, "del_payload", "done")
  /\ IF tm[r] # None
       THEN pdx' = [pdx EXCEPT ![path[r]] = None] /\ UNCHANGED idx
       ELSE idx' = [idx EXCEPT ![path[r]] = None] /\ UNCHANGED pdx
  /\ UNCHANGED <<tm, tb>>

\* move: move_meta_doc, then move_payload_doc
MoveDel(r) ==
  /\ Task(r, "mv_del", "mv_put")
  /\ idx' = [idx EXCEPT ![path[r]] = None]
  /\ UNCHANGED <<pdx, tm, tb>>

MovePut(r) ==
  /\ Task(r, "mv_put", "mv_get")
  /\ idx' = [idx EXCEPT ![dest[r]] = tm[r]]
  /\ UNCHANGED <<pdx, tm, tb>>

MoveGet(r) ==
  /\ Task(r, "mv_get", "mv_pdel")
  /\ tb' = Reads(r, tb, OrEmpty(pdx[path[r]]))
  /\ UNCHANGED <<docVars, tm>>

MovePayloadDel(r) ==
  /\ Task(r, "mv_pdel", "mv_pput")
  /\ pdx' = [pdx EXCEPT ![path[r]] = None]
  /\ UNCHANGED <<idx, tm, tb>>

MovePayloadPut(r) ==
  /\ Task(r, "mv_pput", "done")
  /\ pdx' = [pdx EXCEPT ![dest[r]] = tb[r]]
  /\ UNCHANGED <<idx, tm, tb>>

(***************************************************************************)
(* create_index: drop the indices with their documents, read every entry,  *)
(* then save the documents of the subpath in one pipeline.  What it meets  *)
(* in work stays disturbed, everything else is as the files say again.     *)
(***************************************************************************)
RebuildDrop ==
  /\ rpc = "off" /\ rebuilds < MaxRebuilds
  /\ rpc' = "read" /\ rebuilds' = rebuilds + 1
  /\ rtodo' = Paths
  /\ idx' = [p \in Paths |-> None]
  /\ pdx' = [p \in Paths |-> None]
  /\ disturbed' = InWork /\ met' = met \cup AllActive
  /\ UNCHANGED <<fileVars, jobVars, pc, seen, taskVars, rm, rb, crashes>>

RebuildRead(p) ==
  /\ rpc = "read" /\ p \in rtodo
  /\ rm' = [rm EXCEPT ![p] = meta[p]]
  /\ rb' = [rb EXCEPT ![p] = body[p]]
  /\ rtodo' = rtodo \ {p}
  /\ rpc' = IF rtodo' = {} THEN "put" ELSE "read"
  /\ UNCHANGED <<fileVars, docVars, jobVars, pc, seen, taskVars, rebuilds, crashes, historyVars>>

RebuildPut ==
  /\ rpc = "put"
  /\ rpc' = "off"
  /\ idx' = [p \in Paths |-> IF rm[p] = None THEN idx[p] ELSE rm[p]]
  /\ pdx' = [p \in Paths |-> IF None \in {rm[p], rb[p]} THEN pdx[p] ELSE rb[p]]
  /\ UNCHANGED <<fileVars, jobVars, pc, seen, taskVars, rm, rb, rtodo, rebuilds, crashes,
                 historyVars>>

\* A worker dies with a request it is serving, or with a task the request left
\* behind: nothing takes either up again.
Crash(r) ==
  /\ Active(r)
  /\ crashes < MaxCrashes
  /\ crashes' = crashes + 1
  /\ Goto(r, "done")
  /\ tpc' = [tpc EXCEPT ![r] = "done"]
  /\ Disturb(Touches(r))
  /\ UNCHANGED <<fileVars, docVars, jobVars, seen, tm, tb, rebuildVars>>

RequestStep(r) == \/ CheckNew(r) \/ LoadEntry(r) \/ Save(r) \/ SavePayload(r)
                  \/ Remove(r) \/ Rename(r) \/ Announce(r)
TaskStep(r) == \/ HookLoad(r) \/ HookBody(r) \/ PutMeta(r) \/ PutPayload(r)
               \/ HookFind(r) \/ DelMeta(r) \/ DelPayload(r)
               \/ MoveDel(r) \/ MovePut(r) \/ MoveGet(r)
               \/ MovePayloadDel(r) \/ MovePayloadPut(r)
RebuildStep == RebuildDrop \/ RebuildPut \/ \E p \in Paths : RebuildRead(p)

Next == \/ \E r \in Requests : Begin(r) \/ RequestStep(r) \/ TaskStep(r) \/ Crash(r)
        \/ RebuildStep

Spec == Init /\ [][Next]_vars

\* The event loop runs every task and request it has, and create_index, once
\* started, to the end.
Fairness == /\ \A r \in Requests : WF_vars(RequestStep(r)) /\ WF_vars(TaskStep(r))
            /\ WF_vars(RebuildPut \/ \E p \in Paths : RebuildRead(p))

(***************************************************************************)
(* Properties                                                              *)
(***************************************************************************)
\* When nobody is at work on a path, its documents say what its files say,
\* whatever happened on other paths in the meantime.  Only three things can
\* spoil that: two writers of the path (a request or the task it left behind)
\* overlapped, a refused delete or move was announced, or a worker died.  And
\* create_index repairs all three, if no writer is at work.
IndexTruthful ==
  \A p \in Paths \ (disturbed \cup Busy) :
    /\ idx[p] = meta[p]
    /\ pdx[p] = body[p] \/ (pdx[p] = Empty /\ body[p] = None)

\* A change of the files reaches the index, unless the path was disturbed.
ChangesGetIndexed ==
  \A p \in Paths : (idx[p] # meta[p]) ~> (idx[p] = meta[p] \/ p \in disturbed)
=============================================================================
