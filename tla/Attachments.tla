----------------------------- MODULE Attachments -----------------------------
(***************************************************************************)
(* The document of an entry holds a text to search in, payload_string,     *)
(* made of its payload and of its attachments, which are files of their    *)
(* own.  Whoever writes an attachment leaves a task behind, the hook of    *)
(* redis_db_update, that reads the document of the parent, makes the text  *)
(* anew and writes the document back.  The hook has one object per worker  *)
(* and keeps the event it works on in an attribute of that object, which   *)
(* it consults for the parent and, two awaits later, for the space to list *)
(* the attachments in.  A worker may die, and its requests and hooks with  *)
(* it.  The entries here live in folders: at the root of a space the hook  *)
(* does nothing for attachments.                                           *)
(***************************************************************************)
EXTENDS Naturals, FiniteSets

CONSTANTS
  Spaces,     \* the spaces
  Paths,      \* where an entry can be in a space
  Parents,    \* the entries, each by its space and its path there
  Names,      \* of attachments
  Requests,   \* writes, each sent at most once
  Workers,    \* processes
  None,       \* no entry, no name, no document, nothing
  Old,        \* the content of entries that were there from the start
  MaxCrashes  \* bound on the workers that die

ASSUME ContentAssumption ==
  None # Old /\ {None, Old} \cap Requests = {} /\ None \notin Parents \cup Names
ASSUME ParentsAssumption == Parents \subseteq Spaces \X Paths
ASSUME CrashesAssumption == MaxCrashes \in Nat

VARIABLES
  entry,       \* what the files of each entry say
  att,         \* the attachments whose files are there
  doc,         \* the document of each entry
  data,        \* self.data of the hook, by worker: the space of its event, and the entry
               \* whose attachment that is about
  kind, at, name, on,  \* of a request: what it does, to which entry and attachment, its worker
  pc, tpc,     \* where the request stands, and the task it left behind
  aim,         \* the entry whose document that task writes
  seen,        \* what it has read of that entry: of its files, or of its document
  from,        \* where it looks for attachments
  text,        \* the attachments it has found there
  crashes,     \* workers that died so far
  met,         \* history: requests that had company at their entry
  disturbed    \* history: entries whose document nobody vouches for

fileVars == <<entry, att>>
jobVars == <<kind, at, name, on>>
taskVars == <<aim, seen, from, text>>
historyVars == <<met, disturbed>>
vars == <<fileVars, doc, data, jobVars, pc, tpc, taskVars, crashes, historyVars>>

\* Content is named by the request that wrote it.
Contents == Requests \cup {Old}
Docs == [says : Contents \cup {None}, text : SUBSET Names]
NoDoc == [says |-> None, text |-> {None}]
Events == [space : Spaces \cup {None}, of : Parents \cup {None}]
NoEvent == [space |-> None, of |-> None]
EntryKinds == {"create", "edit", "apply", "remove"}
Kinds == {"none", "attach", "detach"} \cup EntryKinds

TypeOK ==
  /\ entry \in [Parents -> Contents \cup {None}]
  /\ att \in [Parents -> SUBSET Names]
  /\ doc \in [Parents -> Docs \cup {NoDoc}]
  /\ data \in [Workers -> Events]
  /\ kind \in [Requests -> Kinds] /\ on \in [Requests -> Workers]
  /\ at \in [Requests -> Parents \cup {None}] /\ name \in [Requests -> Names \cup {None}]
  /\ pc \in [Requests -> {"idle", "write", "unlink", "done"}]
  /\ tpc \in [Requests -> {"none", "start", "route", "load", "list", "read", "save", "done"}]
  /\ aim \in [Requests -> Parents \cup {None}]
  /\ seen \in [Requests -> Contents \cup {None}]
  /\ from \in [Requests -> (Spaces \cup {None}) \X Paths \cup {None}]
  /\ text \in [Requests -> SUBSET Names]
  /\ crashes \in 0..MaxCrashes
  /\ met \subseteq Requests /\ disturbed \subseteq Parents

\* What the document should be
Told(p) == IF entry[p] = None THEN NoDoc ELSE [says |-> entry[p], text |-> att[p]]

\* Any entries and attachments, correctly indexed
Init ==
  /\ entry \in [Parents -> {None, Old}]
  /\ att \in [Parents -> SUBSET Names] /\ \A p \in Parents : entry[p] = None => att[p] = {}
  /\ doc = [p \in Parents |-> Told(p)]
  /\ data = [w \in Workers |-> NoEvent]
  /\ kind = [r \in Requests |-> "none"] /\ on \in [Requests -> Workers]
  /\ at = [r \in Requests |-> None] /\ name = at /\ aim = at /\ seen = at /\ from = at
  /\ pc = [r \in Requests |-> "idle"] /\ tpc = [r \in Requests |-> "none"]
  /\ text = [r \in Requests |-> {}]
  /\ crashes = 0
  /\ met = {} /\ disturbed = {}

(***************************************************************************)
(* Who is at work where                                                    *)
(***************************************************************************)
Active(r) == pc[r] \in {"write", "unlink"} \/ tpc[r] \notin {"none", "done"}
AtWork(p) == {r \in Requests : Active(r) /\ p \in {at[r], aim[r]}}

\* Request r sets to work at entry p.
Meet(r, p) ==
  LET others == AtWork(p) \ {r} IN
  IF others = {}
    THEN UNCHANGED historyVars
    ELSE met' = met \cup others \cup {r} /\ disturbed' = disturbed \cup {p}

Disturb(ps) == disturbed' = disturbed \cup ps /\ UNCHANGED met

\* An entry that was written without company, and indexed
Vouch(p) == disturbed' = disturbed \ {p} /\ UNCHANGED met

(***************************************************************************)
(* Requests                                                                *)
(***************************************************************************)
Goto(r, p) == pc' = [pc EXCEPT ![r] = p]
Leave(r) == tpc' = [tpc EXCEPT ![r] = "start"]

\* The handler has found what it is going to change.
Fits(k, p, n) ==
  CASE k = "attach" -> n \in Names \ att[p]
    [] k \in {"detach", "apply"} -> n \in att[p] /\ (k = "apply" => entry[p] # None)
    [] k = "create" -> n = None /\ entry[p] = None
    [] OTHER -> n = None /\ entry[p] # None

Begin(r) ==
  /\ pc[r] = "idle"
  /\ \E k \in Kinds \ {"none"}, p \in Parents, n \in Names \cup {None} :
       /\ Fits(k, p, n)
       /\ kind' = [kind EXCEPT ![r] = k]
       /\ at' = [at EXCEPT ![r] = p]
       /\ name' = [name EXCEPT ![r] = n]
       /\ Meet(r, p)
  /\ Goto(r, "write")
  /\ UNCHANGED <<fileVars, doc, data, on, tpc, taskVars, crashes>>

\* Fault: a detached attachment is not announced.
WriteAttachmentQuietly(r) ==
  LET p == at[r] IN
  /\ pc[r] = "write" /\ kind[r] \in {"attach", "detach"}
  /\ att' = [att EXCEPT ![p] = IF kind[r] = "attach" THEN @ \cup {name[r]} ELSE @ \ {name[r]}]
  /\ Goto(r, "done") /\ IF kind[r] = "attach" THEN Leave(r) ELSE UNCHANGED tpc
  /\ IF entry[p] = None THEN Disturb({p}) ELSE UNCHANGED historyVars
  /\ UNCHANGED <<entry, doc, data, jobVars, taskVars, crashes>>

\* Nobody asks whether the entry of an attachment is there: then its document is going to
\* be one that has a text and nothing else.
WriteAttachment(r) ==
  LET p == at[r] IN
  /\ pc[r] = "write" /\ kind[r] \in {"attach", "detach"}
  /\ att' = [att EXCEPT ![p] = IF kind[r] = "attach" THEN @ \cup {name[r]} ELSE @ \ {name[r]}]
  /\ Goto(r, "done") /\ Leave(r)
  /\ IF entry[p] = None THEN Disturb({p}) ELSE UNCHANGED historyVars
  /\ UNCHANGED <<entry, doc, data, jobVars, taskVars, crashes>>

\* The attachments of an entry go with it.
WriteEntry(r) ==
  LET p == at[r] IN
  /\ pc[r] = "write" /\ kind[r] \in EntryKinds
  /\ IF kind[r] # "create" /\ entry[p] = None
       THEN Goto(r, "done") /\ UNCHANGED <<fileVars, tpc>>
       ELSE /\ entry' = [entry EXCEPT ![p] = IF kind[r] = "remove" THEN None ELSE r]
            /\ att' = [att EXCEPT ![p] = IF kind[r] = "remove" THEN {} ELSE @]
            /\ Goto(r, IF kind[r] = "apply" THEN "unlink" ELSE "done")
            /\ Leave(r)
  /\ UNCHANGED <<doc, data, jobVars, taskVars, crashes, historyVars>>

\* apply_alteration updates the entry like any other request, and then deletes the alteration
\* without telling anybody: if the task of the update has looked at the attachments by now,
\* the text keeps the alteration.
Unlink(r) ==
  /\ pc[r] = "unlink" /\ Goto(r, "done")
  /\ att' = [att EXCEPT ![at[r]] = @ \ {name[r]}]
  /\ IF tpc[r] \in {"start", "load", "list"} THEN UNCHANGED historyVars ELSE Disturb({at[r]})
  /\ UNCHANGED <<entry, doc, data, jobVars, tpc, taskVars, crashes>>

(***************************************************************************)
(* The hook                                                                *)
(***************************************************************************)
Task(r, now, to) ==
  /\ tpc[r] = now /\ tpc' = [tpc EXCEPT ![r] = to]
  /\ UNCHANGED <<fileVars, jobVars, pc, crashes>>

\* self.data is set, and the spaces are asked for.
Start(r) ==
  LET about == kind[r] \in {"attach", "detach"} IN
  /\ Task(r, "start", IF about THEN "route" ELSE IF kind[r] = "remove" THEN "save" ELSE "load")
  /\ data' = [data EXCEPT ![on[r]] = [space |-> at[r][1], of |-> IF about THEN at[r] ELSE None]]
  /\ aim' = [aim EXCEPT ![r] = IF about THEN None ELSE at[r]]
  /\ UNCHANGED <<doc, seen, from, text, historyVars>>

\* Fault: the worker is taken to be the only one.
RouteFirst(r) ==
  LET p == data[CHOOSE w \in Workers : TRUE].of IN
  /\ Task(r, "route", IF p = None THEN "done" ELSE "load")
  /\ aim' = [aim EXCEPT ![r] = p]
  /\ UNCHANGED <<doc, data, seen, from, text, historyVars>>

\* The parent is the one self.data tells of by now: of this event, if no other hook has
\* started in this worker since.  An event on an entry leads to its folder, which is not
\* looked at here.
Route(r) ==
  LET p == data[on[r]].of IN
  /\ Task(r, "route", IF p = None THEN "done" ELSE "load")
  /\ aim' = [aim EXCEPT ![r] = p]
  /\ IF p = at[r] THEN UNCHANGED historyVars
     ELSE /\ disturbed' = disturbed \cup ({at[r], p} \cap Parents)
          /\ met' = met \cup {r} \cup (IF p = None THEN {} ELSE AtWork(p))
  /\ UNCHANGED <<doc, data, seen, from, text>>

\* An entry is loaded from its files; the hook of an attachment takes what the document of
\* the parent says.  A document that is not there is {}.
Load(r) ==
  LET p == aim[r]
      gone == kind[r] \in EntryKinds /\ entry[p] = None
  IN
  /\ Task(r, "load", IF gone THEN "done" ELSE "list")
  /\ seen' = [seen EXCEPT ![r] = IF kind[r] \in EntryKinds THEN entry[p] ELSE doc[p].says]
  /\ UNCHANGED <<doc, data, aim, from, text, historyVars>>

\* The attachments of an entry are looked for in its own directory; the hook of an attachment
\* looks under the path of the parent it has found, in the space self.data tells of by now.
Directory(r) == IF kind[r] \in EntryKinds THEN aim[r] ELSE <<data[on[r]].space, aim[r][2]>>
In(place) == IF place \in Parents THEN att[place] ELSE {}

\* get_entry_attachments lists the files and reads them one after the other.  When one of
\* them is gone by then, it returns no attachments at all.
List(r) ==
  /\ Task(r, "list", "read")
  /\ from' = [from EXCEPT ![r] = Directory(r)]
  /\ text' = [text EXCEPT ![r] = In(Directory(r))]
  /\ IF Directory(r) = aim[r] THEN UNCHANGED historyVars ELSE Disturb({aim[r]})
  /\ UNCHANGED <<doc, data, aim, seen>>

Read(r) ==
  /\ Task(r, "read", "save")
  /\ text' = [text EXCEPT ![r] = IF @ \subseteq In(from[r]) THEN @ ELSE {}]
  /\ from' = [from EXCEPT ![r] = None]
  /\ UNCHANGED <<doc, data, aim, seen, historyVars>>

\* The local variables of hooks that have come to their end
Forget(rs) ==
  /\ aim' = [r \in Requests |-> IF r \in rs THEN None ELSE aim[r]]
  /\ seen' = [r \in Requests |-> IF r \in rs THEN None ELSE seen[r]]
  /\ from' = [r \in Requests |-> IF r \in rs THEN None ELSE from[r]]
  /\ text' = [r \in Requests |-> IF r \in rs THEN {} ELSE text[r]]

Save(r) ==
  LET p == aim[r] IN
  /\ Task(r, "save", "done")
  /\ doc' = [doc EXCEPT ![p] = IF kind[r] = "remove" THEN NoDoc
                               ELSE [says |-> seen[r], text |-> text[r]]]
  /\ IF kind[r] \in EntryKinds \ {"apply"} /\ r \notin met
       THEN Vouch(p) ELSE UNCHANGED historyVars
  /\ Forget({r})
  /\ UNCHANGED data

Step(r) == \/ WriteAttachment(r) \/ WriteEntry(r) \/ Unlink(r)
TaskStep(r) == Start(r) \/ Route(r) \/ Load(r) \/ List(r) \/ Read(r) \/ Save(r)

(***************************************************************************)
(* A worker dies, with its requests, its hooks and what they were told.    *)
(***************************************************************************)
Lost(w) == {r \in Requests : on[r] = w /\ Active(r)}

Crash(w) ==
  /\ crashes < MaxCrashes /\ crashes' = crashes + 1
  /\ Lost(w) # {}
  /\ pc' = [r \in Requests |-> IF r \in Lost(w) THEN "done" ELSE pc[r]]
  /\ tpc' = [r \in Requests |-> IF r \in Lost(w) THEN "done" ELSE tpc[r]]
  /\ data' = [data EXCEPT ![w] = NoEvent]
  /\ Disturb(UNION {{at[r], aim[r]} \cap Parents :
                      r \in {q \in Lost(w) : tpc[q] \notin {"none", "done"}}})
  /\ Forget(Lost(w))
  /\ UNCHANGED <<fileVars, doc, jobVars>>

Next == \/ \E r \in Requests : Begin(r) \/ Step(r) \/ TaskStep(r)
        \/ \E w \in Workers : Crash(w)

Spec == Init /\ [][Next]_vars

\* The event loop of a worker runs every request and every task it has.
Fairness == \A r \in Requests : WF_vars(Step(r)) /\ WF_vars(TaskStep(r))

(***************************************************************************)
(* Properties                                                              *)
(***************************************************************************)
\* When nobody is at work at an entry, its document tells its content and exactly its
\* attachments, but for six things: two requests at the entry overlapped, another hook
\* started in the worker before the parent or before the space was read from self.data, an
\* attachment was written without its entry, an alteration was applied and its file gone too
\* late, or a hook died with its worker.
TextTruthful ==
  \A p \in Parents \ disturbed : AtWork(p) = {} => doc[p] = Told(p)

\* A change of an entry or of its attachments gets into the document, but for the same.
TextCatchesUp ==
  \A p \in Parents : (doc[p] # Told(p)) ~> (doc[p] = Told(p) \/ p \in disturbed)
=============================================================================
