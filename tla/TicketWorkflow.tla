---------------------------- MODULE TicketWorkflow ----------------------------
(***************************************************************************)
(* A ticket follows a workflow, a JSON document that lists, per state, the *)
(* actions that lead on and the roles that may take them.                  *)
(* PUT /managed/progress-ticket takes one action; ordinary updates write   *)
(* the same meta file.  Both load the file, work on what they loaded, write*)
(* all of it back and then append what they changed to history.jsonl, with *)
(* awaits in between: one action is what runs between two of them.         *)
(***************************************************************************)
EXTENDS Naturals, Sequences

CONSTANTS
  Requests,    \* requests to the ticket, each sent at most once
  Users,       \* who sends them
  Names,       \* names a state can have
  Actions,     \* actions of the workflow
  Roles,       \* roles of users
  RolesOf,     \* the roles of each user
  Resolutions, \* reasons to give with an action
  Default,     \* the magic role "default" of an initial state
  Initial,     \* workflow["initial_state"]
  Workflow,    \* workflow["states"]
  None,
  MaxSecond,   \* bound on the clock
  MaxCrashes   \* bound on the requests that die with their worker

Step == [action : Actions, state : Names, roles : SUBSET Roles]
\* An entry of the states list.  One without "next" is final; resolutions is
\* empty for one without "resolutions" (an empty list of them is not told apart).
Entry == [state : Names, final : BOOLEAN, next : Seq(Step), resolutions : SUBSET Resolutions]

ASSUME WorkflowAssumption ==
  /\ Workflow \in Seq(Entry)
  /\ Initial \in Seq([name : Names, roles : SUBSET (Roles \cup {Default})])
  /\ RolesOf \in [Users -> SUBSET Roles]
ASSUME NoneAssumption ==
  /\ None \notin Names /\ None \notin Resolutions /\ None \notin Requests /\ None \notin Nat
ASSUME BoundAssumption == MaxSecond \in Nat /\ MaxCrashes \in Nat

VARIABLES
  ticket,    \* the meta file, and (history) whose request decided its state
  history,   \* history.jsonl, the changes of the state
  comments,  \* the comment attachments: their shortname is the second
  clock,     \* now, in seconds
  pc,        \* where each request stands
  kind, who, \* what it does, and for whom
  was,       \* the ticket as it was loaded (old_version_flattend)
  obj,       \* the ticket about to be written (ticket_obj)
  stamp,     \* the second it took for its comment, None without one
  crashes,
  placed     \* history: states the ticket was put in without an action

requestVars == <<kind, who>>
vars == <<ticket, history, comments, clock, pc, requestVars, was, obj, stamp, crashes, placed>>

Tickets == [state : Names, open : BOOLEAN, reason : Resolutions \cup {None},
            by : Requests \cup {None}]
Points == {"idle", "transit", "change", "comment", "save", "record",
           "ok", "refused", "crashed"}
Seconds == 0..MaxSecond

TypeOK ==
  /\ ticket \in Tickets
  /\ history \in Seq([req : Requests, old : Names, new : Names])
  /\ comments \in [Seconds -> Requests \cup {None}]
  /\ clock \in Seconds
  /\ pc \in [Requests -> Points]
  /\ kind \in [Requests -> {"none", "progress", "update"}]
  /\ who \in [Requests -> Users \cup {None}]
  /\ was \in [Requests -> Tickets]
  /\ obj \in [Requests -> Tickets]
  /\ stamp \in [Requests -> Seconds \cup {None}]
  /\ crashes \in 0..MaxCrashes
  /\ placed \subseteq Names

(***************************************************************************)
(* The workflow                                                            *)
(***************************************************************************)
Named(n) == {i \in DOMAIN Workflow : Workflow[i].state = n}

\* The steps out of state n for action a, as positions in the document
Steps(n, a) ==
  UNION {{<<i, j>> : j \in {k \in DOMAIN Workflow[i].next : Workflow[i].next[k].action = a}}
         : i \in Named(n)}

\* Lexicographic, as the two loops of transite go
Before(p, q) == p[1] < q[1] \/ (p[1] = q[1] /\ p[2] < q[2])
StepAt(p) == Workflow[p[1]].next[p[2]]

First(P) == {p \in P : ~\E q \in P : Before(q, p)}

\* Fault: any state of the workflow has the action
LeadsFromAnywhere(n, a, rs) ==
  {StepAt(p).state : p \in {q \in UNION {Steps(m, a) : m \in Names} : StepAt(q).roles \cap rs # {}}}

\* Fault: nobody asks for the role
LeadsAnyone(n, a, rs) == {StepAt(p).state : p \in First(Steps(n, a))}

\* transite: the first step decides, also when only a later one names a role of
\* the user; a final entry of that name, met first, is a KeyError.
Leads(n, a, rs) ==
  {StepAt(p).state : p \in {q \in First(Steps(n, a)) :
                              /\ StepAt(q).roles \cap rs # {}
                              /\ \A k \in Named(n) : k < q[1] => ~Workflow[k].final}}

\* post_transite: the first entry of that name that has resolutions
Resolves(n, x) ==
  \E i \in Named(n) : /\ x \in Workflow[i].resolutions
                      /\ \A k \in Named(n) : k < i => Workflow[k].resolutions = {}

\* check_open_state: by the first entry of that name; a name the workflow does
\* not describe is open
HasNext(n) ==
  \A i \in Named(n) : (\A k \in Named(n) : i <= k) => ~Workflow[i].final

\* set_init_state_from_request: the first "default" is taken as such, any other
\* entry by role, and a role goes before the default.
FirstDefault(i) == /\ Default \in Initial[i].roles
                   /\ \A k \in DOMAIN Initial : k < i => Default \notin Initial[k].roles
ByRole(rs) == {i \in DOMAIN Initial : Initial[i].roles \cap rs # {} /\ ~FirstDefault(i)}
Chosen(rs) == {i \in DOMAIN Initial :
                 \/ i \in ByRole(rs) /\ \A k \in ByRole(rs) : i <= k
                 \/ ByRole(rs) = {} /\ FirstDefault(i)}
\* Without one the ticket cannot be created: state is a required string.
InitialState(rs) == {Initial[i].name : i \in Chosen(rs)}

(***************************************************************************)
(* Requests                                                                *)
(***************************************************************************)
\* A ticket right after its creation
Init ==
  /\ \E u \in Users : \E n \in InitialState(RolesOf[u]) :
       /\ ticket = [state |-> n, open |-> TRUE, reason |-> None, by |-> None]
       /\ placed = {n}
       /\ was = [r \in Requests |-> ticket]
       /\ obj = [r \in Requests |-> ticket]
  /\ history = <<>>
  /\ comments = [s \in Seconds |-> None]
  /\ clock = 0
  /\ pc = [r \in Requests |-> "idle"]
  /\ kind = [r \in Requests |-> "none"]
  /\ who = [r \in Requests |-> None]
  /\ stamp = [r \in Requests |-> None]
  /\ crashes = 0

Goto(r, from, to) == pc[r] = from /\ pc' = [pc EXCEPT ![r] = to]

\* A request arrives and loads the ticket; before that it reads nothing of it.
Load(r) ==
  /\ \E k \in {"progress", "update"} :
       /\ Goto(r, "idle", IF k = "progress" THEN "transit" ELSE "change")
       /\ kind' = [kind EXCEPT ![r] = k]
  /\ \E u \in Users : who' = [who EXCEPT ![r] = u]
  /\ was' = [was EXCEPT ![r] = ticket]
  /\ obj' = [obj EXCEPT ![r] = ticket]
  /\ UNCHANGED <<ticket, history, comments, clock, stamp, crashes, placed>>

\* Access denied, no such workflow, a uniqueness or schema error, no such action,
\* an unacceptable resolution, no permission to comment, somebody else's lock: at
\* any of these points the request can fail without having written the ticket.
Refuse(r) ==
  /\ \E p \in {"transit", "change", "comment", "save"} : Goto(r, p, "refused")
  /\ UNCHANGED <<ticket, history, comments, clock, requestVars, was, obj, stamp, crashes, placed>>

\* Fault: is_open is left as it was
MovedOnly(r, n) == [was[r] EXCEPT !.state = n, !.by = r]

Moved(r, n) == [was[r] EXCEPT !.state = n, !.open = HasNext(n), !.by = r]

\* handle_update_state, update_state_handle_resolution and, with a comment, its
\* shortname: all from what was loaded
Progress(r) ==
  /\ \/ Goto(r, "transit", "save") /\ UNCHANGED stamp
     \/ Goto(r, "transit", "comment") /\ stamp' = [stamp EXCEPT ![r] = clock]
  /\ \E a \in Actions : \E n \in Leads(was[r].state, a, RolesOf[who[r]]) :
     \E x \in Resolutions \cup {None} :
       /\ x # None => Resolves(n, x)
       /\ obj' = [obj EXCEPT ![r] =
                    IF x = None THEN Moved(r, n) ELSE [Moved(r, n) EXCEPT !.reason = x]]
  /\ UNCHANGED <<ticket, history, comments, clock, requestVars, was, crashes, placed>>

\* Fault: a closed ticket is progressed as well
TransitClosed(r) == Progress(r)

\* "Ticket is already in closed"
Transit(r) == was[r].open /\ Progress(r)

\* The comment is stored before the ticket is written, over any comment of the
\* same second.
StoreComment(r) ==
  /\ Goto(r, "comment", "save")
  /\ comments' = [comments EXCEPT ![stamp[r]] = r]
  /\ UNCHANGED <<ticket, history, clock, requestVars, was, obj, stamp, crashes, placed>>

\* update_from_record: state and is_open are attributes like others, so an update
\* can leave them alone or set them to anything of their type; what is not of
\* their type is refused when the meta file is serialized.
Change(r) ==
  /\ Goto(r, "change", "save")
  /\ \/ UNCHANGED obj
     \/ \E n \in Names, b \in BOOLEAN :
          obj' = [obj EXCEPT ![r] = [was[r] EXCEPT !.state = n, !.open = b, !.by = r]]
  /\ UNCHANGED <<ticket, history, comments, clock, requestVars, was, stamp, crashes, placed>>

\* db.update writes the whole file
Save(r) ==
  /\ Goto(r, "save", "record")
  /\ ticket' = obj[r]
  /\ placed' = IF kind[r] = "update" /\ obj[r].by = r THEN placed \cup {obj[r].state} ELSE placed
  /\ UNCHANGED <<history, comments, clock, requestVars, was, obj, stamp, crashes>>

\* Fault: the answer does not wait for the history
RecordNothing(r) ==
  /\ Goto(r, "record", "ok")
  /\ UNCHANGED <<ticket, history, comments, clock, requestVars, was, obj, stamp, crashes, placed>>

\* store_entry_diff: what changed between what was loaded and what was written
Record(r) ==
  /\ Goto(r, "record", "ok")
  /\ history' = IF was[r].state = obj[r].state THEN history
                ELSE Append(history, [req |-> r, old |-> was[r].state, new |-> obj[r].state])
  /\ UNCHANGED <<ticket, comments, clock, requestVars, was, obj, stamp, crashes, placed>>

Crash(r) ==
  /\ crashes < MaxCrashes
  /\ \E p \in {"transit", "change", "comment", "save", "record"} : Goto(r, p, "crashed")
  /\ crashes' = crashes + 1
  /\ UNCHANGED <<ticket, history, comments, clock, requestVars, was, obj, stamp, placed>>

Tick ==
  /\ clock < MaxSecond
  /\ clock' = clock + 1
  /\ UNCHANGED <<ticket, history, comments, pc, requestVars, was, obj, stamp, crashes, placed>>

Next == \/ \E r \in Requests : \/ Load(r) \/ Refuse(r) \/ Transit(r)
                               \/ StoreComment(r) \/ Change(r) \/ Save(r) \/ Record(r)
                               \/ Crash(r)
        \/ Tick

Spec == Init /\ [][Next]_vars

(***************************************************************************)
(* Properties                                                              *)
(***************************************************************************)
\* The workflow leads from n to m, for a user with roles rs
Allows(n, m, rs) ==
  \E i \in Named(n) : \E j \in DOMAIN Workflow[i].next :
    Workflow[i].next[j].state = m /\ Workflow[i].next[j].roles \cap rs # {}

Targets(i) == {Workflow[i].next[j].state : j \in DOMAIN Workflow[i].next}
Closed(S) == \A i \in DOMAIN Workflow : Workflow[i].state \in S => Targets(i) \subseteq S

\* The state of a ticket is one the workflow reaches by its own steps from where
\* the ticket was put, by its creation or by an update: whatever requests
\* overlap, write back what they loaded long ago or die, no other state appears.
\* (No set of states that leaves it out holds those states and all their successors.)
OnWorkflow == \A S \in SUBSET (Names \ {ticket.state}) : placed \subseteq S => ~Closed(S)

\* is_open says whether the workflow has anything left to do, after a transition
\* and also after other requests have written the ticket back; only an update
\* that sets state or is_open itself can set them apart.
OpenMeansNext ==
  ticket.by # None /\ kind[ticket.by] = "progress" => ticket.open = HasNext(ticket.state)

\* history.jsonl holds no transition that its author was not entitled to.
HistoryLegal ==
  \A i \in DOMAIN history :
    LET h == history[i] IN
    kind[h.req] = "progress" => Allows(h.old, h.new, RolesOf[who[h.req]])

RecordedBy(r) == \E i \in DOMAIN history : history[i].req = r

\* Success means that the change of the state is in the history and the comment
\* in its place, unless a comment of the same second took it; refusal means that
\* neither the ticket nor its history shows a trace.
AnswerIsTrue ==
  \A r \in Requests :
    /\ pc[r] = "ok" => /\ was[r].state # obj[r].state => RecordedBy(r)
                       /\ stamp[r] # None =>
                            /\ comments[stamp[r]] # None
                            /\ stamp[comments[stamp[r]]] = stamp[r]
    /\ pc[r] = "refused" => ~RecordedBy(r) /\ ticket.by # r

\* A closed ticket opens again only by a request that loaded it while it was
\* open, or by an update that sets is_open: nobody progresses a ticket that was
\* closed when he looked, and nobody who leaves is_open alone opens it.
ReopenOvertaken ==
  [][~ticket.open /\ ticket'.open =>
       \E r \in Requests : pc'[r] # pc[r] /\ (was[r].open \/ (kind[r] = "update" /\ obj[r] # was[r]))]_vars
=============================================================================
