------------------------------- MODULE Campaign -------------------------------
(***************************************************************************)
(* Scheduled notifications.  An administrator writes a request; cron runs  *)
(* scheduled_notification_handler, a program of its own, which searches    *)
(* the index for requests that are due and not finished, stores a          *)
(* notification for the receivers of each and then marks it as finished,   *)
(* in its file and in the index.  A run takes the requests one after the   *)
(* other; it may overlap with the run before it and with the               *)
(* administrator's edits.  What a request asks for besides, that it be     *)
(* sent to platforms, no run gets to: there the handler raises.            *)
(***************************************************************************)
EXTENDS Naturals, FiniteSets

CONSTANTS
  Notes,       \* the requests
  People,      \* users
  None,
  PushOnly,    \* requests that leave nothing in the receivers' folders
  Requests,    \* bound on what they ask for
  Runs,        \* runs of the handler
  Edits,       \* edits of the administrator
  MaxFaults,   \* bound on runs that die and on saves that fail
  MaxRemovals  \* bound on requests that are deleted

ASSUME NoteAssumption == PushOnly \subseteq Notes
ASSUME RequestAssumption ==
  Requests \subseteq [Notes -> [for : SUBSET People, named : BOOLEAN, refused : BOOLEAN]]
ASSUME NameAssumption == None \notin Notes \cup People
ASSUME BoundAssumption == MaxFaults \in Nat /\ MaxRemovals \in Nat

VARIABLES
  asked,       \* what a request asks for: who receives it, whether it names platforms to be
               \* sent to, and whether prepare_request raises for it
  status,      \* of a request, in its payload file
  doc,         \* and in its document
  phase,       \* scheduled_at lies ahead, within the last 15 minutes, or before them
  inbox,       \* how many notifications of a request a receiver has stored
  pc,          \* where a run stands
  todo,        \* the requests it found and has not come to
  note,        \* the one it is at
  left,        \* the receivers it has yet to store it for
  held,        \* the status in the payload it has loaded
  epc,         \* where an edit and its hook stand
  subject,     \* the request of an edit
  read,        \* the status in the payload it has loaded
  dropping,    \* deleted requests whose document is still to be deleted
  faults, removals,
  searched,    \* history: requests whose time a run has looked for them in
  repeated,    \* history: requests that a run left unfinished, or that two had at once
  passed       \* history: requests whose run ended before it had told everybody

runVars == <<pc, todo, note, left, held>>
editVars == <<epc, subject, read, dropping>>
vars == <<asked, status, doc, phase, inbox, runVars, editVars, faults, removals, searched,
          repeated, passed>>

Statuses == {"open", "finished", "gone"}
TypeOK ==
  /\ asked \in Requests
  /\ status \in [Notes -> Statuses] /\ doc \in [Notes -> Statuses]
  /\ phase \in [Notes -> {"ahead", "due", "over"}]
  /\ inbox \in [Notes -> [People -> Nat]]
  /\ pc \in [Runs -> {"idle", "next", "prepare", "save", "send", "load", "read", "write",
                      "index", "done"}]
  /\ todo \in [Runs -> SUBSET Notes] /\ note \in [Runs -> Notes \cup {None}]
  /\ left \in [Runs -> SUBSET People] /\ held \in [Runs -> Statuses]
  /\ epc \in [Edits -> {"idle", "write", "hook", "put", "done"}]
  /\ subject \in [Edits -> Notes \cup {None}] /\ read \in [Edits -> Statuses]
  /\ dropping \subseteq Notes
  /\ faults \in 0..MaxFaults /\ removals \in 0..MaxRemovals
  /\ searched \subseteq Notes /\ repeated \subseteq Notes /\ passed \subseteq Notes

Init ==
  /\ asked \in Requests
  /\ status = [n \in Notes |-> "open"] /\ doc = status
  /\ phase = [n \in Notes |-> "ahead"]
  /\ inbox = [n \in Notes |-> [u \in People |-> 0]]
  /\ pc = [c \in Runs |-> "idle"] /\ todo = [c \in Runs |-> {}]
  /\ note = [c \in Runs |-> None] /\ left = [c \in Runs |-> {}]
  /\ held = [c \in Runs |-> "gone"]
  /\ epc = [e \in Edits |-> "idle"] /\ subject = [e \in Edits |-> None]
  /\ read = [e \in Edits |-> "gone"]
  /\ dropping = {} /\ faults = 0 /\ removals = 0
  /\ searched = {} /\ repeated = {} /\ passed = {}

(***************************************************************************)
(* A run of the handler                                                    *)
(***************************************************************************)
Goto(c, p) == pc' = [pc EXCEPT ![c] = p]
Working(c) == pc[c] \notin {"idle", "done"}
InHand(c) == todo[c] \cup ({note[c]} \ {None})

\* A receiver has what the request asks for: it is stored, unless the request is for the
\* devices only, and sent to the platforms it names, which never happens.
Told(n, u) == (n \in PushOnly \/ inbox[n][u] > 0) /\ ~asked[n].named
AllTold(n) == \A u \in asked[n].for : Told(n, u)

\* Fault: the search does not leave out what is finished
DueAnyway == {n \in Notes : phase[n] = "due" /\ doc[n] # "gone"}

\* @scheduled_at within the last 15 minutes, and -@status:finished
Due == {n \in Notes : phase[n] = "due" /\ doc[n] = "open"}

Search(c) ==
  /\ pc[c] = "idle"
  /\ Goto(c, IF Due = {} THEN "done" ELSE "next")
  /\ todo' = [todo EXCEPT ![c] = Due]
  /\ searched' = searched \cup {n \in Notes : phase[n] = "due"}
  /\ repeated' = repeated \cup UNION {Due \cap InHand(o) : o \in {o \in Runs \ {c} : Working(o)}}
  /\ UNCHANGED <<asked, status, doc, phase, inbox, note, left, held, editVars, faults, removals,
                 passed>>

Stop(c) == /\ Goto(c, "done")
           /\ todo' = [todo EXCEPT ![c] = {}] /\ note' = [note EXCEPT ![c] = None]
           /\ left' = [left EXCEPT ![c] = {}]

\* The rest of the run does not take place.
Dies(c) == Stop(c) /\ passed' = passed \cup InHand(c) /\ repeated' = repeated \cup ({note[c]} \ {None})

\* The next request of the loop
Take(c) ==
  /\ pc[c] = "next"
  /\ \/ todo[c] = {} /\ Stop(c)
     \/ \E n \in todo[c] : /\ todo' = [todo EXCEPT ![c] = @ \ {n}]
                           /\ note' = [note EXCEPT ![c] = n]
                           /\ Goto(c, "prepare") /\ UNCHANGED left
  /\ UNCHANGED <<asked, status, doc, phase, inbox, held, editVars, faults, removals,
                 searched, repeated, passed>>

\* Where it goes when it has yet to be stored for l
Onward(l) == IF l = {} THEN "load" ELSE "save"

\* prepare_request wants the media attachments to be a mapping, and they are a list; it wants a
\* title and a text.  Its exceptions end the run.  What is only sent is not stored.
Prepare(c) ==
  LET n == note[c]
      l == IF n \in PushOnly THEN {} ELSE asked[n].for
  IN
  /\ pc[c] = "prepare"
  /\ IF asked[n].refused
       THEN Dies(c)
       ELSE /\ Goto(c, IF n \in PushOnly /\ asked[n].named /\ asked[n].for # {} THEN "send" ELSE Onward(l))
            /\ left' = [left EXCEPT ![c] = l]
            /\ UNCHANGED <<todo, note, repeated, passed>>
  /\ UNCHANGED <<asked, status, doc, phase, inbox, held, editVars, faults, removals, searched>>

\* internal_save_model of a notification with a name of its own, for the next in the order of
\* the search
Save(c) ==
  /\ pc[c] = "save"
  /\ \E u \in left[c] : /\ inbox' = [inbox EXCEPT ![note[c]][u] = @ + 1]
                        /\ left' = [left EXCEPT ![c] = @ \ {u}]
  /\ Goto(c, IF asked[note[c]].named THEN "send" ELSE Onward(left'[c]))
  /\ UNCHANGED <<asked, status, doc, phase, todo, note, held, editVars, faults, removals,
                 searched, repeated, passed>>

\* An exception while it stores, sends or marks is logged: the request is left as it is, and
\* the next has its turn.
BreaksOff(c) ==
  /\ Goto(c, "next")
  /\ repeated' = repeated \cup {note[c]} /\ passed' = passed \cup {note[c]}
  /\ note' = [note EXCEPT ![c] = None] /\ left' = [left EXCEPT ![c] = {}]
  /\ held' = [held EXCEPT ![c] = "gone"]
  /\ UNCHANGED <<asked, status, doc, phase, inbox, todo, editVars, removals, searched>>

\* Fault: the exception is the platform's, and the next receiver has his turn
SendGoesOn(c) ==
  /\ pc[c] = "send"
  /\ Goto(c, Onward(left[c]))
  /\ UNCHANGED <<asked, status, doc, phase, inbox, todo, note, left, held, editVars, faults, removals,
                 searched, repeated, passed>>

\* A NotificationData is made for the first platform, with a name for its receiver where it wants
\* a dict: the ValidationError comes before NotificationManager.send is called.
Send(c) == pc[c] = "send" /\ BreaksOff(c) /\ UNCHANGED faults

\* Whatever else may fail
Fails(c) ==
  /\ pc[c] \in {"save", "load", "read", "write", "index"} /\ faults < MaxFaults
  /\ faults' = faults + 1
  /\ BreaksOff(c)

\* db.load_or_none.  When the request is gone, so is the rest of the run.
Load(c) ==
  /\ pc[c] = "load"
  /\ IF status[note[c]] = "gone" THEN Dies(c)
     ELSE Goto(c, "read") /\ UNCHANGED <<todo, note, left, repeated, passed>>
  /\ UNCHANGED <<asked, status, doc, phase, inbox, held, editVars, faults, removals, searched>>

\* internal_sys_update_model: the payload is loaded, ...
Read(c) ==
  /\ pc[c] = "read"
  /\ held' = [held EXCEPT ![c] = status[note[c]]]
  /\ Goto(c, "write")
  /\ UNCHANGED <<asked, status, doc, phase, inbox, todo, note, left, editVars, faults, removals,
                 searched, repeated, passed>>

\* ... and written with the new status.  Without one, or when the meta file has
\* gone in the meantime, nothing is.
Write(c) ==
  /\ pc[c] = "write"
  /\ IF "gone" \in {held[c], status[note[c]]}
       THEN /\ Goto(c, "next") /\ note' = [note EXCEPT ![c] = None]
            /\ repeated' = repeated \cup {note[c]} /\ UNCHANGED status
       ELSE /\ status' = [status EXCEPT ![note[c]] = "finished"]
            /\ Goto(c, "index") /\ UNCHANGED <<note, repeated>>
  /\ held' = [held EXCEPT ![c] = "gone"]
  /\ UNCHANGED <<asked, doc, phase, inbox, todo, left, editVars, faults, removals,
                 searched, passed>>

\* Fault: the run ends with the first request it has finished
IndexReturns(c) ==
  /\ pc[c] = "index"
  /\ doc' = [doc EXCEPT ![note[c]] = "finished"]
  /\ Stop(c)
  /\ UNCHANGED <<asked, status, phase, inbox, held, editVars, faults, removals,
                 searched, repeated, passed>>

\* save_payload_doc
Index(c) ==
  /\ pc[c] = "index"
  /\ doc' = [doc EXCEPT ![note[c]] = "finished"]
  /\ note' = [note EXCEPT ![c] = None] /\ Goto(c, "next")
  /\ UNCHANGED <<asked, status, phase, inbox, todo, left, held, editVars, faults, removals,
                 searched, repeated, passed>>

Crash(c) ==
  /\ Working(c) /\ faults < MaxFaults
  /\ faults' = faults + 1
  /\ Dies(c) /\ held' = [held EXCEPT ![c] = "gone"]
  /\ UNCHANGED <<asked, status, doc, phase, inbox, editVars, removals, searched>>

(***************************************************************************)
(* The administrator                                                       *)
(***************************************************************************)
EditGoto(e, p) == epc' = [epc EXCEPT ![e] = p]
EditOnly == UNCHANGED <<asked, phase, inbox, runVars, faults, removals, dropping, searched, passed>>
Reopens(n, was, is) == repeated' = IF was # "open" /\ is = "open" THEN repeated \cup {n} ELSE repeated

\* /managed/request, update: the old payload is loaded, ...
EditLoad(e) ==
  /\ epc[e] = "idle"
  /\ \E n \in Notes : /\ status[n] # "gone"
                      /\ subject' = [subject EXCEPT ![e] = n]
                      /\ read' = [read EXCEPT ![e] = status[n]]
  /\ EditGoto(e, "write")
  /\ EditOnly /\ UNCHANGED <<status, doc, repeated>>

\* ... and written back with the change merged in, the status as it was loaded.
EditWrite(e) ==
  LET n == subject[e] IN
  /\ epc[e] = "write"
  /\ IF status[n] = "gone"
       THEN EditGoto(e, "done") /\ UNCHANGED <<asked, status, repeated>>
       ELSE /\ status' = [status EXCEPT ![n] = read[e]]
            /\ Reopens(n, status[n], read[e]) /\ EditGoto(e, "hook")
  /\ EditOnly /\ UNCHANGED <<doc, subject, read>>

\* redis_db_update
EditHookLoad(e) ==
  LET n == subject[e] IN
  /\ epc[e] = "hook"
  /\ IF status[n] = "gone"
       THEN EditGoto(e, "done") /\ UNCHANGED read
       ELSE EditGoto(e, "put") /\ read' = [read EXCEPT ![e] = status[n]]
  /\ EditOnly /\ UNCHANGED <<status, doc, subject, repeated>>

EditHookPut(e) ==
  LET n == subject[e] IN
  /\ epc[e] = "put"
  /\ doc' = [doc EXCEPT ![n] = read[e]]
  /\ Reopens(n, doc[n], read[e]) /\ EditGoto(e, "done")
  /\ EditOnly /\ UNCHANGED <<status, subject, read>>

Remove(n) ==
  /\ removals < MaxRemovals /\ status[n] # "gone"
  /\ removals' = removals + 1
  /\ status' = [status EXCEPT ![n] = "gone"] /\ dropping' = dropping \cup {n}
  /\ UNCHANGED <<asked, doc, phase, inbox, runVars, epc, subject, read, faults, searched,
                 repeated, passed>>

Unindex(n) ==
  /\ n \in dropping
  /\ dropping' = dropping \ {n} /\ doc' = [doc EXCEPT ![n] = "gone"]
  /\ UNCHANGED <<asked, status, phase, inbox, runVars, epc, subject, read, faults, removals,
                 searched, repeated, passed>>

\* Time goes by.  Cron runs the handler more often than every 15 minutes.
Tick(n) ==
  /\ phase' = [phase EXCEPT ![n] = IF @ = "ahead" THEN "due" ELSE "over"]
  /\ phase[n] = "ahead" \/ (phase[n] = "due" /\ n \in searched)
  /\ UNCHANGED <<asked, status, doc, inbox, runVars, editVars, faults, removals, searched,
                 repeated, passed>>

RunStep(c) == \/ Search(c) \/ Take(c) \/ Prepare(c) \/ Save(c) \/ Send(c) \/ Fails(c)
              \/ Load(c) \/ Read(c) \/ Write(c) \/ Index(c)
EditStep(e) == EditLoad(e) \/ EditWrite(e) \/ EditHookLoad(e) \/ EditHookPut(e)

Next == \/ \E c \in Runs : RunStep(c) \/ Crash(c)
        \/ \E e \in Edits : EditStep(e)
        \/ \E n \in Notes : Remove(n) \/ Unindex(n) \/ Tick(n)

Spec == Init /\ [][Next]_vars

(***************************************************************************)
(* Properties                                                              *)
(***************************************************************************)
\* Nobody has two notifications of a request, unless a run broke off while it stored, sent
\* or marked it, two runs had it at once, it was deleted at the time, or an edit that had
\* loaded it before it was finished opened it again.  Naming a platform breaks off every run:
\* the next one stores it again.
ToldOnce ==
  \A n \in Notes \ repeated, u \in People : inbox[n][u] <= 1

\* What is marked as finished, in its file or in the index, has been stored for every receiver,
\* and names no platform if there is one: nothing is finished that was to be sent.
MarkedWhenTold ==
  \A n \in Notes : "finished" \in {status[n], doc[n]} => AllTold(n)

\* When its time is over and no run is at it, everybody has what a request asks for, unless a
\* run that had found it broke off: at this request, or at an earlier one that ended the run.
NotForgotten ==
  \A n \in Notes :
    (phase[n] = "over" /\ \A c \in Runs : n \notin InHand(c))
      => AllTold(n) \/ n \in passed \/ status[n] = "gone"
=============================================================================
