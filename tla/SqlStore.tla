------------------------------- MODULE SqlStore -------------------------------
(***************************************************************************)
(* The SQL adapter, where a table is to hold one row for a key.  No table  *)
(* has a unique constraint but on its uuid, so that the methods look       *)
(* before they write.  A worker runs a method to its end, for nothing in   *)
(* it waits; but there are as many workers as processors, each with a      *)
(* connection of its own, and their statements interleave.  A request to   *)
(* create an entry looks in one method and inserts in another, and between *)
(* them it waits.  What follows is one key of one table, whichever it is.  *)
(***************************************************************************)
EXTENDS Naturals, FiniteSets

CONSTANTS
  Workers,     \* processes
  Tasks,       \* requests in flight
  People,      \* who locks
  None,        \* nobody, or somebody: only with a lock it matters who asks
  MaxCalls     \* bound on the calls of a behaviour

ASSUME NobodyAssumption == None \notin People
ASSUME BoundAssumption == MaxCalls \in Nat

\* The tables with the calls that reach a key of theirs: the session of a user, his
\* session for one_session_per_user, his failed attempts, an invitation, a lock, an entry.
\* A move is two calls: the entry leaves one key and arrives at another.
Calls == [
  session    |-> {"login", "visit", "logout"},
  active     |-> {"login", "visit", "logout"},
  attempts   |-> {"fail", "clear"},
  invitation |-> {"invite", "accept"},
  lock       |-> {"lock", "cancel"},
  entry      |-> {"create", "upload", "update", "remove", "leave", "arrive"}]
CallNames == UNION {Calls[k] : k \in DOMAIN Calls}

Rows == [id : 1..MaxCalls, owner : People \cup {None}]

VARIABLES
  table,       \* which table this is
  rows,        \* the rows with the key
  old,         \* those of them that are past their expiry
  calls,       \* calls made
  pc, call, who, on, nr,  \* of a task: the statement it comes to, its call, user, worker and
               \* the number of the call, the uuid of what it inserts
  got,         \* the rows its last select returned
  copy,        \* what an update is going to write over the row: the entry as its handler has it
  away,        \* uuids of rows that moved to another key
  handed,      \* history: how often an invitation was handed out
  mixed,       \* history: a statement fell between two of a method of another worker
  over,        \* history: an upload went over an entry that was there, or a create over one
               \* that had come since it looked
  twice,       \* history: a user cancelled his lock twice at once
  removed,     \* history: uuids of entries that were removed
  orphans,     \* history: rows of calls that were answered with an error
  wronged      \* history: rows that a call removed and should not have

taskVars == <<pc, call, who, on, nr, got, copy>>
errorVars == <<removed, orphans>>
historyVars == <<handed, mixed, over, twice, wronged, errorVars>>
vars == <<table, rows, old, away, calls, taskVars, historyVars>>

TypeOK ==
  /\ table \in DOMAIN Calls
  /\ rows \subseteq Rows /\ old \subseteq Rows /\ wronged \subseteq Rows /\ orphans \subseteq Rows
  /\ away \subseteq 1..calls /\ removed \subseteq 1..calls
  /\ \A r, s \in rows : r.id = s.id => r = s
  /\ \A r \in rows : r.id <= calls
  /\ calls \in 0..MaxCalls /\ handed \in Nat
  /\ pc \in [Tasks -> {"idle", "gap", "delete", "insert", "checked", "write"}]
  /\ call \in [Tasks -> CallNames \cup {"none"}]
  /\ \A t \in Tasks : pc[t] # "idle" => call[t] \in Calls[table]
  /\ who \in [Tasks -> People \cup {None}]
  /\ on \in [Tasks -> Workers] /\ nr \in [Tasks -> 0..calls]
  /\ got \in [Tasks -> SUBSET Rows] /\ copy \in [Tasks -> SUBSET Rows]
  /\ mixed \in BOOLEAN /\ over \in BOOLEAN /\ twice \in BOOLEAN

Init ==
  /\ table \in DOMAIN Calls
  /\ rows = {} /\ old = {} /\ calls = 0
  /\ pc = [t \in Tasks |-> "idle"] /\ call = [t \in Tasks |-> "none"]
  /\ who = [t \in Tasks |-> None] /\ on \in [Tasks -> Workers]
  /\ nr = [t \in Tasks |-> 0]
  /\ got = [t \in Tasks |-> {}] /\ copy = got /\ away = {}
  /\ removed = {} /\ orphans = {}
  /\ handed = 0 /\ mixed = FALSE /\ over = FALSE /\ twice = FALSE /\ wronged = {}

(***************************************************************************)
(* Workers                                                                 *)
(***************************************************************************)
\* A task is in a method if it has sent a statement of it and not the last one.
Inside(t) == pc[t] \in {"delete", "insert", "write"}

\* Its worker is free for t: no other task of that worker is in a method.
Turn(t) == \A u \in Tasks \ {t} : on[u] = on[t] => ~Inside(u)

Mix(t) == mixed' = (mixed \/ \E u \in Tasks \ {t} : Inside(u))

\* Task t comes to statement l of call c, having selected the rows g.  The first select of
\* an update returns what its handler works on.
To(t, l, c, p, n, g) ==
  LET idle == l = "idle" IN
  /\ pc' = [pc EXCEPT ![t] = l]
  /\ call' = [call EXCEPT ![t] = IF idle THEN "none" ELSE c]
  /\ who' = [who EXCEPT ![t] = IF idle THEN None ELSE p]
  /\ nr' = [nr EXCEPT ![t] = IF idle THEN 0 ELSE n]
  /\ got' = [got EXCEPT ![t] = IF idle THEN {} ELSE g]
  /\ copy' = [copy EXCEPT ![t] = IF idle THEN {}
                                 ELSE IF pc[t] = "idle" /\ c = "update" THEN g ELSE @]

Step(t, l, g) == Turn(t) /\ Mix(t) /\ To(t, l, call[t], who[t], nr[t], g)

Begin(t, c, p, l, g) ==
  /\ pc[t] = "idle" /\ calls < MaxCalls /\ c \in Calls[table]
  /\ p \in IF table = "lock" THEN People ELSE {None}
  /\ Turn(t) /\ Mix(t)
  /\ calls' = calls + 1
  /\ To(t, l, c, p, calls + 1, g)

Row(p, n) == [id |-> n, owner |-> p]
Exists == rows # {}
Doubled == Cardinality(rows) > 1

(***************************************************************************)
(* Calls whose first statement selects the row                             *)
(***************************************************************************)
\* Fault: who has the lock already gets it once more.
NextStatementOwnLock(c, p) ==
  IF Doubled THEN "idle" ELSE
  CASE c = "lock" /\ {r \in rows : r.owner # p} = {} -> "insert"
    [] OTHER -> "idle"

\* Fault: whoever asks may cancel.
NextStatementAnyCancel(c, p) ==
  IF Doubled THEN "idle" ELSE
  CASE c = "lock" /\ rows = {} -> "insert"
    [] c = "cancel" /\ rows # {} -> "gap"
    [] OTHER -> "idle"

\* Fault: the first of the rows is taken.
NextStatementFirst(c, p) ==
  CASE c = "login" -> IF rows = {} THEN "insert" ELSE "delete"
    [] c = "lock" /\ rows = {} -> "insert"
    [] c = "create" /\ rows = {} -> "checked"
    [] c = "cancel" /\ {r \in rows : r.owner = p} # {} -> "gap"
    [] c = "remove" /\ rows # {} -> "gap"
    [] OTHER -> "idle"

\* Fault: a create does not look whether there is an entry.
NextStatementUnasked(c, p) ==
  CASE c = "create" -> "checked"
    [] c = "update" /\ Exists /\ ~Doubled -> "gap"
    [] OTHER -> "idle"

\* What comes after the select.  One row is asked for: if there are two the method raises.
NextStatement(c, p) ==
  IF Doubled THEN "idle" ELSE
  CASE c = "login" -> IF Exists THEN "delete" ELSE "insert"
    [] c = "visit" /\ Exists /\ rows \subseteq old -> "delete"
    [] c = "accept" /\ Exists -> "delete"
    [] c \in {"lock", "arrive"} /\ ~Exists -> "insert"
    [] c = "create" /\ ~Exists -> "checked"
    [] c = "cancel" /\ {r \in rows : r.owner = p} # {} -> "gap"
    [] c \in {"update", "remove", "leave"} /\ Exists -> "gap"
    [] c = "fail" -> "gap"
    [] OTHER -> "idle"

Select(t, c, p) ==
  /\ c \notin {"logout", "clear", "invite", "upload"}
  /\ c = "login" => table # "active"
  /\ Begin(t, c, p, NextStatement(c, p), rows)
  /\ twice' = (twice \/ (c = "cancel" /\ \E u \in Tasks \ {t} :
                            pc[u] = "gap" /\ who[u] = p))
  /\ UNCHANGED <<table, rows, old, away, handed, over, wronged, errorVars, on>>

(***************************************************************************)
(* Calls that delete or insert at once                                     *)
(***************************************************************************)
\* set_sql_active_session looks at a coroutine that nobody awaits: it is never None, and
\* so the rows are removed whether there are any or not.
DeleteFirst(t, c, p) ==
  /\ c \in {"logout", "clear"} \/ (c = "login" /\ table = "active")
  /\ Begin(t, c, p, IF c = "login" THEN "insert" ELSE "idle", {})
  /\ rows' = {}
  /\ UNCHANGED <<table, old, away, handed, over, twice, wronged, errorVars, on>>

\* An invitation has a token of its own.  An upload, resource_with_payload, saves its
\* entry without asking whether there is one, and then reads the file it was sent.
InsertFirst(t, c, p) ==
  /\ c = "upload" \/ (c = "invite" /\ calls = 0)
  /\ Begin(t, c, p, IF c = "upload" THEN "gap" ELSE "idle", {})
  /\ rows' = rows \cup {Row(p, calls + 1)}
  /\ over' = (over \/ (c = "upload" /\ rows # {}))
  /\ UNCHANGED <<table, old, away, handed, twice, wronged, errorVars, on>>

(***************************************************************************)
(* The statements that follow                                              *)
(***************************************************************************)
StatementAgain(t) ==
  IF call[t] = "fail" THEN (IF Exists THEN "idle" ELSE "insert")
  ELSE IF ~Exists \/ Doubled THEN "idle"
  ELSE IF call[t] \in {"remove", "leave"} THEN "delete" ELSE "write"

Own(t) == {r \in rows : r.id = nr[t]}
Refuse(t) ==
  orphans' = IF call[t] \in {"create", "upload"} THEN orphans \cup Own(t) ELSE orphans

\* The second method of a request: the count is set, the entry updated, removed, moved or
\* given its payload, which is an update.  It selects the row once more, and fails if there
\* is none, or two.  In a gap hooks run, and other requests.
SelectAgain(t) ==
  /\ pc[t] = "gap" /\ call[t] # "cancel"
  /\ Step(t, StatementAgain(t), rows)
  /\ IF StatementAgain(t) = "idle" THEN Refuse(t) ELSE UNCHANGED orphans
  /\ UNCHANGED <<table, rows, old, away, handed, over, twice, wronged, removed, calls, on>>

Unlock(t) ==
  /\ pc[t] = "gap" /\ call[t] = "cancel" /\ Step(t, "idle", {})
  /\ rows' = {}
  /\ wronged' = wronged \cup {r \in rows : r.owner # who[t]}
  /\ UNCHANGED <<table, old, away, handed, over, twice, errorVars, calls, on>>

Ids(R) == {r.id : r \in R}

\* All rows of the key are deleted, but an entry by its uuid.  The invitation that was found
\* is handed out even if the delete finds nothing any more.
Delete(t) ==
  /\ pc[t] = "delete" /\ call[t] # "leave"
  /\ Step(t, IF call[t] = "login" THEN "insert" ELSE "idle", {})
  /\ rows' = IF call[t] = "remove" THEN rows \ got[t] ELSE {}
  /\ removed' = removed \cup (IF call[t] = "remove" THEN Ids(rows \cap got[t]) ELSE {})
  /\ wronged' = wronged \cup (IF call[t] = "visit" THEN rows \ old ELSE {})
  /\ handed' = IF call[t] = "accept" THEN handed + 1 ELSE handed
  /\ UNCHANGED <<table, old, away, over, twice, orphans, calls, on>>

\* A move looks at the other key, where the entry may be refused, and then gives the row
\* that key, if the row is still there.
Leave(t) ==
  /\ pc[t] = "delete" /\ call[t] = "leave" /\ Step(t, "idle", {})
  /\ \/ rows' = rows \ got[t] /\ away' = away \cup Ids(rows \cap got[t])
     \/ UNCHANGED <<rows, away>>
  /\ UNCHANGED <<table, old, handed, over, twice, wronged, errorVars, calls, on>>

Insert(t) ==
  /\ pc[t] = "insert" /\ Step(t, "idle", {})
  /\ rows' = rows \cup {Row(who[t], nr[t])}
  /\ UNCHANGED <<table, old, away, handed, over, twice, wronged, errorVars, calls, on>>

\* A create has found nothing and waited for files: the folder's unique fields, the schema.
\* It inserts without looking again.  Its payload follows, after the message to a new user.
Create(t) ==
  /\ pc[t] = "checked" /\ Step(t, "gap", {})
  /\ rows' = rows \cup {Row(who[t], nr[t])}
  /\ over' = (over \/ (got[t] = {} /\ rows # {}))
  /\ UNCHANGED <<table, old, away, handed, twice, wronged, errorVars, calls, on>>

\* What is written: an update's copy, or what an upload or create has inserted, with its
\* payload.
New(t) == IF call[t] = "update" THEN copy[t] ELSE {Row(who[t], nr[t])}

\* Fault: the copy is written whether the row is there or not.
WriteAnyway(t) ==
  /\ pc[t] = "write" /\ Step(t, "idle", {})
  /\ rows' = (rows \ got[t]) \cup New(t)
  /\ UNCHANGED <<table, old, away, handed, over, twice, wronged, errorVars, calls, on>>

\* The copy goes over the row that was selected last, uuid and all, though it may have been
\* made of another row.  The statement fails if that row is gone, or the uuid is taken.
Write(t) ==
  LET taken == away \cup Ids(rows \ got[t])
      works == got[t] \subseteq rows /\ Ids(New(t)) \cap taken = {}
  IN
  /\ pc[t] = "write" /\ Step(t, "idle", {})
  /\ IF works THEN rows' = (rows \ got[t]) \cup New(t) /\ UNCHANGED orphans
              ELSE Refuse(t) /\ UNCHANGED rows
  /\ UNCHANGED <<table, old, away, handed, over, twice, wronged, removed, calls, on>>

\* jwt_access_expires passes for a row.
Age(r) ==
  /\ table \in {"session", "active"} /\ r \in rows \ old
  /\ old' = old \cup {r}
  /\ UNCHANGED <<table, rows, away, calls, taskVars, historyVars>>

Next ==
  \/ \E t \in Tasks :
       \/ \E c \in CallNames, p \in People \cup {None} :
            Select(t, c, p) \/ DeleteFirst(t, c, p) \/ InsertFirst(t, c, p)
       \/ SelectAgain(t) \/ Unlock(t) \/ Delete(t) \/ Leave(t) \/ Insert(t)
       \/ Create(t) \/ Write(t)
  \/ \E r \in rows : Age(r)

Spec == Init /\ [][Next]_vars

(***************************************************************************)
(* Properties                                                              *)
(***************************************************************************)
\* A key has two rows only if a statement of one worker fell between two of another's method,
\* an upload went over an entry, or two requests of any workers had looked for an entry before
\* either was there: every other method that inserts has looked in the same breath.
OneRow == Doubled => mixed \/ over

\* No cancelling removes another user's lock, no visit a session that is not expired, and
\* no invitation is handed out twice, but for such an interleaving -- or, with the lock, for
\* two cancellings of one user at once: the second removes what was locked between them.
NoWrong == (wronged # {} => mixed \/ twice) /\ (handed > 1 => mixed)

\* A create or an upload that is answered with an error has left no row, but for such an
\* interleaving, an upload over an entry or a create over one that came after it had looked:
\* its row is there, and its payload is refused.
RefusedLeavesNothing == orphans # {} => mixed \/ over

\* A removed entry never comes back out of nothing, however late an update that has read it
\* writes: the row it wants is gone.  (It may come back in the place of another entry that
\* was created since, under its old uuid.)
NothingRevived ==
  [][rows = {} => \A r \in rows' : r.id \notin removed]_vars

\* Doubled rows stay: a call that selects them raises.  One row is left, or none, only
\* after a call that does not look, or one that looked before there were two.
DoubledStays ==
  [][Doubled /\ Cardinality(rows') < 2 =>
       \/ \E t \in Tasks, c \in {"logout", "clear"}, p \in People \cup {None} : DeleteFirst(t, c, p)
       \/ table = "active"
       \/ \E t \in Tasks : pc[t] \in {"gap", "delete", "write"} /\ pc'[t] # pc[t] /\ got[t] # rows]_vars
=============================================================================
