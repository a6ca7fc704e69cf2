---------------------------- MODULE SqlStore_proofs ----------------------------
(***************************************************************************)
(* Proofs about the SQL adapter: any number of workers, tasks, users and   *)
(* calls.  The argument is that a worker which is inside a method, with    *)
(* nobody else inside one (mixed is FALSE), knows what the table has.      *)
(***************************************************************************)
EXTENDS SqlStore, FiniteSetTheorems, TLAPS

Single(R) == \A r, s \in R : r = s
Lines == {"idle", "gap", "delete", "insert", "checked", "write"}

\* A finite set with no two elements is what a select of one row wants.
LEMMA SingleRow ==
  ASSUME NEW R, IsFiniteSet(R)
  PROVE  Cardinality(R) > 1 <=> ~Single(R)
<1>1. ASSUME Single(R) PROVE ~(Cardinality(R) > 1)
  <2>1. CASE R = {}
    BY <2>1, FS_EmptySet
  <2>2. CASE R # {}
    <3>1. PICK x \in R : R = {x}  BY <1>1, <2>2 DEF Single
    <3> QED BY <3>1, FS_Singleton
  <2> QED BY <2>1, <2>2
<1>2. ASSUME ~Single(R) PROVE Cardinality(R) > 1
  <2>1. PICK x, y \in R : x # y  BY <1>2 DEF Single
  <2>2. IsFiniteSet({x}) /\ Cardinality({x}) = 1  BY FS_Singleton
  <2>3. IsFiniteSet({x} \cup {y}) /\ Cardinality({x} \cup {y}) = 2
    <3>1. y \notin {x}  BY <2>1
    <3> QED BY <2>2, <3>1, FS_AddElement
  <2>4. Cardinality({x} \cup {y}) <= Cardinality(R)
    BY <2>1, FS_Subset
  <2>5. Cardinality(R) \in Nat  BY FS_CardinalityType
  <2> QED BY <2>3, <2>4, <2>5
<1> QED BY <1>1, <1>2

\* What the first select of a call leads to
LEMMA AfterSelect ==
  ASSUME NEW c, NEW p
  PROVE  LET l == NextStatement(c, p) IN
         /\ l \in {"idle", "delete", "insert", "checked", "gap"}
         /\ l = "delete" => /\ rows # {} /\ ~Doubled /\ c \in {"login", "visit", "accept"}
                            /\ c = "visit" => rows \subseteq old
         /\ l = "insert" => rows = {} /\ c \in {"login", "lock", "arrive"}
         /\ l = "checked" => rows = {} /\ c = "create"
         /\ l = "gap" => /\ ~Doubled /\ c \in {"cancel", "update", "remove", "leave", "fail"}
                         /\ c = "cancel" => \E r \in rows : r.owner = p
BY DEF NextStatement, Exists

\* What the second one leads to
LEMMA AfterSelectAgain ==
  ASSUME NEW t
  PROVE  LET l == StatementAgain(t) IN
         /\ l \in {"idle", "delete", "insert", "write"}
         /\ l = "idle" => call[t] = "fail" \/ rows = {} \/ Doubled
         /\ l = "insert" => rows = {} /\ call[t] = "fail"
         /\ l = "delete" => rows # {} /\ ~Doubled /\ call[t] \in {"remove", "leave"}
         /\ l = "write" => rows # {} /\ ~Doubled /\ call[t] \notin {"fail", "remove", "leave"}
BY DEF StatementAgain, Exists

\* Which calls there are at which table
LEMMA CallsOf ==
  ASSUME table \in DOMAIN Calls
  PROVE  /\ Calls[table] \subseteq CallNames
         /\ "login" \in Calls[table] => table \in {"session", "active"}
         /\ "accept" \in Calls[table] => table = "invitation"
         /\ "cancel" \in Calls[table] => table = "lock"
         /\ table = "lock" => Calls[table] = {"lock", "cancel"}
         /\ table = "invitation" => Calls[table] = {"invite", "accept"}
         /\ "none" \notin Calls[table]
BY DEF Calls, CallNames

\* The steps of the specification, as the proofs take them apart
LEMMA NextCases ==
  ASSUME Next
  PROVE  \/ \E t \in Tasks, c \in CallNames, p \in People \cup {None} : Select(t, c, p)
         \/ \E t \in Tasks, c \in CallNames, p \in People \cup {None} : DeleteFirst(t, c, p)
         \/ \E t \in Tasks, c \in CallNames, p \in People \cup {None} : InsertFirst(t, c, p)
         \/ \E t \in Tasks : SelectAgain(t)
         \/ \E t \in Tasks : Unlock(t)
         \/ \E t \in Tasks : Delete(t)
         \/ \E t \in Tasks : Leave(t)
         \/ \E t \in Tasks : Insert(t)
         \/ \E t \in Tasks : Create(t)
         \/ \E t \in Tasks : Write(t)
         \/ \E r \in rows : Age(r)
BY DEF Next

(***************************************************************************)
(* The numbers of calls                                                    *)
(***************************************************************************)
\* A task whose number no row has had yet
Unused(t) == pc[t] \in {"insert", "checked"} \/ (pc[t] # "idle" /\ call[t] \in {"login", "fail"})

\* A call has a number of its own, which nothing else bears until it has inserted its row.
Numbers ==
  /\ \A t \in Tasks : pc[t] # "idle" => nr[t] \in 1..calls
  /\ \A t, u \in Tasks : t # u /\ pc[t] # "idle" /\ pc[u] # "idle" => nr[t] # nr[u]
  /\ \A t \in Tasks : \A r \in copy[t] : r.id <= calls
  /\ \A t \in Tasks : Unused(t) =>
       /\ nr[t] \notin away /\ nr[t] \notin removed
       /\ \A r \in rows : r.id # nr[t]
       /\ \A u \in Tasks : \A r \in copy[u] : r.id # nr[t]
  /\ \A r \in rows : r.id \notin away

\* What a task has selected is at most one row, one at least if it goes on to change it, and
\* none if it is a create that goes on.
Small ==
  /\ IsFiniteSet(rows)
  /\ \A t \in Tasks : /\ Single(got[t]) /\ Single(copy[t])
                      /\ pc[t] \in {"delete", "write"} => got[t] # {}
                      /\ pc[t] = "checked" => got[t] = {} /\ call[t] = "create"

IInv == TypeOK /\ Numbers /\ Small

\* The two halves of the type invariant: what a task is at, and the rest
TaskTypes ==
  /\ pc \in [Tasks -> Lines]
  /\ call \in [Tasks -> CallNames \cup {"none"}]
  /\ \A t \in Tasks : pc[t] # "idle" => call[t] \in Calls[table]
  /\ who \in [Tasks -> People \cup {None}]
  /\ on \in [Tasks -> Workers] /\ nr \in [Tasks -> 0..calls]
  /\ got \in [Tasks -> SUBSET Rows] /\ copy \in [Tasks -> SUBSET Rows]

RowTypes ==
  /\ table \in DOMAIN Calls
  /\ rows \subseteq Rows /\ old \subseteq Rows /\ wronged \subseteq Rows /\ orphans \subseteq Rows
  /\ away \subseteq 1..calls /\ removed \subseteq 1..calls
  /\ \A r, s \in rows : r.id = s.id => r = s
  /\ \A r \in rows : r.id <= calls
  /\ calls \in 0..MaxCalls /\ handed \in Nat
  /\ mixed \in BOOLEAN /\ over \in BOOLEAN /\ twice \in BOOLEAN

\* Together they are the type invariant.
LEMMA Halves == TypeOK <=> TaskTypes /\ RowTypes
BY DEF TypeOK, TaskTypes, RowTypes, Lines

\* It holds at first.
LEMMA InitIInv == Init => IInv
<1> SUFFICES ASSUME Init PROVE IInv  OBVIOUS
<1>1. TaskTypes  BY DEF Init, TaskTypes, Lines
<1>2. RowTypes
  <2>1. calls \in 0..MaxCalls /\ handed \in Nat  BY BoundAssumption DEF Init
  <2>2. rows \subseteq Rows /\ old \subseteq Rows /\ wronged \subseteq Rows /\ orphans \subseteq Rows
    BY DEF Init
  <2>3. away \subseteq 1..calls /\ removed \subseteq 1..calls  BY DEF Init
  <2>4. table \in DOMAIN Calls /\ rows = {} /\ ~mixed /\ ~over /\ ~twice  BY DEF Init
  <2>5. mixed \in BOOLEAN /\ over \in BOOLEAN /\ twice \in BOOLEAN  BY DEF Init
  <2> QED BY <2>1, <2>2, <2>3, <2>4, <2>5 DEF RowTypes
<1>3. Numbers    BY DEF Init, Numbers, Unused
<1>4. Small      BY FS_EmptySet DEF Init, Small, Single
<1> QED BY <1>1, <1>2, <1>3, <1>4, Halves DEF IInv

\* A task moves on: what is left to show of it is that it goes to a statement of its call
\* with rows it has selected.
LEMMA MoveTypes ==
  ASSUME IInv, NEW t \in Tasks, NEW l \in Lines, NEW c \in CallNames,
         NEW p \in People \cup {None}, NEW n \in 0..calls', NEW g \in SUBSET Rows,
         To(t, l, c, p, n, g), c \in Calls[table],
         calls' \in Nat, calls <= calls', table' = table, on' = on
  PROVE  TaskTypes'
<1> USE DEF TaskTypes
<1>1. TaskTypes /\ calls \in Nat  BY Halves DEF IInv, RowTypes
<1>2. pc' \in [Tasks -> Lines]  BY <1>1 DEF To
<1>3. call' \in [Tasks -> CallNames \cup {"none"}]  BY <1>1 DEF To
<1>4. \A u \in Tasks : pc'[u] # "idle" => call'[u] \in Calls[table]  BY <1>1 DEF To
<1>5. who' \in [Tasks -> People \cup {None}]  BY <1>1 DEF To
<1>6. nr' \in [Tasks -> 0..calls']
  <2>1. nr \in [Tasks -> 0..calls']  BY <1>1
  <2>2. 0 \in 0..calls'  OBVIOUS
  <2> QED BY <2>1, <2>2 DEF To
<1>7. got' \in [Tasks -> SUBSET Rows] /\ copy' \in [Tasks -> SUBSET Rows]  BY <1>1 DEF To
<1> QED BY <1>1, <1>2, <1>3, <1>4, <1>5, <1>6, <1>7

\* What lies in two sets of numbers up to a bound is a number up to it.
LEMMA UpTo ==
  ASSUME NEW c \in Nat, NEW S, NEW T, S \subseteq 1..c, T \subseteq 1..c
  PROVE  \A i \in S \cup T : i \in Nat /\ i <= c
OBVIOUS

\* ... and that the rows there are by now are old ones, its own or copies of old ones.
LEMMA MoveNumbers ==
  ASSUME IInv, NEW t \in Tasks, NEW l \in Lines, NEW c, NEW p, NEW n, NEW g,
         To(t, l, c, p, n, g),
         \/ pc[t] # "idle" /\ n = nr[t] /\ c = call[t] /\ calls' = calls
         \/ pc[t] = "idle" /\ n = calls + 1 /\ calls' = calls + 1,
         g \subseteq rows,
         \A r \in rows' : r \in rows \/ r.id = n \/ \E u \in Tasks : \E q \in copy[u] : r.id = q.id,
         \A i \in away' \cup removed' : i \in away \cup removed \/ \E r \in rows : r.id = i,
         l \in {"insert", "checked"} \/ (l # "idle" /\ c \in {"login", "fail"})
           => rows' \subseteq rows /\ (pc[t] # "idle" => Unused(t)),
         \A r \in rows' : r.id \notin away'
  PROVE  Numbers'
<1>1. TaskTypes /\ RowTypes /\ Numbers  BY Halves DEF IInv
<1>2. \A u \in Tasks : pc'[u] # "idle" => nr'[u] \in 1..calls'
  BY <1>1 DEF To, TaskTypes, RowTypes, Numbers
<1>3. \A u, v \in Tasks : u # v /\ pc'[u] # "idle" /\ pc'[v] # "idle" => nr'[u] # nr'[v]
  BY <1>1 DEF To, TaskTypes, RowTypes, Numbers
<1>4. \A u \in Tasks : \A r \in copy'[u] : r \in rows \/ r \in copy[u]
  BY <1>1 DEF To, TaskTypes
<1>5. \A u \in Tasks : \A r \in copy'[u] : r.id <= calls'
  <2>1. calls \in Nat /\ calls' \in {calls, calls + 1}  BY <1>1 DEF RowTypes
  <2>2. \A u \in Tasks : \A r \in copy[u] : r.id <= calls  BY <1>1 DEF Numbers
  <2>3. \A r \in rows : r.id <= calls  BY <1>1 DEF RowTypes
  <2>4. \A u \in Tasks : \A r \in copy[u] : r.id \in Nat
    <3>1. \A u \in Tasks : copy[u] \subseteq Rows  BY <1>1 DEF TaskTypes
    <3> QED BY <3>1 DEF Rows
  <2>5. \A r \in rows : r.id \in Nat  BY <1>1 DEF RowTypes, Rows
  <2>6. \A i \in Nat : i <= calls => i <= calls'  BY <2>1
  <2> QED BY <1>4, <2>2, <2>3, <2>4, <2>5, <2>6
<1>6. \A u \in Tasks : Unused(u)' =>
        /\ nr'[u] \notin away' /\ nr'[u] \notin removed'
        /\ \A r \in rows' : r.id # nr'[u]
        /\ \A v \in Tasks : \A r \in copy'[v] : r.id # nr'[u]
  <2> SUFFICES ASSUME NEW u \in Tasks, Unused(u)'
               PROVE  /\ nr'[u] \notin away' /\ nr'[u] \notin removed'
                      /\ \A r \in rows' : r.id # nr'[u]
                      /\ \A v \in Tasks : \A r \in copy'[v] : r.id # nr'[u]
    OBVIOUS
  <2>1. CASE u # t
    <3>1. Unused(u) /\ nr'[u] = nr[u]  BY <1>1, <2>1 DEF To, TaskTypes, Unused
    <3>2. n # nr[u]  BY <1>1, <2>1, <3>1 DEF Numbers, Unused, RowTypes
    <3> QED BY <1>1, <1>4, <3>1, <3>2 DEF Numbers
  <2>2. CASE u = t /\ pc[t] # "idle"
    <3>1. Unused(t) /\ nr'[t] = nr[t] /\ rows' \subseteq rows
      BY <1>1, <2>2 DEF To, TaskTypes, Unused
    <3> QED BY <1>1, <1>4, <2>2, <3>1 DEF Numbers
  <2>3. CASE u = t /\ pc[t] = "idle"
    <3>1. nr'[t] = calls + 1 /\ rows' \subseteq rows
      BY <1>1, <2>3 DEF To, TaskTypes, Unused
    <3>2. \A r \in rows : r.id <= calls /\ r.id \in Nat  BY <1>1 DEF RowTypes, Rows
    <3>3. \A i \in away' \cup removed' : i \in Nat /\ i <= calls
      <4>1. \A i \in away \cup removed : i \in Nat /\ i <= calls
        <5>1. away \subseteq 1..calls /\ removed \subseteq 1..calls /\ calls \in Nat
          BY <1>1 DEF RowTypes
        <5> QED BY <5>1, UpTo
      <4> QED BY <3>2, <4>1
    <3>4. \A v \in Tasks : \A r \in copy'[v] : r.id <= calls
      BY <1>1, <1>4, <3>2 DEF Numbers
    <3>5. calls \in Nat  BY <1>1 DEF RowTypes
    <3>6. \A i : i <= calls => i # calls + 1  BY <3>5
    <3> QED BY <2>3, <3>1, <3>2, <3>3, <3>4, <3>6
  <2> QED BY <2>1, <2>2, <2>3
<1> QED BY <1>2, <1>3, <1>5, <1>6 DEF Numbers

\* ... and that it takes along one row at most.
LEMMA MoveSmall ==
  ASSUME IInv, NEW t \in Tasks, NEW l, NEW c, NEW p, NEW n, NEW g,
         To(t, l, c, p, n, g), IsFiniteSet(rows'),
         l # "idle" => Single(g), l \in {"delete", "write"} => g # {}, l = "checked" => g = {} /\ c = "create"
  PROVE  Small'
<1>1. TaskTypes /\ Small  BY Halves DEF IInv
<1>2. \A u \in Tasks : u # t => /\ got'[u] = got[u] /\ pc'[u] = pc[u] /\ copy'[u] = copy[u]
                               /\ call'[u] = call[u]
  BY <1>1 DEF To, TaskTypes
<1>3. pc'[t] = l /\ (l = "idle" => got'[t] = {} /\ copy'[t] = {})
      /\ (l # "idle" => got'[t] = g /\ copy'[t] \in {g, copy[t]} /\ call'[t] = c)
  BY <1>1 DEF To, TaskTypes
<1>4. Single({})  BY DEF Single
<1>5. \A u \in Tasks : /\ Single(got[u]) /\ Single(copy[u])
                       /\ pc[u] \in {"delete", "write"} => got[u] # {}
                       /\ pc[u] = "checked" => got[u] = {} /\ call[u] = "create"
  BY <1>1 DEF Small
<1>6. ASSUME NEW u \in Tasks
      PROVE  /\ Single(got'[u]) /\ Single(copy'[u])
             /\ pc'[u] \in {"delete", "write"} => got'[u] # {}
             /\ pc'[u] = "checked" => got'[u] = {} /\ call'[u] = "create"
  <2>1. CASE u # t
    <3>1. got'[u] = got[u] /\ pc'[u] = pc[u] /\ copy'[u] = copy[u] /\ call'[u] = call[u]
      BY <1>2, <2>1
    <3>2. /\ Single(got[u]) /\ Single(copy[u]) /\ (pc[u] \in {"delete", "write"} => got[u] # {})
          /\ pc[u] = "checked" => got[u] = {} /\ call[u] = "create"
      BY <1>5 DEF Single
    <3> QED BY <3>1, <3>2 DEF Single
  <2>2. CASE u = t /\ l = "idle"
    BY <1>3, <2>2 DEF Single
  <2>3. CASE u = t /\ l # "idle"
    <3>1. pc'[u] = l /\ got'[u] = g /\ call'[u] = c /\ (copy'[u] = g \/ copy'[u] = copy[u])
      BY <1>3, <2>3
    <3>2. Single(g) /\ Single(copy[u])  BY <1>5, <2>3 DEF Single
    <3>3. Single(copy'[u])
      <4>1. CASE copy'[u] = g  BY <3>2, <4>1 DEF Single
      <4>2. CASE copy'[u] = copy[u]  BY <3>2, <4>2 DEF Single
      <4> QED BY <3>1, <4>1, <4>2
    <3> QED BY <3>1, <3>2, <3>3
  <2> QED BY <2>1, <2>2, <2>3
<1> QED BY <1>6 DEF Small

\* What the table has after a step
LEMMA MoveRows ==
  ASSUME IInv, table' = table, calls' \in {calls, calls + 1}, calls' <= MaxCalls,
         old' = old, wronged' \subseteq wronged \cup rows, orphans' \subseteq orphans \cup rows,
         \A r \in rows' : r \in rows \/ (r \in Rows /\ r.id <= calls'),
         \A r, s \in rows' : r.id = s.id => r = s,
         \A i \in away' \cup removed' : i \in away \cup removed \/ \E r \in rows : r.id = i,
         handed' \in {handed, handed + 1},
         mixed' \in BOOLEAN, over' \in BOOLEAN, twice' \in BOOLEAN
  PROVE  RowTypes'
<1>1. RowTypes  BY Halves DEF IInv
<1>2. calls \in Nat /\ calls' \in 0..MaxCalls  BY <1>1, BoundAssumption DEF RowTypes
<1>3. rows \subseteq Rows /\ wronged \subseteq Rows /\ orphans \subseteq Rows /\ old \subseteq Rows
  BY <1>1 DEF RowTypes
<1>4. rows' \subseteq Rows /\ wronged' \subseteq Rows /\ orphans' \subseteq Rows /\ old' \subseteq Rows
  BY <1>3
<1>5. \A r \in rows : r.id \in Nat /\ r.id >= 1 /\ r.id <= calls  BY <1>1 DEF RowTypes, Rows
<1>6. \A i \in away \cup removed : i \in Nat /\ i >= 1 /\ i <= calls
  <2>1. away \subseteq 1..calls /\ removed \subseteq 1..calls  BY <1>1 DEF RowTypes
  <2> QED BY <1>2, <2>1
<1>7. \A i \in away' \cup removed' : i \in 1..calls'  BY <1>2, <1>5, <1>6
<1>8. \A r \in rows' : r.id <= calls'  BY <1>2, <1>5
<1>9. handed' \in Nat  BY <1>1 DEF RowTypes
<1> QED BY <1>1, <1>2, <1>4, <1>7, <1>8, <1>9 DEF RowTypes

\* What the invariant says of the rows, in the form the steps need it
LEMMA RowFacts ==
  ASSUME IInv
  PROVE  /\ \A r \in rows : r \in Rows /\ r.id \in Nat /\ r.id <= calls /\ r.id \notin away
         /\ \A r, s \in rows : r.id = s.id => r = s
         /\ IsFiniteSet(rows) /\ rows \subseteq Rows
         /\ calls \in Nat /\ calls <= MaxCalls /\ table \in DOMAIN Calls
         /\ mixed \in BOOLEAN /\ over \in BOOLEAN /\ twice \in BOOLEAN
BY Halves, BoundAssumption DEF IInv, RowTypes, Numbers, Small, Rows

\* A table with one row, or none, is not doubled.
LEMMA NotDoubled == ASSUME IInv PROVE Doubled <=> ~Single(rows)
BY RowFacts, SingleRow DEF Doubled

\* The steps, one lemma for each
LEMMA SelectIInv ==
  ASSUME IInv, NEW t \in Tasks, NEW c \in CallNames, NEW p \in People \cup {None}, Select(t, c, p)
  PROVE  IInv'
<1> DEFINE l == NextStatement(c, p)
<1>1. /\ To(t, l, c, p, calls + 1, rows) /\ c \in Calls[table] /\ pc[t] = "idle"
      /\ calls < MaxCalls /\ calls' = calls + 1 /\ Mix(t)
      /\ UNCHANGED <<table, rows, old, away, handed, over, wronged, removed, orphans, on>>
      /\ twice' \in BOOLEAN
  BY RowFacts DEF Select, Begin, errorVars
<1>2. l \in {"idle", "delete", "insert", "checked", "gap"}  BY AfterSelect
<1>3. mixed' \in BOOLEAN  BY <1>1, RowFacts DEF Mix
<1>4. TaskTypes'
  <2>1. rows \in SUBSET Rows /\ calls + 1 \in 0..calls' /\ calls' \in Nat /\ calls <= calls'
    BY <1>1, RowFacts
  <2>2. l \in Lines  BY <1>2 DEF Lines
  <2> HIDE DEF l
  <2> QED BY <1>1, <2>1, <2>2, MoveTypes
<1>5. RowTypes'
  <2>1. calls' <= MaxCalls  BY <1>1, RowFacts, BoundAssumption
  <2> QED BY <1>1, <1>3, <2>1, RowFacts, MoveRows
<1>6. Numbers'
  <2>1. l \in Lines  BY <1>2 DEF Lines
  <2> HIDE DEF l
  <2> QED BY <1>1, <2>1, RowFacts, MoveNumbers
<1>7. Small'
  <2>1. l # "idle" => Single(rows)
    <3>1. rows = {} => Single(rows)  BY DEF Single
    <3> QED BY <3>1, AfterSelect, NotDoubled
  <2>2. /\ l \in {"delete", "write"} => rows # {}
        /\ l = "checked" => rows = {} /\ c = "create"
    BY AfterSelect
  <2> HIDE DEF l
  <2> QED BY <1>1, <2>1, <2>2, RowFacts, MoveSmall
<1> QED BY <1>4, <1>5, <1>6, <1>7, Halves DEF IInv, TypeOK, TaskTypes, RowTypes, Lines

\* A call that a task is in, its user and its number
LEMMA TaskFacts ==
  ASSUME IInv, NEW t \in Tasks, pc[t] # "idle"
  PROVE  /\ call[t] \in Calls[table] /\ call[t] \in CallNames /\ who[t] \in People \cup {None}
         /\ nr[t] \in 0..calls /\ nr[t] \in Nat /\ 1 <= nr[t] /\ nr[t] <= calls
         /\ got[t] \subseteq Rows /\ copy[t] \subseteq Rows
         /\ Row(who[t], nr[t]) \in Rows
<1>1. TaskTypes /\ RowTypes /\ Numbers  BY Halves DEF IInv
<1>2. call[t] \in Calls[table] /\ call[t] \in CallNames /\ who[t] \in People \cup {None}
      /\ nr[t] \in 0..calls /\ got[t] \subseteq Rows /\ copy[t] \subseteq Rows
  BY <1>1, CallsOf DEF TaskTypes, RowTypes
<1>3. nr[t] \in Nat /\ 1 <= nr[t] /\ nr[t] <= calls  BY <1>1, RowFacts DEF Numbers
<1>4. Row(who[t], nr[t]) \in Rows  BY <1>2, <1>3, RowFacts, BoundAssumption DEF Row, Rows
<1> QED BY <1>2, <1>3, <1>4

\* DeleteFirst keeps the invariant.
LEMMA DeleteFirstIInv ==
  ASSUME IInv, NEW t \in Tasks, NEW c \in CallNames, NEW p \in People \cup {None},
         DeleteFirst(t, c, p)
  PROVE  IInv'
<1> DEFINE l == IF c = "login" THEN "insert" ELSE "idle"
<1>1. /\ To(t, l, c, p, calls + 1, {}) /\ c \in Calls[table] /\ pc[t] = "idle"
      /\ calls < MaxCalls /\ calls' = calls + 1 /\ rows' = {}
      /\ UNCHANGED <<table, old, away, handed, over, twice, wronged, removed, orphans, on>>
  BY DEF DeleteFirst, Begin, errorVars
<1>2. l \in Lines /\ l \in {"idle", "insert"}  BY DEF Lines
<1>3. mixed' \in BOOLEAN  BY RowFacts DEF DeleteFirst, Begin, Mix
<1> HIDE DEF l
<1>4. TaskTypes'
  <2>1. calls + 1 \in 0..calls' /\ calls' \in Nat /\ calls <= calls'  BY <1>1, RowFacts
  <2> QED BY <1>1, <1>2, <2>1, MoveTypes
<1>5. RowTypes'
  <2>1. calls' <= MaxCalls  BY <1>1, RowFacts, BoundAssumption
  <2> QED BY <1>1, <1>3, <2>1, RowFacts, MoveRows
<1>6. Numbers'
  BY <1>1, <1>2, MoveNumbers
<1>7. Small'
  BY <1>1, <1>2, FS_EmptySet, MoveSmall DEF Single
<1> QED BY <1>4, <1>5, <1>6, <1>7, Halves DEF IInv, TypeOK, TaskTypes, RowTypes, Lines

\* InsertFirst keeps the invariant.
LEMMA InsertFirstIInv ==
  ASSUME IInv, NEW t \in Tasks, NEW c \in CallNames, NEW p \in People \cup {None},
         InsertFirst(t, c, p)
  PROVE  IInv'
<1> DEFINE l == IF c = "upload" THEN "gap" ELSE "idle"
           new == Row(p, calls + 1)
<1>1. /\ To(t, l, c, p, calls + 1, {}) /\ c \in Calls[table] /\ pc[t] = "idle"
      /\ c \in {"upload", "invite"}
      /\ calls < MaxCalls /\ calls' = calls + 1 /\ rows' = rows \cup {new}
      /\ UNCHANGED <<table, old, away, handed, twice, wronged, removed, orphans, on>>
  BY DEF InsertFirst, Begin, errorVars
<1>2. l \in Lines /\ l \in {"idle", "gap"}  BY DEF Lines
<1>3. mixed' \in BOOLEAN /\ over' \in BOOLEAN
  BY RowFacts DEF InsertFirst, Begin, Mix
<1>8. new \in Rows /\ new.id = calls + 1
  BY <1>1, RowFacts, BoundAssumption DEF Row, Rows
<1>9. calls + 1 \notin away /\ calls + 1 \notin removed /\ \A r \in rows : r.id # calls + 1
  <2>1. away \subseteq 1..calls /\ removed \subseteq 1..calls /\ calls \in Nat
    BY Halves, RowFacts DEF IInv, RowTypes
  <2> QED BY <2>1, RowFacts
<1>10. \A r \in rows' : r \in rows \/ (r.id = calls + 1 /\ r = new)  BY <1>1, <1>8
<1> HIDE DEF l, new
<1>4. TaskTypes'
  <2>1. calls + 1 \in 0..calls' /\ calls' \in Nat /\ calls <= calls'  BY <1>1, RowFacts
  <2> QED BY <1>1, <1>2, <2>1, MoveTypes
<1>5. RowTypes'
  <2>1. calls' <= MaxCalls  BY <1>1, RowFacts, BoundAssumption
  <2>2. \A r \in rows' : r \in rows \/ (r \in Rows /\ r.id <= calls')
    BY <1>1, <1>8, <1>10, RowFacts
  <2>3. \A r, s \in rows' : r.id = s.id => r = s  BY <1>9, <1>10, RowFacts
  <2> QED BY <1>1, <1>3, <2>1, <2>2, <2>3, RowFacts, MoveRows
<1>6. Numbers'
  <2>1. \A r \in rows' : r.id \notin away'  BY <1>1, <1>9, <1>10, RowFacts
  <2>2. \A r \in rows' : r \in rows \/ r.id = calls + 1  BY <1>10
  <2> QED BY <1>1, <1>2, <2>1, <2>2, MoveNumbers
<1>7. Small'
  <2>1. IsFiniteSet(rows')  BY <1>1, RowFacts, FS_AddElement
  <2> QED BY <1>1, <1>2, <2>1, MoveSmall DEF Single
<1> QED BY <1>4, <1>5, <1>6, <1>7, Halves DEF IInv, TypeOK, TaskTypes, RowTypes, Lines

\* SelectAgain keeps the invariant.
LEMMA SelectAgainIInv ==
  ASSUME IInv, NEW t \in Tasks, SelectAgain(t)
  PROVE  IInv'
<1> DEFINE l == StatementAgain(t)
<1>1. /\ To(t, l, call[t], who[t], nr[t], rows) /\ pc[t] # "idle"
      /\ UNCHANGED <<table, rows, old, away, handed, over, twice, wronged, removed, calls, on>>
      /\ orphans' \subseteq orphans \cup rows
  BY DEF SelectAgain, Step, Refuse, Own
<1>2. l \in Lines /\ l \in {"idle", "insert", "delete", "write"}  BY AfterSelectAgain DEF Lines
<1>3. mixed' \in BOOLEAN  BY RowFacts DEF SelectAgain, Step, Mix
<1>8. /\ l = "insert" => call[t] = "fail"
      /\ l = "idle" \/ call[t] \notin {"login", "fail"} \/ Unused(t)
      /\ l = "insert" => Unused(t)
  BY <1>1, AfterSelectAgain DEF Unused
<1>9. (l # "idle" => Single(rows)) /\ (l \in {"delete", "write"} => rows # {})
  <2>1. rows = {} => Single(rows)  BY DEF Single
  <2> QED BY <2>1, AfterSelectAgain, NotDoubled
<1> HIDE DEF l
<1>4. TaskTypes'
  <2>1. nr[t] \in 0..calls' /\ calls' \in Nat /\ calls <= calls' /\ calls' = calls
    BY <1>1, RowFacts, TaskFacts
  <2>2. call[t] \in CallNames /\ call[t] \in Calls[table] /\ who[t] \in People \cup {None}
    BY <1>1, TaskFacts
  <2>3. rows \in SUBSET Rows  BY RowFacts
  <2> QED BY <1>1, <1>2, <2>1, <2>2, <2>3, MoveTypes
<1>5. RowTypes'
  BY <1>1, <1>3, RowFacts, MoveRows
<1>6. Numbers'
  BY <1>1, <1>2, <1>8, RowFacts, MoveNumbers
<1>7. Small'
  BY <1>1, <1>2, <1>9, RowFacts, MoveSmall
<1> QED BY <1>4, <1>5, <1>6, <1>7, Halves DEF IInv, TypeOK, TaskTypes, RowTypes, Lines

\* Unlock keeps the invariant.
LEMMA UnlockIInv ==
  ASSUME IInv, NEW t \in Tasks, Unlock(t)
  PROVE  IInv'
<1>1. /\ To(t, "idle", call[t], who[t], nr[t], {}) /\ pc[t] # "idle" /\ rows' = {}
      /\ wronged' \subseteq wronged \cup rows
      /\ UNCHANGED <<table, old, away, handed, over, twice, removed, orphans, calls, on>>
  BY DEF Unlock, Step, errorVars
<1>2. "idle" \in Lines  BY DEF Lines
<1>3. mixed' \in BOOLEAN  BY RowFacts DEF Unlock, Step, Mix
<1>4. TaskTypes'
  <2>1. nr[t] \in 0..calls' /\ calls' \in Nat /\ calls <= calls' /\ calls' = calls
    BY <1>1, RowFacts, TaskFacts
  <2>2. call[t] \in CallNames /\ call[t] \in Calls[table] /\ who[t] \in People \cup {None}
    BY <1>1, TaskFacts
  <2> QED BY <1>1, <1>2, <2>1, <2>2, MoveTypes
<1>5. RowTypes'
  BY <1>1, <1>3, RowFacts, MoveRows
<1>6. Numbers'
  BY <1>1, <1>2, MoveNumbers
<1>7. Small'
  BY <1>1, FS_EmptySet, MoveSmall
<1> QED BY <1>4, <1>5, <1>6, <1>7, Halves DEF IInv, TypeOK, TaskTypes, RowTypes, Lines

\* Delete keeps the invariant.
LEMMA DeleteIInv ==
  ASSUME IInv, NEW t \in Tasks, Delete(t)
  PROVE  IInv'
<1> DEFINE l == IF call[t] = "login" THEN "insert" ELSE "idle"
<1>1. /\ To(t, l, call[t], who[t], nr[t], {}) /\ pc[t] # "idle" /\ rows' \subseteq rows
      /\ wronged' \subseteq wronged \cup rows
      /\ \A i \in removed' : i \in removed \/ \E r \in rows : r.id = i
      /\ handed' \in {handed, handed + 1}
      /\ UNCHANGED <<table, old, away, over, twice, orphans, calls, on>>
  BY DEF Delete, Step, Ids
<1>2. l \in Lines /\ l \in {"idle", "insert"} /\ (l # "idle" => Unused(t))
  BY <1>1 DEF Lines, Unused
<1>3. mixed' \in BOOLEAN  BY RowFacts DEF Delete, Step, Mix
<1> HIDE DEF l
<1>4. TaskTypes'
  <2>1. nr[t] \in 0..calls' /\ calls' \in Nat /\ calls <= calls' /\ calls' = calls
    BY <1>1, RowFacts, TaskFacts
  <2>2. call[t] \in CallNames /\ call[t] \in Calls[table] /\ who[t] \in People \cup {None}
    BY <1>1, TaskFacts
  <2> QED BY <1>1, <1>2, <2>1, <2>2, MoveTypes
<1>5. RowTypes'
  BY <1>1, <1>3, RowFacts, MoveRows
<1>6. Numbers'
  <2>1. \A r \in rows' : r.id \notin away'  BY <1>1, RowFacts
  <2>2. \A r \in rows' : r \in rows  BY <1>1
  <2>3. \A i \in away' \cup removed' : i \in away \cup removed \/ \E r \in rows : r.id = i
    BY <1>1
  <2> QED BY <1>1, <1>2, <2>1, <2>2, <2>3, MoveNumbers
<1>7. Small'
  <2>1. IsFiniteSet(rows')  BY <1>1, RowFacts, FS_Subset
  <2> QED BY <1>1, <1>2, <2>1, MoveSmall DEF Single
<1> QED BY <1>4, <1>5, <1>6, <1>7, Halves DEF IInv, TypeOK, TaskTypes, RowTypes, Lines

\* Leave keeps the invariant.
LEMMA LeaveIInv ==
  ASSUME IInv, NEW t \in Tasks, Leave(t)
  PROVE  IInv'
<1>1. /\ To(t, "idle", call[t], who[t], nr[t], {}) /\ pc[t] # "idle"
      /\ \/ rows' = rows \ got[t] /\ away' = away \cup Ids(rows \cap got[t])
         \/ rows' = rows /\ away' = away
      /\ UNCHANGED <<table, old, handed, over, twice, wronged, removed, orphans, calls, on>>
  BY DEF Leave, Step, errorVars
<1>2. "idle" \in Lines  BY DEF Lines
<1>3. mixed' \in BOOLEAN  BY RowFacts DEF Leave, Step, Mix
<1>8. rows' \subseteq rows  BY <1>1
<1>9. \A i \in away' \cup removed' : i \in away \cup removed \/ \E r \in rows : r.id = i
  BY <1>1 DEF Ids
<1>4. TaskTypes'
  <2>1. nr[t] \in 0..calls' /\ calls' \in Nat /\ calls <= calls' /\ calls' = calls
    BY <1>1, RowFacts, TaskFacts
  <2>2. call[t] \in CallNames /\ call[t] \in Calls[table] /\ who[t] \in People \cup {None}
    BY <1>1, TaskFacts
  <2> QED BY <1>1, <1>2, <2>1, <2>2, MoveTypes
<1>5. RowTypes'
  BY <1>1, <1>3, <1>8, <1>9, RowFacts, MoveRows
<1>6. Numbers'
  <2>1. \A r \in rows' : r.id \notin away'
    <3>1. CASE rows' = rows /\ away' = away  BY <3>1, RowFacts
    <3>2. CASE rows' = rows \ got[t] /\ away' = away \cup Ids(rows \cap got[t])
      BY <3>2, RowFacts DEF Ids
    <3> QED BY <1>1, <3>1, <3>2
  <2>2. \A r \in rows' : r \in rows  BY <1>8
  <2> QED BY <1>1, <1>2, <1>9, <2>1, <2>2, MoveNumbers
<1>7. Small'
  <2>1. IsFiniteSet(rows')  BY <1>8, RowFacts, FS_Subset
  <2> QED BY <1>1, <2>1, MoveSmall
<1> QED BY <1>4, <1>5, <1>6, <1>7, Halves DEF IInv, TypeOK, TaskTypes, RowTypes, Lines

\* Insert keeps the invariant.
LEMMA InsertIInv ==
  ASSUME IInv, NEW t \in Tasks, Insert(t)
  PROVE  IInv'
<1> DEFINE new == Row(who[t], nr[t])
<1>1. /\ To(t, "idle", call[t], who[t], nr[t], {}) /\ pc[t] = "insert" /\ rows' = rows \cup {new}
      /\ UNCHANGED <<table, old, away, handed, over, twice, wronged, removed, orphans, calls, on>>
  BY DEF Insert, Step, errorVars
<1>2. "idle" \in Lines  BY DEF Lines
<1>3. mixed' \in BOOLEAN  BY RowFacts DEF Insert, Step, Mix
<1>8. new \in Rows /\ new.id = nr[t] /\ nr[t] <= calls'  BY <1>1, TaskFacts DEF Row
<1>9. nr[t] \notin away /\ \A r \in rows : r.id # nr[t]
  BY <1>1 DEF IInv, Numbers, Unused
<1>10. \A r \in rows' : r \in rows \/ (r.id = nr[t] /\ r = new)  BY <1>1, <1>8
<1> HIDE DEF new
<1>4. TaskTypes'
  <2>1. nr[t] \in 0..calls' /\ calls' \in Nat /\ calls <= calls' /\ calls' = calls
    BY <1>1, RowFacts, TaskFacts
  <2>2. call[t] \in CallNames /\ call[t] \in Calls[table] /\ who[t] \in People \cup {None}
    BY <1>1, TaskFacts
  <2> QED BY <1>1, <1>2, <2>1, <2>2, MoveTypes
<1>5. RowTypes'
  <2>1. \A r \in rows' : r \in rows \/ (r \in Rows /\ r.id <= calls')  BY <1>8, <1>10
  <2>2. \A r, s \in rows' : r.id = s.id => r = s  BY <1>9, <1>10, RowFacts
  <2> QED BY <1>1, <1>3, <2>1, <2>2, RowFacts, MoveRows
<1>6. Numbers'
  <2>1. \A r \in rows' : r.id \notin away'  BY <1>1, <1>9, <1>10, RowFacts
  <2>2. \A r \in rows' : r \in rows \/ r.id = nr[t]  BY <1>10
  <2> QED BY <1>1, <1>2, <2>1, <2>2, MoveNumbers
<1>7. Small'
  <2>1. IsFiniteSet(rows')  BY <1>1, RowFacts, FS_AddElement
  <2> QED BY <1>1, <1>2, <2>1, MoveSmall DEF Single
<1> QED BY <1>4, <1>5, <1>6, <1>7, Halves DEF IInv, TypeOK, TaskTypes, RowTypes, Lines

\* Create keeps the invariant.
LEMMA CreateIInv ==
  ASSUME IInv, NEW t \in Tasks, Create(t)
  PROVE  IInv'
<1> DEFINE new == Row(who[t], nr[t])
<1>1. /\ To(t, "gap", call[t], who[t], nr[t], {}) /\ pc[t] = "checked" /\ rows' = rows \cup {new}
      /\ UNCHANGED <<table, old, away, handed, twice, wronged, removed, orphans, calls, on>>
  BY DEF Create, Step, errorVars
<1>2. "gap" \in Lines  BY DEF Lines
<1>3. mixed' \in BOOLEAN /\ over' \in BOOLEAN  BY RowFacts DEF Create, Step, Mix
<1>11. call[t] \notin {"login", "fail"}
  BY <1>1 DEF IInv, Small
<1>8. new \in Rows /\ new.id = nr[t] /\ nr[t] <= calls'  BY <1>1, TaskFacts DEF Row
<1>9. nr[t] \notin away /\ \A r \in rows : r.id # nr[t]
  BY <1>1 DEF IInv, Numbers, Unused
<1>10. \A r \in rows' : r \in rows \/ (r.id = nr[t] /\ r = new)  BY <1>1, <1>8
<1> HIDE DEF new
<1>4. TaskTypes'
  <2>1. nr[t] \in 0..calls' /\ calls' \in Nat /\ calls <= calls' /\ calls' = calls
    BY <1>1, RowFacts, TaskFacts
  <2>2. call[t] \in CallNames /\ call[t] \in Calls[table] /\ who[t] \in People \cup {None}
    BY <1>1, TaskFacts
  <2> QED BY <1>1, <1>2, <2>1, <2>2, MoveTypes
<1>5. RowTypes'
  <2>1. \A r \in rows' : r \in rows \/ (r \in Rows /\ r.id <= calls')  BY <1>8, <1>10
  <2>2. \A r, s \in rows' : r.id = s.id => r = s  BY <1>9, <1>10, RowFacts
  <2> QED BY <1>1, <1>3, <2>1, <2>2, RowFacts, MoveRows
<1>6. Numbers'
  <2>1. \A r \in rows' : r.id \notin away'  BY <1>1, <1>9, <1>10, RowFacts
  <2>2. \A r \in rows' : r \in rows \/ r.id = nr[t]  BY <1>10
  <2> QED BY <1>1, <1>2, <1>11, <2>1, <2>2, MoveNumbers
<1>7. Small'
  <2>1. IsFiniteSet(rows')  BY <1>1, RowFacts, FS_AddElement
  <2> QED BY <1>1, <1>2, <2>1, MoveSmall DEF Single
<1> QED BY <1>4, <1>5, <1>6, <1>7, Halves DEF IInv, TypeOK, TaskTypes, RowTypes, Lines

\* What a write puts there, if it works: rows of types, with uuids that are free
LEMMA Written ==
  ASSUME IInv, NEW t \in Tasks, pc[t] # "idle"
  PROVE  /\ New(t) \subseteq Rows /\ Single(New(t)) /\ IsFiniteSet(New(t))
         /\ \A r \in New(t) : r.id <= calls /\ (r.id = nr[t] \/ r \in copy[t])
<1>1. CASE call[t] = "update"
  <2>1. New(t) = copy[t]  BY <1>1 DEF New
  <2>2. copy[t] \subseteq Rows  BY TaskFacts
  <2>3. Single(copy[t])  BY DEF IInv, Small
  <2>4. \A r \in copy[t] : r.id <= calls  BY DEF IInv, Numbers
  <2>5. IsFiniteSet(copy[t])
    <3>1. CASE copy[t] = {}  BY <3>1, FS_EmptySet
    <3>2. CASE copy[t] # {}
      <4>1. PICK x \in copy[t] : copy[t] = {x}  BY <2>3, <3>2 DEF Single
      <4> QED BY <4>1, FS_Singleton
    <3> QED BY <3>1, <3>2
  <2> QED BY <2>1, <2>2, <2>3, <2>4, <2>5
<1>2. CASE call[t] # "update"
  <2>1. New(t) = {Row(who[t], nr[t])}  BY <1>2 DEF New
  <2>2. Row(who[t], nr[t]) \in Rows /\ nr[t] <= calls  BY TaskFacts
  <2>3. Row(who[t], nr[t]).id = nr[t]  BY DEF Row
  <2>4. IsFiniteSet({Row(who[t], nr[t])})  BY FS_Singleton
  <2>5. Single({Row(who[t], nr[t])})  BY DEF Single
  <2> QED BY <2>1, <2>2, <2>3, <2>4, <2>5
<1> QED BY <1>1, <1>2

\* Write keeps the invariant.
LEMMA WriteIInv ==
  ASSUME IInv, NEW t \in Tasks, Write(t)
  PROVE  IInv'
<1>1. /\ To(t, "idle", call[t], who[t], nr[t], {}) /\ pc[t] # "idle"
      /\ UNCHANGED <<table, old, away, handed, over, twice, wronged, removed, calls, on>>
  BY DEF Write, Step
<1>2. "idle" \in Lines  BY DEF Lines
<1>3. mixed' \in BOOLEAN  BY RowFacts DEF Write, Step, Mix
<1>8. \/ rows' = rows
      \/ /\ rows' = (rows \ got[t]) \cup New(t)
         /\ Ids(New(t)) \cap (away \cup Ids(rows \ got[t])) = {}
  BY DEF Write
<1>9. orphans' \subseteq orphans \cup rows  BY DEF Write, Refuse, Own
<1>10. \A r \in rows' : r \in rows \/ r \in New(t)  BY <1>8
<1>11. /\ New(t) \subseteq Rows /\ Single(New(t)) /\ IsFiniteSet(New(t))
       /\ \A r \in New(t) : r.id <= calls /\ (r.id = nr[t] \/ r \in copy[t])
  BY <1>1, Written
<1>12. /\ \A r, s \in rows' : r.id = s.id => r = s
       /\ \A r \in rows' : r.id \notin away
  <2>1. CASE rows' = rows  BY <2>1, RowFacts
  <2>2. CASE /\ rows' = (rows \ got[t]) \cup New(t)
             /\ Ids(New(t)) \cap (away \cup Ids(rows \ got[t])) = {}
    <3>1. \A r \in New(t) : r.id \notin away /\ \A s \in rows \ got[t] : s.id # r.id
      BY <2>2 DEF Ids
    <3>2. \A r, s \in New(t) : r = s  BY <1>11 DEF Single
    <3> QED BY <2>2, <3>1, <3>2, RowFacts
  <2> QED BY <1>8, <2>1, <2>2
<1>4. TaskTypes'
  <2>1. nr[t] \in 0..calls' /\ calls' \in Nat /\ calls <= calls' /\ calls' = calls
    BY <1>1, RowFacts, TaskFacts
  <2>2. call[t] \in CallNames /\ call[t] \in Calls[table] /\ who[t] \in People \cup {None}
    BY <1>1, TaskFacts
  <2> QED BY <1>1, <1>2, <2>1, <2>2, MoveTypes
<1>5. RowTypes'
  <2>1. \A r \in rows' : r \in rows \/ (r \in Rows /\ r.id <= calls')  BY <1>1, <1>10, <1>11
  <2> QED BY <1>1, <1>3, <1>9, <1>12, <2>1, RowFacts, MoveRows
<1>6. Numbers'
  <2>1. \A r \in rows' : r \in rows \/ r.id = nr[t] \/ \E u \in Tasks : \E q \in copy[u] : r.id = q.id
    BY <1>10, <1>11
  <2>2. \A r \in rows' : r.id \notin away'  BY <1>1, <1>12
  <2> QED BY <1>1, <1>2, <2>1, <2>2, MoveNumbers
<1>7. Small'
  <2>1. IsFiniteSet(rows')
    <3>1. IsFiniteSet(rows \ got[t])  BY RowFacts, FS_Subset
    <3>2. IsFiniteSet((rows \ got[t]) \cup New(t))  BY <1>11, <3>1, FS_Union
    <3> QED BY <1>8, <3>2, RowFacts
  <2> QED BY <1>1, <2>1, MoveSmall
<1> QED BY <1>4, <1>5, <1>6, <1>7, Halves DEF IInv, TypeOK, TaskTypes, RowTypes, Lines

\* Age keeps the invariant.
LEMMA AgeIInv ==
  ASSUME IInv, NEW r \in rows, Age(r)
  PROVE  IInv'
<1>1. old' = old \cup {r} /\ r \in Rows
      /\ UNCHANGED <<table, rows, away, calls, taskVars, historyVars>>
  BY RowFacts DEF Age
<1>2. TaskTypes'
  BY <1>1, Halves DEF IInv, TaskTypes, taskVars
<1>3. RowTypes'
  BY <1>1, Halves DEF IInv, RowTypes, historyVars, errorVars
<1>4. Numbers'
  BY <1>1 DEF IInv, Numbers, Unused, taskVars, historyVars, errorVars
<1>5. Small'
  BY <1>1 DEF IInv, Small, taskVars
<1> QED BY <1>2, <1>3, <1>4, <1>5, Halves DEF IInv, TypeOK, TaskTypes, RowTypes, Lines

\* A step that changes nothing keeps it.
LEMMA SameIInv ==
  ASSUME IInv, UNCHANGED vars
  PROVE  IInv'
<1>1. TaskTypes'
  BY Halves DEF IInv, TaskTypes, vars, taskVars
<1>2. RowTypes'
  BY Halves DEF IInv, RowTypes, vars, historyVars, errorVars
<1>3. Numbers'
  BY DEF IInv, Numbers, Unused, vars, taskVars, historyVars, errorVars
<1>4. Small'
  BY DEF IInv, Small, vars, taskVars
<1> QED BY <1>1, <1>2, <1>3, <1>4, Halves DEF IInv, TypeOK, TaskTypes, RowTypes, Lines

\* Every step keeps it.
LEMMA StepIInv == IInv /\ [Next]_vars => IInv'
<1> SUFFICES ASSUME IInv, [Next]_vars PROVE IInv'  OBVIOUS
<1>1. CASE UNCHANGED vars  BY <1>1, SameIInv
<1>2. CASE Next
  BY <1>2, NextCases, SelectIInv, DeleteFirstIInv, InsertFirstIInv, SelectAgainIInv, UnlockIInv,
     DeleteIInv, LeaveIInv, InsertIInv, CreateIInv, WriteIInv, AgeIInv
<1> QED BY <1>1, <1>2

\* The variables keep their types, rows have uuids of their own, and whoever goes on to
\* change a row has selected one.
THEOREM TypeCorrect == Spec => []IInv
BY InitIInv, StepIInv, PTL DEF Spec

(***************************************************************************)
(* One row for a key                                                       *)
(***************************************************************************)
\* Until a statement falls between two of another worker's method, a task that is inside
\* one is there alone and knows what the table has.
Knows(t) ==
  /\ pc[t] = "insert" => rows = {}
  /\ pc[t] \in {"delete", "write"} => rows = got[t]
  /\ pc[t] = "delete" /\ call[t] = "visit" => rows \subseteq old

Quiet == ~mixed => /\ \A t, u \in Tasks : Inside(t) /\ Inside(u) => t = u
                   /\ \A t \in Tasks : Knows(t)

OneOnly == ~mixed /\ ~over => Single(rows)

\* A step of a task: if it is not mixed, no other task is inside, and what the task itself
\* comes to know is left to show.
LEMMA MoveQuiet ==
  ASSUME IInv, Quiet, NEW t \in Tasks, NEW l, NEW c, NEW p, NEW n, NEW g,
         To(t, l, c, p, n, g), Mix(t),
         ~mixed =>
           /\ l = "insert" => rows' = {}
           /\ l \in {"delete", "write"} => rows' = g
           /\ l = "delete" /\ c = "visit" => rows' \subseteq old'
  PROVE  Quiet'
<1>1. TaskTypes  BY Halves DEF IInv
<1> SUFFICES ASSUME ~mixed'
             PROVE  /\ \A u, v \in Tasks : Inside(u)' /\ Inside(v)' => u = v
                    /\ \A u \in Tasks : Knows(u)'
  BY DEF Quiet
<1>2. ~mixed /\ \A u \in Tasks \ {t} : ~Inside(u)  BY DEF Mix
<1>3. \A u \in Tasks \ {t} : pc'[u] = pc[u]  BY <1>1 DEF To, TaskTypes
<1>4. \A u \in Tasks \ {t} : ~Inside(u)' /\ Knows(u)'  BY <1>2, <1>3 DEF Inside, Knows
<1>5. pc'[t] = l /\ (l # "idle" => call'[t] = c /\ who'[t] = p /\ nr'[t] = n /\ got'[t] = g)
  BY <1>1 DEF To, TaskTypes
<1>6. Knows(t)'  BY <1>2, <1>5 DEF Knows
<1> QED BY <1>4, <1>6

\* It holds at first.
LEMMA InitQuiet == Init => Quiet /\ OneOnly
BY DEF Init, Quiet, OneOnly, Knows, Inside, Single

\* Every step keeps it.
LEMMA StepQuiet ==
  ASSUME IInv, Quiet, OneOnly, Next
  PROVE  Quiet' /\ OneOnly'
<1>0. Single({})  BY DEF Single
<1>1. ASSUME NEW t \in Tasks, NEW c \in CallNames, NEW p \in People \cup {None}, Select(t, c, p)
      PROVE  Quiet' /\ OneOnly'
  <2> DEFINE l == NextStatement(c, p)
  <2>1. /\ To(t, l, c, p, calls + 1, rows) /\ Mix(t)
        /\ UNCHANGED <<rows, old, over>>
    BY <1>1 DEF Select, Begin
  <2>2. /\ l \in {"idle", "delete", "insert", "checked", "gap"}
        /\ l = "insert" => rows = {}
        /\ l = "delete" /\ c = "visit" => rows \subseteq old
    BY AfterSelect
  <2> HIDE DEF l
  <2>3. Quiet'  BY <2>1, <2>2, MoveQuiet
  <2>4. OneOnly'  BY <2>1 DEF OneOnly, Mix, Single
  <2> QED BY <2>3, <2>4
<1>2. ASSUME NEW t \in Tasks, NEW c \in CallNames, NEW p \in People \cup {None}, DeleteFirst(t, c, p)
      PROVE  Quiet' /\ OneOnly'
  <2>1. /\ To(t, IF c = "login" THEN "insert" ELSE "idle", c, p, calls + 1, {}) /\ Mix(t)
        /\ rows' = {}
    BY <1>2 DEF DeleteFirst, Begin
  <2>2. Quiet'  BY <2>1, MoveQuiet
  <2>3. OneOnly'  BY <2>1, <1>0 DEF OneOnly, Single
  <2> QED BY <2>2, <2>3
<1>3. ASSUME NEW t \in Tasks, NEW c \in CallNames, NEW p \in People \cup {None}, InsertFirst(t, c, p)
      PROVE  Quiet' /\ OneOnly'
  <2>1. /\ To(t, IF c = "upload" THEN "gap" ELSE "idle", c, p, calls + 1, {}) /\ Mix(t)
        /\ rows' = rows \cup {Row(p, calls + 1)}
        /\ c = "upload" \/ calls = 0
        /\ over' = (over \/ (c = "upload" /\ rows # {}))
    BY <1>3 DEF InsertFirst, Begin
  <2>2. Quiet'  BY <2>1, MoveQuiet
  <2>3. OneOnly'
    <3> SUFFICES ASSUME ~over' PROVE Single(rows')  BY DEF OneOnly
    <3>1. c = "upload" => rows = {}  BY <2>1
    <3>2. calls = 0 => rows = {}  BY RowFacts DEF Rows
    <3>3. rows' = {Row(p, calls + 1)}  BY <2>1, <3>1, <3>2
    <3> QED BY <3>3 DEF Single
  <2> QED BY <2>2, <2>3
<1>4. ASSUME NEW t \in Tasks, SelectAgain(t)
      PROVE  Quiet' /\ OneOnly'
  <2> DEFINE l == StatementAgain(t)
  <2>1. /\ To(t, l, call[t], who[t], nr[t], rows) /\ Mix(t) /\ pc[t] # "idle"
        /\ UNCHANGED <<rows, old, over>>
    BY <1>4 DEF SelectAgain, Step
  <2>2. /\ l \in {"idle", "insert", "delete", "write"}
        /\ l = "insert" => rows = {}
        /\ l = "delete" => call[t] # "visit"
    BY AfterSelectAgain
  <2> HIDE DEF l
  <2>3. Quiet'  BY <2>1, <2>2, MoveQuiet
  <2>4. OneOnly'  BY <2>1 DEF OneOnly, Mix, Single
  <2> QED BY <2>3, <2>4
<1>5. ASSUME NEW t \in Tasks, Unlock(t)
      PROVE  Quiet' /\ OneOnly'
  <2>1. To(t, "idle", call[t], who[t], nr[t], {}) /\ Mix(t) /\ rows' = {}
    BY <1>5 DEF Unlock, Step
  <2>2. Quiet'  BY <2>1, MoveQuiet
  <2>3. OneOnly'  BY <2>1, <1>0 DEF OneOnly, Single
  <2> QED BY <2>2, <2>3
<1>6. ASSUME NEW t \in Tasks, Delete(t)
      PROVE  Quiet' /\ OneOnly'
  <2>1. /\ To(t, IF call[t] = "login" THEN "insert" ELSE "idle", call[t], who[t], nr[t], {})
        /\ Mix(t) /\ pc[t] = "delete" /\ rows' \subseteq rows /\ over' = over
        /\ call[t] = "login" => rows' = {}
    BY <1>6 DEF Delete, Step
  <2>2. Quiet'  BY <2>1, MoveQuiet
  <2>3. OneOnly'  BY <2>1 DEF OneOnly, Mix, Single
  <2> QED BY <2>2, <2>3
<1>7. ASSUME NEW t \in Tasks, Leave(t)
      PROVE  Quiet' /\ OneOnly'
  <2>1. /\ To(t, "idle", call[t], who[t], nr[t], {}) /\ Mix(t)
        /\ rows' \subseteq rows /\ over' = over
    BY <1>7 DEF Leave, Step
  <2>2. Quiet'  BY <2>1, MoveQuiet
  <2>3. OneOnly'  BY <2>1 DEF OneOnly, Mix, Single
  <2> QED BY <2>2, <2>3
<1>8. ASSUME NEW t \in Tasks, Insert(t)
      PROVE  Quiet' /\ OneOnly'
  <2>1. /\ To(t, "idle", call[t], who[t], nr[t], {})
        /\ Mix(t) /\ pc[t] = "insert" /\ rows' = rows \cup {Row(who[t], nr[t])} /\ over' = over
    BY <1>8 DEF Insert, Step
  <2>2. ~mixed => rows' = {Row(who[t], nr[t])}  BY <2>1 DEF Quiet, Knows
  <2>3. Quiet'  BY <2>1, <2>2, MoveQuiet
  <2>4. OneOnly'
    <3>1. ~mixed' => ~mixed  BY <2>1 DEF Mix
    <3> QED BY <2>2, <3>1 DEF OneOnly, Single
  <2> QED BY <2>3, <2>4
<1>11. ASSUME NEW t \in Tasks, Create(t)
       PROVE  Quiet' /\ OneOnly'
  <2>1. /\ To(t, "gap", call[t], who[t], nr[t], {}) /\ Mix(t) /\ pc[t] = "checked"
        /\ rows' = rows \cup {Row(who[t], nr[t])} /\ over' = (over \/ (got[t] = {} /\ rows # {}))
    BY <1>11 DEF Create, Step
  <2>2. Quiet'  BY <2>1, MoveQuiet
  <2>3. OneOnly'
    <3>1. got[t] = {}  BY <2>1 DEF IInv, Small
    <3>2. ~over' => rows' = {Row(who[t], nr[t])}  BY <2>1, <3>1
    <3> QED BY <3>2 DEF OneOnly, Single
  <2> QED BY <2>2, <2>3
<1>9. ASSUME NEW t \in Tasks, Write(t)
      PROVE  Quiet' /\ OneOnly'
  <2>1. /\ To(t, "idle", call[t], who[t], nr[t], {}) /\ Mix(t) /\ pc[t] = "write"
        /\ rows' = rows \/ rows' = (rows \ got[t]) \cup New(t)
        /\ over' = over
    BY <1>9 DEF Write, Step
  <2>2. Quiet'  BY <2>1, MoveQuiet
  <2>3. OneOnly'
    <3> SUFFICES ASSUME ~mixed', ~over' PROVE Single(rows')  BY DEF OneOnly
    <3>1. ~mixed /\ ~over /\ rows = got[t]  BY <2>1 DEF Mix, Quiet, Knows
    <3>2. CASE rows' = rows  BY <3>1, <3>2 DEF OneOnly, Single
    <3>3. CASE rows' = (rows \ got[t]) \cup New(t)
      <4>1. rows' = New(t)  BY <3>1, <3>3
      <4>2. Single(New(t))  BY <2>1, Written
      <4> QED BY <4>1, <4>2 DEF Single
    <3> QED BY <2>1, <3>2, <3>3
  <2> QED BY <2>2, <2>3
<1>10. ASSUME NEW r \in rows, Age(r)
       PROVE  Quiet' /\ OneOnly'
  <2>1. old \subseteq old' /\ UNCHANGED <<rows, taskVars, historyVars>>  BY <1>10 DEF Age
  <2>2. Quiet'  BY <2>1 DEF Quiet, Knows, Inside, taskVars, historyVars
  <2>3. OneOnly'  BY <2>1 DEF OneOnly, Single, historyVars
  <2> QED BY <2>2, <2>3
<1> QED BY NextCases, <1>1, <1>2, <1>3, <1>4, <1>5, <1>6, <1>7, <1>8, <1>9, <1>10, <1>11

\* A step that changes nothing keeps it.
LEMMA SameQuiet ==
  ASSUME Quiet, OneOnly, UNCHANGED vars
  PROVE  Quiet' /\ OneOnly'
<1>1. UNCHANGED <<rows, old, taskVars, historyVars>>  BY DEF vars
<1>2. Quiet'  BY <1>1 DEF Quiet, Knows, Inside, taskVars, historyVars
<1>3. OneOnly'  BY <1>1 DEF OneOnly, Single, historyVars
<1> QED BY <1>2, <1>3

QInv == IInv /\ Quiet /\ OneOnly

\* It holds at first.
LEMMA InitQInv == Init => QInv
BY InitIInv, InitQuiet DEF QInv

\* Every step keeps it.
LEMMA StepQInv == QInv /\ [Next]_vars => QInv'
BY StepIInv, StepQuiet, SameQuiet DEF QInv

\* Two rows with one key: only if statements of two workers fell between one another, an
\* upload went over an entry, or a create over one that came after it had looked.
THEOREM OneRowAlways == Spec => []OneRow
<1>1. QInv => OneRow  BY NotDoubled, RowFacts DEF QInv, OneRow, OneOnly
<1> QED BY <1>1, InitQInv, StepQInv, PTL DEF Spec

(***************************************************************************)
(* Calls that are refused                                                  *)
(***************************************************************************)
\* Every step keeps it: a call that gives up finds no row, or its own uuid moved away.
LEMMA StepRefused ==
  ASSUME QInv, RefusedLeavesNothing, [Next]_vars
  PROVE  RefusedLeavesNothing'
<1> SUFFICES ASSUME ~mixed', ~over' PROVE orphans' = {}
  BY StepQInv, RowFacts DEF RefusedLeavesNothing
<1>1. CASE UNCHANGED vars
  BY <1>1 DEF RefusedLeavesNothing, vars, historyVars, errorVars
<1>2. CASE Next
  <2>1. ASSUME ~mixed, ~over  PROVE orphans = {}
    BY <2>1 DEF RefusedLeavesNothing
  <2>2. ASSUME NEW t \in Tasks, NEW c \in CallNames, NEW p \in People \cup {None},
               Select(t, c, p) \/ DeleteFirst(t, c, p) \/ InsertFirst(t, c, p)
        PROVE  orphans' = {}
    BY <2>1, <2>2 DEF Select, DeleteFirst, InsertFirst, Begin, Mix, errorVars
  <2>3. ASSUME NEW t \in Tasks, Unlock(t) \/ Delete(t) \/ Leave(t) \/ Insert(t) \/ Create(t)
        PROVE  orphans' = {}
    BY <2>1, <2>3 DEF Unlock, Delete, Leave, Insert, Create, Step, Mix, errorVars
  <2>4. ASSUME NEW t \in Tasks, SelectAgain(t)  PROVE orphans' = {}
    <3>1. ~mixed /\ ~over  BY <2>4 DEF SelectAgain, Step, Mix
    <3>2. ~Doubled  BY <3>1, NotDoubled DEF QInv, OneOnly
    <3>3. CASE StatementAgain(t) # "idle"  BY <2>1, <2>4, <3>1, <3>3 DEF SelectAgain
    <3>4. CASE StatementAgain(t) = "idle"
      <4>1. call[t] = "fail" \/ rows = {}  BY <3>2, <3>4, AfterSelectAgain
      <4>2. call[t] \in {"create", "upload"} => Own(t) = {}  BY <4>1 DEF Own
      <4>3. Refuse(t)  BY <2>4, <3>4 DEF SelectAgain
      <4> QED BY <2>1, <3>1, <4>2, <4>3 DEF Refuse
    <3> QED BY <3>3, <3>4
  <2>5. ASSUME NEW t \in Tasks, Write(t)  PROVE orphans' = {}
    <3>1. ~mixed /\ ~over /\ pc[t] = "write"  BY <2>5 DEF Write, Step, Mix
    <3>2. rows = got[t]  BY <3>1 DEF QInv, Quiet, Knows
    <3>3. \/ orphans' = orphans
          \/ Refuse(t) /\ Ids(New(t)) \cap (away \cup Ids(rows \ got[t])) # {}
      BY <2>5, <3>2 DEF Write
    <3>4. ASSUME Ids(New(t)) \cap (away \cup Ids(rows \ got[t])) # {}, call[t] \in {"create", "upload"}
          PROVE  Own(t) = {}
      <4>1. New(t) = {Row(who[t], nr[t])}  BY <3>4 DEF New
      <4>2. Ids(New(t)) = {nr[t]}  BY <4>1 DEF Ids, Row
      <4>3. Ids(rows \ got[t]) = {}  BY <3>2 DEF Ids
      <4>4. nr[t] \in away  BY <3>4, <4>2, <4>3
      <4> QED BY <4>4, RowFacts DEF QInv, Own
    <3> QED BY <2>1, <3>1, <3>3, <3>4 DEF Refuse
  <2>6. ASSUME NEW r \in rows, Age(r)  PROVE orphans' = {}
    BY <2>1, <2>6 DEF Age, historyVars, errorVars
  <2> QED BY <1>2, NextCases, <2>2, <2>3, <2>4, <2>5, <2>6
<1> QED BY <1>1, <1>2

\* A create or an upload that is answered with an error has left no row, but for such an
\* interleaving, an upload over an entry or a create over one that came after it had looked.
THEOREM RefusedAlways == Spec => []RefusedLeavesNothing
<1>1. Init => RefusedLeavesNothing  BY DEF Init, RefusedLeavesNothing
<1> QED BY <1>1, InitQInv, StepQInv, StepRefused, PTL DEF Spec

(***************************************************************************)
(* Removed entries                                                         *)
(***************************************************************************)
\* What a step puts into an empty key is new, for a write needs the row it has selected.
LEMMA StepRevived ==
  ASSUME IInv, Next, rows = {}
  PROVE  \A r \in rows' : r.id \notin removed
<1>1. ASSUME NEW t \in Tasks, NEW c \in CallNames, NEW p \in People \cup {None}, InsertFirst(t, c, p)
      PROVE  \A r \in rows' : r.id \notin removed
  <2>1. rows' = {Row(p, calls + 1)}  BY <1>1 DEF InsertFirst
  <2>2. Row(p, calls + 1).id = calls + 1  BY DEF Row
  <2>3. removed \subseteq 1..calls /\ calls \in Nat  BY Halves, RowFacts DEF IInv, RowTypes
  <2>4. calls + 1 \notin removed  BY <2>3
  <2> QED BY <2>1, <2>2, <2>4
<1>2. ASSUME NEW t \in Tasks, Insert(t) \/ Create(t)
      PROVE  \A r \in rows' : r.id \notin removed
  <2>1. pc[t] \in {"insert", "checked"} /\ rows' = {Row(who[t], nr[t])}
    BY <1>2 DEF Insert, Create
  <2>2. Row(who[t], nr[t]).id = nr[t]  BY DEF Row
  <2>3. nr[t] \notin removed  BY <2>1 DEF IInv, Numbers, Unused
  <2> QED BY <2>1, <2>2, <2>3
<1>3. ASSUME NEW t \in Tasks, Write(t)
      PROVE  rows' = {}
  <2>1. pc[t] = "write" /\ (rows' = rows \/ got[t] \subseteq rows)  BY <1>3 DEF Write
  <2>2. got[t] # {}  BY <2>1 DEF IInv, Small
  <2> QED BY <2>1, <2>2
<1>4. ASSUME \/ \E t \in Tasks, c \in CallNames, p \in People \cup {None} : Select(t, c, p) \/ DeleteFirst(t, c, p)
             \/ \E t \in Tasks : SelectAgain(t) \/ Unlock(t) \/ Delete(t) \/ Leave(t)
             \/ \E r \in rows : Age(r)
      PROVE  rows' = {}
  BY <1>4 DEF Select, DeleteFirst, SelectAgain, Unlock, Delete, Leave, Age
<1> QED BY NextCases, <1>1, <1>2, <1>3, <1>4

\* Whatever an update has read, a removed entry does not come back to a key without a row.
THEOREM NothingRevivedEver == Spec => NothingRevived
<1>1. IInv /\ [Next]_vars => [rows = {} => \A r \in rows' : r.id \notin removed]_vars
  BY StepRevived
<1> QED BY <1>1, InitIInv, StepIInv, PTL DEF Spec, NothingRevived

(***************************************************************************)
(* Doubled rows                                                            *)
(***************************************************************************)
Undone ==
  \/ \E t \in Tasks, c \in {"logout", "clear"}, p \in People \cup {None} : DeleteFirst(t, c, p)
  \/ table = "active"
  \/ \E t \in Tasks : pc[t] \in {"gap", "delete", "write"} /\ pc'[t] # pc[t] /\ got[t] # rows

\* A step that undoes doubled rows is one of a task that looked when there was one row.
LEMMA StepDoubled ==
  ASSUME IInv, Next, Doubled, Cardinality(rows') < 2
  PROVE  Undone
<1>1. ~(rows \subseteq rows')
  <2> SUFFICES ASSUME rows \subseteq rows' PROVE FALSE  OBVIOUS
  <2>1. IsFiniteSet(rows') /\ IsFiniteSet(rows)  BY StepIInv, RowFacts DEF IInv, Small
  <2>2. Cardinality(rows) <= Cardinality(rows')  BY <2>1, FS_Subset
  <2>3. Cardinality(rows) \in Nat /\ Cardinality(rows') \in Nat  BY <2>1, FS_CardinalityType
  <2> QED BY <2>2, <2>3 DEF Doubled
<1>2. \A t \in Tasks : got[t] # rows
  BY NotDoubled DEF IInv, Small
<1>3. ASSUME NEW t \in Tasks, NEW c \in CallNames, NEW p \in People \cup {None}, DeleteFirst(t, c, p)
      PROVE  Undone
  BY <1>3 DEF DeleteFirst, Undone
<1>4. ASSUME NEW t \in Tasks, Unlock(t) \/ Delete(t) \/ Leave(t) \/ Write(t)
      PROVE  Undone
  <2>1. pc \in [Tasks -> Lines]  BY Halves DEF IInv, TaskTypes
  <2>2. pc[t] \in {"gap", "delete", "write"} /\ pc'[t] \in {"idle", "insert"}
    BY <1>4, <2>1 DEF Unlock, Delete, Leave, Write, Step, To
  <2> QED BY <1>2, <2>2 DEF Undone
<1>5. ASSUME \/ \E t \in Tasks, c \in CallNames, p \in People \cup {None} : Select(t, c, p) \/ InsertFirst(t, c, p)
             \/ \E t \in Tasks : SelectAgain(t) \/ Insert(t) \/ Create(t)
             \/ \E r \in rows : Age(r)
      PROVE  FALSE
  BY <1>1, <1>5 DEF Select, InsertFirst, SelectAgain, Insert, Create, Age
<1> QED BY NextCases, <1>3, <1>4, <1>5

\* Doubled rows stay, but for a call that does not look or one that looked before there
\* were two.
THEOREM DoubledStaysAlways == Spec => DoubledStays
<1>1. ASSUME IInv, [Next]_vars
      PROVE  [Doubled /\ Cardinality(rows') < 2 => Undone]_vars
  BY <1>1, StepDoubled
<1> QED BY <1>1, InitIInv, StepIInv, PTL DEF Spec, DoubledStays, Undone

(***************************************************************************)
(* What is removed or handed out by mistake                                *)
(***************************************************************************)
\* The statements that the calls of a table come to
TableLines ==
  \A t \in Tasks :
    /\ table = "lock" => /\ pc[t] \in {"idle", "gap", "insert"}
                         /\ pc[t] = "gap" => call[t] = "cancel"
    /\ table = "invitation" => pc[t] \in {"idle", "delete"}

\* Who is about to cancel a lock is the only one to, and the lock is his; until there are two
\* of them, or an interleaving.
Cancelling ==
  table = "lock" /\ ~mixed /\ ~twice =>
    /\ \A t \in Tasks : pc[t] = "gap" => rows # {} /\ \A r \in rows : r.owner = who[t]
    /\ \A t, u \in Tasks : pc[t] = "gap" /\ pc[u] = "gap" => t = u

\* An invitation that was handed out has been removed, and there is only one.
HandedOut ==
  ~mixed /\ handed > 0 => handed = 1 /\ rows = {} /\ calls > 0 /\ table = "invitation"

WInv == QInv /\ TableLines /\ Cancelling /\ HandedOut /\ NoWrong

\* It holds at first.
LEMMA InitWInv == Init => WInv
<1> SUFFICES ASSUME Init PROVE TableLines /\ Cancelling /\ HandedOut /\ NoWrong
  BY InitQInv DEF WInv
<1>1. TableLines /\ Cancelling  BY DEF Init, TableLines, Cancelling
<1>2. HandedOut /\ NoWrong  BY DEF Init, HandedOut, NoWrong
<1> QED BY <1>1, <1>2

\* A task goes on to a statement its table knows.
LEMMA MoveLines ==
  ASSUME IInv, TableLines, NEW t \in Tasks, NEW l, NEW c, NEW p, NEW n, NEW g,
         To(t, l, c, p, n, g), table' = table,
         table = "lock" => l \in {"idle", "gap", "insert"} /\ (l = "gap" => c = "cancel"),
         table = "invitation" => l \in {"idle", "delete"}
  PROVE  TableLines'
<1>1. TaskTypes  BY Halves DEF IInv
<1>2. \A u \in Tasks \ {t} : pc'[u] = pc[u] /\ call'[u] = call[u]  BY <1>1 DEF To, TaskTypes
<1>3. pc'[t] = l /\ (l # "idle" => call'[t] = c)  BY <1>1 DEF To, TaskTypes
<1> QED BY <1>2, <1>3 DEF TableLines

\* Every step keeps it.
LEMMA StepLines ==
  ASSUME IInv, TableLines, Next
  PROVE  TableLines'
<1>0. table \in DOMAIN Calls /\ TaskTypes  BY RowFacts, Halves DEF IInv
<1>1. ASSUME NEW t \in Tasks, NEW c \in CallNames, NEW p \in People \cup {None}, Select(t, c, p)
      PROVE  TableLines'
  <2> DEFINE l == NextStatement(c, p)
  <2>1. To(t, l, c, p, calls + 1, rows) /\ c \in Calls[table] /\ table' = table
    BY <1>1 DEF Select, Begin
  <2>2. /\ l \in {"idle", "delete", "insert", "checked", "gap"}
        /\ l = "delete" => c \in {"login", "visit", "accept"}
        /\ l = "insert" => c \in {"login", "lock", "arrive"}
        /\ l = "checked" => c = "create"
        /\ l = "gap" => c \in {"cancel", "update", "remove", "leave", "fail"}
    BY AfterSelect
  <2> HIDE DEF l
  <2>3. /\ table = "lock" => l \in {"idle", "gap", "insert"} /\ (l = "gap" => c = "cancel")
        /\ table = "invitation" => l \in {"idle", "delete"}
    BY <1>0, <2>1, <2>2, CallsOf
  <2> QED BY <2>1, <2>3, MoveLines
<1>2. ASSUME NEW t \in Tasks, NEW c \in CallNames, NEW p \in People \cup {None},
             DeleteFirst(t, c, p) \/ InsertFirst(t, c, p)
      PROVE  TableLines'
  <2>1. PICK l \in Lines :
          /\ To(t, l, c, p, calls + 1, {}) /\ c \in Calls[table] /\ table' = table
          /\ c \in {"logout", "clear", "login", "upload"} \/ (c = "invite" /\ l = "idle")
    BY <1>2 DEF DeleteFirst, InsertFirst, Begin, Lines
  <2>2. /\ table = "lock" => l \in {"idle", "gap", "insert"} /\ (l = "gap" => c = "cancel")
        /\ table = "invitation" => l \in {"idle", "delete"}
    BY <1>0, <2>1, CallsOf
  <2> QED BY <2>1, <2>2, MoveLines
<1>3. ASSUME NEW t \in Tasks, SelectAgain(t)
      PROVE  TableLines'
  <2> DEFINE l == StatementAgain(t)
  <2>1. To(t, l, call[t], who[t], nr[t], rows) /\ table' = table
    BY <1>3 DEF SelectAgain, Step
  <2>2. pc[t] = "gap" /\ call[t] # "cancel"
    BY <1>3 DEF SelectAgain
  <2>3. table \notin {"lock", "invitation"}  BY <2>2 DEF TableLines
  <2> HIDE DEF l
  <2> QED BY <2>1, <2>3, MoveLines
<1>6. ASSUME NEW t \in Tasks, Leave(t)
      PROVE  TableLines'
  <2>1. To(t, "idle", call[t], who[t], nr[t], {}) /\ table' = table
    BY <1>6 DEF Leave, Step
  <2> QED BY <2>1, MoveLines
<1>7. ASSUME NEW t \in Tasks, Create(t)
      PROVE  TableLines'
  <2>1. To(t, "gap", call[t], who[t], nr[t], {}) /\ table' = table /\ pc[t] = "checked"
    BY <1>7 DEF Create, Step
  <2>2. table \notin {"lock", "invitation"}  BY <2>1 DEF TableLines
  <2> QED BY <2>1, <2>2, MoveLines
<1>4. ASSUME NEW t \in Tasks, Unlock(t) \/ Delete(t) \/ Insert(t) \/ Write(t)
      PROVE  TableLines'
  <2>1. PICK l \in Lines :
          /\ To(t, l, call[t], who[t], nr[t], {}) /\ table' = table
          /\ \/ l = "idle"
             \/ l = "insert" /\ call[t] = "login" /\ pc[t] = "delete"
    BY <1>4 DEF Unlock, Delete, Insert, Write, Step, Lines
  <2>2. /\ table = "lock" => l \in {"idle", "insert"}
        /\ table = "invitation" => l = "idle"
    <3>1. pc[t] # "idle" => call[t] \in Calls[table]  BY <1>0 DEF TaskTypes
    <3> QED BY <1>0, <2>1, <3>1, CallsOf
  <2> QED BY <2>1, <2>2, MoveLines
<1>5. ASSUME NEW r \in rows, Age(r)
      PROVE  TableLines'
  BY <1>5 DEF Age, TableLines, taskVars
<1> QED BY NextCases, <1>1, <1>2, <1>3, <1>4, <1>5, <1>6, <1>7

\* Nobody changes the table.
LEMMA SameTable ==
  ASSUME Next
  PROVE  table' = table
<1>1. ASSUME NEW t \in Tasks, NEW c \in CallNames, NEW p \in People \cup {None},
             Select(t, c, p) \/ DeleteFirst(t, c, p) \/ InsertFirst(t, c, p)
      PROVE  table' = table
  <2>1. CASE Select(t, c, p)  BY <2>1 DEF Select
  <2>2. CASE DeleteFirst(t, c, p)  BY <2>2 DEF DeleteFirst
  <2>3. CASE InsertFirst(t, c, p)  BY <2>3 DEF InsertFirst
  <2> QED BY <1>1, <2>1, <2>2, <2>3
<1>2. ASSUME NEW t \in Tasks, SelectAgain(t) \/ Unlock(t) \/ Delete(t)
      PROVE  table' = table
  BY <1>2 DEF SelectAgain, Unlock, Delete
<1>3. ASSUME NEW t \in Tasks, Leave(t) \/ Insert(t) \/ Create(t) \/ Write(t)
      PROVE  table' = table
  BY <1>3 DEF Leave, Insert, Create, Write
<1>4. ASSUME NEW r \in rows, Age(r)
      PROVE  table' = table
  BY <1>4 DEF Age
<1> QED BY NextCases, <1>1, <1>2, <1>3, <1>4

\* Every step keeps it.
LEMMA StepCancelling ==
  ASSUME WInv, Next
  PROVE  Cancelling'
<1> SUFFICES ASSUME table' = "lock", ~mixed', ~twice'
             PROVE  /\ \A t \in Tasks : pc'[t] = "gap" => rows' # {} /\ \A r \in rows' : r.owner = who'[t]
                    /\ \A t, u \in Tasks : pc'[t] = "gap" /\ pc'[u] = "gap" => t = u
  BY DEF Cancelling
<1>0. /\ table \in DOMAIN Calls /\ TaskTypes /\ IInv /\ TableLines
      /\ \A t \in Tasks : pc[t] # "idle" => call[t] \in Calls[table]
  BY RowFacts, Halves DEF WInv, QInv, IInv, TaskTypes
<1>00. table = "lock"  BY SameTable
<1>1. ASSUME ~mixed, ~twice
      PROVE  /\ \A t \in Tasks : pc[t] = "gap" => rows # {} /\ \A r \in rows : r.owner = who[t]
             /\ \A t, u \in Tasks : pc[t] = "gap" /\ pc[u] = "gap" => t = u
             /\ \A t \in Tasks : pc[t] = "insert" => rows = {}
  BY <1>00, <1>1 DEF WInv, Cancelling, QInv, Quiet, Knows
<1>2. ASSUME NEW t \in Tasks, NEW c \in CallNames, NEW p \in People \cup {None}, Select(t, c, p)
      PROVE  /\ \A u \in Tasks : pc'[u] = "gap" => rows' # {} /\ \A r \in rows' : r.owner = who'[u]
             /\ \A u, v \in Tasks : pc'[u] = "gap" /\ pc'[v] = "gap" => u = v
  <2> DEFINE l == NextStatement(c, p)
  <2>1. /\ To(t, l, c, p, calls + 1, rows) /\ c \in Calls[table] /\ rows' = rows /\ ~mixed /\ ~twice
        /\ pc[t] = "idle" /\ ~(c = "cancel" /\ \E u \in Tasks \ {t} : pc[u] = "gap" /\ who[u] = p)
    BY <1>2 DEF Select, Begin, Mix
  <2>2. l = "gap" => ~Doubled /\ c = "cancel" /\ \E r \in rows : r.owner = p
    BY <1>0, <1>00, <2>1, CallsOf, AfterSelect
  <2>3. l = "gap" => rows # {} /\ \A r \in rows : r.owner = p
    BY <1>0, <2>2, NotDoubled DEF Single
  <2> HIDE DEF l
  <2>4. pc'[t] = l /\ (l # "idle" => who'[t] = p)  BY <1>0, <2>1 DEF To, TaskTypes
  <2>5. \A u \in Tasks \ {t} : pc'[u] = pc[u] /\ who'[u] = who[u]  BY <1>0, <2>1 DEF To, TaskTypes
  <2>6. \A u \in Tasks \ {t} : ~(l = "gap" /\ pc[u] = "gap")
    BY <1>1, <2>1, <2>2
  <2> QED BY <1>1, <2>1, <2>3, <2>4, <2>5, <2>6
<1>3. ASSUME NEW t \in Tasks, NEW c \in CallNames, NEW p \in People \cup {None},
             DeleteFirst(t, c, p) \/ InsertFirst(t, c, p)
      PROVE  FALSE
  <2>1. c \in Calls[table] /\ c \in {"logout", "clear", "login", "upload", "invite"}
    BY <1>3 DEF DeleteFirst, InsertFirst, Begin
  <2> QED BY <1>0, <1>00, <2>1, CallsOf
<1>4. ASSUME NEW t \in Tasks, SelectAgain(t) \/ Delete(t) \/ Leave(t) \/ Create(t) \/ Write(t)
      PROVE  FALSE
  BY <1>0, <1>00, <1>4 DEF SelectAgain, Delete, Leave, Create, Write, TableLines
<1>5. ASSUME NEW t \in Tasks, Unlock(t)
      PROVE  \A u \in Tasks : pc'[u] # "gap"
  <2>1. To(t, "idle", call[t], who[t], nr[t], {}) /\ ~mixed /\ ~twice /\ pc[t] = "gap"
    BY <1>5 DEF Unlock, Step, Mix
  <2>2. \A u \in Tasks : pc'[u] = IF u = t THEN "idle" ELSE pc[u]  BY <1>0, <2>1 DEF To, TaskTypes
  <2> QED BY <1>1, <2>1, <2>2
<1>6. ASSUME NEW t \in Tasks, Insert(t)
      PROVE  \A u \in Tasks : pc'[u] # "gap"
  <2>1. /\ To(t, "idle", call[t], who[t], nr[t], {})
        /\ ~mixed /\ ~twice /\ pc[t] = "insert"
    BY <1>6 DEF Insert, Step, Mix
  <2>2. \A u \in Tasks \ {t} : pc'[u] = pc[u]  BY <1>0, <2>1 DEF To, TaskTypes
  <2>3. pc'[t] = "idle"  BY <1>0, <2>1 DEF To, TaskTypes
  <2>4. \A u \in Tasks : pc[u] # "gap"  BY <1>1, <2>1
  <2> QED BY <2>2, <2>3, <2>4
<1>7. ASSUME NEW r \in rows, Age(r)
      PROVE  FALSE
  BY <1>00, <1>7 DEF Age
<1> QED BY NextCases, <1>2, <1>3, <1>4, <1>5, <1>6, <1>7

\* Every step keeps it.
LEMMA StepHandedOut ==
  ASSUME WInv, Next
  PROVE  HandedOut'
<1> SUFFICES ASSUME ~mixed', handed' > 0
             PROVE  handed' = 1 /\ rows' = {} /\ calls' > 0 /\ table' = "invitation"
  BY DEF HandedOut
<1>0. /\ table \in DOMAIN Calls /\ IInv /\ TableLines /\ handed \in Nat /\ calls \in Nat
      /\ \A t \in Tasks : pc[t] # "idle" => call[t] \in Calls[table]
      /\ table' = table /\ calls' \in {calls, calls + 1}
  <2>1. table \in DOMAIN Calls /\ IInv /\ TableLines /\ handed \in Nat /\ calls \in Nat
        /\ \A t \in Tasks : pc[t] # "idle" => call[t] \in Calls[table]
    BY RowFacts, Halves DEF WInv, QInv, IInv, TaskTypes, RowTypes
  <2>2. table' = table /\ calls' \in {calls, calls + 1}
    BY NextCases DEF Select, DeleteFirst, InsertFirst, Begin, SelectAgain, Unlock, Delete, Leave, Insert, Create, Write, Age
  <2> QED BY <2>1, <2>2
<1>1. ~mixed /\ handed > 0 => handed = 1 /\ rows = {} /\ calls > 0 /\ table = "invitation"
  BY DEF WInv, HandedOut
<1>2. ASSUME handed' = handed, ~mixed, rows' \subseteq rows
      PROVE  handed' = 1 /\ rows' = {} /\ calls' > 0 /\ table' = "invitation"
  BY <1>0, <1>1, <1>2
<1>3. ASSUME NEW t \in Tasks, NEW c \in CallNames, NEW p \in People \cup {None},
             Select(t, c, p) \/ DeleteFirst(t, c, p)
      PROVE  handed' = handed /\ ~mixed /\ rows' \subseteq rows
  BY <1>3 DEF Select, DeleteFirst, Begin, Mix
<1>4. ASSUME NEW t \in Tasks, NEW c \in CallNames, NEW p \in People \cup {None}, InsertFirst(t, c, p)
      PROVE  FALSE
  <2>1. handed' = handed /\ ~mixed /\ c \in Calls[table] /\ (c = "upload" \/ calls = 0)
    BY <1>4 DEF InsertFirst, Begin, Mix
  <2>2. table = "invitation" /\ calls > 0  BY <1>1, <2>1
  <2> QED BY <1>0, <2>1, <2>2, CallsOf
<1>5. ASSUME NEW t \in Tasks, SelectAgain(t) \/ Unlock(t) \/ Leave(t)
      PROVE  handed' = handed /\ ~mixed /\ rows' \subseteq rows
  <2>1. CASE SelectAgain(t)  BY <2>1 DEF SelectAgain, Step, Mix
  <2>2. CASE Unlock(t)  BY <2>2 DEF Unlock, Step, Mix
  <2>3. CASE Leave(t)  BY <2>3 DEF Leave, Step, Mix
  <2> QED BY <1>5, <2>1, <2>2, <2>3
<1>6. ASSUME NEW t \in Tasks, Insert(t) \/ Create(t) \/ Write(t)
      PROVE  FALSE
  <2>1. handed' = handed /\ ~mixed /\ pc[t] \in {"insert", "checked", "write"}
    BY <1>6 DEF Insert, Create, Write, Step, Mix
  <2>2. table = "invitation"  BY <1>1, <2>1
  <2> QED BY <1>0, <2>1, <2>2 DEF TableLines
<1>7. ASSUME NEW t \in Tasks, Delete(t)
      PROVE  handed' = 1 /\ rows' = {} /\ calls' > 0 /\ table' = "invitation"
  <2>1. ~mixed /\ pc[t] = "delete" /\ rows' \subseteq rows  BY <1>7 DEF Delete, Step, Mix
  <2>2. CASE call[t] # "accept"
    <3>1. handed' = handed  BY <1>7, <2>2 DEF Delete
    <3> QED BY <1>2, <2>1, <3>1
  <2>3. CASE call[t] = "accept"
    <3>1. handed' = handed + 1 /\ rows' = {}  BY <1>7, <2>3 DEF Delete
    <3>2. table = "invitation"  BY <1>0, <2>1, <2>3, CallsOf
    <3>3. got[t] # {} /\ rows = got[t]  BY <2>1 DEF WInv, QInv, Quiet, Knows, IInv, Small
    <3>4. handed = 0  BY <1>0, <1>1, <2>1, <3>3
    <3>5. calls > 0  BY <1>0, <2>1, TaskFacts
    <3>6. calls' > 0  BY <1>0, <3>5
    <3> QED BY <1>0, <3>1, <3>2, <3>4, <3>6
  <2> QED BY <2>2, <2>3
<1>8. ASSUME NEW r \in rows, Age(r)
      PROVE  handed' = handed /\ ~mixed /\ rows' \subseteq rows
  BY <1>8 DEF Age, historyVars
<1> QED BY NextCases, <1>2, <1>3, <1>4, <1>5, <1>6, <1>7, <1>8

\* Every step keeps it.
LEMMA StepNoWrong ==
  ASSUME WInv, Next
  PROVE  NoWrong'
<1>1. handed' > 1 => mixed'
  <2>1. IInv'  BY StepIInv DEF WInv, QInv
  <2>2. handed' \in Nat /\ mixed' \in BOOLEAN  BY <2>1, Halves DEF IInv, TypeOK
  <2> QED BY <2>2, StepHandedOut DEF HandedOut
<1> SUFFICES ASSUME ~mixed', ~twice' PROVE wronged' = {}
  BY <1>1, StepQInv, RowFacts DEF NoWrong, WInv, QInv
<1>2. ASSUME ~mixed, ~twice PROVE wronged = {}
  BY <1>2 DEF WInv, NoWrong
<1>3. ASSUME NEW t \in Tasks, NEW c \in CallNames, NEW p \in People \cup {None},
             Select(t, c, p) \/ DeleteFirst(t, c, p) \/ InsertFirst(t, c, p)
      PROVE  wronged' = {}
  BY <1>2, <1>3 DEF Select, DeleteFirst, InsertFirst, Begin, Mix
<1>4. ASSUME NEW t \in Tasks, SelectAgain(t) \/ Leave(t) \/ Insert(t) \/ Create(t) \/ Write(t)
      PROVE  wronged' = {}
  BY <1>2, <1>4 DEF SelectAgain, Leave, Insert, Create, Write, Step, Mix
<1>5. ASSUME NEW t \in Tasks, Unlock(t)  PROVE wronged' = {}
  <2>1. ~mixed /\ ~twice /\ pc[t] = "gap" /\ call[t] = "cancel"
        /\ wronged' = wronged \cup {r \in rows : r.owner # who[t]}
    BY <1>5 DEF Unlock, Step, Mix
  <2>2. table = "lock"  BY <2>1, RowFacts, TaskFacts, CallsOf DEF WInv, QInv
  <2>3. \A r \in rows : r.owner = who[t]  BY <2>1, <2>2 DEF WInv, Cancelling
  <2> QED BY <1>2, <2>1, <2>3
<1>6. ASSUME NEW t \in Tasks, Delete(t)  PROVE wronged' = {}
  <2>1. ~mixed /\ ~twice /\ pc[t] = "delete"  BY <1>6 DEF Delete, Step, Mix
  <2>2. call[t] = "visit" => rows \subseteq old  BY <2>1 DEF WInv, QInv, Quiet, Knows
  <2> QED BY <1>2, <1>6, <2>1, <2>2 DEF Delete
<1>7. ASSUME NEW r \in rows, Age(r)  PROVE wronged' = {}
  BY <1>2, <1>7 DEF Age, historyVars
<1> QED BY NextCases, <1>3, <1>4, <1>5, <1>6, <1>7

\* Every step keeps it.
LEMMA StepWInv == WInv /\ [Next]_vars => WInv'
<1> SUFFICES ASSUME WInv, [Next]_vars PROVE WInv'  OBVIOUS
<1>1. QInv'  BY StepQInv DEF WInv
<1>2. CASE Next
  <2>1. TableLines'  BY <1>2, StepLines DEF WInv, QInv
  <2> QED BY <1>1, <1>2, <2>1, StepCancelling, StepHandedOut, StepNoWrong DEF WInv
<1>3. CASE UNCHANGED vars
  BY <1>1, <1>3 DEF WInv, TableLines, Cancelling, HandedOut, NoWrong, vars, taskVars, historyVars
<1> QED BY <1>2, <1>3

\* No lock of another user, no session that is not expired is removed, no invitation handed
\* out twice, but for an interleaving or two cancellings of one user.
THEOREM NoWrongAlways == Spec => []NoWrong
<1>1. WInv => NoWrong  BY DEF WInv
<1> QED BY <1>1, InitWInv, StepWInv, PTL DEF Spec
=============================================================================
